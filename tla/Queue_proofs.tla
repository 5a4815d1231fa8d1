---------------------------- MODULE Queue_proofs ----------------------------
(***************************************************************************)
(* The queue's safety properties, for every length, every number of tasks  *)
(* and priorities and every program.  The first part is the circular       *)
(* buffer alone: each of the copy functions keeps the two pointers         *)
(* coherent and does to the contents what its name says, so that each step *)
(* of queue.c does one operation of BoundedFifo, or none.  The second part *)
(* is QueueInv, the inductive invariant of the calls, the kernel's lists   *)
(* and the lock: TaskLists_proofs proves what each kernel operation does   *)
(* to the lists; here each action puts its operations together.            *)
(***************************************************************************)
EXTENDS Queue, TaskLists_proofs, SequenceTheorems

-----------------------------------------------------------------------------
(* The buffer *)

\* A buffer of n slots whose pointers agree with its count.
StoreOK(b, n) == b \in StoresOf(n) /\ Coherent(b)

\* A buffer whose fields are assigned values of their types is a buffer.
LEMMA Updates ==
    ASSUME NEW n \in Nat \ {0}, NEW b \in StoresOf(n),
           NEW f \in [0..(n - 1) -> Items],
           NEW w \in 0..(n - 1), NEW r \in 0..(n - 1), NEW c \in 0..n
    PROVE  /\ [b EXCEPT !.writeTo = w, !.readFrom = r, !.waiting = c] \in StoresOf(n)
           /\ [b EXCEPT !.store = f, !.writeTo = w, !.waiting = c] \in StoresOf(n)
           /\ [b EXCEPT !.store = f, !.readFrom = r, !.waiting = c] \in StoresOf(n)
           /\ [b EXCEPT !.readFrom = r, !.waiting = c] \in StoresOf(n)
  BY DEF StoresOf

\* The slots the contents lie in are slots, and different ones.
LEMMA SlotsDistinct ==
    ASSUME NEW n \in Nat \ {0}, NEW b \in StoresOf(n), NEW i \in 1..n
    PROVE  /\ Slot(b, i) \in 0..(n - 1)
           /\ \A j \in 1..n : Slot(b, i) = Slot(b, j) => i = j
<1>1. b.readFrom \in 0..(n - 1) /\ b.length = n
  BY DEF StoresOf
<1> QED
  BY <1>1 DEF Slot

LEMMA ContentsType ==
    ASSUME NEW n \in Nat \ {0}, NEW b \in StoresOf(n)
    PROVE  Contents(b) \in Seq(Items) /\ Len(Contents(b)) = b.waiting
<1>1. b.waiting \in Nat /\ b.waiting <= n
  BY DEF StoresOf
<1>2. \A i \in 1..b.waiting : b.store[Slot(b, i)] \in Items
  BY <1>1, SlotsDistinct DEF StoresOf
<1> QED
  BY <1>1, <1>2 DEF Contents

-----------------------------------------------------------------------------
\* An empty buffer, as xQueueGenericReset leaves it, is sound.
LEMMA ResetEmpties ==
    ASSUME NEW n \in Nat \ {0}, NEW b \in StoresOf(n)
    PROVE  StoreOK(Reset(b), n) /\ Contents(Reset(b)) = <<>>
<1>1. /\ Reset(b).length = n /\ Reset(b).waiting = 0
      /\ Reset(b).writeTo = 0 /\ Reset(b).readFrom = n - 1
  BY DEF StoresOf, Reset
<1>2. Reset(b) \in StoresOf(n)
  <2>1. b.store \in [0..(n - 1) -> Items] /\ 0 \in 0..(n - 1)
        /\ b.length - 1 \in 0..(n - 1) /\ 0 \in 0..n
    BY DEF StoresOf
  <2> QED
    BY <2>1, Updates, Zenon DEF Reset
<1>3. Coherent(Reset(b))
  BY <1>1 DEF Coherent, Slot
<1>4. Contents(Reset(b)) = <<>>
  BY <1>1 DEF Contents
<1> QED
  BY <1>2, <1>3, <1>4 DEF StoreOK

\* queueSEND_TO_BACK appends.
LEMMA BackAppends ==
    ASSUME NEW n \in Nat \ {0}, NEW b, StoreOK(b, n), b.waiting < n,
           NEW x \in Items
    PROVE  /\ StoreOK(CopyToBack(b, x), n)
           /\ Contents(CopyToBack(b, x)) = Append(Contents(b), x)
<1> DEFINE r == CopyToBack(b, x)
<1>1. b \in StoresOf(n) /\ b.waiting \in 0..n /\ b.writeTo = Slot(b, b.waiting + 1)
  BY DEF StoreOK, Coherent, StoresOf
<1>2. r \in StoresOf(n)
  <2>1. NextSlot(b, b.writeTo) \in 0..(n - 1)
    BY <1>1 DEF StoresOf, NextSlot
  <2>2. [b.store EXCEPT ![b.writeTo] = x] \in [0..(n - 1) -> Items]
        /\ b.readFrom \in 0..(n - 1) /\ b.waiting + 1 \in 0..n
    BY <1>1 DEF StoresOf
  <2> QED
    BY <1>1, <2>1, <2>2, Updates, Zenon DEF CopyToBack
<1>3. /\ r.waiting = b.waiting + 1 /\ r.readFrom = b.readFrom /\ r.length = n
      /\ r.writeTo = NextSlot(b, b.writeTo)
      /\ r.store = [b.store EXCEPT ![b.writeTo] = x]
  BY <1>1 DEF StoresOf, CopyToBack
<1>4. Coherent(r)
  <2>1. b.readFrom \in 0..(n - 1) /\ b.length = n
    BY <1>1 DEF StoresOf
  <2>2. b.writeTo \in 0..(n - 1)
    BY <1>1 DEF StoresOf
  <2>3. CASE b.waiting + 1 = n
    BY <1>1, <1>3, <2>1, <2>2, <2>3 DEF Coherent, Slot, NextSlot
  <2>4. CASE b.waiting + 1 < n
    BY <1>1, <1>3, <2>1, <2>2, <2>4 DEF Coherent, Slot, NextSlot
  <2> QED
    BY <1>1, <2>3, <2>4
<1>5. \A i \in 1..n : Slot(r, i) = Slot(b, i)
  BY <1>1, <1>3 DEF Slot, StoresOf
<1>6. \A i \in 1..b.waiting : r.store[Slot(r, i)] = b.store[Slot(b, i)]
  <2> TAKE i \in 1..b.waiting
  <2>1. i \in 1..n /\ b.waiting + 1 \in 1..n /\ i # b.waiting + 1
    BY <1>1
  <2>2. Slot(b, i) \in 0..(n - 1) /\ Slot(b, i) # b.writeTo
    BY <1>1, <2>1, SlotsDistinct
  <2> QED
    BY <1>1, <1>3, <1>5, <2>1, <2>2 DEF StoresOf
<1>7. r.store[Slot(r, b.waiting + 1)] = x
  BY <1>1, <1>3, <1>5 DEF StoresOf
<1>8. Contents(r) = Append(Contents(b), x)
  <2>1. Contents(b) \in Seq(Items) /\ Len(Contents(b)) = b.waiting
    BY <1>1, ContentsType
  <2>2. Contents(r) \in Seq(Items) /\ Len(Contents(r)) = b.waiting + 1
    BY <1>2, <1>3, ContentsType
  <2>3. \A i \in 1..(b.waiting + 1) : Contents(r)[i] = Append(Contents(b), x)[i]
    <3> TAKE i \in 1..(b.waiting + 1)
    <3>1. Contents(r)[i] = r.store[Slot(r, i)]
      BY <1>3 DEF Contents
    <3>2. CASE i = b.waiting + 1
      BY <1>7, <2>1, <3>1, <3>2
    <3>3. CASE i # b.waiting + 1
      <4>1. i \in 1..b.waiting
        BY <1>1, <3>3
      <4>2. Contents(b)[i] = b.store[Slot(b, i)]
        BY <4>1 DEF Contents
      <4> QED
        BY <1>6, <2>1, <3>1, <4>1, <4>2
    <3> QED
      BY <3>2, <3>3
  <2>4. Append(Contents(b), x) \in Seq(Items)
        /\ Len(Append(Contents(b), x)) = b.waiting + 1
    BY <2>1, AppendProperties
  <2> HIDE DEF r
  <2> QED
    BY <2>2, <2>3, <2>4, SeqEqual
<1> QED
  BY <1>2, <1>4, <1>8 DEF StoreOK

\* queueSEND_TO_FRONT puts the item before the others.
LEMMA FrontPrepends ==
    ASSUME NEW n \in Nat \ {0}, NEW b, StoreOK(b, n), b.waiting < n,
           NEW x \in Items
    PROVE  /\ StoreOK(CopyToFront(b, x), n)
           /\ Contents(CopyToFront(b, x)) = <<x>> \o Contents(b)
<1> DEFINE r == CopyToFront(b, x)
<1>1. b \in StoresOf(n) /\ b.waiting \in 0..n /\ b.writeTo = Slot(b, b.waiting + 1)
  BY DEF StoreOK, Coherent, StoresOf
<1>2. r \in StoresOf(n)
  <2>1. PreviousSlot(b, b.readFrom) \in 0..(n - 1)
    BY <1>1 DEF StoresOf, PreviousSlot
  <2>2. [b.store EXCEPT ![b.readFrom] = x] \in [0..(n - 1) -> Items]
        /\ b.writeTo \in 0..(n - 1) /\ b.waiting + 1 \in 0..n
    BY <1>1 DEF StoresOf
  <2> QED
    BY <1>1, <2>1, <2>2, Updates, Zenon DEF CopyToFront
<1>3. /\ r.waiting = b.waiting + 1 /\ r.writeTo = b.writeTo /\ r.length = n
      /\ r.readFrom = PreviousSlot(b, b.readFrom)
      /\ r.store = [b.store EXCEPT ![b.readFrom] = x]
  BY <1>1 DEF StoresOf, CopyToFront
<1>4. b.readFrom \in 0..(n - 1) /\ b.length = n /\ b.waiting < n
  BY <1>1 DEF StoresOf
<1>5. Coherent(r)
  <2>1. CASE b.readFrom = 0
    <3>1. r.readFrom = n - 1
      BY <1>3, <1>4, <2>1 DEF PreviousSlot
    <3>2. b.writeTo = IF b.waiting + 1 = n THEN 0 ELSE b.waiting + 1
      BY <1>1, <1>4, <2>1 DEF Slot
    <3> QED
      BY <1>1, <1>3, <1>4, <3>1, <3>2 DEF Coherent, Slot, NextSlot
  <2>2. CASE b.readFrom # 0
    <3>1. r.readFrom = b.readFrom - 1
      BY <1>3, <1>4, <2>2 DEF PreviousSlot
    <3> QED
      BY <1>1, <1>3, <1>4, <2>2, <3>1 DEF Coherent, Slot, NextSlot
  <2> QED
    BY <2>1, <2>2
<1>6. \A i \in 1..b.waiting : Slot(r, i + 1) = Slot(b, i)
  <2> TAKE i \in 1..b.waiting
  <2>1. CASE b.readFrom = 0
    <3>1. r.readFrom = n - 1
      BY <1>4, <1>3, <2>1 DEF PreviousSlot
    <3> QED
      BY <1>1, <1>4, <1>3, <2>1, <3>1 DEF Slot
  <2>2. CASE b.readFrom # 0
    <3>1. r.readFrom = b.readFrom - 1
      BY <1>4, <1>3, <2>2 DEF PreviousSlot
    <3> QED
      BY <1>1, <1>4, <1>3, <2>2, <3>1 DEF Slot
  <2> QED
    BY <2>1, <2>2
<1>7. \A i \in 1..b.waiting : r.store[Slot(r, i + 1)] = b.store[Slot(b, i)]
  <2> TAKE i \in 1..b.waiting
  <2>1. i \in 1..n /\ Slot(b, i) \in 0..(n - 1)
    BY <1>1, SlotsDistinct
  <2>2. Slot(b, i) # b.readFrom
    BY <1>1, <1>4 DEF Slot
  <2> QED
    BY <1>1, <1>3, <1>6, <2>1, <2>2 DEF StoresOf
<1>8. r.store[Slot(r, 1)] = x
  <2>1. Slot(r, 1) = b.readFrom
    BY <1>4, <1>3 DEF Slot, PreviousSlot
  <2> QED
    BY <1>1, <1>3, <2>1 DEF StoresOf
<1>9. Contents(r) = <<x>> \o Contents(b)
  <2>1. Contents(b) \in Seq(Items) /\ Len(Contents(b)) = b.waiting
    BY <1>1, ContentsType
  <2>2. Contents(r) \in Seq(Items) /\ Len(Contents(r)) = b.waiting + 1
    BY <1>2, <1>3, ContentsType
  <2>3. <<x>> \in Seq(Items) /\ Len(<<x>>) = 1 /\ <<x>>[1] = x
    OBVIOUS
  <2>4. \A i \in 1..(b.waiting + 1) : Contents(r)[i] = (<<x>> \o Contents(b))[i]
    <3> TAKE i \in 1..(b.waiting + 1)
    <3>1. Contents(r)[i] = r.store[Slot(r, i)]
      BY <1>3 DEF Contents
    <3>2. CASE i = 1
      BY <1>8, <2>1, <2>3, <3>1, <3>2
    <3>3. CASE i # 1
      <4>1. i - 1 \in 1..b.waiting /\ (i - 1) + 1 = i
        BY <1>1, <3>3
      <4>2. Contents(b)[i - 1] = b.store[Slot(b, i - 1)]
        BY <4>1 DEF Contents
      <4>3. (<<x>> \o Contents(b))[i] = Contents(b)[i - 1]
        BY <2>1, <2>3, <4>1
      <4>4. r.store[Slot(r, (i - 1) + 1)] = b.store[Slot(b, i - 1)]
        BY <1>7, <4>1
      <4> QED
        BY <3>1, <4>1, <4>2, <4>3, <4>4
    <3> QED
      BY <3>2, <3>3
  <2>5. <<x>> \o Contents(b) \in Seq(Items)
        /\ Len(<<x>> \o Contents(b)) = b.waiting + 1
    BY <2>1, <2>3, ConcatProperties
  <2> HIDE DEF r
  <2> QED
    BY <2>2, <2>4, <2>5, SeqEqual
<1> QED
  BY <1>2, <1>5, <1>9 DEF StoreOK

\* prvCopyDataFromQueue takes the first item.
LEMMA FromTakesFirst ==
    ASSUME NEW n \in Nat \ {0}, NEW b, StoreOK(b, n), b.waiting > 0
    PROVE  /\ StoreOK(CopyFrom(b), n) /\ NextItem(b) \in Items
           /\ Contents(b) # <<>> /\ NextItem(b) = Head(Contents(b))
           /\ Contents(CopyFrom(b)) = Tail(Contents(b))
<1> DEFINE r == CopyFrom(b)
<1>1. b \in StoresOf(n) /\ b.waiting \in 1..n
  BY DEF StoreOK, StoresOf
<1>2. NextSlot(b, b.readFrom) \in 0..(n - 1) /\ NextSlot(b, b.readFrom) = Slot(b, 1)
  BY <1>1 DEF StoresOf, NextSlot, Slot
<1>3. r \in StoresOf(n)
  <2>1. b.store \in [0..(n - 1) -> Items] /\ b.writeTo \in 0..(n - 1)
        /\ b.waiting - 1 \in 0..n
    BY <1>1 DEF StoresOf
  <2> QED
    BY <1>1, <1>2, <2>1, Updates, Zenon DEF CopyFrom
<1>4. /\ r.waiting = b.waiting - 1 /\ r.writeTo = b.writeTo /\ r.length = n
      /\ r.readFrom = NextSlot(b, b.readFrom) /\ r.store = b.store
  BY <1>1 DEF StoresOf, CopyFrom
<1>5. Coherent(r)
  <2>1. /\ b.readFrom \in 0..(n - 1) /\ b.length = n
        /\ b.writeTo = IF b.waiting = n THEN NextSlot(b, b.readFrom)
                                       ELSE Slot(b, b.waiting + 1)
    BY <1>1 DEF StoreOK, Coherent, StoresOf
  <2>2. CASE b.readFrom + 1 >= n
    <3>1. r.readFrom = 0
      BY <1>4, <2>1, <2>2 DEF NextSlot
    <3> QED
      BY <1>1, <1>4, <2>1, <2>2, <3>1 DEF Coherent, Slot, NextSlot
  <2>3. CASE b.readFrom + 1 < n
    <3>1. r.readFrom = b.readFrom + 1
      BY <1>4, <2>1, <2>3 DEF NextSlot
    <3> QED
      BY <1>1, <1>4, <2>1, <2>3, <3>1 DEF Coherent, Slot, NextSlot
  <2> QED
    BY <2>1, <2>2, <2>3
<1>6. \A i \in 1..(b.waiting - 1) : Slot(r, i) = Slot(b, i + 1)
  <2>1. b.readFrom \in 0..(n - 1) /\ b.length = n /\ b.waiting <= n
    BY <1>1 DEF StoresOf
  <2> TAKE i \in 1..(b.waiting - 1)
  <2>2. CASE b.readFrom + 1 >= n
    BY <1>1, <1>4, <2>1, <2>2 DEF Slot, NextSlot
  <2>3. CASE b.readFrom + 1 < n
    BY <1>1, <1>4, <2>1, <2>3 DEF Slot, NextSlot
  <2> QED
    BY <2>1, <2>2, <2>3
<1>7. Contents(b) \in Seq(Items) /\ Len(Contents(b)) = b.waiting
      /\ Contents(b)[1] = NextItem(b)
  <2>1. Contents(b)[1] = b.store[Slot(b, 1)]
    BY <1>1 DEF Contents
  <2> QED
    BY <1>1, <1>2, <2>1, ContentsType DEF NextItem
<1>8. Contents(b) # <<>> /\ Head(Contents(b)) = Contents(b)[1]
  BY <1>1, <1>7
<1>9. NextItem(b) \in Items
  BY <1>1, <1>2 DEF NextItem, StoresOf
<1>10. Contents(r) = Tail(Contents(b))
  <2>1. Contents(r) \in Seq(Items) /\ Len(Contents(r)) = b.waiting - 1
    BY <1>3, <1>4, ContentsType
  <2>2. /\ Tail(Contents(b)) \in Seq(Items)
        /\ Len(Tail(Contents(b))) = b.waiting - 1
        /\ \A i \in 1..(b.waiting - 1) : Tail(Contents(b))[i] = Contents(b)[i + 1]
    BY <1>1, <1>7, <1>8, HeadTailProperties
  <2>3. \A i \in 1..(b.waiting - 1) : Contents(r)[i] = Tail(Contents(b))[i]
    <3> TAKE i \in 1..(b.waiting - 1)
    <3>1. Contents(r)[i] = r.store[Slot(r, i)]
      BY <1>4 DEF Contents
    <3>2. i + 1 \in 1..b.waiting
      BY <1>1
    <3>3. Contents(b)[i + 1] = b.store[Slot(b, i + 1)]
      BY <3>2 DEF Contents
    <3> QED
      BY <1>4, <1>6, <2>2, <3>1, <3>3
  <2> HIDE DEF r
  <2> QED
    BY <2>1, <2>2, <2>3, SeqEqual
<1> QED
  BY <1>3, <1>5, <1>7, <1>8, <1>9, <1>10 DEF StoreOK

\* queueOVERWRITE leaves a mailbox with the one item.
LEMMA OverwriteReplaces ==
    ASSUME NEW b, StoreOK(b, 1), NEW x \in Items
    PROVE  StoreOK(Overwrite(b, x), 1) /\ Contents(Overwrite(b, x)) = <<x>>
<1> DEFINE r == Overwrite(b, x)
<1>1. b \in StoresOf(1) /\ b.waiting \in 0..1 /\ b.writeTo = 0 /\ b.readFrom = 0
      /\ b.length = 1
  BY DEF StoreOK, StoresOf
<1>2. /\ r.waiting = 1 /\ r.writeTo = 0 /\ r.length = 1 /\ r.readFrom = 0
      /\ r.store = [b.store EXCEPT ![0] = x]
  BY <1>1 DEF StoresOf, Overwrite, PreviousSlot
<1>3. r \in StoresOf(1)
  <2> DEFINE f == [b.store EXCEPT ![b.readFrom] = x]
             c == IF b.waiting > 0 THEN b.waiting ELSE b.waiting + 1
             s == PreviousSlot(b, b.readFrom)
  <2>1. f \in [0..(1 - 1) -> Items] /\ c \in 0..1
        /\ s \in 0..(1 - 1) /\ 0 \in 0..(1 - 1)
    BY <1>1 DEF StoresOf, PreviousSlot
  <2>2. r = [b EXCEPT !.store = f, !.readFrom = s, !.waiting = c]
    BY DEF Overwrite
  <2> HIDE DEF f, c, s
  <2>3. [b EXCEPT !.store = f, !.readFrom = s, !.waiting = c] \in StoresOf(1)
    BY <1>1, <2>1 DEF StoresOf
  <2> QED
    BY <2>2, <2>3
<1>4. Coherent(r) /\ Slot(r, 1) = 0
  BY <1>2 DEF Coherent, NextSlot, Slot
<1>5. r.store[0] = x
  BY <1>1, <1>2 DEF StoresOf
<1>6. Contents(r) \in Seq(Items) /\ Len(Contents(r)) = 1 /\ Contents(r)[1] = x
  BY <1>2, <1>3, <1>4, <1>5, ContentsType DEF Contents
<1>7. Contents(r) = <<x>>
  BY <1>6
<1> QED
  BY <1>3, <1>4, <1>7 DEF StoreOK

-----------------------------------------------------------------------------
(* The invariant *)

\* Where a call holds the scheduler suspended, and where it has looked for the last time
Suspending == {"lock", "timeout", "check", "place", "unlocktx", "unlockrx", "resume"}
Leaving == {"unlocktx", "unlockrx", "resume"}
Labels == {"user", "try", "suspend", "yield", "recheck"} \cup Suspending
Calls ==
    [at : Labels, op : Sends \cup Receives \cup {"none"}, item : Items, wait : Ticks,
     timeOut : [overflows : Nat, entering : (-1)..(TickMod - 1)],
     after : {"none", "expired", "retry", "blocked"}]

\* A call on a queue of n items; it comes to the event lists only with time left.
CallOK(c, n) ==
    /\ c \in Calls
    /\ c.op = "overwrite" => n = 1
    /\ c.at = "user" => c = User
    /\ c.at \in {"check", "place"} => c.wait > 0
    /\ c.after # "none" => c.at \in Leaving

CallsOK == pc \in [Tasks -> Calls] /\ \A t \in Tasks : CallOK(pc[t], program.length)

\* A call that has put its task on an event list, and has not yet given up the processor
Asleep(c) == c.at = "yield" \/ (c.at \in Leaving /\ c.after = "blocked")

\* Only the running task can be where the scheduler is suspended, and it is ready, or
\* about to yield.
Placed ==
    /\ ReadyTasks(k) \cup DelayedTasks(k) = Tasks
    /\ Idle \in ReadyTasks(k) /\ pc[Idle] = User
    /\ k.suspended = IF pc[cur].at \in Suspending THEN 1 ELSE 0
    /\ \A t \in Tasks \ {cur} : pc[t].at \notin Suspending
    /\ k.suspended = 0 => k.pending = <<>> /\ k.pendedTicks = 0
    /\ k.pendedTicks \in 0..MaxPended
    /\ cur \in ReadyTasks(k) \/ Asleep(pc[cur])

Waiters ==
    /\ k.evValue = ItemValue(k.prio)
    /\ \A e \in EventLists :
          /\ Sorted(k.events[e], k.evValue)
          /\ \A t \in ToSet(k.events[e]) : Mode(pc[t].op) = e

\* A timeout that has not passed agrees with the time the call noted.
Counting ==
    /\ left \in [Tasks -> Ticks]
    /\ \A t \in Tasks :
          /\ left[t] > 0 => Since(k, pc[t].timeOut, pc[t].wait - left[t])
          /\ pc[t].after = "expired" \/ pc[t].at = "recheck" => left[t] = 0

LockOK ==
    /\ lock \in [{"tx", "rx"} -> Int] /\ LockOwned
    /\ me.at = "unlockrx" => lock.tx = UNLOCKED

BufferOK == program \in Programs /\ out \in Items /\ StoreOK(q, program.length)

QueueInv == BufferOK /\ CallsOK /\ Sound(k) /\ Placed /\ Waiters /\ Counting /\ LockOK

-----------------------------------------------------------------------------
(* Typing *)

LEMMA Known ==
    ASSUME QueueInv
    PROVE  /\ k \in KState /\ cur \in Tasks /\ cur = k.cur /\ Idle \in Tasks
           /\ EventLists = {"send", "receive"} /\ k.suspended \in 0..1
           /\ k.prio \in [Tasks -> Priorities] /\ k.pendedTicks \in Nat /\ k.tick \in Ticks
           /\ DelayedTasks(k) \subseteq Tasks /\ ReadyTasks(k) \subseteq Tasks
           /\ \A e \in EventLists : k.events[e] \in Seq(Tasks)
           /\ \A e \in EventLists : ToSet(k.events[e]) \cap ReadyTasks(k) = {}
           /\ CallOK(me, program.length) /\ me = pc[cur] /\ left[cur] \in Ticks
           /\ Ticks \subseteq Nat /\ 0 \in Ticks /\ Ticks = 0..(TickMod - 1)
           /\ TickMod \in Nat \ {0, 1}
<1>1. k \in KState /\ WellFormed(k) /\ Separate(k)
  BY DEF QueueInv, Sound, WellFormed
<1>2. DelayedTasks(k) \subseteq Tasks
  BY <1>1, KernelFields, ToSetIn DEF DelayedTasks
<1>3. ReadyTasks(k) \subseteq Tasks
  BY <1>1, ToSetIn DEF WellFormed, ListOK, ReadyTasks
<1>4. /\ EventLists = {"send", "receive"} /\ Idle \in Tasks /\ Ticks = 0..(TickMod - 1)
      /\ TickMod \in Nat \ {0, 1}
  BY QueueAssumption, TaskListsAssumption DEF Ticks
<1>5. \A e \in EventLists : ToSet(k.events[e]) \cap ReadyTasks(k) = {}
  BY <1>1 DEF Separate
<1>6. cur \in Tasks /\ k.tick \in Ticks
  BY <1>1, <1>4, KernelFields DEF cur
<1>7. k.suspended \in 0..1 /\ left[cur] \in Ticks /\ CallOK(me, program.length)
  BY <1>6 DEF QueueInv, Placed, Counting, CallsOK, me
<1>. QED
  BY <1>1, <1>2, <1>3, <1>4, <1>5, <1>6, <1>7, KernelFields DEF cur, me

LEMMA UserOK == ASSUME NEW n PROVE CallOK(User, n) /\ User.at = "user" /\ User.op = "none"
                                   /\ User.after = "none" /\ User.wait = 0
<1>1. (CHOOSE x \in Items : TRUE) \in Items
  BY QueueStoreAssumption
<1>2. 0 \in Ticks /\ -1 \in (-1)..(TickMod - 1)
  BY TaskListsAssumption DEF Ticks
<1>. QED
  BY <1>1, <1>2 DEF CallOK, Calls, User, NoTimeOut, Labels

LEMMA GotoKeeps ==
    ASSUME CallsOK, cur \in Tasks, UNCHANGED program, NEW p,
           CallOK(p, program.length), Goto(p)
    PROVE  CallsOK'
<1>1. pc' \in [Tasks -> Calls]
  BY DEF CallsOK, CallOK, Goto
<1>2. \A t \in Tasks : pc'[t] = IF t = cur THEN p ELSE pc[t]
  BY DEF CallsOK, Goto
<1>. QED
  BY <1>1, <1>2 DEF CallsOK

LEMMA LengthType == BufferOK => program.length \in Nat \ {0} /\ q.length = program.length
  BY QueueAssumption DEF BufferOK, StoreOK, StoresOf

-----------------------------------------------------------------------------
(* The operations on the buffer are those of the FIFO. *)

LEMMA SendIsFifo ==
    ASSUME BufferOK, NEW op \in Sends, NEW x \in Items, CanSend(op),
           op = "overwrite" => program.length = 1,
           q' = CopyTo(q, x, op), UNCHANGED <<out, program>>
    PROVE  StoreOK(q', program.length) /\ Fifo!Next
<1> DEFINE n == program.length
<1>1. n \in Nat \ {0} /\ q.length = n /\ StoreOK(q, n) /\ q \in StoresOf(n)
  BY LengthType DEF BufferOK, StoreOK
<1>2. Len(Contents(q)) = q.waiting /\ q.waiting \in 0..n
  BY <1>1, ContentsType DEF StoresOf
<1>3. q.waiting < n \/ op = "overwrite"
  BY <1>1, <1>2 DEF CanSend, IsFull
<1>4. CASE op = "back"
  <2>1. q' = CopyToBack(q, x)
    BY <1>4 DEF CopyTo
  <2>2. StoreOK(q', n) /\ Contents(q') = Append(Contents(q), x)
    BY <1>1, <1>3, <1>4, <2>1, BackAppends
  <2> QED
    BY <1>1, <1>2, <1>3, <1>4, <2>2
    DEF StoreOK, StoresOf, Fifo!Next, Fifo!Send, Fifo!Room
<1>5. CASE op = "front"
  <2>1. q' = CopyToFront(q, x)
    BY <1>5 DEF CopyTo
  <2>2. StoreOK(q', n) /\ Contents(q') = <<x>> \o Contents(q)
    BY <1>1, <1>3, <1>5, <2>1, FrontPrepends
  <2> QED
    BY <1>1, <1>2, <1>3, <1>5, <2>2
    DEF StoreOK, StoresOf, Fifo!Next, Fifo!SendToFront, Fifo!Room
<1>6. CASE op = "overwrite"
  <2>1. q' = Overwrite(q, x) /\ n = 1
    BY <1>6 DEF CopyTo
  <2>2. StoreOK(q', n) /\ Contents(q') = <<x>>
    BY <1>1, <2>1, OverwriteReplaces
  <2> QED
    BY <1>1, <2>1, <2>2 DEF StoreOK, StoresOf, Fifo!Next, Fifo!Replace
<1> QED
  BY <1>4, <1>5, <1>6 DEF Sends

LEMMA ReceiveIsFifo ==
    ASSUME BufferOK, ~IsEmpty, UNCHANGED program,
           q' = CopyFrom(q), out' = NextItem(q)
    PROVE  StoreOK(q', program.length) /\ out' \in Items /\ Fifo!Next
<1> DEFINE n == program.length
<1>1. n \in Nat \ {0} /\ q.length = n /\ StoreOK(q, n) /\ q.waiting \in 0..n
  BY LengthType DEF BufferOK, StoreOK, StoresOf
<1>2. q.waiting > 0
  BY <1>1 DEF IsEmpty
<1>3. /\ StoreOK(q', n) /\ NextItem(q) \in Items /\ Contents(q) # <<>>
      /\ NextItem(q) = Head(Contents(q)) /\ Contents(q') = Tail(Contents(q))
  BY <1>1, <1>2, FromTakesFirst
<1> QED
  BY <1>1, <1>3 DEF StoreOK, StoresOf, Fifo!Next, Fifo!Receive

LEMMA PeekIsFifo ==
    ASSUME BufferOK, ~IsEmpty, UNCHANGED <<q, program>>, out' = NextItem(q)
    PROVE  out' \in Items /\ Fifo!Next
<1> DEFINE n == program.length
<1>1. n \in Nat \ {0} /\ q.length = n /\ StoreOK(q, n) /\ q.waiting \in 0..n
  BY LengthType DEF BufferOK, StoreOK, StoresOf
<1>2. q.waiting > 0
  BY <1>1 DEF IsEmpty
<1>3. /\ NextItem(q) \in Items /\ Contents(q) # <<>>
      /\ NextItem(q) = Head(Contents(q))
  BY <1>1, <1>2, FromTakesFirst
<1> QED
  BY <1>1, <1>3 DEF Fifo!Next, Fifo!Peek

LEMMA ResetIsFifo ==
    ASSUME BufferOK, UNCHANGED <<program, out>>, q' = Reset(q)
    PROVE  StoreOK(q', program.length) /\ Fifo!Next
<1> DEFINE n == program.length
<1>1. n \in Nat \ {0} /\ q.length = n /\ q \in StoresOf(n)
  BY LengthType DEF BufferOK, StoreOK
<1>2. StoreOK(q', n) /\ Contents(q') = <<>>
  BY <1>1, ResetEmpties
<1> QED
  BY <1>1, <1>2 DEF StoreOK, StoresOf, Fifo!Next, Fifo!Clear

\* What a step does to the buffer and the copied item
LEMMA StepIsFifo ==
    ASSUME BufferOK, CallsOK, cur \in Tasks, [Next]_vars
    PROVE  BufferOK' /\ UNCHANGED program /\ [Fifo!Next]_(Fifo!vars)
<1> DEFINE n == program.length
<1>0. /\ UNCHANGED program /\ program \in Programs
      /\ CallOK(me, n) /\ program.items \subseteq Items
  BY QueueAssumption, Zenon DEF BufferOK, CallsOK, Next, vars, me
<1>u. ASSUME UNCHANGED <<q, out>> PROVE BufferOK' /\ [Fifo!Next]_(Fifo!vars)
  BY <1>0, <1>u DEF BufferOK, Fifo!vars
<1>1. CASE UNCHANGED vars
  BY <1>1, <1>u DEF vars
<1>2. ASSUME NEW op, NEW x, NEW m, Call(op, x, m)
      PROVE  BufferOK' /\ [Fifo!Next]_(Fifo!vars)
  BY <1>2, <1>u DEF Call
<1>3. CASE Send
  <2>1. StoreOK(q', n) /\ Fifo!Next
    BY <1>0, <1>3, SendIsFifo DEF Send, CallOK, Calls
  <2> QED
    BY <1>0, <1>3, <2>1 DEF BufferOK, Send
<1>4. CASE Receive
  <2>1. StoreOK(q', n) /\ out' \in Items /\ Fifo!Next
    BY <1>0, <1>4, ReceiveIsFifo DEF Receive
  <2> QED
    BY <1>0, <2>1 DEF BufferOK
<1>5. CASE Peek
  <2>1. q' = q /\ out' \in Items /\ Fifo!Next
    BY <1>0, <1>5, PeekIsFifo DEF Peek
  <2> QED
    BY <1>0, <2>1 DEF BufferOK
<1>6. CASE \/ GiveUpAtOnce \/ SetTimeOut \/ SuspendScheduler \/ LockQueue
           \/ CheckForTimeOut \/ CheckAgain \/ Place \/ UnlockTx \/ UnlockRx
           \/ Resume \/ YieldWithinApi \/ Recheck \/ TickISR
  <2>1. UNCHANGED <<q, out>>
    BY <1>6 DEF GiveUpAtOnce, SetTimeOut, SuspendScheduler, LockQueue,
       CheckForTimeOut, CheckAgain, Place, UnlockTx, UnlockRx, Resume,
       YieldWithinApi, Recheck, TickISR
  <2> QED
    BY <1>0, <1>u, <2>1
<1>7. CASE ResetQueue
  <2>1. StoreOK(q', n) /\ Fifo!Next
    BY <1>0, <1>7, ResetIsFifo DEF ResetQueue
  <2> QED
    BY <1>0, <1>7, <2>1 DEF BufferOK, ResetQueue
<1>8. ASSUME NEW x \in Items, NEW position \in Sends, SendFromISR(x, position)
      PROVE  BufferOK' /\ [Fifo!Next]_(Fifo!vars)
  <2>1. position = "overwrite" => n = 1
    BY <1>0, <1>8, QueueAssumption DEF SendFromISR
  <2>2. StoreOK(q', n) /\ Fifo!Next
    BY <1>0, <1>8, <2>1, SendIsFifo DEF SendFromISR
  <2> QED
    BY <1>0, <1>8, <2>2 DEF BufferOK, SendFromISR
<1>9. CASE ReceiveFromISR
  <2>1. StoreOK(q', n) /\ out' \in Items /\ Fifo!Next
    BY <1>0, <1>9, ReceiveIsFifo DEF ReceiveFromISR
  <2> QED
    BY <1>0, <2>1 DEF BufferOK
<1> QED
  BY <1>0, <1>1, <1>2, <1>3, <1>4, <1>5, <1>6, <1>7, <1>8, <1>9 DEF Next, CallStep


-----------------------------------------------------------------------------
(* The kernel operations *)

\* What every kernel operation of a call keeps, but for blocking, suspending and the
\* ticks: it wakes some tasks, it may switch to a ready one.
Moves(a, r) ==
    /\ Sound(r) /\ OrderKept(a, r) /\ r.prio = a.prio
    /\ ReadyTasks(a) \subseteq ReadyTasks(r)
    /\ ReadyTasks(r) \cup DelayedTasks(r) = ReadyTasks(a) \cup DelayedTasks(a)
    /\ \A e \in EventLists : ToSet(r.events[e]) \subseteq ToSet(a.events[e])
    /\ r.cur = a.cur \/ (a.suspended = 0 /\ r.cur \in ReadyTasks(r))
    /\ r.tick = a.tick /\ r.overflows = a.overflows
    /\ r.suspended = a.suspended /\ r.pendedTicks = a.pendedTicks
    /\ a.suspended = 0 /\ a.pending = <<>> => r.pending = <<>>

LEMMA MovesNot == ASSUME NEW a, Sound(a) PROVE Moves(a, a)
  BY OrderSame DEF Moves

LEMMA MovesBoth ==
    ASSUME NEW a, NEW b, Moves(a, b), NEW c, Moves(b, c)
    PROVE  Moves(a, c)
<1>1. OrderKept(a, c)
  BY OrderBoth DEF Moves
<1>2. /\ \A e \in EventLists : ToSet(c.events[e]) \subseteq ToSet(a.events[e])
      /\ ReadyTasks(a) \subseteq ReadyTasks(c)
      /\ ReadyTasks(c) \cup DelayedTasks(c) = ReadyTasks(a) \cup DelayedTasks(a)
  BY DEF Moves
<1>3. /\ c.prio = a.prio /\ c.tick = a.tick /\ c.overflows = a.overflows
      /\ c.suspended = a.suspended /\ c.pendedTicks = a.pendedTicks /\ Sound(c)
      /\ a.suspended = 0 /\ a.pending = <<>> => c.pending = <<>>
      /\ c.cur = a.cur \/ (a.suspended = 0 /\ c.cur \in ReadyTasks(c))
  BY DEF Moves
<1>. QED
  BY <1>1, <1>2, <1>3 DEF Moves

\* xTaskRemoveFromEventList
LEMMA RemoveMoves ==
    ASSUME NEW a, Sound(a), a.suspended = 0 => a.pending = <<>>,
           NEW e \in EventLists, a.events[e] # <<>>
    PROVE  Moves(a, RemoveFromEventList(a, e))
<1>. DEFINE t == Head(a.events[e])  r == RemoveFromEventList(a, e)
<1>1. Given(a, t, r)
  BY RemoveFromEventListIs
<1>. HIDE DEF t, r
<1>2. /\ Sound(r) /\ t \in DelayedTasks(a) /\ OrderKept(a, r) /\ r.prio = a.prio
      /\ r.cur = a.cur /\ r.tick = a.tick /\ r.overflows = a.overflows
      /\ r.suspended = a.suspended /\ r.pendedTicks = a.pendedTicks
      /\ \A d \in EventLists : ToSet(r.events[d]) \subseteq ToSet(a.events[d])
  BY <1>1 DEF Given
<1>3. a.prio \in [Tasks -> Priorities] /\ t \in Tasks /\ a.prio[t] \in Priorities
      /\ r.pending \in Seq(Tasks)
  <2>1. a \in KState /\ r \in KState
    BY <1>2 DEF Sound, WellFormed
  <2>2. t \in Tasks
    BY <1>1 DEF Given
  <2>. QED
    BY <2>1, <2>2, KernelFields
<1>4. ReadyTasks(r) = ReadyTasks(a) \cup (IF a.suspended = 0 THEN {t} ELSE {})
  <2>1. \A p \in Priorities : ToSet(r.ready[p].items) =
          ToSet(a.ready[p].items) \cup (IF a.suspended = 0 /\ a.prio[t] = p THEN {t} ELSE {})
    BY <1>1 DEF Given
  <2>2. CASE a.suspended = 0
    <3>1. \A p \in Priorities : ToSet(r.ready[p].items) =
             ToSet(a.ready[p].items) \cup (IF a.prio[t] = p THEN {t} ELSE {})
      BY <2>1, <2>2
    <3>2. t \in ReadyTasks(r)
      BY <1>3, <3>1 DEF ReadyTasks
    <3>3. ReadyTasks(r) \subseteq ReadyTasks(a) \cup {t}
      BY <3>1 DEF ReadyTasks
    <3>4. ReadyTasks(a) \subseteq ReadyTasks(r)
      BY <3>1 DEF ReadyTasks
    <3>. QED
      BY <2>2, <3>2, <3>3, <3>4
  <2>3. CASE a.suspended # 0
    <3>1. \A p \in Priorities : ToSet(r.ready[p].items) = ToSet(a.ready[p].items)
      BY <2>1, <2>3
    <3>. QED
      BY <2>3, <3>1 DEF ReadyTasks
  <2>. QED
    BY <2>2, <2>3
<1>5. /\ ReadyTasks(a) \subseteq ReadyTasks(r)
      /\ ReadyTasks(r) \cup DelayedTasks(r) = ReadyTasks(a) \cup DelayedTasks(a)
  BY <1>1, <1>2, <1>4 DEF Given
<1>6. a.suspended = 0 /\ a.pending = <<>> => r.pending = <<>>
  <2>1. a.pending = <<>> => ToSet(a.pending) = {}
    BY DEF ToSet
  <2>. QED
    BY <1>1, <1>3, <2>1, NoPending DEF Given
<1>. QED
  BY <1>2, <1>5, <1>6 DEF Moves, r

\* vTaskSwitchContext
LEMMA SwitchMoves ==
    ASSUME NEW a, Sound(a), ReadyTasks(a) # {}
    PROVE  /\ Moves(a, SwitchContext(a))
           /\ a.suspended = 0 => SwitchContext(a).cur \in ReadyTasks(SwitchContext(a))
<1>. DEFINE r == SwitchContext(a)
<1>1. Selected(a, r)
  BY SwitchContextIs
<1>. HIDE DEF r
<1>2. Sound(r) /\ DelayedTasks(r) = DelayedTasks(a) /\ ReadyTasks(r) = ReadyTasks(a)
  BY <1>1, SameSetsSound DEF Selected, Sound
<1>3. OrderKept(a, r)
  BY <1>1, OrderSame DEF Selected, SameSets
<1>4. a.suspended \in Nat
  BY KernelFields DEF Sound, WellFormed
<1>. QED
  BY <1>1, <1>2, <1>3, <1>4 DEF Moves, Selected, SameSets, r

\* What a send or a receive does to the tasks that wait
LEMMA WokenMoves ==
    ASSUME QueueInv, NEW e \in EventLists
    PROVE  /\ Moves(k, Woken(e))
           /\ k.events[e] # <<>> => Moves(k, RemoveFromEventList(k, e))
<1>. DEFINE r == RemoveFromEventList(k, e)
<1>1. Sound(k) /\ (k.suspended = 0 => k.pending = <<>>) /\ Idle \in ReadyTasks(k)
  BY DEF QueueInv, Placed
<1>2. k.events[e] # <<>> => Moves(k, r)
  BY <1>1, RemoveMoves
<1>3. Moves(k, k)
  BY <1>1, MovesNot
<1>. HIDE DEF r
<1>4. ASSUME Moves(k, r) PROVE Moves(k, SwitchContext(r))
  <2>1. Sound(r) /\ ReadyTasks(r) # {}
    BY <1>1, <1>4 DEF Moves
  <2>2. Moves(r, SwitchContext(r))
    BY <2>1, SwitchMoves
  <2>. QED
    BY <1>4, <2>2, MovesBoth
<1>. QED
  BY <1>2, <1>3, <1>4 DEF Woken, r


\* The loop of prvUnlockQueue
LEMMA WakeCountedMoves ==
    ASSUME QueueInv, NEW e \in EventLists, NEW count \in Int
    PROVE  /\ Moves(k, WakeCounted(e, count))
           /\ \E m \in Nat : /\ Len(WakeCounted(e, count).events[e]) = Len(k.events[e]) - m
                            /\ (m >= count \/ m = Len(k.events[e]))
<1>. DEFINE n == Highest({0} \cup ((0..Len(k.events[e])) \cap (0..count)))
            K == {r \in KState : Sound(r) /\ (r.suspended = 0 => r.pending = <<>>)}
            Wake(r) == RemoveFromEventList(r, e)
            Step(r) == IF r.events[e] = <<>> THEN r ELSE Wake(r)
            step == [i \in Nat |-> [r \in K |-> Step(r)]]
            Upto(i, r) == Moves(k, r) /\ Len(r.events[e]) = Len(k.events[e]) - i
<1>1. /\ k \in K /\ Sound(k) /\ Len(k.events[e]) \in Nat
      /\ (k.suspended = 0 => k.pending = <<>>)
  <2>1. k \in KState /\ k.events[e] \in Seq(Tasks) /\ Sound(k)
    BY Known DEF QueueInv
  <2>. QED
    BY <2>1 DEF QueueInv, Placed
<1>2. n \in Nat /\ n <= Len(k.events[e]) /\ (n >= count \/ n = Len(k.events[e]))
  <2>. DEFINE S == {0} \cup ((0..Len(k.events[e])) \cap (0..count))
              T == {Len(k.events[e]) - i : i \in S}
  <2>1. T \subseteq Nat /\ T # {} /\ S \subseteq 0..Len(k.events[e]) /\ S \subseteq Nat
    BY <1>1
  <2>. HIDE DEF T
  <2>2. PICK y \in T : \A z \in T : y <= z
    BY <2>1, LeastOf
  <2>3. PICK m \in S : y = Len(k.events[e]) - m
    BY DEF T
  <2>4. \A i \in S : i <= m
    <3>. TAKE i \in S
    <3>1. Len(k.events[e]) - i \in T
      BY DEF T
    <3>. HIDE DEF S
    <3>. QED
      BY <1>1, <2>1, <2>2, <2>3, <3>1
  <2>. HIDE DEF S
  <2>5. Highest(S) \in S /\ \A i \in S : i <= Highest(S)
    BY <2>4 DEF Highest
  <2>6. /\ 0 \in S /\ (0 <= count /\ count <= Len(k.events[e]) => count \in S)
        /\ Len(k.events[e]) <= count => Len(k.events[e]) \in S
    BY <1>1 DEF S
  <2>7. Highest(S) \in Nat /\ Highest(S) <= Len(k.events[e])
    <3>. DEFINE h == Highest(S)  l == Len(k.events[e])
    <3>1. h \in S /\ S \subseteq 0..l /\ l \in Nat
      BY <1>1, <2>1, <2>5
    <3>. HIDE DEF h, l
    <3>2. h \in Nat /\ h <= l
      BY <3>1
    <3>. QED
      BY <3>2 DEF h, l
  <2>8. Highest(S) >= count \/ Highest(S) = Len(k.events[e])
    BY <1>1, <2>5, <2>6, <2>7
  <2>. QED
    BY <2>7, <2>8 DEF S
<1>. HIDE DEF n
<1>3. \A r \in K : Step(r) \in K
  <2>. TAKE r \in K
  <2>1. ASSUME r.events[e] # <<>> PROVE Wake(r) \in K
    <3>1. Moves(r, Wake(r))
      BY <2>1, RemoveMoves
    <3>2. Sound(Wake(r)) /\ (Wake(r).suspended = 0 => Wake(r).pending = <<>>)
      BY <3>1 DEF Moves
    <3>. HIDE DEF Wake
    <3>. QED
      BY <3>2 DEF Sound, WellFormed
  <2>. QED
    BY <2>1
<1>4. step \in [Nat -> [K -> K]]
  <2>. HIDE DEF K, Step
  <2>. QED
    BY <1>3
<1>5. \E f \in [0..n -> K] : Iterated(f, k, step, n)
  <2>. HIDE DEF K, step
  <2>. QED
    BY <1>1, <1>2, <1>4, Iterates
<1>6. PICK f \in [0..n -> K] : \A i \in 0..n : f[i] = IF i = 0 THEN k ELSE Step(f[i - 1])
  <2>. HIDE DEF Step, K
  <2>1. PICK f \in [0..n -> K] : \A i \in 0..n : f[i] = IF i = 0 THEN k ELSE step[i][f[i - 1]]
    BY <1>5 DEF Iterated
  <2>2. \A i \in 0..n : i # 0 => f[i - 1] \in K /\ i \in Nat
    BY <1>2, <2>1
  <2>3. \A i \in 0..n : f[i] = IF i = 0 THEN k ELSE Step(f[i - 1])
    BY <2>1, <2>2
  <2>. QED
    BY <2>1, <2>3
<1>. DEFINE T == {i \in Nat : i <= n => Upto(i, f[i]) /\ (i # 0 => f[i] = Wake(f[i - 1]))}
<1>7. 0 \in T
  <2>1. f[0] = k /\ Moves(k, k)
    BY <1>1, <1>2, <1>6, MovesNot
  <2>. QED
    BY <1>1, <2>1
<1>8. ASSUME NEW i \in T PROVE i + 1 \in T
  <2>. DEFINE a == f[i]
  <2>1. i \in Nat
    BY <1>8
  <2>. SUFFICES ASSUME i + 1 <= n PROVE Upto(i + 1, f[i + 1]) /\ f[i + 1] = Wake(a)
    <3>1. (i + 1) - 1 = i
      BY <2>1
    <3>. HIDE DEF Upto, Wake
    <3>. QED
      BY <2>1, <3>1
  <2>2. i <= n /\ i + 1 \in 0..n /\ i \in 0..n /\ i + 1 # 0 /\ (i + 1) - 1 = i
    BY <1>2, <2>1
  <2>3. Moves(k, a) /\ Len(a.events[e]) = Len(k.events[e]) - i
    BY <1>8, <2>2
  <2>4. a \in K
    BY <1>6, <2>2
  <2>5. f[i + 1] = Step(a)
    <3>. HIDE DEF Step
    <3>. QED
      BY <1>6, <2>2
  <2>. HIDE DEF a
  <2>6. a.events[e] # <<>>
    <3>1. Len(a.events[e]) > 0
      BY <1>1, <1>2, <2>1, <2>3
    <3>. QED
      BY <3>1
  <2>7. Sound(a) /\ (a.suspended = 0 => a.pending = <<>>)
    BY <2>4
  <2>8. Moves(k, Wake(a)) /\ Len(Wake(a).events[e]) = Len(a.events[e]) - 1
    <3>1. Moves(a, Wake(a)) /\ Len(Wake(a).events[e]) = Len(a.events[e]) - 1
      BY <2>6, <2>7, RemoveMoves, RemovedLength
    <3>. HIDE DEF Wake
    <3>. QED
      BY <2>3, <3>1, MovesBoth
  <2>. HIDE DEF Wake
  <2>9. Len(Wake(a).events[e]) = Len(k.events[e]) - (i + 1)
    BY <1>1, <2>1, <2>3, <2>8
  <2>. QED
    BY <2>5, <2>6, <2>8, <2>9
<1>9. T = Nat
  <2>. HIDE DEF T
  <2>1. T \subseteq Nat
    BY DEF T
  <2>. QED
    BY <1>7, <1>8, <2>1, Induction
<1>10. \A i \in 0..n : Upto(i, f[i]) /\ (i # 0 => f[i] = Wake(f[i - 1]))
  <2>1. \A i \in 0..n : i \in T /\ i <= n
    <3>. HIDE DEF T
    <3>. QED
      BY <1>2, <1>9
  <2>. HIDE DEF Upto, Wake
  <2>. QED
    BY <2>1
<1>11. f = [i \in 0..n |-> IF i = 0 THEN k ELSE Wake(f[i - 1])]
  <2>. HIDE DEF Upto, Wake, K
  <2>. DEFINE g == [i \in 0..n |-> IF i = 0 THEN k ELSE Wake(f[i - 1])]
  <2>1. f[0] = k
    BY <1>2, <1>6
  <2>2. \A i \in 0..n : f[i] = g[i]
    BY <1>10, <2>1
  <2>. QED
    BY <1>6, <2>2, Zenon
<1>. DEFINE woken[i \in 0..n] == IF i = 0 THEN k ELSE Wake(woken[i - 1])
<1>12. woken = [i \in 0..n |-> IF i = 0 THEN k ELSE Wake(woken[i - 1])]
  BY <1>11, Zenon
<1>13. WakeCounted(e, count) = woken[n]
  BY DEF WakeCounted, n
<1>14. \A i \in 0..n : woken[i] = IF i = 0 THEN k ELSE Wake(woken[i - 1])
  <2>. HIDE DEF woken
  <2>. QED
    BY <1>12
<1>. HIDE DEF woken
<1>. DEFINE R == {i \in Nat : i <= n => Upto(i, woken[i]) /\ woken[i] = f[i]}
<1>15. 0 \in R
  <2>1. woken[0] = k /\ f[0] = k /\ Moves(k, k) /\ Len(k.events[e]) = Len(k.events[e]) - 0
    BY <1>1, <1>2, <1>6, <1>14, MovesNot
  <2>. QED
    BY <2>1
<1>16. ASSUME NEW i \in R PROVE i + 1 \in R
  <2>1. i \in Nat
    BY <1>16
  <2>. SUFFICES ASSUME i + 1 <= n PROVE Upto(i + 1, woken[i + 1]) /\ woken[i + 1] = f[i + 1]
    BY <2>1
  <2>2. i <= n /\ i + 1 \in 0..n /\ i + 1 # 0 /\ (i + 1) - 1 = i
    BY <1>2, <2>1
  <2>3. woken[i] = f[i]
    BY <1>16, <2>2
  <2>. HIDE DEF R, Wake, Upto
  <2>4. f[i + 1] = Wake(f[i]) /\ woken[i + 1] = Wake(woken[i]) /\ Upto(i + 1, f[i + 1])
    BY <1>10, <1>14, <2>2
  <2>. QED
    BY <2>3, <2>4
<1>17. R = Nat
  <2>. HIDE DEF R
  <2>1. R \subseteq Nat
    BY DEF R
  <2>. QED
    BY <1>15, <1>16, <2>1, Induction
<1>18. n \in R
  <2>. HIDE DEF R
  <2>. QED
    BY <1>2, <1>17
<1>19. Moves(k, woken[n]) /\ Len(woken[n].events[e]) = Len(k.events[e]) - n
  BY <1>2, <1>18
<1>. HIDE DEF R, T, Upto, Wake, Step, step, K
<1>. QED
  BY <1>2, <1>13, <1>19


-----------------------------------------------------------------------------
(* A step of a call *)

LEMMA PcAfter ==
    ASSUME QueueInv, NEW p, Goto(p)
    PROVE  DOMAIN pc' = Tasks /\ \A t \in Tasks : pc'[t] = IF t = cur THEN p ELSE pc[t]
  BY DEF QueueInv, CallsOK, Goto

LEMMA PlacedGoes ==
    ASSUME QueueInv, Moves(k, k'), NEW p, Goto(p), cur # Idle \/ p = me,
           p.at \in Suspending <=> me.at \in Suspending,
           cur \in ReadyTasks(k) \/ Asleep(p) \/ k'.cur \in ReadyTasks(k')
    PROVE  Placed'
<1>1. \A t \in Tasks : pc'[t] = IF t = cur THEN p ELSE pc[t]
  BY PcAfter
<1>2. /\ cur \in Tasks /\ cur = k.cur /\ me = pc[cur] /\ Idle \in Tasks
      /\ k.suspended \in 0..1 /\ k'.cur \in Tasks
  <2>1. k' \in KState
    BY DEF Moves, Sound, WellFormed
  <2>. QED
    BY <2>1, Known, KernelFields
<1>3. /\ k'.suspended = k.suspended /\ k'.pendedTicks = k.pendedTicks
      /\ k'.cur = k.cur \/ (k.suspended = 0 /\ k'.cur \in ReadyTasks(k'))
      /\ ReadyTasks(k) \subseteq ReadyTasks(k')
      /\ ReadyTasks(k') \cup DelayedTasks(k') = ReadyTasks(k) \cup DelayedTasks(k)
      /\ k.suspended = 0 /\ k.pending = <<>> => k'.pending = <<>>
  BY DEF Moves
<1>4. /\ ReadyTasks(k) \cup DelayedTasks(k) = Tasks /\ Idle \in ReadyTasks(k) /\ pc[Idle] = User
      /\ k.suspended = (IF me.at \in Suspending THEN 1 ELSE 0)
      /\ \A t \in Tasks \ {cur} : pc[t].at \notin Suspending
      /\ k.suspended = 0 => k.pending = <<>> /\ k.pendedTicks = 0
      /\ k.pendedTicks \in 0..MaxPended
  BY DEF QueueInv, Placed, me
<1>5. pc'[Idle] = User
  BY <1>1, <1>2, <1>4
<1>6. k'.suspended = IF pc'[k'.cur].at \in Suspending THEN 1 ELSE 0
  <2>1. CASE k'.cur = cur
    BY <1>1, <1>2, <1>3, <1>4, <2>1
  <2>2. CASE k'.cur # cur
    <3>1. pc'[k'.cur].at \notin Suspending /\ k.suspended = 0
      BY <1>1, <1>2, <1>3, <1>4, <2>2
    <3>. QED
      BY <1>3, <3>1
  <2>. QED
    BY <2>1, <2>2
<1>7. \A t \in Tasks \ {k'.cur} : pc'[t].at \notin Suspending
  <2>. TAKE t \in Tasks \ {k'.cur}
  <2>1. CASE t = cur
    BY <1>1, <1>2, <1>3, <1>4, <2>1
  <2>2. CASE t # cur
    BY <1>1, <1>2, <1>3, <1>4, <2>2
  <2>. QED
    BY <2>1, <2>2
<1>8. k'.cur \in ReadyTasks(k') \/ Asleep(pc'[k'.cur])
  BY <1>1, <1>2, <1>3
<1>. QED
  BY <1>2, <1>3, <1>4, <1>5, <1>6, <1>7, <1>8 DEF Placed, cur

\* Tasks leave the event lists, in order.
Fewer(a, r) ==
    /\ OrderKept(a, r) /\ r.prio = a.prio
    /\ \A e \in EventLists : ToSet(r.events[e]) \subseteq ToSet(a.events[e])

LEMMA WaitersGo ==
    ASSUME QueueInv, Fewer(k, k'), NEW p, Goto(p), p.op = me.op \/ cur \in ReadyTasks(k)
    PROVE  Waiters'
<1>1. \A t \in Tasks : pc'[t] = IF t = cur THEN p ELSE pc[t]
  BY PcAfter
<1>2. \A e \in EventLists : ToSet(k.events[e]) \subseteq Tasks
                              /\ ToSet(k.events[e]) \cap ReadyTasks(k) = {}
  BY Known, ToSetIn
<1>3. \A e \in EventLists : \A t \in ToSet(k'.events[e]) : pc'[t].op = pc[t].op
  <2>. TAKE e \in EventLists
  <2>. TAKE t \in ToSet(k'.events[e])
  <2>1. t \in ToSet(k.events[e]) /\ t \in Tasks /\ t \notin ReadyTasks(k)
    BY <1>2 DEF Fewer
  <2>. QED
    BY <1>1, <2>1 DEF me
<1>4. \A e \in EventLists : \A t \in ToSet(k'.events[e]) : Mode(pc'[t].op) = e
  <2>. TAKE e \in EventLists
  <2>. TAKE t \in ToSet(k'.events[e])
  <2>1. t \in ToSet(k.events[e]) /\ pc'[t].op = pc[t].op
    BY <1>3 DEF Fewer
  <2>. QED
    BY <2>1 DEF QueueInv, Waiters
<1>5. k'.evValue = k.evValue /\ k'.prio = k.prio /\ k.evValue = ItemValue(k.prio)
      /\ \A e \in EventLists : Sorted(k'.events[e], k.evValue)
  BY DEF QueueInv, Waiters, Fewer, OrderKept
<1>. QED
  BY <1>4, <1>5 DEF Waiters

LEMMA CountingGoes ==
    ASSUME QueueInv, NEW n \in Nat, SinceKept(k, n, k'), NEW p, Goto(p),
           NEW m \in Ticks, left' = [CountTicks(n) EXCEPT ![cur] = m],
           m > 0 => Since(k', p.timeOut, p.wait - m),
           p.after = "expired" \/ p.at = "recheck" => m = 0
    PROVE  Counting'
<1>1. \A t \in Tasks : pc'[t] = IF t = cur THEN p ELSE pc[t]
  BY PcAfter
<1>2. /\ left \in [Tasks -> Ticks] /\ Ticks = 0..(TickMod - 1) /\ TickMod \in Nat \ {0, 1}
      /\ \A t \in Tasks : left[t] \in 0..(TickMod - 1) /\ pc[t].wait \in 0..(TickMod - 1)
  BY Known DEF QueueInv, Counting, CallsOK, CallOK, Calls
<1>3. \A t \in Tasks :
         left'[t] = IF t = cur THEN m ELSE IF left[t] > n THEN left[t] - n ELSE 0
  BY DEF CountTicks
<1>4. left' \in [Tasks -> Ticks]
  <2>1. \A t \in Tasks : (IF left[t] > n THEN left[t] - n ELSE 0) \in Ticks
    BY <1>2
  <2>2. CountTicks(n) \in [Tasks -> Ticks]
    BY <2>1 DEF CountTicks
  <2>. QED
    BY <2>2
<1>5. ASSUME NEW t \in Tasks, left'[t] > 0 PROVE Since(k', pc'[t].timeOut, pc'[t].wait - left'[t])
  <2>1. CASE t = cur
    BY <1>1, <1>3, <1>5, <2>1
  <2>2. CASE t # cur
    <3>1. /\ left[t] > n /\ left'[t] = left[t] - n /\ pc'[t] = pc[t]
          /\ left[t] \in 0..(TickMod - 1) /\ pc[t].wait \in 0..(TickMod - 1)
      BY <1>1, <1>2, <1>3, <1>5, <2>2
    <3>. DEFINE d == pc[t].wait - left[t]
    <3>2. Since(k, pc[t].timeOut, d)
      BY <3>1 DEF QueueInv, Counting
    <3>3. d + n < TickMod /\ pc'[t].wait - left'[t] = d + n
      BY <1>2, <3>1
    <3>. HIDE DEF d
    <3>. QED
      BY <3>1, <3>2, <3>3 DEF SinceKept
  <2>. QED
    BY <2>1, <2>2
<1>6. ASSUME NEW t \in Tasks, pc'[t].after = "expired" \/ pc'[t].at = "recheck" PROVE left'[t] = 0
  <2>1. CASE t = cur
    BY <1>1, <1>3, <1>6, <2>1
  <2>2. CASE t # cur
    <3>1. left[t] = 0
      BY <1>1, <1>6, <2>2 DEF QueueInv, Counting
    <3>. QED
      BY <1>3, <2>2, <3>1
  <2>. QED
    BY <2>1, <2>2
<1>. QED
  BY <1>4, <1>5, <1>6 DEF Counting

\* No tick passes.
LEMMA NoTick ==
    ASSUME QueueInv, NEW r, r.tick = k.tick, r.overflows = k.overflows
    PROVE  /\ SinceKept(k, 0, r) /\ \A to, d : Since(k, to, d) => Since(r, to, d)
           /\ CountTicks(0) = left
<1>1. \A to, d : Since(k, to, d) => Since(r, to, d) /\ d + 0 = d
  BY DEF Since
<1>2. SinceKept(k, 0, r)
  BY <1>1 DEF SinceKept
<1>3. left \in [Tasks -> Nat]
  BY Known DEF QueueInv, Counting
<1>4. \A t \in Tasks : (IF left[t] > 0 THEN left[t] - 0 ELSE 0) = left[t]
  BY <1>3
<1>5. CountTicks(0) = left
  BY <1>3, <1>4 DEF CountTicks
<1>. QED
  BY <1>1, <1>2, <1>5


\* The part of the invariant that the lock is not in
CallsSound == CallsOK /\ Sound(k) /\ Placed /\ Waiters /\ Counting

LEMMA Whereabouts ==
    ASSUME QueueInv
    PROVE  /\ me.at # "user" => cur # Idle
           /\ ~Asleep(me) => cur \in ReadyTasks(k)
           /\ me.at \in Suspending <=> k.suspended = 1
           /\ k.suspended \in 0..1
  BY Known, UserOK DEF QueueInv, Placed, me

LEMMA GoesOn ==
    ASSUME QueueInv, UNCHANGED program, Moves(k, k'), NEW p, CallOK(p, program.length), Goto(p),
           cur # Idle \/ p = me, p.at \in Suspending <=> me.at \in Suspending,
           cur \in ReadyTasks(k) \/ Asleep(p) \/ k'.cur \in ReadyTasks(k'),
           p.op = me.op \/ cur \in ReadyTasks(k),
           NEW m \in Ticks, left' = [left EXCEPT ![cur] = m],
           m > 0 => Since(k, p.timeOut, p.wait - m),
           p.after = "expired" \/ p.at = "recheck" => m = 0
    PROVE  CallsSound'
<1>1. CallsOK'
  BY Known, GotoKeeps DEF QueueInv
<1>2. Placed'
  BY PlacedGoes
<1>3. Waiters'
  BY WaitersGo DEF Moves, Fewer
<1>4. Counting'
  <2>1. /\ SinceKept(k, 0, k') /\ CountTicks(0) = left
        /\ \A to, d : Since(k, to, d) => Since(k', to, d)
    BY NoTick DEF Moves
  <2>2. 0 \in Nat /\ left' = [CountTicks(0) EXCEPT ![cur] = m]
        /\ (m > 0 => Since(k', p.timeOut, p.wait - m))
    BY <2>1
  <2>. QED
    BY <2>1, <2>2, CountingGoes
<1>. QED
  BY <1>1, <1>2, <1>3, <1>4 DEF CallsSound, Moves

\* No call goes on: an interrupt, or xQueueGenericReset.
LEMMA StaysThere ==
    ASSUME QueueInv, UNCHANGED <<program, pc, left>>, Moves(k, k')
    PROVE  CallsSound'
<1>1. pc' = [pc EXCEPT ![cur] = me] /\ left' = [left EXCEPT ![cur] = left[cur]]
  <2>1. pc \in [Tasks -> Calls] /\ left \in [Tasks -> Ticks] /\ me = pc[cur]
    BY Known DEF QueueInv, CallsOK, Counting
  <2>. QED
    BY <2>1
<1>2. Goto(me)
  BY <1>1 DEF Goto
<1>3. /\ left[cur] \in Ticks
      /\ left[cur] > 0 => Since(k, me.timeOut, me.wait - left[cur])
      /\ me.after = "expired" \/ me.at = "recheck" => left[cur] = 0
      /\ CallOK(me, program.length)
  BY Known DEF QueueInv, Counting
<1>4. cur \in ReadyTasks(k) \/ Asleep(me)
  BY Whereabouts
<1>. DEFINE p == me  m == left[cur]
<1>5. /\ CallOK(p, program.length) /\ Goto(p) /\ left' = [left EXCEPT ![cur] = m] /\ m \in Ticks
      /\ m > 0 => Since(k, p.timeOut, p.wait - m)
      /\ p.after = "expired" \/ p.at = "recheck" => m = 0
  BY <1>1, <1>2, <1>3
<1>6. /\ cur # Idle \/ p = me
      /\ p.at \in Suspending <=> me.at \in Suspending
      /\ cur \in ReadyTasks(k) \/ Asleep(p) \/ k'.cur \in ReadyTasks(k')
      /\ p.op = me.op \/ cur \in ReadyTasks(k)
  BY <1>4
<1>. HIDE DEF p, m
<1>. QED
  BY <1>5, <1>6, GoesOn DEF p

\* The call returns.
LEMMA Finishes ==
    ASSUME QueueInv, UNCHANGED program, Moves(k, k'), me.at \in {"try", "recheck"}, Done
    PROVE  CallsSound'
<1>1. cur # Idle /\ cur \in ReadyTasks(k)
  BY Whereabouts DEF Asleep, Leaving
<1>2. Goto(User) /\ left' = [left EXCEPT ![cur] = 0] /\ 0 \in Ticks
  BY Known DEF Done
<1>3. User.at \notin Suspending /\ me.at \notin Suspending /\ User.at # "recheck"
      /\ User.after # "expired" /\ CallOK(User, program.length)
  BY UserOK DEF Suspending
<1>4. /\ User.at \in Suspending <=> me.at \in Suspending
      /\ User.after = "expired" \/ User.at = "recheck" => 0 = 0
      /\ 0 > 0 => Since(k, User.timeOut, User.wait - 0)
  BY <1>3
<1>. QED
  BY <1>1, <1>2, <1>3, <1>4, GoesOn

\* The call goes on, at a, with what it remembers.
TimeOuts == [overflows : Nat, entering : (-1)..(TickMod - 1)]

Became(c, a, b, to, w, p) ==
    /\ p \in Calls /\ p.at = a /\ p.after = b /\ p.timeOut = to /\ p.wait = w
    /\ p.op = c.op

LEMMA CallUpdates ==
    ASSUME NEW c \in Calls, NEW a \in Labels, NEW b \in {"none", "expired", "retry", "blocked"},
           NEW to \in TimeOuts, NEW w \in Ticks
    PROVE  /\ Became(c, a, c.after, c.timeOut, c.wait, [c EXCEPT !.at = a])
           /\ Became(c, a, b, c.timeOut, c.wait, [c EXCEPT !.at = a, !.after = b])
           /\ Became(c, a, b, c.timeOut, c.wait, [c EXCEPT !.after = b, !.at = a])
           /\ Became(c, a, c.after, to, c.wait, [c EXCEPT !.at = a, !.timeOut = to])
           /\ Became(c, a, c.after, to, w, [c EXCEPT !.at = a, !.timeOut = to, !.wait = w])
  BY DEF Became, Calls, TimeOuts

LEMMA BecameOK ==
    ASSUME QueueInv, NEW a, NEW b, NEW to, NEW w, NEW p, Became(me, a, b, to, w, p),
           a # "user", a \in {"check", "place"} => w > 0, b # "none" => a \in Leaving
    PROVE  CallOK(p, program.length) /\ p.at = a /\ p.after = b /\ p.timeOut = to
           /\ p.wait = w /\ p.op = me.op
  BY Known DEF Became, CallOK

\* Neither the time nor the timeout changes.
LEMMA GoesTo ==
    ASSUME QueueInv, UNCHANGED <<program, left>>, Moves(k, k'), me.at # "user",
           NEW a \in Labels, a # "user", NEW b, NEW p, Goto(p),
           Became(me, a, b, me.timeOut, me.wait, p),
           a \in Suspending <=> me.at \in Suspending,
           a \in {"check", "place"} => me.wait > 0, b # "none" => a \in Leaving,
           ~Asleep(me) \/ Asleep(p) \/ k'.cur \in ReadyTasks(k'),
           b = "expired" \/ a = "recheck" => left[cur] = 0
    PROVE  CallsSound'
<1>1. CallOK(p, program.length) /\ p.at = a /\ p.after = b /\ p.timeOut = me.timeOut
      /\ p.wait = me.wait /\ p.op = me.op
  BY BecameOK
<1>2. left' = [left EXCEPT ![cur] = left[cur]] /\ left[cur] \in Ticks
  <2>1. left \in [Tasks -> Ticks] /\ cur \in Tasks
    BY Known DEF QueueInv, Counting
  <2>. QED
    BY <2>1
<1>3. left[cur] > 0 => Since(k, p.timeOut, p.wait - left[cur])
  BY <1>1, Known DEF QueueInv, Counting
<1>4. cur # Idle /\ (cur \in ReadyTasks(k) \/ Asleep(p) \/ k'.cur \in ReadyTasks(k'))
  BY Whereabouts
<1>. QED
  BY <1>1, <1>2, <1>3, <1>4, GoesOn


-----------------------------------------------------------------------------
(* The lock *)

Holding == {"timeout", "check", "place", "unlocktx", "unlockrx"}

LEMMA LockFacts ==
    ASSUME QueueInv
    PROVE  /\ lock \in [{"tx", "rx"} -> Int] /\ lock.tx \in Int /\ lock.rx \in Int
           /\ me.at \notin Holding => lock = [tx |-> UNLOCKED, rx |-> UNLOCKED]
           /\ me.at \in Holding => k.suspended = 1
           /\ me.at = "unlockrx" => lock.tx = UNLOCKED
<1>1. LockOwned /\ lock \in [{"tx", "rx"} -> Int] /\ (me.at = "unlockrx" => lock.tx = UNLOCKED)
  BY DEF QueueInv, LockOK
<1>2. me.at \in Holding => k.suspended = 1
  BY Whereabouts DEF Holding, Suspending
<1>. QED
  BY <1>1, <1>2 DEF LockOwned, Holding

\* The call that holds the lock goes on holding it.
LEMMA LockStays ==
    ASSUME QueueInv, UNCHANGED lock, NEW p, Goto(p),
           me.at \in Holding =>
               /\ k'.suspended = k.suspended /\ k'.cur = k.cur
               /\ p.at \in Holding /\ (p.at = "unlockrx" => me.at = "unlockrx")
    PROVE  LockOK'
<1>1. CASE me.at \in Holding
  <2>1. k'.cur = cur /\ pc'[cur] = p /\ k'.suspended = 1
    BY <1>1, Known, PcAfter, LockFacts
  <2>2. me' = p
    BY <2>1 DEF me, cur
  <2>3. LockOwned'
    BY <1>1, <2>1, <2>2 DEF LockOwned, Holding
  <2>. QED
    BY <1>1, <2>2, <2>3, LockFacts DEF LockOK
<1>2. CASE me.at \notin Holding
  <2>1. lock' = [tx |-> UNLOCKED, rx |-> UNLOCKED] /\ lock' \in [{"tx", "rx"} -> Int]
        /\ lock'.tx = UNLOCKED
    BY <1>2, LockFacts
  <2>. QED
    BY <2>1 DEF LockOK, LockOwned
<1>. QED
  BY <1>1, <1>2

LEMMA MovesHold ==
    ASSUME QueueInv, Moves(k, k')
    PROVE  me.at \in Holding => k'.suspended = k.suspended /\ k'.cur = k.cur
  BY LockFacts DEF Moves

LEMMA StillHere ==
    ASSUME QueueInv, UNCHANGED pc
    PROVE  Goto(me)
<1>1. pc \in [Tasks -> Calls] /\ me = pc[cur]
  BY Known DEF QueueInv, CallsOK
<1>. QED
  BY <1>1 DEF Goto

\* An interrupt only counts while the queue is locked.
LEMMA CountingLocks ==
    ASSUME QueueInv, NEW side \in {"tx", "rx"}, NEW e \in EventLists, UNCHANGED pc,
           IsrWakes(e, side)
    PROVE  LockOK' /\ Moves(k, k')
<1>1. lock[side] \in Int /\ LockMax \in Int /\ Counted(lock[side]) \in Int
  BY LockFacts, QueueAssumption DEF Counted
<1>2. CASE lock[side] # UNLOCKED
  <2>1. lock' = [lock EXCEPT ![side] = Counted(@)] /\ k' = k /\ pc' = pc
    BY <1>2 DEF IsrWakes
  <2>2. me.at \in Holding /\ k.suspended = 1 /\ me' = me
    BY <1>2, <2>1, LockFacts DEF me, cur
  <2>3. lock' \in [{"tx", "rx"} -> Int]
    BY <1>1, <2>1, LockFacts
  <2>4. me.at = "unlockrx" => lock'.tx = UNLOCKED
    BY <1>2, <2>1, LockFacts
  <2>5. LockOwned'
    BY <2>1, <2>2 DEF LockOwned, Holding
  <2>6. Moves(k, k')
    BY <2>1, MovesNot DEF QueueInv
  <2>. QED
    BY <2>2, <2>3, <2>4, <2>5, <2>6 DEF LockOK
<1>3. CASE lock[side] = UNLOCKED
  <2>1. /\ UNCHANGED lock
        /\ k' = k \/ (k.events[e] # <<>> /\ k' = RemoveFromEventList(k, e)) \/ k' = Woken(e)
    BY <1>3 DEF IsrWakes
  <2>2. Moves(k, k')
    BY <2>1, WokenMoves, MovesNot DEF QueueInv
  <2>3. Goto(me)
    BY StillHere
  <2>. QED
    BY <2>1, <2>2, <2>3, MovesHold, LockStays
<1>. QED
  BY <1>2, <1>3

-----------------------------------------------------------------------------
(* The actions *)

LEMMA CallKeeps ==
    ASSUME QueueInv, UNCHANGED program,
           NEW op \in Sends \cup Receives, NEW x \in Items, NEW n \in program.waits, Call(op, x, n)
    PROVE  CallsSound' /\ LockOK'
<1>. DEFINE p == [User EXCEPT !.at = "try", !.op = op, !.wait = n,
                              !.item = IF op \in Sends THEN x ELSE @]
<1>1. /\ me.at = "user" /\ op \in program.calls[cur] /\ Goto(p)
      /\ UNCHANGED <<k, q, lock, out, left>>
  BY DEF Call, Is
<1>2. program \in Programs /\ n \in Ticks /\ cur \in Tasks /\ (op = "overwrite" => program.length = 1)
      /\ program.calls[Idle] = {}
  BY <1>1, QueueAssumption, Known DEF QueueInv, BufferOK
<1>3. CallOK(p, program.length) /\ p.at = "try" /\ p.after = "none" /\ p.op = op
  <2>1. User \in Calls /\ User.after = "none"
    BY UserOK DEF CallOK
  <2>2. p \in Calls /\ p.at = "try" /\ p.after = "none" /\ p.op = op
    BY <1>2, <2>1 DEF Calls, Labels
  <2>. HIDE DEF p
  <2>. QED
    BY <1>2, <2>2 DEF CallOK
<1>4. me = User
  BY <1>1, Known DEF CallOK
<1>5. left[cur] = 0
  <2>1. left[cur] > 0 => Since(k, me.timeOut, me.wait - left[cur])
    BY Known DEF QueueInv, Counting
  <2>2. ~Since(k, me.timeOut, me.wait - left[cur])
    BY <1>4, UserOK, Known DEF Since, User, NoTimeOut
  <2>. QED
    BY <2>1, <2>2, Known
<1>6. left' = [left EXCEPT ![cur] = 0]
  <2>1. left \in [Tasks -> Ticks]
    BY DEF QueueInv, Counting
  <2>. QED
    BY <1>1, <1>5, <2>1
<1>7. cur # Idle /\ cur \in ReadyTasks(k)
  <2>1. ~Asleep(me)
    BY <1>1 DEF Asleep, Leaving
  <2>. QED
    BY <1>1, <1>2, <2>1, Whereabouts
<1>. HIDE DEF p
<1>8. Moves(k, k')
  BY <1>1, MovesNot DEF QueueInv
<1>9. /\ p.at \in Suspending <=> me.at \in Suspending
      /\ 0 > 0 => Since(k, p.timeOut, p.wait - 0)
      /\ p.after = "expired" \/ p.at = "recheck" => 0 = 0
      /\ 0 \in Ticks
  BY <1>1, <1>3, Known DEF Suspending
<1>10. CallsSound'
  BY <1>1, <1>3, <1>6, <1>7, <1>8, <1>9, GoesOn
<1>11. LockOK'
  BY <1>1, LockStays DEF Holding
<1>. QED
  BY <1>10, <1>11


\* A send, a receive or a peek succeeds, or a call gives up.
LEMMA DoneKeeps ==
    ASSUME QueueInv, UNCHANGED <<program, lock>>, Done, me.at \in {"try", "recheck"},
           k' = k \/ \E e \in EventLists : k' = Woken(e)
    PROVE  CallsSound' /\ LockOK'
<1>1. Moves(k, k')
  BY WokenMoves, MovesNot DEF QueueInv
<1>2. LockOK'
  BY LockStays DEF Holding, Done
<1>. QED
  BY <1>1, <1>2, Finishes

LEMMA SucceedsKeeps ==
    ASSUME QueueInv, UNCHANGED program, Send \/ Receive \/ Peek \/ GiveUpAtOnce
    PROVE  CallsSound' /\ LockOK'
<1>1. EventLists = {"send", "receive"}
  BY Known
<1>2. UNCHANGED lock /\ Done /\ me.at = "try"
  BY DEF Send, Receive, Peek, GiveUpAtOnce, MustWait, Is
<1>3. k' = k \/ \E e \in EventLists : k' = Woken(e)
  BY <1>1 DEF Send, Receive, Peek, GiveUpAtOnce
<1>. QED
  BY <1>2, <1>3, DoneKeeps

LEMMA SetTimeOutKeeps ==
    ASSUME QueueInv, UNCHANGED program, SetTimeOut
    PROVE  CallsSound' /\ LockOK'
<1>1. me.at = "try" /\ me.wait > 0 /\ UNCHANGED <<k, lock>>
  BY DEF SetTimeOut, MustWait, Is
<1>2. Moves(k, k') /\ cur \in ReadyTasks(k) /\ cur # Idle /\ me \in Calls
  BY <1>1, MovesNot, Whereabouts, Known DEF QueueInv, Asleep, Leaving, CallOK
<1>3. ASSUME NEW p, Goto(p) PROVE LockOK'
  BY <1>1, <1>3, LockStays DEF Holding
<1>4. "suspend" \in Labels
  BY DEF Labels
<1>5. me.after = "none"
  BY <1>1, Known DEF CallOK, Leaving
<1>6. CASE me.timeOut = NoTimeOut
  <2>. DEFINE to == TimeOutState(k)  p == [me EXCEPT !.at = "suspend", !.timeOut = to]
  <2>1. Goto(p) /\ left' = [left EXCEPT ![cur] = me.wait]
    BY <1>6 DEF SetTimeOut
  <2>2. to \in TimeOuts /\ to.entering = k.tick /\ to.overflows = k.overflows
    BY Known DEF TimeOutState, TimeOuts, KState
  <2>. HIDE DEF to
  <2>3. Became(me, "suspend", me.after, to, me.wait, p)
    BY <1>2, <1>4, <2>2, CallUpdates DEF Calls
  <2>. HIDE DEF p
  <2>4. me.wait \in Ticks /\ me.wait - me.wait = 0
    BY <1>2, Known DEF Calls
  <2>5. Since(k, to, 0)
    BY <2>2, Known DEF Since
  <2>6. p.at = "suspend" /\ p.after = me.after /\ p.timeOut = to /\ p.wait = me.wait
        /\ p.op = me.op /\ CallOK(p, program.length)
    BY <1>5, <2>3, BecameOK
  <2>. QED
    BY <1>1, <1>2, <1>3, <1>5, <2>1, <2>4, <2>5, <2>6, GoesOn DEF Suspending
<1>7. CASE me.timeOut # NoTimeOut
  <2>. DEFINE p == [me EXCEPT !.at = "suspend"]
  <2>1. Goto(p) /\ UNCHANGED left
    BY <1>7 DEF SetTimeOut, GotoLabel
  <2>2. Became(me, "suspend", "none", me.timeOut, me.wait, p)
    BY <1>2, <1>4, <1>5, CallUpdates DEF Calls, TimeOuts
  <2>. HIDE DEF p
  <2>. QED
    BY <1>1, <1>2, <1>3, <1>4, <2>1, <2>2, GoesTo DEF Suspending, Asleep, Leaving
<1>. QED
  BY <1>6, <1>7


\* Where the call goes on with what it remembers, the calls are sound again.
LEMMA StepSound ==
    ASSUME QueueInv, UNCHANGED <<program, left>>, Moves(k, k'), me.at # "user",
           NEW a \in Labels, a # "user", NEW b \in {"none", "expired", "retry", "blocked"},
           Goto([me EXCEPT !.at = a, !.after = b]) \/ (GotoLabel(a) /\ b = me.after),
           a \in Suspending <=> me.at \in Suspending,
           a \in {"check", "place"} => me.wait > 0, b # "none" => a \in Leaving,
           ~Asleep(me) \/ (a \in Leaving /\ b = "blocked") \/ k'.cur \in ReadyTasks(k'),
           b = "expired" \/ a = "recheck" => left[cur] = 0
    PROVE  CallsSound' /\ \E p : Goto(p) /\ p.at = a
<1>1. me \in Calls /\ me.timeOut \in TimeOuts /\ me.wait \in Ticks
  BY Known DEF CallOK, Calls, TimeOuts
<1>2. \E p : Became(me, a, b, me.timeOut, me.wait, p) /\ Goto(p)
  BY <1>1, CallUpdates DEF GotoLabel
<1>3. PICK p : Became(me, a, b, me.timeOut, me.wait, p) /\ Goto(p)
  BY <1>2
<1>4. p.at = a /\ p.after = b
  BY <1>3 DEF Became
<1>5. ~Asleep(me) \/ Asleep(p) \/ k'.cur \in ReadyTasks(k')
  BY <1>4 DEF Asleep
<1>6. CallsSound'
  BY <1>3, <1>5, GoesTo
<1>. QED
  BY <1>3, <1>4, <1>6

\* The lock is left alone.
LEMMA StepKeeps ==
    ASSUME QueueInv, UNCHANGED lock, Moves(k, k'), NEW a, \E p : Goto(p) /\ p.at = a,
           me.at \in Holding => a \in Holding \ {"unlockrx"}
    PROVE  LockOK'
<1>1. PICK p : Goto(p) /\ p.at = a
  OBVIOUS
<1>2. me.at \in Holding => p.at \in Holding /\ (p.at = "unlockrx" => me.at = "unlockrx")
  BY <1>1
<1>. QED
  BY <1>1, <1>2, MovesHold, LockStays

LEMMA YieldKeeps ==
    ASSUME QueueInv, UNCHANGED program, YieldWithinApi
    PROVE  CallsSound' /\ LockOK'
<1>1. /\ me.at = "yield" /\ k' = SwitchContext(k) /\ GotoLabel("try")
      /\ UNCHANGED <<left, lock>>
  BY DEF YieldWithinApi, Is
<1>2. Sound(k) /\ ReadyTasks(k) # {} /\ k.suspended = 0
  BY <1>1, Whereabouts DEF QueueInv, Placed, Suspending
<1>3. Moves(k, k') /\ k'.cur \in ReadyTasks(k')
  BY <1>1, <1>2, SwitchMoves
<1>4. me.after = "none" /\ "try" \in Labels
  BY <1>1, Known DEF CallOK, Leaving, Labels
<1>. QED
  BY <1>1, <1>3, <1>4, StepSound, StepKeeps DEF Suspending, Holding

LEMMA RecheckKeeps ==
    ASSUME QueueInv, UNCHANGED program, Recheck
    PROVE  CallsSound' /\ LockOK'
<1>1. me.at = "recheck" /\ UNCHANGED <<k, lock>>
  BY DEF Recheck, Is
<1>2. CASE Done
  BY <1>1, <1>2, DoneKeeps
<1>3. CASE GotoLabel("try") /\ UNCHANGED left
  <2>1. me.after = "none" /\ "try" \in Labels /\ Moves(k, k') /\ ~Asleep(me)
    BY <1>1, Known, MovesNot DEF CallOK, Leaving, Labels, QueueInv, Asleep
  <2>. QED
    BY <1>1, <1>3, <2>1, StepSound, StepKeeps DEF Suspending, Holding
<1>. QED
  BY <1>2, <1>3 DEF Recheck

LEMMA CheckAgainKeeps ==
    ASSUME QueueInv, UNCHANGED program, CheckAgain
    PROVE  CallsSound' /\ LockOK'
<1>1. /\ me.at = "check" /\ UNCHANGED <<k, lock, left>>
      /\ \/ Goto([me EXCEPT !.at = "place"])
         \/ Goto([me EXCEPT !.at = "unlocktx", !.after = "retry"])
  BY DEF CheckAgain, Is
<1>2. /\ me.after = "none" /\ Moves(k, k') /\ ~Asleep(me) /\ me.wait > 0
      /\ "place" \in Labels /\ "unlocktx" \in Labels
  BY <1>1, Known, MovesNot DEF CallOK, Leaving, Labels, Suspending, QueueInv, Asleep
<1>3. CASE Goto([me EXCEPT !.at = "place"])
  <2>1. GotoLabel("place")
    BY <1>3 DEF GotoLabel
  <2>. QED
    BY <1>1, <1>2, <2>1, StepSound, StepKeeps DEF Suspending, Holding
<1>4. CASE Goto([me EXCEPT !.at = "unlocktx", !.after = "retry"])
  BY <1>1, <1>2, <1>4, StepSound, StepKeeps DEF Suspending, Holding, Leaving
<1>. QED
  BY <1>1, <1>3, <1>4


LEMMA CheckForTimeOutKeeps ==
    ASSUME QueueInv, UNCHANGED program, CheckForTimeOut
    PROVE  CallsSound' /\ LockOK'
<1>. DEFINE timedOut == TimedOut(k, me.timeOut, me.wait)  to == TimeOutState(k)
            w == me.wait - Elapsed(k, me.timeOut)
            p == [me EXCEPT !.at = "check", !.timeOut = to, !.wait = w]
<1>1. /\ me.at = "timeout" /\ UNCHANGED <<k, lock, left>>
      /\ timedOut => Goto([me EXCEPT !.at = "unlocktx", !.after = "expired"])
      /\ ~timedOut => Goto([me EXCEPT !.at = "check", !.timeOut = to, !.wait = @ - Elapsed(k, me.timeOut)])
  BY DEF CheckForTimeOut, Is
<1>2. /\ me.after = "none" /\ Moves(k, k') /\ ~Asleep(me) /\ me \in Calls
      /\ "check" \in Labels /\ "unlocktx" \in Labels
  BY <1>1, Known, MovesNot DEF CallOK, Leaving, Labels, Suspending, QueueInv, Asleep
<1>3. /\ me.wait \in Ticks /\ me.timeOut.entering \in Int /\ left[cur] \in Ticks
      /\ k.tick \in Ticks /\ Ticks = 0..(TickMod - 1) /\ TickMod \in Nat \ {0, 1}
  <2>1. me.wait \in Ticks /\ me.timeOut \in TimeOuts
    BY <1>2 DEF Calls, TimeOuts
  <2>2. me.timeOut.entering \in (-1)..(TickMod - 1)
    BY <2>1 DEF TimeOuts
  <2>. QED
    BY <2>1, <2>2, Known
<1>4. left[cur] > 0 => ~timedOut /\ Elapsed(k, me.timeOut) = me.wait - left[cur]
  <2>. SUFFICES ASSUME left[cur] > 0
                PROVE  ~timedOut /\ Elapsed(k, me.timeOut) = me.wait - left[cur]
    OBVIOUS
  <2>. DEFINE d == me.wait - left[cur]
  <2>1. Since(k, me.timeOut, d)
    BY Known DEF QueueInv, Counting
  <2>2. d < me.wait
    BY <1>3
  <2>. HIDE DEF d
  <2>3. Elapsed(k, me.timeOut) = d /\ ~timedOut
    BY <1>3, <2>1, <2>2, SinceElapsed
  <2>. QED
    BY <2>3 DEF d
<1>5. CASE timedOut
  <2>1. left[cur] = 0
    BY <1>3, <1>4, <1>5
  <2>2. Goto([me EXCEPT !.at = "unlocktx", !.after = "expired"])
    BY <1>1, <1>5
  <2>. QED
    BY <1>1, <1>2, <2>1, <2>2, StepSound, StepKeeps DEF Suspending, Holding, Leaving
<1>6. CASE ~timedOut
  <2>1. Goto(p)
    BY <1>1, <1>6
  <2>2. Elapsed(k, me.timeOut) \in Nat /\ Elapsed(k, me.timeOut) < me.wait
    <3>1. Elapsed(k, me.timeOut) \in 0..(TickMod - 1)
      BY <1>3 DEF Elapsed
    <3>. QED
      BY <1>3, <1>6, <3>1 DEF TimedOut
  <2>3. w \in Ticks /\ w > 0
    BY <1>3, <2>2
  <2>4. to \in TimeOuts /\ to.entering = k.tick /\ to.overflows = k.overflows
    BY Known DEF TimeOutState, TimeOuts, KState
  <2>5. left[cur] > 0 => w = left[cur]
    BY <1>3, <1>4
  <2>. HIDE DEF to, w
  <2>6. Became(me, "check", "none", to, w, p)
    <3>1. "none" \in {"none", "expired", "retry", "blocked"}
      OBVIOUS
    <3>2. Became(me, "check", me.after, to, w, p)
      BY <1>2, <2>3, <2>4, <3>1, CallUpdates
    <3>. QED
      BY <1>2, <3>2
  <2>. HIDE DEF p
  <2>7. p.at = "check" /\ p.after = "none" /\ p.timeOut = to /\ p.wait = w
        /\ p.op = me.op /\ CallOK(p, program.length)
    BY <2>3, <2>6, BecameOK
  <2>8. Since(k, to, 0)
    BY <1>3, <2>4 DEF Since
  <2>9. left[cur] > 0 => Since(k, p.timeOut, p.wait - left[cur])
    <3>1. left[cur] > 0 => p.wait - left[cur] = 0
      BY <1>3, <2>5, <2>7
    <3>. QED
      BY <2>7, <2>8, <3>1
  <2>10. left' = [left EXCEPT ![cur] = left[cur]]
    <3>1. left \in [Tasks -> Ticks]
      BY DEF QueueInv, Counting
    <3>. QED
      BY <1>1, <3>1
  <2>11. cur # Idle /\ cur \in ReadyTasks(k)
    BY <1>1, <1>2, Whereabouts
  <2>12. p.at \in Suspending <=> me.at \in Suspending
    BY <1>1, <2>7 DEF Suspending
  <2>13. ~(p.after = "expired" \/ p.at = "recheck")
    BY <2>7
  <2>. DEFINE m == left[cur]
  <2>14. m \in Ticks /\ left' = [left EXCEPT ![cur] = m] /\ (m > 0 => Since(k, p.timeOut, p.wait - m))
    BY <1>3, <2>9, <2>10
  <2>. HIDE DEF m
  <2>15. CallsSound'
    BY <1>2, <2>1, <2>7, <2>11, <2>12, <2>13, <2>14, GoesOn
  <2>16. LockOK'
    BY <1>1, <1>2, <2>1, <2>7, StepKeeps DEF Holding
  <2>. QED
    BY <2>15, <2>16
<1>. QED
  BY <1>5, <1>6

LEMMA LockQueueKeeps ==
    ASSUME QueueInv, UNCHANGED program, LockQueue
    PROVE  CallsSound' /\ LockOK'
<1>1. me.at = "lock" /\ UNCHANGED <<k, left>> /\ GotoLabel("timeout")
  BY DEF LockQueue, Is
<1>2. /\ me.after = "none" /\ Moves(k, k') /\ ~Asleep(me) /\ "timeout" \in Labels
  BY <1>1, Known, MovesNot DEF CallOK, Leaving, Labels, Suspending, QueueInv, Asleep
<1>3. CallsSound' /\ \E p : Goto(p) /\ p.at = "timeout"
  BY <1>1, <1>2, StepSound DEF Suspending
<1>4. PICK p : Goto(p) /\ p.at = "timeout"
  BY <1>3
<1>5. k' = k /\ k.suspended = 1 /\ me'.at = "timeout"
  <2>1. pc'[cur] = p
    BY <1>4, Known, PcAfter
  <2>. QED
    BY <1>1, <1>4, <2>1, Whereabouts DEF me, cur, Suspending
<1>6. lock' \in [{"tx", "rx"} -> Int]
  <2>1. lock' = [side \in {"tx", "rx"} |-> IF lock[side] = UNLOCKED
                                          THEN LOCKED_UNMODIFIED ELSE lock[side]]
    BY DEF LockQueue
  <2>. QED
    BY <2>1, LockFacts DEF LOCKED_UNMODIFIED
<1>. QED
  BY <1>3, <1>5, <1>6 DEF LockOK, LockOwned

LEMMA UnlockKeeps ==
    ASSUME QueueInv, UNCHANGED program, UnlockTx \/ UnlockRx
    PROVE  CallsSound' /\ LockOK'
<1>. DEFINE a == IF me.at = "unlocktx" THEN "unlockrx" ELSE "resume"
<1>1. /\ UNCHANGED left /\ GotoLabel(a)
      /\ \/ /\ me.at = "unlocktx" /\ k' = WakeCounted("receive", lock.tx)
            /\ lock' = [lock EXCEPT !.tx = UNLOCKED]
         \/ /\ me.at = "unlockrx" /\ k' = WakeCounted("send", lock.rx)
            /\ lock' = [lock EXCEPT !.rx = UNLOCKED]
  BY DEF UnlockTx, UnlockRx, Is
<1>2. Moves(k, k')
  <2>1. "send" \in EventLists /\ "receive" \in EventLists
    BY Known
  <2>2. Moves(k, WakeCounted("receive", lock.tx)) /\ Moves(k, WakeCounted("send", lock.rx))
    BY <2>1, LockFacts, WakeCountedMoves
  <2>. QED
    BY <1>1, <2>2
<1>3. a \in Labels /\ a # "user" /\ a \in Suspending /\ a \in Leaving /\ a # "recheck"
      /\ a \notin {"check", "place"}
  BY DEF Labels, Suspending, Leaving
<1>4. /\ me.at \in Suspending /\ me.at # "user" /\ me.at # "yield"
      /\ me.after \in {"none", "expired", "retry", "blocked"}
  BY <1>1, Known DEF Suspending, CallOK, Calls
<1>5. me.after = "expired" => left[cur] = 0
  BY Known DEF QueueInv, Counting
<1>6. ~Asleep(me) \/ (a \in Leaving /\ me.after = "blocked")
  BY <1>3, <1>4 DEF Asleep
<1>7. CallsSound' /\ \E p : Goto(p) /\ p.at = a
  <2>. HIDE DEF a
  <2>. QED
    BY <1>1, <1>2, <1>3, <1>4, <1>5, <1>6, StepSound
<1>8. PICK p : Goto(p) /\ p.at = a
  BY <1>7
<1>9. lock' \in [{"tx", "rx"} -> Int]
  BY <1>1, LockFacts DEF UNLOCKED
<1>10. CASE me.at = "unlocktx"
  <2>1. k'.suspended = 1 /\ k'.cur = cur
    BY <1>2, <1>10, LockFacts, Known DEF Moves, Holding
  <2>2. me'.at = "unlockrx"
    <3>1. pc'[cur] = p
      BY <1>8, Known, PcAfter
    <3>. QED
      BY <1>8, <1>10, <2>1, <3>1 DEF me, cur
  <2>3. lock'.tx = UNLOCKED
    BY <1>1, <1>10, LockFacts
  <2>. QED
    BY <1>7, <1>9, <2>1, <2>2, <2>3 DEF LockOK, LockOwned
<1>11. CASE me.at = "unlockrx"
  <2>1. lock'.tx = UNLOCKED /\ lock'.rx = UNLOCKED
    BY <1>1, <1>11, LockFacts
  <2>2. lock' = [tx |-> UNLOCKED, rx |-> UNLOCKED]
    BY <1>9, <2>1
  <2>. QED
    BY <1>7, <1>9, <2>1, <2>2 DEF LockOK, LockOwned
<1>. QED
  BY <1>1, <1>10, <1>11


\* The kernel moved otherwise than Moves says, but no tick passed.
LEMMA CallsAndCounts ==
    ASSUME QueueInv, UNCHANGED <<program, left>>, k'.tick = k.tick, k'.overflows = k.overflows,
           NEW a, a # "user", a \notin {"check", "place"}, NEW b, NEW p, Goto(p),
           Became(me, a, b, me.timeOut, me.wait, p), b # "none" => a \in Leaving,
           b = "expired" \/ a = "recheck" => left[cur] = 0
    PROVE  CallsOK' /\ Counting'
<1>1. CallOK(p, program.length) /\ p.at = a /\ p.after = b /\ p.timeOut = me.timeOut
      /\ p.wait = me.wait
  BY BecameOK
<1>2. CallsOK'
  BY <1>1, Known, GotoKeeps DEF QueueInv
<1>3. /\ SinceKept(k, 0, k') /\ CountTicks(0) = left
      /\ \A to, d : Since(k, to, d) => Since(k', to, d)
  BY NoTick
<1>. DEFINE m == left[cur]
<1>4. m \in Ticks /\ left' = [CountTicks(0) EXCEPT ![cur] = m]
  <2>1. left \in [Tasks -> Ticks] /\ cur \in Tasks
    BY Known DEF QueueInv, Counting
  <2>. QED
    BY <1>3, <2>1
<1>5. m > 0 => Since(k', p.timeOut, p.wait - m)
  BY <1>1, <1>3, Known DEF QueueInv, Counting
<1>6. p.after = "expired" \/ p.at = "recheck" => m = 0
  BY <1>1
<1>. HIDE DEF m
<1>7. Counting'
  BY <1>3, <1>4, <1>5, <1>6, CountingGoes
<1>. QED
  BY <1>2, <1>7

LEMMA SuspendKeeps ==
    ASSUME QueueInv, UNCHANGED program, SuspendScheduler
    PROVE  CallsSound' /\ LockOK'
<1>1. /\ me.at = "suspend" /\ UNCHANGED <<left, lock>> /\ k' = SuspendAll(k) /\ GotoLabel("lock")
  BY DEF SuspendScheduler, Is
<1>2. /\ Sound(k') /\ SameSets(k, k') /\ k'.cur = k.cur /\ k'.suspended = k.suspended + 1
      /\ k'.pendedTicks = k.pendedTicks
  BY <1>1, SuspendAllIs DEF QueueInv
<1>3. DelayedTasks(k') = DelayedTasks(k) /\ ReadyTasks(k') = ReadyTasks(k)
  BY <1>2, SameSetsSound DEF QueueInv, Sound
<1>4. me.after = "none" /\ "lock" \in Labels /\ ~Asleep(me) /\ me \in Calls
  BY <1>1, Known DEF CallOK, Leaving, Labels, Suspending, Asleep
<1>5. cur # Idle /\ cur \in ReadyTasks(k) /\ k.suspended = 0
  BY <1>1, <1>4, Whereabouts DEF Suspending
<1>6. PICK p : Became(me, "lock", "none", me.timeOut, me.wait, p) /\ Goto(p)
  <2>1. me.timeOut \in TimeOuts /\ me.wait \in Ticks
    BY <1>4 DEF Calls, TimeOuts
  <2>. QED
    BY <1>1, <1>4, <2>1, CallUpdates DEF GotoLabel
<1>7. p.at = "lock" /\ p.op = me.op
  BY <1>6 DEF Became
<1>8. CallsOK' /\ Counting'
  BY <1>1, <1>2, <1>6, CallsAndCounts DEF SameSets
<1>9. Waiters'
  <2>1. Fewer(k, k')
    BY <1>2, OrderSame DEF SameSets, Fewer
  <2>. QED
    BY <1>6, <1>7, <2>1, WaitersGo
<1>10. Placed'
  <2>1. \A t \in Tasks : pc'[t] = IF t = cur THEN p ELSE pc[t]
    BY <1>6, PcAfter
  <2>2. cur \in Tasks /\ cur = k.cur /\ Idle \in Tasks
    BY Known
  <2>3. pc'[k'.cur].at = "lock" /\ pc'[Idle] = User
    BY <1>2, <1>5, <1>7, <2>1, <2>2 DEF QueueInv, Placed
  <2>4. \A t \in Tasks \ {k'.cur} : pc'[t].at \notin Suspending
    BY <1>2, <2>1, <2>2 DEF QueueInv, Placed
  <2>. QED
    BY <1>2, <1>3, <1>5, <2>2, <2>3, <2>4 DEF QueueInv, Placed, cur, Suspending
<1>11. LockOK'
  BY <1>1, <1>6, LockStays DEF Holding
<1>. QED
  BY <1>2, <1>8, <1>9, <1>10, <1>11 DEF CallsSound

\* vTaskPlaceOnEventList
LEMMA PlaceKeeps ==
    ASSUME QueueInv, UNCHANGED program, Place
    PROVE  CallsSound' /\ LockOK'
<1>. DEFINE e == Mode(me.op)
<1>1. /\ me.at = "place" /\ UNCHANGED <<left, lock>> /\ k' = PlaceOnEventList(k, e, me.wait)
      /\ Goto([me EXCEPT !.at = "unlocktx", !.after = "blocked"])
  BY DEF Place, Is
<1>2. /\ ~Asleep(me) /\ me \in Calls /\ me.wait \in Ticks \ {0} /\ e \in EventLists
      /\ me.timeOut \in TimeOuts
  <2>1. me \in Calls /\ me.wait > 0 /\ ~Asleep(me)
    BY <1>1, Known DEF CallOK, Asleep, Leaving
  <2>2. e \in EventLists
    BY Known DEF Mode
  <2>. QED
    BY <2>1, <2>2 DEF Calls, TimeOuts
<1>3. cur # Idle /\ cur \in ReadyTasks(k) /\ k.suspended = 1 /\ cur = k.cur
  BY <1>1, <1>2, Whereabouts, Known DEF Suspending
<1>. HIDE DEF e
<1>4. /\ Sleeps(k, me.wait, k') /\ OrderKept(k, k')
      /\ \A d \in EventLists : ToSet(k'.events[d]) =
             IF d = e THEN ToSet(k.events[d]) \cup {k.cur} ELSE ToSet(k.events[d])
  <2>. DEFINE n == me.wait
  <2>1. /\ Sound(k) /\ k.cur \in ReadyTasks(k) /\ n \in Ticks \ {0} /\ e \in EventLists
        /\ k' = PlaceOnEventList(k, e, n)
    BY <1>1, <1>2, <1>3 DEF QueueInv
  <2>. HIDE DEF n
  <2>2. Sleeps(k, n, k') /\ OrderKept(k, k')
    BY <2>1, PlaceSleeps
  <2>3. \A d \in EventLists : ToSet(k'.events[d]) =
             IF d = e THEN ToSet(k.events[d]) \cup {k.cur} ELSE ToSet(k.events[d])
    BY <2>1, PlaceSleeps
  <2>. QED
    BY <2>2, <2>3 DEF n
<1>5. /\ Sound(k') /\ DelayedTasks(k') = DelayedTasks(k) \cup {cur} /\ k'.pending = k.pending
      /\ k'.prio = k.prio /\ k'.cur = k.cur /\ k'.tick = k.tick /\ k'.overflows = k.overflows
      /\ k'.suspended = k.suspended /\ k'.pendedTicks = k.pendedTicks
  BY <1>3, <1>4 DEF Sleeps, SameRest
<1>6. ReadyTasks(k') = ReadyTasks(k) \ {cur}
  <2>1. \A r \in Priorities : ToSet(k'.ready[r].items) = ToSet(k.ready[r].items) \ {cur}
    BY <1>3, <1>4 DEF Sleeps
  <2>. QED
    BY <2>1 DEF ReadyTasks
<1>7. PICK p : Became(me, "unlocktx", "blocked", me.timeOut, me.wait, p) /\ Goto(p)
  <2>1. "unlocktx" \in Labels
    BY DEF Labels, Suspending
  <2>. QED
    BY <1>1, <1>2, <2>1, CallUpdates
<1>8. p.at = "unlocktx" /\ p.after = "blocked" /\ p.op = me.op
  BY <1>7 DEF Became
<1>9. CallsOK' /\ Counting'
  BY <1>1, <1>5, <1>7, CallsAndCounts DEF Leaving
<1>10. \A t \in Tasks : pc'[t] = IF t = cur THEN p ELSE pc[t]
  BY <1>7, PcAfter
<1>11. Waiters'
  <2>1. k'.evValue = ItemValue(k'.prio) /\ \A d \in EventLists : Sorted(k'.events[d], k'.evValue)
    BY <1>4, <1>5 DEF QueueInv, Waiters, OrderKept
  <2>2. ASSUME NEW d \in EventLists, NEW t \in ToSet(k'.events[d]) PROVE Mode(pc'[t].op) = d
    <3>1. k.events[d] \in Seq(Tasks)
      BY Known
    <3>2. CASE t = cur
      <4>1. t \notin ToSet(k.events[d])
        BY <1>3, <3>2, Known
      <4>2. d = e
        BY <1>4, <4>1
      <4>. QED
        BY <1>3, <1>8, <1>10, <3>2, <4>2, Known DEF e
    <3>3. CASE t # cur
      <4>1. t \in ToSet(k.events[d])
        BY <1>3, <1>4, <3>3
      <4>2. t \in Tasks
        BY <3>1, <4>1, ToSetIn
      <4>. QED
        BY <1>10, <3>3, <4>1, <4>2 DEF QueueInv, Waiters
    <3>. QED
      BY <3>2, <3>3
  <2>. QED
    BY <2>1, <2>2 DEF Waiters
<1>12. Placed'
  <2>1. cur \in Tasks /\ Idle \in Tasks
    BY Known
  <2>2. pc'[k'.cur] = p /\ pc'[Idle] = User
    BY <1>3, <1>5, <1>10, <2>1 DEF QueueInv, Placed
  <2>3. \A t \in Tasks \ {k'.cur} : pc'[t].at \notin Suspending
    BY <1>3, <1>5, <1>10, <2>1 DEF QueueInv, Placed
  <2>4. Asleep(p) /\ p.at \in Suspending
    BY <1>8 DEF Asleep, Leaving, Suspending
  <2>5. ReadyTasks(k') \cup DelayedTasks(k') = Tasks /\ Idle \in ReadyTasks(k')
    BY <1>3, <1>5, <1>6, <2>1 DEF QueueInv, Placed
  <2>. QED
    BY <1>3, <1>5, <2>2, <2>3, <2>4, <2>5 DEF QueueInv, Placed, cur
<1>13. LockOK'
  BY <1>1, <1>5, <1>7, <1>8, LockStays DEF Holding
<1>. QED
  BY <1>5, <1>9, <1>11, <1>12, <1>13 DEF CallsSound


\* Ticks pass, for every task.
LEMMA CountsDown ==
    ASSUME QueueInv, NEW n \in Nat, SinceKept(k, n, k'), NEW p, Goto(p),
           p.timeOut = me.timeOut, p.wait = me.wait, left' = CountTicks(n),
           p.after = "expired" \/ p.at = "recheck" => left[cur] = 0
    PROVE  Counting'
<1>. DEFINE m == CountTicks(n)[cur]
<1>1. /\ left[cur] \in 0..(TickMod - 1) /\ me.wait \in 0..(TickMod - 1) /\ cur \in Tasks
      /\ Ticks = 0..(TickMod - 1) /\ TickMod \in Nat \ {0, 1}
  BY Known DEF CallOK, Calls
<1>2. m = IF left[cur] > n THEN left[cur] - n ELSE 0
  BY <1>1 DEF CountTicks
<1>3. m \in Ticks /\ left' = [CountTicks(n) EXCEPT ![cur] = m]
  BY <1>1, <1>2 DEF CountTicks
<1>4. ASSUME m > 0 PROVE Since(k', p.timeOut, p.wait - m)
  <2>. DEFINE d == me.wait - left[cur]
  <2>1. left[cur] > n /\ m = left[cur] - n
    BY <1>1, <1>2, <1>4
  <2>2. Since(k, me.timeOut, d)
    BY <1>1, <2>1, Known DEF QueueInv, Counting
  <2>3. d + n < TickMod /\ p.wait - m = d + n
    BY <1>1, <2>1
  <2>. HIDE DEF d, m
  <2>. QED
    BY <2>2, <2>3 DEF SinceKept
<1>5. p.after = "expired" \/ p.at = "recheck" => m = 0
  BY <1>1, <1>2
<1>. HIDE DEF m
<1>. QED
  BY <1>3, <1>4, <1>5, CountingGoes

\* The ready lists take in the tasks of W.
LEMMA ReadyWith ==
    ASSUME NEW a, a.prio \in [Tasks -> Priorities], NEW W \in SUBSET Tasks, NEW r,
           \A p \in Priorities : ToSet(r.ready[p].items) =
               ToSet(a.ready[p].items) \cup {t \in W : a.prio[t] = p}
    PROVE  ReadyTasks(r) = ReadyTasks(a) \cup W
<1>1. ReadyTasks(r) \subseteq ReadyTasks(a) \cup W
  BY DEF ReadyTasks
<1>2. ReadyTasks(a) \subseteq ReadyTasks(r)
  BY DEF ReadyTasks
<1>3. ASSUME NEW t \in W PROVE t \in ReadyTasks(r)
  <2>1. a.prio[t] \in Priorities
    BY <1>3
  <2>2. t \in ToSet(r.ready[a.prio[t]].items)
    BY <2>1
  <2>. QED
    BY <2>1, <2>2 DEF ReadyTasks
<1>. QED
  BY <1>1, <1>2, <1>3

\* vTickISR
LEMMA TickKeeps ==
    ASSUME QueueInv, UNCHANGED program, TickISR
    PROVE  CallsSound' /\ LockOK' /\ Fewer(k, k')
<1>1. /\ k.pendedTicks < MaxPended /\ k' = SwitchContext(IncrementTick(k))
      /\ left' = (IF k.suspended = 0 THEN CountTicks(1) ELSE left)
      /\ UNCHANGED <<lock, pc>>
  BY DEF TickISR
<1>2. Goto(me) /\ CallsOK' /\ Sound(k) /\ Idle \in ReadyTasks(k)
  BY <1>1, StillHere DEF QueueInv, CallsOK, Placed
<1>3. me.after = "expired" \/ me.at = "recheck" => left[cur] = 0
  BY Known DEF QueueInv, Counting
<1>4. CASE k.suspended = 0
  <2>. DEFINE a == AdvanceTick(k)
  <2>1. k.pending = <<>> /\ k' = SwitchContext(a) /\ left' = CountTicks(1)
    BY <1>1, <1>4 DEF QueueInv, Placed, IncrementTick
  <2>2. PICK W \in SUBSET DelayedTasks(k) : Advances(k, W, 1, a)
    BY <1>2, <2>1, AdvanceTickIs
  <2>. HIDE DEF a
  <2>3. /\ Sound(a) /\ SinceKept(k, 1, a) /\ a.pendedTicks = k.pendedTicks
        /\ a.suspended = 0 /\ a.prio = k.prio /\ OrderKept(k, a)
        /\ DelayedTasks(a) = DelayedTasks(k) \ W
        /\ \A e \in EventLists : ToSet(a.events[e]) \subseteq ToSet(k.events[e])
    BY <1>4, <2>2 DEF Advances, Awakened
  <2>4. ReadyTasks(a) = ReadyTasks(k) \cup W
    <3>1. \A p \in Priorities : ToSet(a.ready[p].items) =
             ToSet(k.ready[p].items) \cup {t \in W : k.prio[t] = p}
      BY <2>2 DEF Advances, Awakened
    <3>2. W \in SUBSET Tasks /\ k.prio \in [Tasks -> Priorities]
      BY Known
    <3>. QED
      BY <3>1, <3>2, ReadyWith
  <2>5. Moves(a, k') /\ k'.cur \in ReadyTasks(k')
    BY <1>2, <2>1, <2>3, <2>4, SwitchMoves
  <2>6. a.pending = <<>>
    <3>1. ToSet(a.pending) = {}
      <4>1. ToSet(k.pending) = {}
        BY <2>1 DEF ToSet
      <4>. QED
        BY <2>2, <4>1 DEF Advances, Awakened
    <3>2. a.pending \in Seq(Tasks)
      BY <2>3, KernelFields DEF Sound, WellFormed
    <3>. QED
      BY <3>1, <3>2, NoPending
  <2>7. Placed'
    <3>1. \A t \in Tasks : pc[t].at \notin Suspending
      BY <1>4 DEF QueueInv, Placed
    <3>2. k' \in KState /\ k'.cur \in Tasks
      BY <2>5, KernelFields DEF Moves, Sound, WellFormed
    <3>3. ReadyTasks(k') \cup DelayedTasks(k') = Tasks /\ Idle \in ReadyTasks(k')
      BY <1>2, <2>2, <2>3, <2>4, <2>5 DEF Moves, QueueInv, Placed
    <3>4. k'.suspended = 0 /\ k'.pending = <<>> /\ k'.pendedTicks = 0
      BY <1>4, <2>3, <2>5, <2>6 DEF Moves, QueueInv, Placed
    <3>5. 0 \in 0..MaxPended
      BY QueueAssumption
    <3>. QED
      BY <1>1, <2>5, <3>1, <3>2, <3>3, <3>4, <3>5 DEF QueueInv, Placed, cur
  <2>8. Waiters' /\ Fewer(k, k')
    <3>1. Fewer(k, k')
      <4>1. OrderKept(k, k')
        BY <2>3, <2>5, OrderBoth DEF Moves
      <4>. QED
        BY <2>3, <2>5, <4>1 DEF Moves, Fewer
    <3>. QED
      BY <1>2, <3>1, WaitersGo
  <2>9. Counting'
    <3>1. SinceKept(k, 1, k')
      BY <2>3, <2>5 DEF SinceKept, Since, Moves
    <3>. DEFINE p == me
    <3>2. Goto(p) /\ p.timeOut = me.timeOut /\ p.wait = me.wait
          /\ (p.after = "expired" \/ p.at = "recheck" => left[cur] = 0)
      BY <1>2, <1>3
    <3>. HIDE DEF p
    <3>. QED
      BY <2>1, <3>1, <3>2, CountsDown
  <2>10. LockOK'
    <3>1. me.at \notin Holding
      BY <1>4, LockFacts
    <3>. QED
      BY <1>1, <1>2, <3>1, LockStays
  <2>. QED
    BY <1>2, <2>5, <2>7, <2>8, <2>9, <2>10 DEF CallsSound, Moves
<1>5. CASE k.suspended # 0
  <2>1. /\ Sound(k') /\ SameSets(k, k') /\ k'.cur = k.cur /\ k'.suspended = k.suspended
        /\ k'.pendedTicks = k.pendedTicks + 1 /\ k'.yieldPending
    BY <1>1, <1>2, <1>5, TickPends
  <2>2. DelayedTasks(k') = DelayedTasks(k) /\ ReadyTasks(k') = ReadyTasks(k)
    BY <1>2, <2>1, SameSetsSound DEF Sound
  <2>3. k'.pendedTicks \in 0..MaxPended
    BY <1>1, <2>1, QueueAssumption DEF QueueInv, Placed
  <2>4. Placed'
    BY <1>1, <1>5, <2>1, <2>2, <2>3 DEF QueueInv, Placed, cur
  <2>5. Waiters' /\ Fewer(k, k')
    <3>1. Fewer(k, k')
      BY <2>1, OrderSame DEF SameSets, Fewer
    <3>. QED
      BY <1>2, <3>1, WaitersGo
  <2>6. Counting'
    <3>1. /\ SinceKept(k, 0, k') /\ CountTicks(0) = left
      BY <2>1, NoTick DEF SameSets
    <3>. DEFINE p == me
    <3>2. Goto(p) /\ p.timeOut = me.timeOut /\ p.wait = me.wait
          /\ (p.after = "expired" \/ p.at = "recheck" => left[cur] = 0)
      BY <1>2, <1>3
    <3>3. left' = CountTicks(0)
      BY <1>1, <1>5, <3>1
    <3>. HIDE DEF p
    <3>. QED
      BY <3>1, <3>2, <3>3, CountsDown
  <2>7. LockOK'
    BY <1>1, <1>2, <2>1, LockStays
  <2>. QED
    BY <1>2, <2>1, <2>4, <2>5, <2>6, <2>7 DEF CallsSound
<1>. QED
  BY <1>4, <1>5


\* xTaskResumeAll, and what the call does after it
LEMMA ResumeKeeps ==
    ASSUME QueueInv, UNCHANGED program, Resume
    PROVE  CallsSound' /\ LockOK' /\ Fewer(k, k')
<1>. DEFINE r == Resumed(k)  n == k.pendedTicks
            over == me.after = "expired" /\ me.op \in Sends
            goesTo == CASE me.after = "expired" -> "recheck"
                        [] me.after = "retry" -> "try"
                        [] OTHER -> IF AlreadyYielded(k) THEN "try" ELSE "yield"
<1>1. /\ me.at = "resume" /\ k' = ResumeAll(k) /\ UNCHANGED lock
      /\ over => Goto(User) /\ left' = [CountTicks(n) EXCEPT ![cur] = 0]
      /\ ~over => Goto([me EXCEPT !.after = "none", !.at = goesTo]) /\ left' = CountTicks(n)
  BY DEF Resume, Is
<1>2. k.suspended = 1 /\ cur # Idle /\ Sound(k) /\ n \in Nat /\ cur = k.cur /\ me \in Calls
  BY <1>1, Whereabouts, Known DEF Suspending, QueueInv, CallOK
<1>3. /\ AlreadyYielded(k) <=> r.yieldPending
      /\ k' = IF r.yieldPending THEN SwitchContext(r) ELSE r
  BY <1>1, <1>2 DEF AlreadyYielded, ResumeAll
<1>4. PICK W : Resumes(k, W, r)
  BY <1>2, ResumedIs
<1>. HIDE DEF r
<1>5. /\ Sound(r) /\ W \subseteq DelayedTasks(k) /\ DelayedTasks(r) = DelayedTasks(k) \ W
      /\ r.prio = k.prio /\ r.cur = k.cur /\ r.suspended = 0 /\ r.pendedTicks = 0
      /\ r.pending = <<>> /\ SinceKept(k, n, r) /\ OrderKept(k, r)
      /\ \A e \in EventLists : ToSet(r.events[e]) \subseteq ToSet(k.events[e])
  BY <1>4 DEF Resumes
<1>6. ReadyTasks(r) = ReadyTasks(k) \cup W
  <2>1. \A p \in Priorities : ToSet(r.ready[p].items) =
           ToSet(k.ready[p].items) \cup {t \in W : k.prio[t] = p}
    BY <1>4 DEF Resumes
  <2>2. W \in SUBSET Tasks /\ k.prio \in [Tasks -> Priorities]
    BY <1>5, Known
  <2>. QED
    BY <2>1, <2>2, ReadyWith
<1>7. Moves(r, k') /\ (r.yieldPending => k'.cur \in ReadyTasks(k'))
  <2>1. ReadyTasks(r) # {}
    BY <1>6 DEF QueueInv, Placed
  <2>2. Moves(r, r) /\ Moves(r, SwitchContext(r))
        /\ SwitchContext(r).cur \in ReadyTasks(SwitchContext(r))
    BY <1>5, <2>1, MovesNot, SwitchMoves
  <2>. QED
    BY <1>3, <2>2
<1>8. goesTo \in {"recheck", "try", "yield"} /\ (goesTo = "recheck" => me.after = "expired")
      /\ (me.after = "blocked" => goesTo = "yield" \/ r.yieldPending)
  BY <1>3
<1>. HIDE DEF goesTo
<1>9. \E p : /\ Goto(p) /\ CallOK(p, program.length) /\ p.at \notin Suspending
             /\ p.op = me.op \/ cur \in ReadyTasks(k)
             /\ cur \in ReadyTasks(k) \/ p.at = "yield" \/ r.yieldPending
             /\ Counting'
  <2>1. me.after = "expired" => left[cur] = 0
    BY Known DEF QueueInv, Counting
  <2>2. me.after # "blocked" => cur \in ReadyTasks(k)
    BY <1>1, Whereabouts DEF Asleep
  <2>3. SinceKept(k, n, k')
    BY <1>5, <1>7 DEF SinceKept, Since, Moves
  <2>4. CASE over
    <3>1. Goto(User) /\ left' = [CountTicks(n) EXCEPT ![cur] = 0] /\ 0 \in Ticks
      BY <1>1, <2>4, Known
    <3>2. CallOK(User, program.length) /\ User.at \notin Suspending /\ User.after = "none"
          /\ User.at = "user"
      BY UserOK DEF Suspending
    <3>. DEFINE p == User  m == 0
    <3>3. /\ Goto(p) /\ left' = [CountTicks(n) EXCEPT ![cur] = m] /\ m \in Ticks
          /\ m > 0 => Since(k', p.timeOut, p.wait - m)
          /\ p.after = "expired" \/ p.at = "recheck" => m = 0
      BY <3>1
    <3>. HIDE DEF p, m
    <3>4. Counting'
      BY <1>2, <2>3, <3>3, CountingGoes
    <3>. QED
      BY <2>2, <2>4, <3>1, <3>2, <3>4
  <2>5. CASE ~over
    <3>. DEFINE p == [me EXCEPT !.after = "none", !.at = goesTo]
    <3>1. Goto(p) /\ left' = CountTicks(n)
      BY <1>1, <2>5
    <3>2. goesTo \in Labels /\ goesTo # "user" /\ goesTo \notin {"check", "place"}
      BY <1>8 DEF Labels
    <3>3. Became(me, goesTo, "none", me.timeOut, me.wait, p)
      <4>1. me.timeOut \in TimeOuts /\ me.wait \in Ticks
        BY <1>2 DEF Calls, TimeOuts
      <4>. QED
        BY <1>2, <3>2, <4>1, CallUpdates
    <3>. HIDE DEF p
    <3>4. CallOK(p, program.length) /\ p.at = goesTo /\ p.after = "none"
          /\ p.timeOut = me.timeOut /\ p.wait = me.wait /\ p.op = me.op
      BY <3>2, <3>3, BecameOK
    <3>5. p.at \notin Suspending
      BY <1>8, <3>4 DEF Suspending
    <3>6. Counting'
      BY <1>2, <1>8, <2>1, <2>3, <3>1, <3>4, CountsDown
    <3>. QED
      BY <1>8, <2>2, <3>1, <3>4, <3>5, <3>6
  <2>. QED
    BY <2>4, <2>5
<1>10. PICK p : /\ Goto(p) /\ CallOK(p, program.length) /\ p.at \notin Suspending
                /\ p.op = me.op \/ cur \in ReadyTasks(k)
                /\ cur \in ReadyTasks(k) \/ p.at = "yield" \/ r.yieldPending
                /\ Counting'
  BY <1>9
<1>11. CallsOK'
  BY <1>10, Known, GotoKeeps DEF QueueInv
<1>12. Waiters' /\ Fewer(k, k')
  <2>1. OrderKept(k, k')
    BY <1>5, <1>7, OrderBoth DEF Moves
  <2>2. Fewer(k, k')
    BY <1>5, <1>7, <2>1 DEF Moves, Fewer
  <2>. QED
    BY <1>10, <2>2, WaitersGo
<1>13. Placed'
  <2>1. \A t \in Tasks : pc'[t] = IF t = cur THEN p ELSE pc[t]
    BY <1>10, PcAfter
  <2>2. \A t \in Tasks : pc'[t].at \notin Suspending
    BY <1>10, <2>1 DEF QueueInv, Placed
  <2>3. k'.cur \in Tasks /\ cur \in Tasks /\ Idle \in Tasks
    BY <1>7, KernelFields, Known DEF Moves, Sound, WellFormed
  <2>4. ReadyTasks(k') \cup DelayedTasks(k') = Tasks /\ Idle \in ReadyTasks(k')
    BY <1>5, <1>6, <1>7 DEF Moves, QueueInv, Placed
  <2>5. k'.suspended = 0 /\ k'.pending = <<>> /\ k'.pendedTicks = 0
    BY <1>5, <1>7 DEF Moves
  <2>6. pc'[Idle] = User
    BY <1>2, <2>1, <2>3 DEF QueueInv, Placed
  <2>7. k'.cur \in ReadyTasks(k') \/ Asleep(pc'[k'.cur])
    <3>1. CASE r.yieldPending
      BY <1>7, <3>1
    <3>2. CASE ~r.yieldPending
      <4>1. k'.cur = cur /\ pc'[k'.cur] = p
        BY <1>2, <1>3, <1>5, <2>1, <2>3, <3>2
      <4>2. cur \in ReadyTasks(k) => cur \in ReadyTasks(k')
        BY <1>6, <1>7 DEF Moves
      <4>. QED
        BY <1>10, <3>2, <4>1, <4>2 DEF Asleep
    <3>. QED
      BY <3>1, <3>2
  <2>8. 0 \in 0..MaxPended
    BY QueueAssumption
  <2>. QED
    BY <2>2, <2>3, <2>4, <2>5, <2>6, <2>7, <2>8 DEF Placed, cur
<1>14. LockOK'
  <2>1. me.at \notin Holding
    BY <1>1 DEF Holding
  <2>. QED
    BY <1>1, <1>10, <2>1, LockStays
<1>. QED
  BY <1>7, <1>10, <1>11, <1>12, <1>13, <1>14 DEF CallsSound, Moves


\* xQueueGenericReset: the queue is not locked, its caller being the task that runs.
LEMMA ResetKeeps ==
    ASSUME QueueInv, UNCHANGED program, ResetQueue
    PROVE  CallsSound' /\ LockOK'
<1>1. /\ me.at = "user" /\ UNCHANGED <<pc, left>> /\ k' = Woken("send")
      /\ lock' = [tx |-> UNLOCKED, rx |-> UNLOCKED]
  BY DEF ResetQueue, Is
<1>2. Moves(k, k')
  <2>1. "send" \in EventLists
    BY Known
  <2>. QED
    BY <1>1, <2>1, WokenMoves
<1>3. CallsSound'
  BY <1>1, <1>2, StaysThere
<1>4. LockOK'
  <2>1. lock' \in [{"tx", "rx"} -> Int] /\ lock'.tx = UNLOCKED
    BY <1>1 DEF UNLOCKED
  <2>. QED
    BY <1>1, <2>1 DEF LockOK, LockOwned
<1>. QED
  BY <1>3, <1>4

LEMMA IsrKeeps ==
    ASSUME QueueInv, UNCHANGED program,
           ReceiveFromISR \/ \E x \in program.items, position \in Sends : SendFromISR(x, position)
    PROVE  CallsSound' /\ LockOK'
<1>1. /\ UNCHANGED <<pc, left>>
      /\ IsrWakes("receive", "tx") \/ IsrWakes("send", "rx")
  BY DEF ReceiveFromISR, SendFromISR
<1>2. "send" \in EventLists /\ "receive" \in EventLists
  BY Known
<1>3. LockOK' /\ Moves(k, k')
  <2>1. CASE IsrWakes("receive", "tx")
    BY <1>1, <1>2, <2>1, CountingLocks
  <2>2. CASE IsrWakes("send", "rx")
    BY <1>1, <1>2, <2>2, CountingLocks
  <2>. QED
    BY <1>1, <2>1, <2>2
<1>. QED
  BY <1>1, <1>3, StaysThere

LEMMA NextKeeps ==
    ASSUME QueueInv, [Next]_vars
    PROVE  QueueInv' /\ UNCHANGED program /\ [Fifo!Next]_(Fifo!vars)
<1>1. BufferOK' /\ UNCHANGED program /\ [Fifo!Next]_(Fifo!vars)
  BY StepIsFifo, Known DEF QueueInv
<1>2. CallsSound' /\ LockOK'
  <2>1. CASE UNCHANGED vars
    <3>1. UNCHANGED <<program, pc, left, k, lock>>
      BY <2>1 DEF vars
    <3>2. Moves(k, k') /\ Goto(me)
      BY <3>1, MovesNot, StillHere DEF QueueInv
    <3>3. k'.suspended = k.suspended /\ k'.cur = k.cur
      BY <3>1
    <3>. QED
      BY <3>1, <3>2, <3>3, StaysThere, LockStays
  <2>2. CASE Next
    <3>1. program \in Programs /\ program.items \subseteq Items /\ User.item \in Items
      BY QueueAssumption, UserOK DEF QueueInv, BufferOK, CallOK, Calls
    <3>2. ASSUME NEW op \in Sends, NEW x \in program.items, NEW n \in program.waits, Call(op, x, n)
          PROVE  CallsSound' /\ LockOK'
      BY <1>1, <3>1, <3>2, CallKeeps
    <3>3. ASSUME NEW op \in Receives, NEW n \in program.waits, Call(op, User.item, n)
          PROVE  CallsSound' /\ LockOK'
      BY <1>1, <3>1, <3>3, CallKeeps
    <3>4. CASE CallStep
      BY <1>1, <3>4, SucceedsKeeps, SetTimeOutKeeps, SuspendKeeps, LockQueueKeeps,
         CheckForTimeOutKeeps, CheckAgainKeeps, PlaceKeeps, UnlockKeeps, ResumeKeeps,
         YieldKeeps, RecheckKeeps DEF CallStep
    <3>5. CASE ResetQueue
      BY <1>1, <3>5, ResetKeeps
    <3>6. CASE ReceiveFromISR \/ \E x \in program.items, position \in Sends : SendFromISR(x, position)
      BY <1>1, <3>6, IsrKeeps
    <3>7. CASE TickISR
      BY <1>1, <3>7, TickKeeps
    <3>. QED
      BY <2>2, <3>2, <3>3, <3>4, <3>5, <3>6, <3>7 DEF Next
  <2>. QED
    BY <2>1, <2>2
<1>. QED
  BY <1>1, <1>2 DEF QueueInv, CallsSound

LEMMA InitHolds == Init => QueueInv /\ Fifo!Init /\ \A e \in EventLists : k.events[e] = <<>>
<1>. SUFFICES ASSUME Init PROVE QueueInv /\ Fifo!Init /\ \A e \in EventLists : k.events[e] = <<>>
  OBVIOUS
<1>. DEFINE n == program.length
            f == [s \in 0..(n - 1) |-> User.item]
            b == [length |-> n, writeTo |-> 0, readFrom |-> 0, store |-> f, waiting |-> 0]
<1>1. program \in Programs /\ n \in Nat \ {0} /\ q = Reset(b)
  BY QueueAssumption DEF Init
<1>2. User.item \in Items /\ User \in Calls
  BY UserOK DEF CallOK, Calls
<1>3. b \in StoresOf(n)
  BY <1>1, <1>2 DEF StoresOf
<1>4. StoreOK(q, n) /\ Contents(q) = <<>> /\ q.length = n
  BY <1>1, <1>3, ResetEmpties DEF StoreOK, StoresOf
<1>5. BufferOK /\ Fifo!Init
  BY <1>1, <1>2, <1>4 DEF Init, BufferOK, Fifo!Init
<1>6. PICK order \in SetToSeqs(Tasks \ {Idle}) : k = StartedWith(Append(order, Idle), InitPrio)
  BY DEF Init
<1>7. /\ Idle \in Tasks /\ InitPrio \in [Tasks -> Priorities] /\ IsFiniteSet(Tasks)
      /\ 0 \in 0..MaxPended /\ 0 \in Ticks
  BY QueueAssumption, TaskListsAssumption DEF Ticks
<1>. DEFINE s == Append(order, Idle)
<1>8. s \in Seq(Tasks) /\ IsInjective(s) /\ ToSet(s) = Tasks /\ s # <<>>
  <2>1. order \in Seq(Tasks) /\ IsInjective(order) /\ ToSet(order) = Tasks \ {Idle}
    BY <1>7, OrderIs
  <2>2. s \in Seq(Tasks) /\ IsInjective(s) /\ ToSet(s) = ToSet(order) \cup {Idle}
    <3>1. Idle \in Tasks /\ order \in Seq(Tasks) /\ IsInjective(order) /\ Idle \notin ToSet(order)
      BY <1>7, <2>1
    <3>. QED
      BY <3>1, AppendIs
  <2>3. ToSet(s) = Tasks
    BY <1>7, <2>1, <2>2
  <2>. HIDE DEF s
  <2>. QED
    BY <1>7, <2>2, <2>3 DEF ToSet
<1>9. Started(Tasks, InitPrio, k)
  <2>. HIDE DEF s
  <2>. QED
    BY <1>6, <1>7, <1>8, StartedWithIs DEF s
<1>10. Sound(k) /\ DelayedTasks(k) = {} /\ ReadyTasks(k) = Tasks
  <2>1. Tasks \subseteq Tasks
    OBVIOUS
  <2>. QED
    BY <1>7, <1>9, <2>1, StartedSound
<1>11. /\ k.pending = <<>> /\ k.evValue = ItemValue(k.prio) /\ k.suspended = 0
       /\ k.pendedTicks = 0 /\ k.cur \in Tasks /\ \A e \in EventLists : k.events[e] = <<>>
  BY <1>7, <1>9 DEF Started
<1>12. pc = [t \in Tasks |-> User] /\ left = [t \in Tasks |-> 0]
       /\ lock = [tx |-> UNLOCKED, rx |-> UNLOCKED]
  BY DEF Init
<1>13. CallsOK
  BY <1>2, <1>12, UserOK DEF CallsOK
<1>14. Placed
  BY <1>7, <1>10, <1>11, <1>12, UserOK DEF Placed, Suspending, cur
<1>15. Waiters
  <2>1. \A e \in EventLists : ToSet(k.events[e]) = {} /\ Sorted(k.events[e], k.evValue)
    BY <1>11 DEF ToSet, Sorted
  <2>. QED
    BY <1>11, <2>1 DEF Waiters
<1>16. Counting
  BY <1>7, <1>12, UserOK DEF Counting
<1>17. LockOK
  <2>1. lock \in [{"tx", "rx"} -> Int] /\ lock.tx = UNLOCKED
    BY <1>12 DEF UNLOCKED
  <2>. QED
    BY <1>12, <2>1 DEF LockOK, LockOwned
<1>. QED
  BY <1>5, <1>10, <1>11, <1>13, <1>14, <1>15, <1>16, <1>17 DEF QueueInv

-----------------------------------------------------------------------------
(* The theorems *)

\* queue.c with tasks.c: after every step of tasks, interrupts and the tick, the buffer,
\* the calls, the kernel's lists, the timeouts and the lock agree.
THEOREM QueueInvariant == Spec => []QueueInv
<1>1. Init => QueueInv
  BY InitHolds
<1>2. QueueInv /\ [Next]_vars => QueueInv'
  BY NextKeeps
<1>. QED
  BY <1>1, <1>2, PTL DEF Spec

\* queue.c: the queue is a bounded FIFO whatever tasks and interrupts do between its
\* critical sections.
THEOREM QueueImplementsFifo == Spec => QueueIsFifo
<1>1. Init => QueueInv /\ Fifo!Init
  BY InitHolds
<1>2. QueueInv /\ [Next]_vars => QueueInv' /\ [Fifo!Next]_(Fifo!vars)
  BY NextKeeps
<1>. QED
  BY <1>1, <1>2, PTL DEF Spec, QueueIsFifo, Fifo!Spec


-----------------------------------------------------------------------------
(* WaitersOrdered: the counts of a locked queue fit, and the lists are sorted. *)

CountsFit == lock.tx \in UNLOCKED..LockMax /\ lock.rx \in UNLOCKED..LockMax

LEMMA CountsStayFit ==
    ASSUME MaxCounted <= LockMax, QueueInv, CountsFit, [Next]_vars
    PROVE  CountsFit'
<1>1. LockMax \in Nat /\ MaxCounted \in Nat /\ UNLOCKED = -1
  BY QueueAssumption DEF UNLOCKED
<1>2. /\ lock \in [{"tx", "rx"} -> Int] /\ UNLOCKED \in UNLOCKED..LockMax
      /\ LOCKED_UNMODIFIED \in UNLOCKED..LockMax
  BY <1>1, LockFacts DEF LOCKED_UNMODIFIED
<1>3. CASE UNCHANGED lock
  BY <1>3 DEF CountsFit
<1>4. ASSUME NEW side \in {"tx", "rx"}, NEW e, IsrWakes(e, side) PROVE CountsFit'
  <2>1. lock' = lock \/ (/\ lock[side] # UNLOCKED /\ lock[side] < MaxCounted
                         /\ lock' = [lock EXCEPT ![side] = Counted(@)])
    BY <1>4 DEF IsrWakes
  <2>2. lock[side] < MaxCounted /\ lock[side] \in UNLOCKED..LockMax =>
           Counted(lock[side]) \in UNLOCKED..LockMax
    BY <1>1 DEF Counted
  <2>. QED
    BY <1>2, <2>1, <2>2 DEF CountsFit
<1>5. CASE LockQueue
  <2>1. lock' = [side \in {"tx", "rx"} |-> IF lock[side] = UNLOCKED
                                          THEN LOCKED_UNMODIFIED ELSE lock[side]]
    BY <1>5 DEF LockQueue
  <2>. QED
    BY <1>2, <2>1 DEF CountsFit
<1>6. CASE UnlockTx \/ UnlockRx
  BY <1>2, <1>6 DEF UnlockTx, UnlockRx, CountsFit
<1>7. CASE ResetQueue
  BY <1>2, <1>7 DEF ResetQueue, CountsFit
<1>8. ASSUME NEW x, NEW position, SendFromISR(x, position) PROVE CountsFit'
  BY <1>4, <1>8 DEF SendFromISR
<1>9. CASE ReceiveFromISR
  BY <1>4, <1>9 DEF ReceiveFromISR
<1>10. ASSUME NEW op, NEW x, NEW n, Call(op, x, n) PROVE UNCHANGED lock
  BY <1>10 DEF Call
<1>11. CASE \/ Send \/ Receive \/ Peek \/ GiveUpAtOnce \/ SetTimeOut
            \/ SuspendScheduler \/ CheckForTimeOut \/ CheckAgain \/ Place
            \/ Resume \/ YieldWithinApi \/ Recheck \/ TickISR
  <2>1. UNCHANGED lock
    BY <1>11 DEF Send, Receive, Peek, GiveUpAtOnce, SetTimeOut, SuspendScheduler,
       CheckForTimeOut, CheckAgain, Place, Resume, YieldWithinApi, Recheck, TickISR
  <2>. QED
    BY <1>3, <2>1
<1>12. CASE UNCHANGED vars
  BY <1>3, <1>12 DEF vars
<1>. QED
  BY <1>3, <1>5, <1>6, <1>7, <1>8, <1>9, <1>10, <1>11, <1>12 DEF Next, CallStep

LEMMA InvOrdered == QueueInv /\ CountsFit => WaitersOrdered
<1>. SUFFICES ASSUME QueueInv, CountsFit PROVE WaitersOrdered
  OBVIOUS
<1>1. TypeOK
  <2>1. \A t \in Tasks : pc[t].op \in Sends \cup Receives \cup {"none"}
    <3>. TAKE t \in Tasks
    <3>1. pc[t] \in Calls
      BY DEF QueueInv, CallsOK
    <3>. QED
      BY <3>1 DEF Calls
  <2>2. k.cur \in Tasks /\ k.suspended \in 0..1 /\ k.pendedTicks \in 0..MaxPended
    BY Known DEF QueueInv, Placed
  <2>. QED
    BY <2>1, <2>2 DEF TypeOK, QueueInv, BufferOK, StoreOK, CountsFit, Counting
<1>2. ASSUME NEW e \in EventLists, NEW i \in DOMAIN k.events[e], NEW j \in DOMAIN k.events[e], i < j
      PROVE  k.prio[k.events[e][i]] >= k.prio[k.events[e][j]]
  <2>. DEFINE t == k.events[e][i]  u == k.events[e][j]
  <2>1. k.evValue[t] <= k.evValue[u]
    BY <1>2 DEF QueueInv, Waiters, Sorted
  <2>2. t \in Tasks /\ u \in Tasks
    BY <1>2, Known
  <2>. HIDE DEF t, u
  <2>3. /\ k.evValue[t] = Highest(Priorities) + 1 - k.prio[t]
        /\ k.evValue[u] = Highest(Priorities) + 1 - k.prio[u]
    BY <2>2 DEF QueueInv, Waiters, ItemValue
  <2>4. k.prio[t] \in Int /\ k.prio[u] \in Int /\ Highest(Priorities) \in Int
    <3>1. k.prio[t] \in Priorities /\ k.prio[u] \in Priorities
      BY <2>2, Known
    <3>. QED
      BY <3>1, TaskListsAssumption
  <2>5. k.prio[t] >= k.prio[u]
    BY <2>1, <2>3, <2>4
  <2>. QED
    BY <2>5 DEF t, u
<1>. QED
  BY <1>1, <1>2 DEF WaitersOrdered, QueueInv, LockOK, Waiters

\* vTaskPlaceOnEventList, prvLockQueue and prvUnlockQueue: the waiting tasks are ordered by
\* priority, each on the list of its own direction, and the queue is locked only by the
\* task that runs, whatever interrupts do meanwhile -- as long as they send, or receive,
\* no more items in one lock than cTxLock and cRxLock can count.
THEOREM QueueWaitersOrdered ==
    ASSUME MaxCounted <= LockMax PROVE Spec => []WaitersOrdered
<1>1. Init => QueueInv /\ CountsFit
  <2>1. Init => CountsFit
    BY QueueAssumption DEF Init, CountsFit, UNLOCKED
  <2>. QED
    BY <2>1, InitHolds
<1>2. QueueInv /\ CountsFit /\ [Next]_vars => (QueueInv /\ CountsFit)'
  BY NextKeeps, CountsStayFit
<1>3. QueueInv /\ CountsFit => WaitersOrdered
  BY InvOrdered
<1>. QED
  BY <1>1, <1>2, <1>3, PTL DEF Spec

-----------------------------------------------------------------------------
(* NeverEarly: who gives up has waited for all its ticks. *)

\* With ticks left, the call noted the time and asked for more than it has left.
LEMMA StillWaits ==
    ASSUME QueueInv, left[cur] > 0
    PROVE  me.wait > 0 /\ me.after # "expired" /\ me.at # "recheck"
<1>1. Since(k, me.timeOut, me.wait - left[cur])
  BY Known DEF QueueInv, Counting
<1>2. me.wait \in Nat /\ left[cur] \in Nat
  BY Known DEF CallOK, Calls
<1>3. me.wait - left[cur] >= 0
  BY <1>1, <1>2, Known DEF Since
<1>4. me.after # "expired" /\ me.at # "recheck"
  BY Known DEF QueueInv, Counting
<1>. QED
  BY <1>2, <1>3, <1>4

\* A successful send or receive changes the buffer.
LEMMA BufferMoves ==
    ASSUME QueueInv, NEW x
    PROVE  CopyTo(q, x, "back") # q /\ CopyTo(q, x, "front") # q /\ CopyFrom(q) # q
<1>1. q \in StoresOf(program.length) /\ q.waiting \in Int
  BY DEF QueueInv, BufferOK, StoreOK, StoresOf
<1>2. /\ CopyTo(q, x, "back").waiting = q.waiting + 1
      /\ CopyTo(q, x, "front").waiting = q.waiting + 1
      /\ CopyFrom(q).waiting = q.waiting - 1
  BY <1>1 DEF CopyTo, CopyToBack, CopyToFront, CopyFrom, StoresOf
<1>. QED
  BY <1>1, <1>2

LEMMA StepNeverEarly ==
    ASSUME QueueInv, Next, NEW t \in Tasks, GivesUp(t)
    PROVE  left[t] = 0
<1>1. /\ pc[t].at \in {"try", "resume", "recheck"} /\ pc'[t].at = "user" /\ q' = q
      /\ pc[t].op \notin {"peek", "overwrite"}
  BY DEF GivesUp
<1>2. pc' # pc /\ me = pc[cur] /\ left[cur] \in Nat /\ me \in Calls
  BY <1>1, Known DEF CallOK
<1>3. ASSUME NEW p, Goto(p) PROVE t = cur /\ p.at = "user"
  BY <1>1, <1>3, PcAfter
<1>4. ASSUME t = cur, left[cur] > 0 PROVE FALSE
  <2>1. me.after # "expired" /\ me.wait > 0 /\ me.at \in {"try", "resume"}
        /\ me.op \notin {"peek", "overwrite"}
    BY <1>1, <1>2, <1>4, StillWaits
  <2>2. ~Send /\ ~Receive /\ ~Peek
    <3>1. me.op \in Sends => me.op \in {"back", "front"}
      BY <2>1 DEF Sends
    <3>. QED
      BY <1>1, <2>1, <3>1, BufferMoves DEF Send, Receive, Peek
  <2>3. ~GiveUpAtOnce
    BY <2>1, Known DEF GiveUpAtOnce
  <2>4. ~SetTimeOut
    <3>1. SetTimeOut => \/ Goto([me EXCEPT !.at = "suspend", !.timeOut = TimeOutState(k)])
                        \/ Goto([me EXCEPT !.at = "suspend"])
      BY DEF SetTimeOut, GotoLabel
    <3>2. /\ [me EXCEPT !.at = "suspend"].at = "suspend"
          /\ [me EXCEPT !.at = "suspend", !.timeOut = TimeOutState(k)].at = "suspend"
      BY <1>2 DEF Calls
    <3>. QED
      BY <1>3, <3>1, <3>2
  <2>5. ~Resume
    <3>. DEFINE a == CASE me.after = "expired" -> "recheck"
                       [] me.after = "retry" -> "try"
                       [] OTHER -> IF AlreadyYielded(k) THEN "try" ELSE "yield"
                p == [me EXCEPT !.after = "none", !.at = a]
    <3>1. Resume => Goto(p)
      BY <2>1 DEF Resume
    <3>2. a # "user"
      BY <2>1
    <3>3. p.at = a
      <4>. HIDE DEF a
      <4>. QED
        BY <1>2 DEF Calls
    <3>. HIDE DEF p, a
    <3>. QED
      BY <1>3, <3>1, <3>2, <3>3
  <2>6. ~CallStep
    BY <2>1, <2>2, <2>3, <2>4, <2>5 DEF CallStep, Is, SuspendScheduler, LockQueue,
       CheckForTimeOut, CheckAgain, Place, UnlockTx, UnlockRx, YieldWithinApi, Recheck
  <2>7. ASSUME NEW op, NEW x, NEW n, Call(op, x, n) PROVE FALSE
    BY <2>1, <2>7 DEF Call, Is
  <2>8. ~ResetQueue /\ ~ReceiveFromISR /\ ~TickISR
    BY <1>2 DEF ResetQueue, ReceiveFromISR, TickISR
  <2>9. ASSUME NEW x, NEW position, SendFromISR(x, position) PROVE FALSE
    BY <1>2, <2>9 DEF SendFromISR
  <2>. QED
    BY <2>6, <2>7, <2>8, <2>9 DEF Next
<1>5. CASE t = cur
  BY <1>2, <1>4, <1>5
<1>6. CASE t # cur
  <2>1. \A p : ~Goto(p)
    BY <1>3, <1>6
  <2>2. ~CallStep
    BY <2>1 DEF CallStep, Send, Receive, Peek, GiveUpAtOnce, SetTimeOut,
       SuspendScheduler, LockQueue, CheckForTimeOut, CheckAgain, Place, UnlockTx,
       UnlockRx, Resume, YieldWithinApi, Recheck, Done, GotoLabel
  <2>3. ASSUME NEW op, NEW x, NEW n, Call(op, x, n) PROVE FALSE
    BY <2>1, <2>3 DEF Call
  <2>4. ~ResetQueue /\ ~ReceiveFromISR /\ ~TickISR
    BY <1>2 DEF ResetQueue, ReceiveFromISR, TickISR
  <2>5. ASSUME NEW x, NEW position, SendFromISR(x, position) PROVE FALSE
    BY <1>2, <2>5 DEF SendFromISR
  <2>. QED
    BY <2>2, <2>3, <2>4, <2>5 DEF Next
<1>. QED
  BY <1>5, <1>6

\* xTaskCheckForTimeOut in the loops of queue.c: a call gives up only when all the ticks
\* it asked for have passed, however often it was woken and found another task faster.
THEOREM QueueNeverEarly == Spec => NeverEarly
<1>1. QueueInv /\ [Next]_vars => [\A t \in Tasks : GivesUp(t) => left[t] = 0]_vars
  BY StepNeverEarly
<1>. QED
  BY <1>1, QueueInvariant, PTL DEF Spec, NeverEarly


-----------------------------------------------------------------------------
(* WakeupsKept: who waits is owed nothing.                                    *)

\* A call that will look at the queue again, and one whose task may be on an event list
Retries(c) ==
    c.at \in {"try", "yield"} \/ (c.at \in {"unlockrx", "resume"} /\ c.after # "expired")
Enlisted(c) == c.at \in {"try", "yield"} \/ (c.at \in Leaving /\ c.after = "blocked")

\* The two directions: who waits on e, for how many items or free slots, of which the
\* interrupts have only counted some
Ops(e) == IF e = "receive" THEN Receives ELSE Sends
Side(e) == IF e = "receive" THEN "tx" ELSE "rx"
Amount(e) == IF e = "receive" THEN q.waiting ELSE q.length - q.waiting
Backlog(e) == IF lock[Side(e)] = UNLOCKED THEN 0 ELSE lock[Side(e)]
Back(e) == {t \in Tasks : pc[t].op \in Ops(e) /\ Retries(pc[t]) /\ t \notin ToSet(k.events[e])}
Owed(e) == k.events[e] # <<>> => Amount(e) <= Cardinality(Back(e)) + Backlog(e)

\* Calls are those of the program.
Legal == \A t \in Tasks : pc[t].at # "user" => pc[t].op \in program.calls[t] \ {"reset"}
Listed == \A e \in EventLists : \A t \in ToSet(k.events[e]) : Enlisted(pc[t])

\* While a call holds the lock, both sides are locked, and it goes to sleep only if all
\* that came since is counted.
Locked ==
    /\ me.at \in {"timeout", "check", "place", "unlocktx"} => lock.tx # UNLOCKED
    /\ me.at \in Holding => lock.rx # UNLOCKED
    /\ \A e \in EventLists : me.at = "place" /\ e = Mode(me.op) => Amount(e) <= Backlog(e)

WakeCore == Legal /\ Listed /\ Locked /\ \A e \in EventLists : Owed(e)
WakeInv == CountsFit /\ WakeCore

\* The types of all this
Measured ==
    /\ q.waiting \in 0..q.length /\ q.length = program.length /\ q.length \in Nat
    /\ cur \in Tasks
    /\ \A e \in EventLists :
          /\ Amount(e) \in Nat /\ Back(e) \subseteq Tasks /\ IsFiniteSet(Back(e))
          /\ Cardinality(Back(e)) \in Nat /\ Backlog(e) \in Int
          /\ k.events[e] \in Seq(Tasks) /\ ToSet(k.events[e]) \subseteq Tasks
          /\ k.events[e] = <<>> <=> ToSet(k.events[e]) = {}

LEMMA Typed == QueueInv => Measured
<1>. SUFFICES ASSUME QueueInv PROVE Measured
  OBVIOUS
<1>1. program.length \in Nat \ {0} /\ q \in StoresOf(program.length)
  BY LengthType DEF QueueInv, BufferOK, StoreOK
<1>2. q.waiting \in 0..q.length /\ q.length = program.length
  BY <1>1 DEF StoresOf
<1>3. ASSUME NEW e \in EventLists
      PROVE  /\ Amount(e) \in Nat /\ Back(e) \subseteq Tasks /\ IsFiniteSet(Back(e))
             /\ Cardinality(Back(e)) \in Nat /\ Backlog(e) \in Int
             /\ k.events[e] \in Seq(Tasks) /\ ToSet(k.events[e]) \subseteq Tasks
             /\ k.events[e] = <<>> <=> ToSet(k.events[e]) = {}
  <2>1. Amount(e) \in Nat
    BY <1>1, <1>2 DEF Amount
  <2>2. Back(e) \subseteq Tasks /\ IsFiniteSet(Tasks)
    BY TaskListsAssumption DEF Back
  <2>3. IsFiniteSet(Back(e)) /\ Cardinality(Back(e)) \in Nat
    BY <2>2, FS_Subset, FS_CardinalityType
  <2>4. Backlog(e) \in Int
    BY LockFacts DEF Backlog, Side
  <2>5. k.events[e] \in Seq(Tasks)
    BY Known
  <2>6. ToSet(k.events[e]) \subseteq Tasks
    BY <2>5, ToSetIn
  <2>7. k.events[e] = <<>> <=> ToSet(k.events[e]) = {}
    <3>1. k.events[e] = <<>> => ToSet(k.events[e]) = {}
      BY DEF ToSet
    <3>. QED
      BY <2>5, <3>1, NoPending
  <2>. QED
    BY <2>1, <2>2, <2>3, <2>4, <2>5, <2>6, <2>7
<1>. QED
  BY <1>1, <1>2, <1>3, Known DEF Measured

LEMMA TypedNext == QueueInv' => Measured'
  BY Typed, PTL

\* The tasks of L no longer come back, those of G come back for it.
LEMMA OwedStep ==
    ASSUME QueueInv, QueueInv', NEW e \in EventLists, Owed(e),
           ToSet(k'.events[e]) \subseteq ToSet(k.events[e]),
           NEW L \in SUBSET Tasks, NEW G \in SUBSET ToSet(k.events[e]),
           Back(e) \ L \subseteq Back(e)', G \subseteq Back(e)',
           Amount(e)' + Cardinality(L) + Backlog(e) <= Amount(e) + Cardinality(G) + Backlog(e)'
    PROVE  Owed(e)'
<1>1. /\ Amount(e) \in Nat /\ Amount(e)' \in Nat /\ Backlog(e) \in Int /\ Backlog(e)' \in Int
      /\ IsFiniteSet(Back(e)) /\ IsFiniteSet(Back(e)') /\ Cardinality(Back(e)) \in Nat
      /\ Cardinality(Back(e)') \in Nat /\ IsFiniteSet(L) /\ IsFiniteSet(G)
      /\ Cardinality(L) \in Nat /\ Cardinality(G) \in Nat
      /\ k.events[e] \in Seq(Tasks) /\ k'.events[e] \in Seq(Tasks)
  <2>1. /\ Amount(e) \in Nat /\ Backlog(e) \in Int /\ IsFiniteSet(Back(e))
        /\ Cardinality(Back(e)) \in Nat /\ k.events[e] \in Seq(Tasks)
        /\ ToSet(k.events[e]) \subseteq Tasks
    BY Typed, TypedNext DEF Measured
  <2>2. /\ Amount(e)' \in Nat /\ Backlog(e)' \in Int /\ IsFiniteSet(Back(e)')
        /\ Cardinality(Back(e)') \in Nat /\ k'.events[e] \in Seq(Tasks)
    BY Typed, TypedNext DEF Measured
  <2>3. IsFiniteSet(L) /\ IsFiniteSet(G)
    BY <2>1, TaskListsAssumption, FS_Subset
  <2>. QED
    BY <2>1, <2>2, <2>3, FS_CardinalityType
<1>2. Cardinality(Back(e) \ L) >= Cardinality(Back(e)) - Cardinality(L)
  <2>1. Cardinality(Back(e) \ L) = Cardinality(Back(e)) - Cardinality(Back(e) \cap L)
    BY <1>1, FS_Difference
  <2>2. Cardinality(Back(e) \cap L) <= Cardinality(L) /\ Cardinality(Back(e) \cap L) \in Nat
    BY <1>1, FS_Subset, FS_CardinalityType
  <2>. QED
    BY <1>1, <2>1, <2>2
<1>3. /\ IsFiniteSet(Back(e) \ L) /\ Cardinality(Back(e) \ L) \in Nat
      /\ Cardinality((Back(e) \ L) \cup G) = Cardinality(Back(e) \ L) + Cardinality(G)
  <2>1. IsFiniteSet(Back(e) \ L) /\ Cardinality(Back(e) \ L) \in Nat
    BY <1>1, FS_Subset, FS_CardinalityType
  <2>2. (Back(e) \ L) \cap G = {}
    BY DEF Back
  <2>3. Cardinality((Back(e) \ L) \cup G) =
            Cardinality(Back(e) \ L) + Cardinality(G) - Cardinality((Back(e) \ L) \cap G)
    BY <1>1, <2>1, FS_Union
  <2>4. Cardinality((Back(e) \ L) \cap G) = 0
    BY <2>2, FS_EmptySet
  <2>. HIDE DEF Back
  <2>. QED
    BY <1>1, <2>1, <2>3, <2>4
<1>4. Cardinality((Back(e) \ L) \cup G) <= Cardinality(Back(e)')
  BY <1>1, FS_Subset
<1>5. ASSUME k'.events[e] # <<>> PROVE k.events[e] # <<>>
  <2>1. /\ k.events[e] = <<>> => ToSet(k.events[e]) = {}
        /\ ToSet(k'.events[e]) = {} => k'.events[e] = <<>>
    BY Typed, TypedNext DEF Measured
  <2>. QED
    BY <1>5, <2>1
<1>6. k.events[e] # <<>> => Amount(e) <= Cardinality(Back(e)) + Backlog(e)
  BY DEF Owed
<1>7. k'.events[e] # <<>> => Amount(e)' <= Cardinality(Back(e)') + Backlog(e)'
  <2>. DEFINE A == Amount(e)  A1 == Amount(e)'  C == Cardinality(Back(e))  C1 == Cardinality(Back(e)')
              D == Cardinality(Back(e) \ L)  l == Cardinality(L)  g == Cardinality(G)
              B == Backlog(e)  B1 == Backlog(e)'
  <2>1. /\ A \in Nat /\ A1 \in Nat /\ C \in Nat /\ C1 \in Nat /\ D \in Nat /\ l \in Nat /\ g \in Nat
        /\ B \in Int /\ B1 \in Int /\ D >= C - l /\ D + g <= C1 /\ A1 + l + B <= A + g + B1
    BY <1>1, <1>2, <1>3, <1>4
  <2>2. k'.events[e] # <<>> => A <= C + B
    BY <1>5, <1>6
  <2>. HIDE DEF A, A1, C, C1, D, l, g, B, B1
  <2>3. k'.events[e] # <<>> => A1 <= C1 + B1
    BY <2>1, <2>2
  <2>. QED
    BY <2>3 DEF A1, C1, B1
<1>. QED
  BY <1>7 DEF Owed

LEMMA OwedEmpty ==
    ASSUME QueueInv, QueueInv', NEW e \in EventLists, k.events[e] = <<>>,
           ToSet(k'.events[e]) \subseteq ToSet(k.events[e])
    PROVE  Owed(e)'
<1>1. ToSet(k.events[e]) = {} /\ (ToSet(k'.events[e]) = {} => k'.events[e] = <<>>)
  BY Typed, TypedNext DEF Measured
<1>3. k'.events[e] = <<>>
  BY <1>1
<1>. QED
  BY <1>3 DEF Owed

LEMMA OwedNone ==
    ASSUME QueueInv', NEW e \in EventLists, Amount(e)' = 0, Backlog(e)' >= 0
    PROVE  Owed(e)'
<1>1. Cardinality(Back(e)') \in Nat /\ Backlog(e)' \in Int
  BY Typed, TypedNext DEF Measured
<1>. QED
  BY <1>1 DEF Owed

\* Only the running call changes, and tasks only leave the event lists.
LEMMA BackGoes ==
    ASSUME QueueInv, NEW p, Goto(p), NEW e \in EventLists,
           ToSet(k'.events[e]) \subseteq ToSet(k.events[e])
    PROVE  /\ Back(e) \ {cur} \subseteq Back(e)'
           /\ (me.op \in Ops(e) /\ Retries(me) => Retries(p) /\ p.op = me.op)
                  => Back(e) \subseteq Back(e)'
<1>1. \A t \in Tasks : pc'[t] = IF t = cur THEN p ELSE pc[t]
  BY PcAfter
<1>2. Back(e) \ {cur} \subseteq Back(e)'
  BY <1>1 DEF Back
<1>3. ASSUME me.op \in Ops(e) /\ Retries(me) => Retries(p) /\ p.op = me.op, cur \in Back(e)
      PROVE  cur \in Back(e)'
  <2>1. cur \in Tasks /\ me.op \in Ops(e) /\ Retries(me) /\ cur \notin ToSet(k'.events[e])
    BY <1>3 DEF Back, me
  <2>2. pc'[cur] = p
    BY <1>1, <2>1
  <2>. QED
    BY <1>3, <2>1, <2>2 DEF Back
<1>. QED
  BY <1>2, <1>3

\* Who waits was in a call that retries, or is the running task on its way to sleep.
LEMMA Waiting ==
    ASSUME QueueInv, WakeInv, NEW e \in EventLists, NEW t \in ToSet(k.events[e])
    PROVE  /\ t \in Tasks /\ pc[t].op \in Ops(e) /\ Enlisted(pc[t])
           /\ t # cur => Retries(pc[t])
<1>1. t \in Tasks /\ Enlisted(pc[t]) /\ Mode(pc[t].op) = e
  BY Typed DEF Measured, WakeInv, WakeCore, Listed, QueueInv, Waiters
<1>2. pc[t].at # "user" /\ program \in Programs /\ EventLists = {"send", "receive"}
  BY <1>1, Known DEF Enlisted, Leaving, QueueInv, BufferOK
<1>3. pc[t].op \in program.calls[t] \ {"reset"}
  BY <1>1, <1>2 DEF WakeInv, WakeCore, Legal
<1>4. pc[t].op \in Sends \cup Receives
  BY <1>1, <1>2, <1>3, QueueAssumption
<1>5. pc[t].op \in Ops(e)
  BY <1>1, <1>2, <1>4 DEF Ops, Mode
<1>6. t # cur => Retries(pc[t])
  BY <1>1 DEF QueueInv, Placed, Enlisted, Retries, Leaving, Suspending
<1>. QED
  BY <1>1, <1>5, <1>6

LEMMA OwedQuiet ==
    ASSUME QueueInv, QueueInv', NEW e \in EventLists, Owed(e), NEW p, Goto(p),
           ToSet(k'.events[e]) \subseteq ToSet(k.events[e]),
           Amount(e)' + Backlog(e) <= Amount(e) + Backlog(e)',
           me.op \in Ops(e) /\ Retries(me) => Retries(p) /\ p.op = me.op
    PROVE  Owed(e)'
<1>1. Back(e) \subseteq Back(e)'
  BY BackGoes
<1>2. Cardinality({}) = 0
  BY FS_EmptySet
<1>3. /\ Amount(e) \in Nat /\ Amount(e)' \in Nat /\ Backlog(e) \in Int /\ Backlog(e)' \in Int
  <2>1. Amount(e) \in Nat /\ Backlog(e) \in Int
    BY Typed, TypedNext DEF Measured
  <2>2. Amount(e)' \in Nat /\ Backlog(e)' \in Int
    BY Typed, TypedNext DEF Measured
  <2>. QED
    BY <2>1, <2>2
<1>. DEFINE L == {} G == {}
<1>4. /\ L \in SUBSET Tasks /\ G \in SUBSET ToSet(k.events[e])
      /\ Back(e) \ L \subseteq Back(e)' /\ G \subseteq Back(e)'
      /\ Amount(e)' + Cardinality(L) + Backlog(e) <= Amount(e) + Cardinality(G) + Backlog(e)'
  BY <1>1, <1>2, <1>3
<1>. HIDE DEF L, G
<1>. QED
  BY <1>4, OwedStep

\* The running task takes an item, or a slot.
LEMMA OwedLeaves ==
    ASSUME QueueInv, QueueInv', NEW e \in EventLists, Owed(e), NEW p, Goto(p),
           ToSet(k'.events[e]) \subseteq ToSet(k.events[e]),
           Amount(e)' = Amount(e) - 1, Backlog(e)' = Backlog(e)
    PROVE  Owed(e)'
<1>1. Back(e) \ {cur} \subseteq Back(e)' /\ cur \in Tasks
  BY BackGoes, Known
<1>2. Cardinality({}) = 0 /\ Cardinality({cur}) = 1
  BY FS_EmptySet, FS_Singleton
<1>3. Amount(e) \in Nat /\ Backlog(e) \in Int
  BY Typed, TypedNext DEF Measured
<1>. DEFINE L == {cur} G == {}
<1>4. /\ L \in SUBSET Tasks /\ G \in SUBSET ToSet(k.events[e])
      /\ Back(e) \ L \subseteq Back(e)' /\ G \subseteq Back(e)'
      /\ Amount(e)' + Cardinality(L) + Backlog(e) <= Amount(e) + Cardinality(G) + Backlog(e)'
  BY <1>1, <1>2, <1>3
<1>. HIDE DEF L, G
<1>. QED
  BY <1>4, OwedStep

\* A task is woken; there is one item more, or the running task passes its own on.
LEMMA OwedWakes ==
    ASSUME QueueInv, QueueInv', WakeInv, NEW e \in EventLists, NEW p, Goto(p),
           NEW t \in ToSet(k.events[e]), ToSet(k'.events[e]) = ToSet(k.events[e]) \ {t},
           t = cur => Retries(p) /\ p.op = me.op, Backlog(e)' = Backlog(e),
           \/ /\ Amount(e)' <= Amount(e) + 1
              /\ me.op \in Ops(e) /\ Retries(me) => Retries(p) /\ p.op = me.op
           \/ Amount(e)' <= Amount(e)
    PROVE  Owed(e)'
<1>1. /\ Back(e) \ {cur} \subseteq Back(e)' /\ cur \in Tasks
      /\ (me.op \in Ops(e) /\ Retries(me) => Retries(p) /\ p.op = me.op)
             => Back(e) \subseteq Back(e)'
  BY BackGoes, Known
<1>2. Cardinality({}) = 0 /\ Cardinality({cur}) = 1 /\ Cardinality({t}) = 1
  BY FS_EmptySet, FS_Singleton
<1>3. /\ Amount(e) \in Nat /\ Amount(e)' \in Nat /\ Backlog(e) \in Int
  <2>1. Amount(e) \in Nat /\ Backlog(e) \in Int
    BY Typed, TypedNext DEF Measured
  <2>2. Amount(e)' \in Nat
    BY Typed, TypedNext DEF Measured
  <2>. QED
    BY <2>1, <2>2
<1>4. t \in Back(e)'
  <2>1. t \in Tasks /\ pc[t].op \in Ops(e) /\ (t # cur => Retries(pc[t]))
    BY Waiting
  <2>2. pc'[t] = (IF t = cur THEN p ELSE pc[t]) /\ me = pc[cur]
    BY <2>1, PcAfter DEF me
  <2>3. pc'[t].op \in Ops(e) /\ Retries(pc'[t]) /\ t \notin ToSet(k'.events[e])
    BY <2>1, <2>2
  <2>. QED
    BY <2>1, <2>3 DEF Back
<1>5. Owed(e)
  BY DEF WakeInv, WakeCore
<1>. DEFINE L == IF Back(e) \subseteq Back(e)' THEN {} ELSE {cur}  G == {t}
<1>6. /\ L \in SUBSET Tasks /\ G \in SUBSET ToSet(k.events[e])
      /\ Back(e) \ L \subseteq Back(e)' /\ G \subseteq Back(e)'
  BY <1>1, <1>4
<1>7. Amount(e)' + Cardinality(L) + Backlog(e) <= Amount(e) + Cardinality(G) + Backlog(e)'
  <2>1. CASE Back(e) \subseteq Back(e)'
    BY <1>2, <1>3, <2>1
  <2>2. CASE ~(Back(e) \subseteq Back(e)')
    BY <1>1, <1>2, <1>3, <2>2
  <2>. QED
    BY <2>1, <2>2
<1>. HIDE DEF L, G
<1>. QED
  BY <1>5, <1>6, <1>7, OwedStep


-----------------------------------------------------------------------------
(* What the kernel operations take off the event lists *)

LEMMA WokenIs ==
    ASSUME QueueInv, NEW e \in EventLists
    PROVE  /\ k.events[e] = <<>> => Woken(e) = k
           /\ k.events[e] # <<>> =>
                 /\ Head(k.events[e]) \in ToSet(k.events[e])
                 /\ \A r \in {Woken(e), RemoveFromEventList(k, e)} : \A d \in EventLists :
                       ToSet(r.events[d]) = ToSet(k.events[d]) \ {Head(k.events[e])}
<1>1. k.events[e] = <<>> => Woken(e) = k
  BY DEF Woken
<1>. SUFFICES ASSUME k.events[e] # <<>>
              PROVE  /\ Head(k.events[e]) \in ToSet(k.events[e])
                     /\ \A r \in {Woken(e), RemoveFromEventList(k, e)} : \A d \in EventLists :
                           ToSet(r.events[d]) = ToSet(k.events[d]) \ {Head(k.events[e])}
  BY <1>1
<1>. DEFINE t == Head(k.events[e])  r == RemoveFromEventList(k, e)
<1>2. Sound(k) /\ (k.suspended = 0 => k.pending = <<>>) /\ Idle \in ReadyTasks(k)
  BY DEF QueueInv, Placed
<1>3. k.events[e] \in Seq(Tasks) /\ IsInjective(k.events[e])
  BY <1>2, Known DEF Sound, WellFormed
<1>4. t \in ToSet(k.events[e])
  BY <1>3, TailIs
<1>5. Given(k, t, r)
  BY <1>2, RemoveFromEventListIs
<1>6. Moves(k, r)
  BY WokenMoves
<1>. HIDE DEF t, r
<1>7. Selected(r, SwitchContext(r))
  <2>1. Sound(r) /\ ReadyTasks(r) # {}
    BY <1>2, <1>6 DEF Moves
  <2>. QED
    BY <2>1, SwitchContextIs
<1>8. Woken(e) \in {r, SwitchContext(r)}
  BY DEF Woken, r
<1>9. \A d \in EventLists : ToSet(r.events[d]) = ToSet(k.events[d]) \ {t}
  BY <1>5 DEF Given
<1>10. SwitchContext(r).events = r.events
  BY <1>7 DEF Selected, SameSets
<1>11. \A s \in {Woken(e), r} : s.events = r.events
  BY <1>8, <1>10
<1>. QED
  BY <1>4, <1>9, <1>11 DEF t, r

\* An injective sequence has as many elements as it is long.
LEMMA CardinalityIs ==
    ASSUME NEW S, NEW s \in Seq(S), IsInjective(s)
    PROVE  IsFiniteSet(ToSet(s)) /\ Cardinality(ToSet(s)) = Len(s)
<1>. DEFINE n == Len(s)  D == 1..n
<1>1. n \in Nat /\ D = DOMAIN s
  OBVIOUS
<1>2. ToSet(s) = {s[i] : i \in D}
  BY <1>1 DEF ToSet
<1>3. s \in Bijection(D, ToSet(s))
  <2>1. s \in [D -> ToSet(s)]
    BY <1>1, <1>2
  <2>2. \A a, b \in D : s[a] = s[b] => a = b
    BY <1>1 DEF IsInjective
  <2>3. \A y \in ToSet(s) : \E i \in D : s[i] = y
    BY <1>2
  <2>. QED
    BY <2>1, <2>2, <2>3 DEF Bijection, Injection, Surjection, IsInjective
<1>4. IsFiniteSet(D) /\ Cardinality(D) = n
  <2>1. 1 \in Int /\ n \in Int /\ n >= 0
    BY <1>1
  <2>2. IsFiniteSet(1..n) /\ Cardinality(1..n) = IF 1 > n THEN 0 ELSE n - 1 + 1
    BY <2>1, FS_Interval
  <2>. QED
    BY <1>1, <2>2
<1>5. ExistsBijection(D, ToSet(s))
  BY <1>3 DEF ExistsBijection
<1>. QED
  BY <1>4, <1>5, FS_Bijection

\* prvUnlockQueue wakes a task for each of the count, or all.
LEMMA WakeCountedTakes ==
    ASSUME QueueInv, NEW e \in EventLists, NEW count \in Int, k' = WakeCounted(e, count), QueueInv'
    PROVE  LET G == ToSet(k.events[e]) \ ToSet(k'.events[e]) IN
           /\ G \in SUBSET ToSet(k.events[e])
           /\ k'.events[e] # <<>> => count <= Cardinality(G)
<1>. DEFINE G == ToSet(k.events[e]) \ ToSet(k'.events[e])  l == Len(k.events[e])  m == Len(k'.events[e])
<1>1. Moves(k, k') /\ \E i \in Nat : m = l - i /\ (i >= count \/ i = l)
  BY WakeCountedMoves
<1>2. /\ k.events[e] \in Seq(Tasks) /\ IsInjective(k.events[e])
      /\ k'.events[e] \in Seq(Tasks) /\ IsInjective(k'.events[e])
  <2>1. WellFormed(k) /\ WellFormed(k')
    BY <1>1 DEF Moves, QueueInv, Sound
  <2>. QED
    BY <2>1, Known, KernelFields DEF WellFormed
<1>3. /\ IsFiniteSet(ToSet(k.events[e])) /\ Cardinality(ToSet(k.events[e])) = l
      /\ IsFiniteSet(ToSet(k'.events[e])) /\ Cardinality(ToSet(k'.events[e])) = m
      /\ l \in Nat /\ m \in Nat
  BY <1>2, CardinalityIs
<1>4. Cardinality(G) = l - m
  <2>1. ToSet(k'.events[e]) \subseteq ToSet(k.events[e])
    BY <1>1 DEF Moves
  <2>2. ToSet(k.events[e]) \cap ToSet(k'.events[e]) = ToSet(k'.events[e])
    BY <2>1
  <2>3. Cardinality(G) = l - Cardinality(ToSet(k.events[e]) \cap ToSet(k'.events[e]))
    BY <1>3, FS_Difference
  <2>. QED
    BY <1>3, <2>2, <2>3
<1>5. k'.events[e] # <<>> => m # 0
  BY <1>2
<1>. HIDE DEF G, l, m
<1>6. k'.events[e] # <<>> => count <= Cardinality(G)
  BY <1>1, <1>3, <1>4, <1>5
<1>. QED
  BY <1>6 DEF G


-----------------------------------------------------------------------------
(* What each operation does to the amounts *)

LEMMA SentAmounts ==
    ASSUME QueueInv, NEW x, NEW op \in Sends, op = "overwrite" => program.length = 1,
           q' = CopyTo(q, x, op)
    PROVE  \/ Amount("receive")' = Amount("receive") + 1 /\ Amount("send")' = Amount("send") - 1
           \/ Amount("receive")' = Amount("receive") /\ Amount("send")' = 0 /\ Amount("send") = 0
<1>1. q \in StoresOf(program.length) /\ q.waiting \in 0..q.length /\ q.length \in Nat
      /\ q.length = program.length
  BY Typed DEF Measured, QueueInv, BufferOK, StoreOK
<1>2. /\ Amount("receive") = q.waiting /\ Amount("send") = q.length - q.waiting
      /\ Amount("receive")' = q'.waiting /\ Amount("send")' = q'.length - q'.waiting
  BY DEF Amount
<1>3. CASE op \in {"back", "front"}
  <2>1. q'.waiting = q.waiting + 1 /\ q'.length = q.length
    BY <1>1, <1>3 DEF CopyTo, CopyToBack, CopyToFront, StoresOf
  <2>. QED
    BY <1>1, <1>2, <2>1
<1>4. CASE op = "overwrite"
  <2>1. q' = Overwrite(q, x)
    BY <1>4 DEF CopyTo
  <2>2. q'.waiting = (IF q.waiting > 0 THEN q.waiting ELSE q.waiting + 1) /\ q'.length = q.length
    BY <1>1, <2>1 DEF Overwrite, StoresOf
  <2>. QED
    BY <1>1, <1>2, <1>4, <2>2
<1>. QED
  BY <1>3, <1>4 DEF Sends

LEMMA TakenAmounts ==
    ASSUME QueueInv, q' = CopyFrom(q)
    PROVE  Amount("receive")' = Amount("receive") - 1 /\ Amount("send")' = Amount("send") + 1
<1>1. q \in StoresOf(program.length) /\ q.waiting \in 0..q.length /\ q.length \in Nat
  BY Typed DEF Measured, QueueInv, BufferOK, StoreOK
<1>2. q'.waiting = q.waiting - 1 /\ q'.length = q.length
  BY <1>1 DEF CopyFrom, StoresOf
<1>. QED
  BY <1>1, <1>2 DEF Amount

LEMMA ResetAmounts ==
    ASSUME QueueInv, q' = Reset(q)
    PROVE  Amount("receive")' = 0 /\ Amount("send")' = program.length
<1>1. q \in StoresOf(program.length) /\ q.length \in Nat /\ q.length = program.length
  BY Typed DEF Measured, QueueInv, BufferOK, StoreOK
<1>2. q'.waiting = 0 /\ q'.length = q.length
  BY <1>1 DEF Reset, StoresOf
<1>. QED
  BY <1>1, <1>2 DEF Amount

LEMMA Directions ==
    /\ EventLists = {"send", "receive"} /\ Mode("none") = "receive"
    /\ \A e \in EventLists : Ops(e) \subseteq Sends \cup Receives
    /\ \A op \in Sends : op \in Ops("send") /\ op \notin Ops("receive") /\ Mode(op) = "send"
    /\ \A op \in Receives : op \in Ops("receive") /\ op \notin Ops("send") /\ Mode(op) = "receive"
    /\ Side("receive") = "tx" /\ Side("send") = "rx"
  BY QueueAssumption DEF Ops, Mode, Sends, Receives, Side

-----------------------------------------------------------------------------
(* The rest of the invariant *)


\* Tasks only leave the event lists.
Shrink(a, r) == \A e \in EventLists : ToSet(r.events[e]) \subseteq ToSet(a.events[e])

LEMMA ListedGoes ==
    ASSUME QueueInv, Legal, Listed, UNCHANGED program, NEW p, Goto(p), Shrink(k, k'),
           p.at # "user" => p.op \in program.calls[cur] \ {"reset"},
           ~Asleep(me) \/ Enlisted(p) \/ p = me
    PROVE  Legal' /\ Listed'
<1>1. \A t \in Tasks : pc'[t] = IF t = cur THEN p ELSE pc[t]
  BY PcAfter
<1>2. Legal'
  BY <1>1 DEF Legal
<1>3. ASSUME NEW e \in EventLists, NEW t \in ToSet(k'.events[e]) PROVE Enlisted(pc'[t])
  <2>1. t \in ToSet(k.events[e]) /\ t \in Tasks
    BY <1>3, Typed DEF Shrink, Measured
  <2>2. Enlisted(pc[t])
    BY <2>1 DEF Listed
  <2>4. t \notin ReadyTasks(k)
    BY <2>1, Known
  <2>5. t = cur => Asleep(me)
    BY <2>4, Whereabouts
  <2>. QED
    BY <1>1, <2>1, <2>2, <2>5, Known
<1>. QED
  BY <1>2, <1>3 DEF Listed

\* The call that holds the lock is the one of the running task that was there before.
LEMMA HeldBy ==
    ASSUME QueueInv, QueueInv', NEW p, Goto(p)
    PROVE  me'.at \in Holding \cup {"place"} => k'.cur = cur /\ me' = p
<1>1. cur' \in Tasks /\ cur' = k'.cur /\ me' = pc'[cur'] /\ cur \in Tasks
  BY TypedNext, Known DEF Measured, cur, me
<1>2. \A t \in Tasks : pc'[t] = IF t = cur THEN p ELSE pc[t]
  BY PcAfter
<1>3. ASSUME cur' # cur PROVE me'.at \notin Holding \cup {"place"}
  <2>1. pc[cur'].at \notin Suspending
    BY <1>1, <1>3 DEF QueueInv, Placed
  <2>. QED
    BY <1>1, <1>2, <1>3, <2>1 DEF Suspending, Holding
<1>. QED
  BY <1>1, <1>2, <1>3

LEMMA LockedGoes ==
    ASSUME QueueInv, QueueInv', Locked, NEW p, Goto(p), UNCHANGED lock,
           p.at \in {"timeout", "check", "place", "unlocktx"} =>
               me.at \in {"timeout", "check", "place", "unlocktx"},
           p.at \in Holding => me.at \in Holding,
           \A e \in EventLists : p.at = "place" /\ e = Mode(p.op) => Amount(e)' <= Backlog(e)
    PROVE  Locked'
<1>1. me'.at \in Holding \cup {"place"} => me' = p
  BY HeldBy
<1>2. \A e : Backlog(e)' = Backlog(e)
  BY DEF Backlog
<1>3. me'.at \in {"timeout", "check", "place", "unlocktx"} => lock'.tx # UNLOCKED
  BY <1>1 DEF Locked, Holding
<1>4. me'.at \in Holding => lock'.rx # UNLOCKED
  BY <1>1 DEF Locked
<1>5. \A e \in EventLists : me'.at = "place" /\ e = Mode(me'.op) => Amount(e)' <= Backlog(e)'
  BY <1>1, <1>2
<1>. QED
  BY <1>3, <1>4, <1>5 DEF Locked

LEMMA BacklogFits ==
    ASSUME QueueInv, CountsFit
    PROVE  \A e \in EventLists : Backlog(e) \in Nat
<1>1. lock.tx \in UNLOCKED..LockMax /\ lock.rx \in UNLOCKED..LockMax
      /\ LockMax \in Nat /\ UNLOCKED = -1
  BY QueueAssumption DEF CountsFit, UNLOCKED
<1>2. \A n \in UNLOCKED..LockMax : n = UNLOCKED \/ n \in Nat
  BY <1>1
<1>. QED
  BY <1>1, <1>2, Directions DEF Backlog

\* Neither the buffer nor the lock changes, nobody comes to wait, and the running task
\* looks again if it was going to, unless there is nothing to look for.
LEMMA QuietKeeps ==
    ASSUME QueueInv, QueueInv', CountsFit, WakeCore, UNCHANGED <<program, q, lock>>,
           NEW p, Goto(p), Shrink(k, k'),
           p.at # "user" => p.op \in program.calls[cur] \ {"reset"},
           ~Asleep(me) \/ Enlisted(p) \/ p = me,
           \A e \in EventLists : \/ me.op \in Ops(e) /\ Retries(me) => Retries(p) /\ p.op = me.op
                                 \/ Amount(e) = 0,
           p.at \in {"timeout", "check", "place", "unlocktx"} =>
               me.at \in {"timeout", "check", "place", "unlocktx"},
           p.at \in Holding => me.at \in Holding,
           \A e \in EventLists : p.at = "place" /\ e = Mode(p.op) => Amount(e) <= Backlog(e)
    PROVE  WakeCore'
<1>1. \A e : Amount(e)' = Amount(e) /\ Backlog(e)' = Backlog(e)
  BY DEF Amount, Backlog
<1>2. Legal' /\ Listed'
  BY ListedGoes DEF WakeCore
<1>3. Locked'
  BY <1>1, LockedGoes DEF WakeCore
<1>4. ASSUME NEW e \in EventLists PROVE Owed(e)'
  <2>1. Amount(e) \in Nat /\ Backlog(e) \in Nat /\ Owed(e)
        /\ ToSet(k'.events[e]) \subseteq ToSet(k.events[e])
    BY Typed, BacklogFits DEF Measured, WakeCore, Shrink
  <2>2. CASE me.op \in Ops(e) /\ Retries(me) => Retries(p) /\ p.op = me.op
    <3>1. Amount(e)' + Backlog(e) <= Amount(e) + Backlog(e)'
      BY <1>1, <2>1
    <3>. QED
      BY <2>1, <2>2, <3>1, OwedQuiet
  <2>3. CASE Amount(e) = 0
    <3>1. Amount(e)' = 0 /\ Backlog(e)' >= 0
      BY <1>1, <2>1, <2>3
    <3>. QED
      BY <3>1, OwedNone
  <2>. QED
    BY <2>2, <2>3
<1>. QED
  BY <1>2, <1>3, <1>4 DEF WakeCore


LEMMA StepsQuiet ==
    ASSUME QueueInv, QueueInv', CountsFit, WakeCore, UNCHANGED <<program, q, lock>>,
           NEW p, Goto(p), Shrink(k, k'), me.at # "user", p.op = me.op \/ p = User,
           ~Asleep(me) \/ Enlisted(p),
           \A e \in EventLists : \/ me.op \in Ops(e) /\ Retries(me) => Retries(p) /\ p.op = me.op
                                 \/ Amount(e) = 0,
           p.at \in {"timeout", "check", "place", "unlocktx"} =>
               me.at \in {"timeout", "check", "place", "unlocktx"},
           p.at \in Holding => me.at \in Holding,
           \A e \in EventLists : p.at = "place" /\ e = Mode(p.op) => Amount(e) <= Backlog(e)
    PROVE  WakeCore'
<1>1. p.at # "user" => p.op \in program.calls[cur] \ {"reset"}
  BY UserOK, Known DEF WakeCore, Legal
<1>. QED
  BY <1>1, QuietKeeps

LEMMA ShrinkSame == ASSUME UNCHANGED k PROVE Shrink(k, k')
  BY DEF Shrink

\* The call goes on at a.
LEMMA GotoIs ==
    ASSUME QueueInv, NEW a \in Labels, GotoLabel(a)
    PROVE  \E p : Goto(p) /\ p.at = a /\ p.after = me.after /\ p.op = me.op
<1>1. me \in Calls
  BY Known DEF CallOK
<1>2. [me EXCEPT !.at = a].at = a /\ [me EXCEPT !.at = a].after = me.after
      /\ [me EXCEPT !.at = a].op = me.op
  BY <1>1 DEF Calls
<1>. QED
  BY <1>2 DEF GotoLabel

LEMMA CallWakes ==
    ASSUME QueueInv, QueueInv', CountsFit, WakeCore, UNCHANGED program,
           NEW op \in Sends \cup Receives, NEW x, NEW n, Call(op, x, n)
    PROVE  WakeCore'
<1>. DEFINE p == [User EXCEPT !.at = "try", !.op = op, !.wait = n,
                              !.item = IF op \in Sends THEN x ELSE @]
<1>1. /\ me.at = "user" /\ op \in program.calls[cur] \ {"reset"} /\ Goto(p)
      /\ UNCHANGED <<k, q, lock>>
  BY DEF Call, Is
<1>2. p.at = "try" /\ p.op = op
  BY DEF User
<1>. HIDE DEF p
<1>3. /\ ~Asleep(me) /\ ~Retries(me) /\ Shrink(k, k')
      /\ p.at \notin {"timeout", "check", "place", "unlocktx"} /\ p.at \notin Holding
      /\ p.at # "place"
  BY <1>1, <1>2, ShrinkSame DEF Asleep, Leaving, Retries, Holding
<1>. QED
  BY <1>1, <1>2, <1>3, QuietKeeps

\* There is nothing to look for.
LEMMA NothingThere ==
    ASSUME QueueInv, MustWait
    PROVE  /\ me.at = "try"
           /\ \A e \in EventLists : me.op \notin Ops(e) \/ Amount(e) = 0
<1>1. me.at = "try" /\ (IF me.op \in Sends THEN ~CanSend(me.op) ELSE IsEmpty)
  BY DEF MustWait, Is
<1>2. q.waiting \in 0..q.length /\ q.length \in Nat
  BY Typed DEF Measured
<1>3. CASE me.op \in Sends
  <2>1. Amount("send") = 0 /\ me.op \notin Ops("receive")
    BY <1>1, <1>2, <1>3, Directions DEF CanSend, IsFull, Amount
  <2>. QED
    BY <1>1, <1>3, <2>1, Directions
<1>4. CASE me.op \notin Sends
  <2>1. Amount("receive") = 0
    BY <1>1, <1>4 DEF IsEmpty, Amount
  <2>2. me.op \notin Ops("send")
    BY <1>4 DEF Ops
  <2>. QED
    BY <1>1, <1>4, <2>1, <2>2, Directions
<1>. QED
  BY <1>3, <1>4

LEMMA GivesUpWakes ==
    ASSUME QueueInv, QueueInv', CountsFit, WakeCore, UNCHANGED program,
           GiveUpAtOnce \/ SetTimeOut
    PROVE  WakeCore'
<1>1. /\ MustWait /\ UNCHANGED <<k, q, lock>>
      /\ Goto(User) \/ Goto([me EXCEPT !.at = "suspend", !.timeOut = TimeOutState(k)])
         \/ GotoLabel("suspend")
  BY DEF GiveUpAtOnce, SetTimeOut, Done
<1>2. me.at = "try" /\ me \in Calls /\ "suspend" \in Labels /\ "user" \notin Holding
  BY <1>1, NothingThere, Known DEF CallOK, Labels, Holding
<1>3. \E p : Goto(p) /\ (p = User \/ (p.op = me.op /\ p.at = "suspend"))
  <2>1. LET p == [me EXCEPT !.at = "suspend", !.timeOut = TimeOutState(k)] IN
        p.op = me.op /\ p.at = "suspend"
    BY <1>2 DEF Calls
  <2>. QED
    BY <1>1, <1>2, <2>1, GotoIs
<1>4. PICK p : Goto(p) /\ (p = User \/ (p.op = me.op /\ p.at = "suspend"))
  BY <1>3
<1>5. /\ ~Asleep(me) /\ Shrink(k, k') /\ me.at # "user"
      /\ \A e \in EventLists : me.op \notin Ops(e) \/ Amount(e) = 0
  BY <1>1, <1>2, ShrinkSame, NothingThere DEF Asleep, Leaving
<1>6. p.at \notin {"timeout", "check", "place", "unlocktx"} /\ p.at \notin Holding /\ p.at # "place"
  BY <1>4, UserOK DEF Holding
<1>. QED
  BY <1>1, <1>4, <1>5, <1>6, StepsQuiet

LEMMA SuspendWakes ==
    ASSUME QueueInv, QueueInv', CountsFit, WakeCore, UNCHANGED program,
           SuspendScheduler \/ YieldWithinApi
    PROVE  WakeCore'
<1>. DEFINE a == IF me.at = "suspend" THEN "lock" ELSE "try"
<1>1. /\ me.at \in {"suspend", "yield"} /\ GotoLabel(a) /\ UNCHANGED <<q, lock>>
      /\ k' \in {SuspendAll(k), SwitchContext(k)}
  BY DEF SuspendScheduler, YieldWithinApi, Is
<1>2. a \in Labels /\ a \notin Holding /\ a \notin {"timeout", "check", "place", "unlocktx"}
  BY DEF Labels, Suspending, Holding
<1>3. PICK p : Goto(p) /\ p.at = a /\ p.op = me.op
  <2>. HIDE DEF a
  <2>. QED
    BY <1>1, <1>2, GotoIs
<1>4. Shrink(k, k')
  <2>1. Sound(k) /\ ReadyTasks(k) # {}
    BY DEF QueueInv, Placed
  <2>2. SameSets(k, SuspendAll(k)) /\ SameSets(k, SwitchContext(k))
    BY <2>1, SuspendAllIs, SwitchContextIs DEF Selected
  <2>. QED
    BY <1>1, <2>2 DEF SameSets, Shrink
<1>5. ~Asleep(me) \/ Enlisted(p)
  BY <1>1, <1>3 DEF Asleep, Enlisted, Leaving
<1>6. Retries(me) => Retries(p)
  BY <1>1, <1>3 DEF Retries
<1>7. me.at # "user" /\ p.at \notin Holding /\ p.at \notin {"timeout", "check", "place", "unlocktx"}
      /\ p.at # "place"
  BY <1>1, <1>2, <1>3
<1>. QED
  BY <1>1, <1>3, <1>4, <1>5, <1>6, <1>7, StepsQuiet

\* xTaskCheckForTimeOut, and the look at the queue that follows: a call that goes to sleep
\* saw nothing there, so all there is has been counted since.
LEMMA CheckWakes ==
    ASSUME QueueInv, QueueInv', CountsFit, WakeCore, UNCHANGED program,
           CheckForTimeOut \/ CheckAgain
    PROVE  WakeCore'
<1>1. me.at \in {"timeout", "check"} /\ UNCHANGED <<k, q, lock>> /\ me \in Calls
  BY Known DEF CheckForTimeOut, CheckAgain, Is, CallOK
<1>2. \E p : /\ Goto(p) /\ p.op = me.op
             /\ p.at \in {"check", "unlocktx"} \/ (p.at = "place" /\ Blocked(me.op))
  <2>. DEFINE a == [me EXCEPT !.at = "unlocktx", !.after = "expired"]
              b == [me EXCEPT !.at = "check", !.timeOut = TimeOutState(k),
                              !.wait = @ - Elapsed(k, me.timeOut)]
              c == [me EXCEPT !.at = "place"]
              d == [me EXCEPT !.at = "unlocktx", !.after = "retry"]
  <2>1. /\ a.op = me.op /\ a.at = "unlocktx" /\ b.op = me.op /\ b.at = "check"
        /\ c.op = me.op /\ c.at = "place" /\ d.op = me.op /\ d.at = "unlocktx"
    BY <1>1 DEF Calls
  <2>2. \/ Goto(IF TimedOut(k, me.timeOut, me.wait) THEN a ELSE b)
        \/ Goto(IF Blocked(me.op) THEN c ELSE d)
    BY DEF CheckForTimeOut, CheckAgain
  <2>. HIDE DEF a, b, c, d
  <2>3. Goto(a) \/ Goto(b) \/ (Goto(c) /\ Blocked(me.op)) \/ Goto(d)
    BY <2>2
  <2>. QED
    BY <2>1, <2>3
<1>3. PICK p : /\ Goto(p) /\ p.op = me.op
               /\ p.at \in {"check", "unlocktx"} \/ (p.at = "place" /\ Blocked(me.op))
  BY <1>2
<1>4. /\ Shrink(k, k') /\ ~Asleep(me) /\ ~Retries(me) /\ me.at # "user" /\ me.at \in Holding
      /\ me.at \in {"timeout", "check", "place", "unlocktx"}
  BY <1>1, ShrinkSame DEF Asleep, Leaving, Retries, Holding
<1>5. ASSUME NEW e \in EventLists, p.at = "place", e = Mode(p.op) PROVE Amount(e) <= Backlog(e)
  <2>1. Blocked(me.op) /\ Backlog(e) \in Nat /\ q.waiting \in 0..q.length /\ q.length \in Nat
    BY <1>3, <1>5, BacklogFits, Typed DEF Measured
  <2>2. Amount(e) = 0
    BY <1>3, <1>5, <2>1 DEF Blocked, IsFull, IsEmpty, Mode, Amount
  <2>. QED
    BY <2>1, <2>2
<1>. QED
  BY <1>1, <1>3, <1>4, <1>5, StepsQuiet

LEMMA ResumeWakes ==
    ASSUME QueueInv, QueueInv', CountsFit, WakeCore, UNCHANGED program, Resume
    PROVE  WakeCore'
<1>. DEFINE a == CASE me.after = "expired" -> "recheck"
                   [] me.after = "retry" -> "try"
                   [] OTHER -> IF AlreadyYielded(k) THEN "try" ELSE "yield"
            over == me.after = "expired" /\ me.op \in Sends
<1>1. /\ me.at = "resume" /\ UNCHANGED <<q, lock>> /\ me \in Calls
      /\ over => Goto(User)
      /\ ~over => Goto([me EXCEPT !.after = "none", !.at = a])
  BY Known DEF Resume, Is, CallOK
<1>2. a \in {"recheck", "try", "yield"} /\ (a = "recheck" <=> me.after = "expired")
  BY DEF a
<1>. HIDE DEF a
<1>3. \E p : /\ Goto(p) /\ (me.after # "expired" => p.op = me.op /\ p.at \in {"try", "yield"})
             /\ p = User \/ (p.op = me.op /\ p.at \in {"recheck", "try", "yield"})
  <2>1. LET p == [me EXCEPT !.after = "none", !.at = a] IN p.at = a /\ p.op = me.op
    BY <1>1, <1>2 DEF Calls
  <2>. QED
    BY <1>1, <1>2, <2>1
<1>4. PICK p : /\ Goto(p) /\ (me.after # "expired" => p.op = me.op /\ p.at \in {"try", "yield"})
               /\ p = User \/ (p.op = me.op /\ p.at \in {"recheck", "try", "yield"})
  BY <1>3
<1>5. Shrink(k, k')
  BY ResumeKeeps DEF Fewer, Shrink
<1>6. ~Asleep(me) \/ Enlisted(p)
  BY <1>1, <1>4 DEF Asleep, Enlisted
<1>7. Retries(me) => Retries(p) /\ p.op = me.op
  BY <1>1, <1>4 DEF Retries
<1>8. me.at # "user" /\ p.at \notin Holding /\ p.at \notin {"timeout", "check", "place", "unlocktx"}
      /\ p.at # "place"
  BY <1>1, <1>4, UserOK DEF Holding
<1>. QED
  BY <1>1, <1>4, <1>5, <1>6, <1>7, <1>8, StepsQuiet

LEMMA RecheckWakes ==
    ASSUME QueueInv, QueueInv', CountsFit, WakeCore, UNCHANGED program, Recheck
    PROVE  WakeCore'
<1>1. me.at = "recheck" /\ UNCHANGED <<k, q, lock>> /\ (Goto(User) \/ GotoLabel("try"))
  BY DEF Recheck, Is, Done
<1>2. \E p : Goto(p) /\ (p = User \/ (p.op = me.op /\ p.at = "try"))
  BY <1>1, GotoIs DEF Labels
<1>3. PICK p : Goto(p) /\ (p = User \/ (p.op = me.op /\ p.at = "try"))
  BY <1>2
<1>4. /\ Shrink(k, k') /\ ~Asleep(me) /\ ~Retries(me) /\ me.at # "user"
      /\ p.at \notin Holding /\ p.at \notin {"timeout", "check", "place", "unlocktx"}
      /\ p.at # "place"
  BY <1>1, <1>3, ShrinkSame, UserOK DEF Asleep, Leaving, Retries, Holding
<1>. QED
  BY <1>1, <1>3, <1>4, StepsQuiet

LEMMA TickWakes ==
    ASSUME QueueInv, QueueInv', CountsFit, WakeCore, UNCHANGED program,
           TickISR \/ UNCHANGED <<k, q, lock, pc>>
    PROVE  WakeCore'
<1>1. UNCHANGED <<q, lock, pc>> /\ Shrink(k, k')
  BY TickKeeps, ShrinkSame DEF TickISR, Fewer, Shrink
<1>2. Goto(me)
  BY <1>1, StillHere
<1>3. me.at # "user" => me.op \in program.calls[cur] \ {"reset"}
  BY Known DEF WakeCore, Legal
<1>4. \A e \in EventLists : me.at = "place" /\ e = Mode(me.op) => Amount(e) <= Backlog(e)
  BY DEF WakeCore, Locked
<1>. DEFINE p == me
<1>5. /\ Goto(p) /\ (p.at # "user" => p.op \in program.calls[cur] \ {"reset"}) /\ p = me
      /\ \A e \in EventLists : p.at = "place" /\ e = Mode(p.op) => Amount(e) <= Backlog(e)
  BY <1>2, <1>3, <1>4
<1>. HIDE DEF p
<1>. QED
  BY <1>1, <1>5, QuietKeeps


\* prvLockQueue
LEMMA LockQueueWakes ==
    ASSUME QueueInv, QueueInv', CountsFit, WakeCore, UNCHANGED program, LockQueue
    PROVE  WakeCore'
<1>1. /\ me.at = "lock" /\ UNCHANGED <<k, q>> /\ GotoLabel("timeout")
      /\ lock' = [side \in {"tx", "rx"} |-> IF lock[side] = UNLOCKED
                                            THEN LOCKED_UNMODIFIED ELSE lock[side]]
  BY DEF LockQueue, Is
<1>2. PICK p : Goto(p) /\ p.at = "timeout" /\ p.op = me.op
  BY <1>1, GotoIs DEF Labels, Suspending
<1>3. UNLOCKED = -1 /\ LOCKED_UNMODIFIED = 0
  BY DEF UNLOCKED, LOCKED_UNMODIFIED
<1>4. lock'.tx # UNLOCKED /\ lock'.rx # UNLOCKED
      /\ \A e \in EventLists : Backlog(e)' = Backlog(e) /\ Amount(e)' = Amount(e)
  BY <1>1, <1>3, Directions DEF Backlog, Amount
<1>5. /\ Shrink(k, k') /\ ~Asleep(me) /\ ~Retries(me) /\ me.at # "user"
  BY <1>1, ShrinkSame DEF Asleep, Leaving, Retries
<1>6. Legal' /\ Listed'
  <2>1. p.op \in program.calls[cur] \ {"reset"}
    BY <1>2, <1>5, Known DEF WakeCore, Legal
  <2>. QED
    BY <1>2, <1>5, <2>1, ListedGoes DEF WakeCore
<1>7. Locked'
  <2>1. me'.at \in Holding \cup {"place"} => me' = p
    BY <1>2, HeldBy
  <2>. QED
    BY <1>2, <1>4, <2>1 DEF Locked
<1>8. ASSUME NEW e \in EventLists PROVE Owed(e)'
  <2>1. Amount(e)' + Backlog(e) <= Amount(e) + Backlog(e)'
    BY <1>4, Typed DEF Measured
  <2>. QED
    BY <1>2, <1>5, <2>1, OwedQuiet DEF WakeCore, Shrink
<1>. QED
  BY <1>6, <1>7, <1>8 DEF WakeCore

\* A task is woken on list e: the lists keep all others.
Wakes(e) ==
    \/ k.events[e] = <<>> /\ UNCHANGED k
    \/ \E t \in ToSet(k.events[e]) : \A d \in EventLists :
          ToSet(k'.events[d]) = ToSet(k.events[d]) \ {t}

LEMMA WokenWakes ==
    ASSUME QueueInv, NEW e \in EventLists,
           k' = Woken(e) \/ (k.events[e] # <<>> /\ k' = RemoveFromEventList(k, e))
    PROVE  Wakes(e) /\ Shrink(k, k')
<1>1. Wakes(e)
  BY WokenIs DEF Wakes
<1>. QED
  BY <1>1 DEF Wakes, Shrink

\* An item, or a slot, more: if a task waits, one is woken.
LEMMA OwedGrows ==
    ASSUME QueueInv, QueueInv', CountsFit, WakeCore, NEW e \in EventLists, Wakes(e),
           NEW p, Goto(p), cur \in ToSet(k.events[e]) => Retries(p) /\ p.op = me.op,
           Backlog(e)' = Backlog(e),
           \/ /\ Amount(e)' <= Amount(e) + 1
              /\ me.op \in Ops(e) /\ Retries(me) => Retries(p) /\ p.op = me.op
           \/ Amount(e)' <= Amount(e)
    PROVE  Owed(e)'
<1>1. CASE k.events[e] = <<>> /\ UNCHANGED k
  BY <1>1, OwedEmpty
<1>2. CASE \E t \in ToSet(k.events[e]) : \A d \in EventLists :
              ToSet(k'.events[d]) = ToSet(k.events[d]) \ {t}
  <2>1. PICK t \in ToSet(k.events[e]) : ToSet(k'.events[e]) = ToSet(k.events[e]) \ {t}
    BY <1>2
  <2>2. WakeInv /\ (t = cur => Retries(p) /\ p.op = me.op)
    BY <2>1 DEF WakeInv
  <2>3. CASE Amount(e)' <= Amount(e)
    BY <2>1, <2>2, <2>3, OwedWakes
  <2>4. CASE /\ Amount(e)' <= Amount(e) + 1
             /\ me.op \in Ops(e) /\ Retries(me) => Retries(p) /\ p.op = me.op
    BY <2>1, <2>2, <2>4, OwedWakes
  <2>. QED
    BY <2>3, <2>4
<1>. QED
  BY <1>1, <1>2 DEF Wakes

\* A send, a receive or a look succeeds.
LEMMA SucceedsWakes ==
    ASSUME QueueInv, QueueInv', CountsFit, WakeCore, UNCHANGED program,
           Send \/ Receive \/ Peek
    PROVE  WakeCore'
<1>1. me.at = "try" /\ Goto(User) /\ UNCHANGED lock /\ me \in Calls
  BY Known DEF Send, Receive, Peek, Is, Done, CallOK
<1>. DEFINE p == User
<1>2. p.at = "user" /\ Goto(p)
  BY <1>1, UserOK
<1>. HIDE DEF p
<1>3. ~Asleep(me) /\ cur \in ReadyTasks(k)
  BY <1>1, Whereabouts DEF Asleep, Leaving
<1>4. \A e \in EventLists : cur \notin ToSet(k.events[e])
  BY <1>3, Known
<1>5. \/ /\ me.op \in Sends /\ CanSend(me.op) /\ q' = CopyTo(q, me.item, me.op)
         /\ k' = Woken("receive")
      \/ /\ me.op = "receive" /\ q' = CopyFrom(q) /\ k' = Woken("send")
      \/ /\ me.op = "peek" /\ UNCHANGED q /\ k' = Woken("receive")
  BY DEF Send, Receive, Peek
<1>6. \E e \in EventLists : k' = Woken(e)
  BY <1>5, Directions
<1>7. Shrink(k, k')
  BY <1>6, WokenWakes
<1>8. Legal' /\ Listed'
  BY <1>2, <1>3, <1>7, ListedGoes DEF WakeCore
<1>9. Locked'
  BY <1>1, <1>2, LockedGoes DEF WakeCore, Holding
<1>10. \A e : Backlog(e)' = Backlog(e)
  BY <1>1 DEF Backlog
<1>11. \A e \in EventLists : /\ Amount(e) \in Nat /\ Backlog(e) \in Nat /\ Owed(e)
                             /\ ToSet(k'.events[e]) \subseteq ToSet(k.events[e])
  BY <1>7, Typed, BacklogFits DEF Measured, WakeCore, Shrink
<1>12. Owed("send")' /\ Owed("receive")'
  <2>1. CASE me.op \in Sends /\ q' = CopyTo(q, me.item, me.op) /\ k' = Woken("receive")
    <3>1. me.op = "overwrite" => program.length = 1
      BY Known DEF CallOK
    <3>2. \/ Amount("receive")' = Amount("receive") + 1 /\ Amount("send")' = Amount("send") - 1
          \/ Amount("receive")' = Amount("receive") /\ Amount("send")' = 0 /\ Amount("send") = 0
      BY <2>1, <3>1, SentAmounts
    <3>3. Owed("send")'
      <4>1. CASE Amount("send")' = Amount("send") - 1
        BY <1>2, <1>10, <1>11, <4>1, OwedLeaves, Directions
      <4>2. CASE Amount("send")' = 0
        BY <1>10, <1>11, <4>2, OwedNone, Directions
      <4>. QED
        BY <3>2, <4>1, <4>2
    <3>4. Owed("receive")'
      <4>1. Wakes("receive") /\ me.op \notin Ops("receive")
        BY <2>1, WokenWakes, Directions
      <4>2. Amount("receive")' <= Amount("receive") + 1
        BY <1>11, <3>2, Directions
      <4>. QED
        BY <1>2, <1>4, <1>10, <4>1, <4>2, OwedGrows, Directions
    <3>. QED
      BY <3>3, <3>4
  <2>2. CASE me.op = "receive" /\ q' = CopyFrom(q) /\ k' = Woken("send")
    <3>1. Amount("receive")' = Amount("receive") - 1 /\ Amount("send")' = Amount("send") + 1
      BY <2>2, TakenAmounts
    <3>2. Owed("receive")'
      BY <1>2, <1>10, <1>11, <3>1, OwedLeaves, Directions
    <3>3. Wakes("send") /\ me.op \notin Ops("send")
      BY <2>2, WokenWakes, Directions DEF Receives
    <3>4. Amount("send")' <= Amount("send") + 1
      BY <1>11, <3>1, Directions
    <3>. QED
      BY <1>2, <1>4, <1>10, <3>2, <3>3, <3>4, OwedGrows, Directions
  <2>3. CASE me.op = "peek" /\ UNCHANGED q /\ k' = Woken("receive")
    <3>1. \A e : Amount(e)' = Amount(e)
      BY <2>3 DEF Amount
    <3>2. Wakes("receive") /\ me.op \notin Ops("send")
      BY <2>3, WokenWakes, Directions DEF Receives
    <3>3. /\ Amount("receive")' <= Amount("receive")
          /\ Amount("send")' + Backlog("send") <= Amount("send") + Backlog("send")'
      BY <1>10, <1>11, <3>1, Directions
    <3>4. Owed("receive")'
      BY <1>2, <1>4, <1>10, <3>2, <3>3, OwedGrows, Directions
    <3>5. Owed("send")'
      BY <1>2, <1>11, <3>2, <3>3, OwedQuiet, Directions
    <3>. QED
      BY <3>4, <3>5
  <2>. QED
    BY <1>5, <2>1, <2>2, <2>3
<1>. QED
  BY <1>8, <1>9, <1>12, Directions DEF WakeCore


\* vTaskPlaceOnEventList: all there is by then has been counted.
LEMMA PlaceWakes ==
    ASSUME QueueInv, QueueInv', CountsFit, WakeCore, UNCHANGED program, Place
    PROVE  WakeCore'
<1>. DEFINE e == Mode(me.op)
<1>1. /\ me.at = "place" /\ UNCHANGED <<q, lock>> /\ k' = PlaceOnEventList(k, e, me.wait)
      /\ Goto([me EXCEPT !.at = "unlocktx", !.after = "blocked"])
  BY DEF Place, Is
<1>2. /\ ~Asleep(me) /\ me \in Calls /\ me.wait \in Ticks \ {0} /\ e \in EventLists
  <2>1. me \in Calls /\ me.wait > 0 /\ ~Asleep(me)
    BY <1>1, Known DEF CallOK, Asleep, Leaving
  <2>. QED
    BY <2>1, Known DEF Mode, Calls
<1>3. cur \in ReadyTasks(k) /\ cur = k.cur
  BY <1>2, Whereabouts, Known
<1>. HIDE DEF e
<1>4. \A d \in EventLists : ToSet(k'.events[d]) =
             IF d = e THEN ToSet(k.events[d]) \cup {cur} ELSE ToSet(k.events[d])
  <2>. DEFINE n == me.wait
  <2>1. /\ Sound(k) /\ k.cur \in ReadyTasks(k) /\ n \in Ticks \ {0} /\ e \in EventLists
        /\ k' = PlaceOnEventList(k, e, n)
    BY <1>1, <1>2, <1>3 DEF QueueInv
  <2>. HIDE DEF n
  <2>2. \A d \in EventLists : ToSet(k'.events[d]) =
             IF d = e THEN ToSet(k.events[d]) \cup {k.cur} ELSE ToSet(k.events[d])
    BY <2>1, PlaceSleeps
  <2>. QED
    BY <1>3, <2>2
<1>5. PICK p : Goto(p) /\ p.at = "unlocktx" /\ p.after = "blocked" /\ p.op = me.op
  <2>1. LET p == [me EXCEPT !.at = "unlocktx", !.after = "blocked"] IN
        p.at = "unlocktx" /\ p.after = "blocked" /\ p.op = me.op
    BY <1>2 DEF Calls
  <2>. QED
    BY <1>1, <2>1
<1>6. \A t \in Tasks : pc'[t] = IF t = cur THEN p ELSE pc[t]
  BY <1>5, PcAfter
<1>7. Legal'
  <2>1. p.op \in program.calls[cur] \ {"reset"}
    BY <1>1, <1>5, Known DEF WakeCore, Legal
  <2>. QED
    BY <1>6, <2>1 DEF WakeCore, Legal
<1>8. Listed'
  <2>1. ASSUME NEW d \in EventLists, NEW t \in ToSet(k'.events[d]) PROVE Enlisted(pc'[t])
    <3>1. CASE t = cur
      BY <1>5, <1>6, <3>1, Known DEF Enlisted, Leaving
    <3>2. CASE t # cur
      <4>1. t \in ToSet(k.events[d])
        BY <1>4, <3>2
      <4>2. t \in Tasks
        BY <4>1, Typed DEF Measured
      <4>. QED
        BY <1>6, <3>2, <4>1, <4>2 DEF WakeCore, Listed
    <3>. QED
      BY <3>1, <3>2
  <2>. QED
    BY <2>1 DEF Listed
<1>9. Locked'
  BY <1>1, <1>5, LockedGoes DEF WakeCore, Holding
<1>10. ASSUME NEW d \in EventLists PROVE Owed(d)'
  <2>1. Amount(d)' = Amount(d) /\ Backlog(d)' = Backlog(d) /\ Amount(d) \in Nat /\ Backlog(d) \in Nat
    BY <1>1, <1>10, Typed, BacklogFits DEF Amount, Backlog, Measured
  <2>2. CASE d = e
    <3>1. Amount(d) <= Backlog(d)
      BY <1>1, <2>2 DEF WakeCore, Locked, e
    <3>2. Cardinality(Back(d)') \in Nat
      BY TypedNext DEF Measured
    <3>. QED
      BY <2>1, <3>1, <3>2 DEF Owed
  <2>3. CASE d # e
    <3>1. ToSet(k'.events[d]) \subseteq ToSet(k.events[d]) /\ ~Retries(me)
      BY <1>1, <1>4, <2>3 DEF Retries
    <3>2. Amount(d)' + Backlog(d) <= Amount(d) + Backlog(d)'
      BY <2>1
    <3>. QED
      BY <1>5, <3>1, <3>2, OwedQuiet DEF WakeCore
  <2>. QED
    BY <2>2, <2>3
<1>. QED
  BY <1>7, <1>8, <1>9, <1>10 DEF WakeCore

\* prvUnlockQueue: a task is woken for each item and slot the interrupts counted.
LEMMA UnlockWakes ==
    ASSUME QueueInv, QueueInv', CountsFit, WakeCore, UNCHANGED program, UnlockTx \/ UnlockRx
    PROVE  WakeCore'
<1>. DEFINE a == IF me.at = "unlocktx" THEN "unlockrx" ELSE "resume"
            e == IF me.at = "unlocktx" THEN "receive" ELSE "send"
            count == lock[Side(e)]
<1>1. /\ me.at \in {"unlocktx", "unlockrx"} /\ UNCHANGED q /\ GotoLabel(a) /\ me \in Calls
      /\ k' = WakeCounted(e, count) /\ lock' = [lock EXCEPT ![Side(e)] = UNLOCKED]
  BY Directions, Known DEF UnlockTx, UnlockRx, Is, CallOK
<1>2. /\ e \in EventLists /\ count \in Int /\ UNLOCKED = -1
      /\ a \in Labels /\ a \in Leaving /\ a # "unlocktx"
  BY Directions, LockFacts DEF Labels, Suspending, Leaving, UNLOCKED
<1>3. PICK p : Goto(p) /\ p.at = a /\ p.after = me.after /\ p.op = me.op
  <2>. HIDE DEF a
  <2>. QED
    BY <1>1, <1>2, GotoIs
<1>4. Moves(k, k')
  BY <1>1, <1>2, WakeCountedMoves
<1>5. Shrink(k, k')
  BY <1>4 DEF Moves, Shrink
<1>6. Retries(me) => Retries(p)
  BY <1>1, <1>3 DEF Retries
<1>7. Enlisted(me) => Retries(p) /\ Enlisted(p)
  BY <1>1, <1>3 DEF Retries, Enlisted, Leaving
<1>8. ~Asleep(me) \/ Enlisted(p)
  BY <1>1, <1>3 DEF Asleep, Enlisted, Leaving
<1>9. Legal' /\ Listed'
  <2>1. p.op \in program.calls[cur] \ {"reset"}
    BY <1>1, <1>3, Known DEF WakeCore, Legal
  <2>. QED
    BY <1>3, <1>5, <1>8, <2>1, ListedGoes DEF WakeCore
<1>10. Locked'
  <2>1. me'.at \in Holding \cup {"place"} => me' = p
    BY <1>3, HeldBy
  <2>2. me.at = "unlocktx" => lock'.rx = lock.rx /\ lock.rx # UNLOCKED
    BY <1>1, LockFacts, Directions DEF WakeCore, Locked, Holding
  <2>3. me'.at \notin {"timeout", "check", "place", "unlocktx"}
    BY <1>3, <2>1 DEF Holding
  <2>4. me'.at \in Holding => lock'.rx # UNLOCKED
    BY <1>1, <1>3, <2>1, <2>2 DEF Holding
  <2>. QED
    BY <2>3, <2>4 DEF Locked, Holding
<1>11. \A d \in EventLists : /\ Amount(d)' = Amount(d) /\ Amount(d) \in Nat /\ Backlog(d) \in Nat
                             /\ Owed(d) /\ Back(d) \subseteq Back(d)'
                             /\ ToSet(k'.events[d]) \subseteq ToSet(k.events[d])
  <2>. TAKE d \in EventLists
  <2>1. ToSet(k'.events[d]) \subseteq ToSet(k.events[d])
    BY <1>5 DEF Shrink
  <2>2. Back(d) \subseteq Back(d)'
    BY <1>3, <1>6, <2>1, BackGoes
  <2>. QED
    BY <1>1, <2>1, <2>2, Typed, BacklogFits DEF Amount, Measured, WakeCore
<1>. HIDE DEF e, count, a
<1>12. ASSUME NEW d \in EventLists PROVE Owed(d)'
  <2>1. CASE d # e
    <3>1. Backlog(d)' = Backlog(d)
      BY <1>1, <1>2, <2>1, LockFacts, Directions DEF Backlog
    <3>2. Amount(d)' + Backlog(d) <= Amount(d) + Backlog(d)'
      BY <1>11, <3>1
    <3>. QED
      BY <1>3, <1>6, <1>11, <3>2, OwedQuiet
  <2>2. CASE d = e
    <3>. DEFINE G == ToSet(k.events[d]) \ ToSet(k'.events[d])  L == {}
    <3>1. G \in SUBSET ToSet(k.events[d]) /\ (k'.events[d] # <<>> => count <= Cardinality(G))
      BY <1>1, <1>2, <2>2, WakeCountedTakes
    <3>2. G \subseteq Back(d)'
      <4>. SUFFICES ASSUME NEW t \in ToSet(k.events[d]), t \notin ToSet(k'.events[d])
                    PROVE  t \in Back(d)'
        OBVIOUS
      <4>1. WakeInv
        BY DEF WakeInv
      <4>2. t \in Tasks /\ pc[t].op \in Ops(d) /\ Enlisted(pc[t]) /\ (t # cur => Retries(pc[t]))
        BY <4>1, Waiting
      <4>3. pc'[t] = IF t = cur THEN p ELSE pc[t]
        BY <1>3, <4>2, PcAfter
      <4>4. pc'[t].op \in Ops(d) /\ Retries(pc'[t])
        BY <1>3, <1>7, <4>2, <4>3 DEF me
      <4>. QED
        BY <4>2, <4>4 DEF Back
    <3>3. Backlog(d)' = 0 /\ Backlog(d) = IF count = UNLOCKED THEN 0 ELSE count
      BY <1>1, <1>2, <2>2, LockFacts, Directions DEF Backlog, count
    <3>4. Cardinality(L) = 0 /\ Cardinality(G) \in Nat
      <4>1. IsFiniteSet(Tasks) /\ G \subseteq Tasks
        BY TaskListsAssumption, Typed DEF Measured
      <4>. QED
        BY <4>1, FS_EmptySet, FS_Subset, FS_CardinalityType
    <3>. HIDE DEF G, L
    <3>5. CASE k'.events[d] = <<>>
      BY <3>5 DEF Owed
    <3>6. CASE k'.events[d] # <<>>
      <4>1. Amount(d)' + Cardinality(L) + Backlog(d) <= Amount(d) + Cardinality(G) + Backlog(d)'
        BY <1>2, <1>11, <3>1, <3>3, <3>4, <3>6
      <4>2. L \in SUBSET Tasks /\ Back(d) \ L \subseteq Back(d)'
        BY <1>11 DEF L
      <4>. QED
        BY <1>11, <3>1, <3>2, <4>1, <4>2, OwedStep
    <3>. QED
      BY <3>5, <3>6
  <2>. QED
    BY <2>1, <2>2
<1>. QED
  BY <1>9, <1>10, <1>12 DEF WakeCore


\* An interrupt sends or receives: it counts, or wakes a task.
LEMMA InterruptKeeps ==
    ASSUME MaxCounted <= LockMax, QueueInv, QueueInv', CountsFit, WakeCore,
           UNCHANGED <<program, pc>>, NEW e \in EventLists, IsrWakes(e, Side(e)),
           Amount(e)' <= Amount(e) + 1,
           \A d \in EventLists \ {e} : Amount(d)' <= Amount(d)
    PROVE  WakeCore'
<1>. DEFINE side == Side(e)  p == me
<1>1. Goto(me) /\ side \in {"tx", "rx"}
  BY StillHere, Directions
<1>2. Goto(p) /\ p = me
  BY <1>1
<1>3. \A d \in EventLists : Amount(d) \in Nat /\ Amount(d)' \in Nat /\ Backlog(d) \in Nat /\ Owed(d)
  BY Typed, TypedNext, BacklogFits DEF Measured, WakeCore
<1>4. me.at # "user" => me.op \in program.calls[cur] \ {"reset"}
  BY Known DEF WakeCore, Legal
<1>5. CASE lock[side] # UNLOCKED
  <2>1. lock[side] < MaxCounted /\ lock' = [lock EXCEPT ![side] = Counted(@)] /\ UNCHANGED k
    BY <1>5 DEF IsrWakes
  <2>2. Counted(lock[side]) = lock[side] + 1 /\ lock[side] \in Nat
        /\ Counted(lock[side]) # UNLOCKED
    <3>1. lock[side] \in UNLOCKED..LockMax /\ UNLOCKED = -1
      BY <1>1 DEF CountsFit, UNLOCKED
    <3>. QED
      BY <1>5, <2>1, <3>1, QueueAssumption DEF Counted
  <2>3. Backlog(e)' = Backlog(e) + 1 /\ \A d \in EventLists \ {e} : Backlog(d)' = Backlog(d)
    BY <1>1, <1>5, <2>1, <2>2, LockFacts, Directions DEF Backlog
  <2>4. \A d \in EventLists : Amount(d)' + Backlog(d) <= Amount(d) + Backlog(d)'
    <3>. TAKE d \in EventLists
    <3>1. CASE d = e
      BY <1>3, <2>3, <3>1
    <3>2. CASE d # e
      BY <1>3, <2>3, <3>2
    <3>. QED
      BY <3>1, <3>2
  <2>5. Shrink(k, k')
    BY <2>1, ShrinkSame
  <2>6. Legal' /\ Listed'
    <3>. HIDE DEF p
    <3>. QED
      BY <1>2, <1>4, <2>5, ListedGoes DEF WakeCore
  <2>7. \A d \in EventLists : Owed(d)'
    <3>. HIDE DEF p
    <3>. QED
      BY <1>2, <1>3, <2>4, <2>5, OwedQuiet DEF Shrink
  <2>8. Locked'
    <3>1. me' = me
      BY <2>1 DEF me, cur
    <3>2. /\ lock.tx # UNLOCKED => lock'.tx # UNLOCKED
          /\ lock.rx # UNLOCKED => lock'.rx # UNLOCKED
      BY <1>1, <2>1, <2>2, LockFacts
    <3>3. \A d \in EventLists : me.at = "place" /\ d = Mode(me.op) => Amount(d)' <= Backlog(d)'
      <4>. TAKE d \in EventLists
      <4>1. me.at = "place" /\ d = Mode(me.op) => Amount(d) <= Backlog(d)
        BY DEF WakeCore, Locked
      <4>2. Backlog(d)' \in Int
        BY TypedNext DEF Measured
      <4>. QED
        BY <1>3, <2>4, <4>1, <4>2
    <3>. QED
      BY <3>1, <3>2, <3>3 DEF WakeCore, Locked
  <2>. QED
    BY <2>6, <2>7, <2>8 DEF WakeCore
<1>6. CASE lock[side] = UNLOCKED
  <2>1. UNCHANGED lock /\ (k' = Woken(e) \/ (k.events[e] # <<>> /\ k' = RemoveFromEventList(k, e)))
    BY <1>6 DEF IsrWakes, Woken
  <2>2. Wakes(e) /\ Shrink(k, k')
    BY <2>1, WokenWakes
  <2>3. \A d \in EventLists : Backlog(d)' = Backlog(d)
    BY <2>1 DEF Backlog
  <2>4. me.at \notin {"timeout", "check", "place", "unlocktx"}
    BY <1>1, <1>6 DEF WakeCore, Locked, Holding
  <2>5. cur \in ToSet(k.events[e]) => Retries(me)
    BY <2>4, Known DEF WakeCore, Listed, Enlisted, Retries, Leaving
  <2>6. Legal' /\ Listed'
    <3>. HIDE DEF p
    <3>. QED
      BY <1>2, <1>4, <2>2, ListedGoes DEF WakeCore
  <2>7. Locked'
    <3>. HIDE DEF p
    <3>. QED
      BY <1>2, <2>1, <2>4, LockedGoes DEF WakeCore
  <2>8. Owed(e)'
    <3>. HIDE DEF p
    <3>. QED
      BY <1>2, <2>2, <2>3, <2>5, OwedGrows
  <2>9. ASSUME NEW d \in EventLists, d # e PROVE Owed(d)'
    <3>1. Amount(d)' + Backlog(d) <= Amount(d) + Backlog(d)'
      BY <1>3, <2>3, <2>9
    <3>. HIDE DEF p
    <3>. QED
      BY <1>2, <1>3, <2>2, <3>1, OwedQuiet DEF Shrink
  <2>. QED
    BY <2>6, <2>7, <2>8, <2>9 DEF WakeCore
<1>. QED
  BY <1>5, <1>6

LEMMA IsrWakesKeeps ==
    ASSUME MaxCounted <= LockMax, QueueInv, QueueInv', CountsFit, WakeCore, UNCHANGED program,
           ReceiveFromISR \/ \E x \in program.items, position \in Sends : SendFromISR(x, position)
    PROVE  WakeCore'
<1>1. \A d \in EventLists : Amount(d) \in Nat
  BY Typed DEF Measured
<1>2. CASE ReceiveFromISR
  <2>1. UNCHANGED pc /\ q' = CopyFrom(q) /\ IsrWakes("send", Side("send"))
    BY <1>2, Directions DEF ReceiveFromISR
  <2>2. Amount("receive")' = Amount("receive") - 1 /\ Amount("send")' = Amount("send") + 1
    BY <2>1, TakenAmounts
  <2>. DEFINE e == "send"
  <2>3. /\ e \in EventLists /\ IsrWakes(e, Side(e)) /\ Amount(e)' <= Amount(e) + 1
        /\ \A d \in EventLists \ {e} : Amount(d)' <= Amount(d)
    BY <1>1, <2>1, <2>2, Directions
  <2>. HIDE DEF e
  <2>. QED
    BY <2>1, <2>3, InterruptKeeps
<1>3. ASSUME NEW x \in program.items, NEW position \in Sends, SendFromISR(x, position)
      PROVE  WakeCore'
  <2>1. /\ UNCHANGED pc /\ q' = CopyTo(q, x, position) /\ IsrWakes("receive", Side("receive"))
        /\ position \in program.isr
    BY <1>3, Directions DEF SendFromISR
  <2>2. position = "overwrite" => program.length = 1
    BY <2>1, QueueAssumption DEF QueueInv, BufferOK
  <2>3. \/ Amount("receive")' = Amount("receive") + 1 /\ Amount("send")' = Amount("send") - 1
        \/ Amount("receive")' = Amount("receive") /\ Amount("send")' = 0 /\ Amount("send") = 0
    BY <2>1, <2>2, SentAmounts
  <2>. DEFINE e == "receive"
  <2>4. /\ e \in EventLists /\ IsrWakes(e, Side(e)) /\ Amount(e)' <= Amount(e) + 1
        /\ \A d \in EventLists \ {e} : Amount(d)' <= Amount(d)
    BY <1>1, <2>1, <2>3, Directions
  <2>. HIDE DEF e
  <2>. QED
    BY <2>1, <2>4, InterruptKeeps
<1>. QED
  BY <1>2, <1>3

\* xQueueGenericReset frees all the slots and wakes one sender, so that no more than one
\* may be waiting if there is more than one slot.
OneSender ==
    \A p \in Programs : \A t, u, v \in Tasks :
        ("reset" \in p.calls[t] /\ p.length > 1 /\ p.calls[u] \cap Sends # {}
            /\ p.calls[v] \cap Sends # {}) => u = v

LEMMA ResetWakes ==
    ASSUME OneSender, QueueInv, QueueInv', CountsFit, WakeCore, UNCHANGED program, ResetQueue
    PROVE  WakeCore'
<1>. DEFINE p == me
<1>1. /\ me.at = "user" /\ "reset" \in program.calls[cur] /\ q' = Reset(q) /\ UNCHANGED pc
      /\ lock' = [tx |-> UNLOCKED, rx |-> UNLOCKED] /\ k' = Woken("send")
  BY DEF ResetQueue, Is
<1>2. Goto(p) /\ p = me
  BY <1>1, StillHere
<1>. HIDE DEF p
<1>3. Wakes("send") /\ Shrink(k, k')
  BY <1>1, WokenWakes, Directions
<1>4. \A d \in EventLists : Backlog(d)' = 0
  BY <1>1, Directions DEF Backlog
<1>5. Amount("receive")' = 0 /\ Amount("send")' = program.length
  BY <1>1, ResetAmounts
<1>6. Legal' /\ Listed'
  BY <1>1, <1>2, <1>3, ListedGoes DEF WakeCore
<1>7. Locked'
  <2>1. me'.at \in Holding \cup {"place"} => me' = me
    BY <1>2, HeldBy
  <2>2. me'.at \notin Holding \cup {"place"}
    BY <1>1, <2>1 DEF Holding
  <2>. QED
    BY <2>2 DEF Locked, Holding
<1>8. Owed("receive")'
  BY <1>4, <1>5, OwedNone, Directions
<1>9. Owed("send")'
  <2>. DEFINE e == "send"
  <2>1. e \in EventLists /\ Wakes(e)
    BY <1>3, Directions
  <2>2. CASE k.events[e] = <<>> /\ UNCHANGED k
    <3>. HIDE DEF e
    <3>. QED
      BY <2>1, <2>2, OwedEmpty DEF e
  <2>3. ASSUME NEW t \in ToSet(k.events[e]), ToSet(k'.events[e]) = ToSet(k.events[e]) \ {t}
        PROVE  Owed(e)'
    <3>. HIDE DEF e
    <3>1. WakeInv
      BY DEF WakeInv
    <3>2. \A u \in ToSet(k.events[e]) : u \in Tasks /\ pc[u].op \in Ops(e) /\ Enlisted(pc[u])
                                        /\ (u # cur => Retries(pc[u]))
      BY <2>1, <3>1, Waiting
    <3>3. \A u \in ToSet(k.events[e]) : u # cur
      BY <1>1, <3>2 DEF Enlisted, Leaving, me
    <3>4. CASE program.length > 1
      <4>1. \A u \in ToSet(k.events[e]) : program.calls[u] \cap Sends # {}
        <5>. TAKE u \in ToSet(k.events[e])
        <5>1. pc[u].op \in program.calls[u] /\ pc[u].op \in Sends
          BY <3>2 DEF WakeCore, Legal, Enlisted, Leaving, e, Ops
        <5>. QED
          BY <5>1
      <4>2. \A u \in ToSet(k.events[e]) : u = t
        BY <1>1, <3>2, <3>4, <4>1, Known DEF OneSender, QueueInv, BufferOK
      <4>3. k'.events[e] = <<>>
        BY <2>1, <2>3, <4>2, TypedNext DEF Measured
      <4>. QED
        BY <4>3 DEF Owed
    <3>5. CASE ~(program.length > 1)
      <4>1. Amount(e)' = 1
        BY <1>5, <3>5, LengthType DEF e, QueueInv
      <4>2. t \in Back(e)'
        <5>1. t \in Tasks /\ pc'[t] = pc[t] /\ pc[t].op \in Ops(e) /\ Retries(pc[t])
          BY <1>1, <3>2, <3>3
        <5>. QED
          BY <2>3, <5>1 DEF Back
      <4>3. Cardinality(Back(e)') >= 1
        <5>1. IsFiniteSet(Back(e)') /\ Cardinality(Back(e)') \in Nat
          BY <2>1, TypedNext DEF Measured
        <5>2. Cardinality(Back(e)') # 0
          BY <4>2, <5>1, FS_EmptySet
        <5>. QED
          BY <5>1, <5>2
      <4>4. Backlog(e)' = 0 /\ Cardinality(Back(e)') \in Nat
        BY <1>4, <2>1, TypedNext DEF Measured
      <4>. QED
        BY <4>1, <4>3, <4>4 DEF Owed
    <3>. QED
      BY <3>4, <3>5
  <2>. QED
    BY <2>1, <2>2, <2>3 DEF Wakes
<1>. QED
  BY <1>6, <1>7, <1>8, <1>9, Directions DEF WakeCore


LEMMA InitWakes == Init => WakeInv
<1>. SUFFICES ASSUME Init PROVE WakeInv
  OBVIOUS
<1>1. QueueInv /\ (\A e \in EventLists : k.events[e] = <<>>) /\ cur \in Tasks
  BY InitHolds, Known
<1>2. pc = [t \in Tasks |-> User] /\ lock = [tx |-> UNLOCKED, rx |-> UNLOCKED]
  BY DEF Init
<1>3. CountsFit
  BY <1>2, QueueAssumption DEF CountsFit, UNLOCKED
<1>4. Legal
  BY <1>2, UserOK DEF Legal
<1>5. Listed
  BY <1>1 DEF Listed, ToSet
<1>6. Locked
  BY <1>1, <1>2, UserOK DEF Locked, me, Holding
<1>7. \A e \in EventLists : Owed(e)
  BY <1>1 DEF Owed
<1>. QED
  BY <1>3, <1>4, <1>5, <1>6, <1>7 DEF WakeInv, WakeCore

LEMMA NextWakes ==
    ASSUME MaxCounted <= LockMax, OneSender, QueueInv, WakeInv, [Next]_vars
    PROVE  WakeInv'
<1>1. QueueInv' /\ UNCHANGED program /\ CountsFit /\ WakeCore
  BY NextKeeps DEF WakeInv
<1>2. CountsFit'
  BY <1>1, CountsStayFit
<1>3. WakeCore'
  <2>1. CASE UNCHANGED vars
    BY <1>1, <2>1, TickWakes DEF vars
  <2>2. CASE Next
    <3>1. ASSUME NEW op \in Sends, NEW x \in program.items, NEW n \in program.waits, Call(op, x, n)
          PROVE  WakeCore'
      BY <1>1, <3>1, CallWakes
    <3>2. ASSUME NEW op \in Receives, NEW n \in program.waits, Call(op, User.item, n)
          PROVE  WakeCore'
      BY <1>1, <3>2, CallWakes
    <3>3. CASE CallStep
      BY <1>1, <3>3, SucceedsWakes, GivesUpWakes, SuspendWakes, LockQueueWakes, CheckWakes,
         PlaceWakes, UnlockWakes, ResumeWakes, RecheckWakes DEF CallStep
    <3>4. CASE ResetQueue
      BY <1>1, <3>4, ResetWakes
    <3>5. CASE ReceiveFromISR \/ \E x \in program.items, position \in Sends : SendFromISR(x, position)
      BY <1>1, <3>5, IsrWakesKeeps
    <3>6. CASE TickISR
      BY <1>1, <3>6, TickWakes
    <3>. QED
      BY <2>2, <3>1, <3>2, <3>3, <3>4, <3>5, <3>6 DEF Next
  <2>. QED
    BY <2>1, <2>2
<1>. QED
  BY <1>2, <1>3 DEF WakeInv

LEMMA InvWakes == QueueInv /\ WakeInv => WakeupsKept
<1>. SUFFICES ASSUME QueueInv, WakeInv PROVE WakeupsKept
  OBVIOUS
<1>1. ASSUME NEW e \in EventLists PROVE Back(e) = Retrying(Ops(e))
  <2>1. \A t : Contains(k.events[e], t) <=> t \in ToSet(k.events[e])
    <3>1. k.events[e] \in Seq(Tasks)
      BY Known
    <3>2. ASSUME NEW s \in Seq(Tasks) PROVE \A t : Contains(s, t) <=> t \in ToSet(s)
      <4>1. DOMAIN s = 1..Len(s)
        OBVIOUS
      <4>. QED
        BY <4>1 DEF Contains, ToSet
    <3>. QED
      BY <3>1, <3>2
  <2>2. \A op \in Ops(e) : Mode(op) = e
    BY Directions DEF Ops
  <2>3. \A t \in Tasks : pc[t].op \in Ops(e) =>
           (Contains(k.events[Mode(pc[t].op)], t) <=> t \in ToSet(k.events[e]))
    BY <2>1, <2>2
  <2>. QED
    BY <2>3 DEF Back, Retrying, Retries
<1>2. \A e \in EventLists : Owed(e)
  BY DEF WakeInv, WakeCore
<1>3. lock.tx = UNLOCKED /\ k.events["receive"] # <<>> => q.waiting <= Cardinality(Retrying(Receives))
  <2>1. ASSUME lock.tx = UNLOCKED
        PROVE  Amount("receive") = q.waiting /\ Backlog("receive") = 0 /\ Ops("receive") = Receives
    BY <2>1, Directions DEF Amount, Backlog, Ops
  <2>2. Cardinality(Back("receive")) \in Nat /\ Back("receive") = Retrying(Ops("receive"))
    BY <1>1, Typed, Directions DEF Measured
  <2>. QED
    BY <1>2, <2>1, <2>2, Directions DEF Owed
<1>4. lock.rx = UNLOCKED /\ k.events["send"] # <<>> =>
         q.length - q.waiting <= Cardinality(Retrying(Sends))
  <2>1. ASSUME lock.rx = UNLOCKED
        PROVE  Amount("send") = q.length - q.waiting /\ Backlog("send") = 0 /\ Ops("send") = Sends
    BY <2>1, Directions DEF Amount, Backlog, Ops
  <2>2. Cardinality(Back("send")) \in Nat /\ Back("send") = Retrying(Ops("send"))
    BY <1>1, Typed, Directions DEF Measured
  <2>. QED
    BY <1>2, <2>1, <2>2, Directions DEF Owed
<1>. QED
  BY <1>3, <1>4 DEF WakeupsKept

\* The blocking calls, prvUnlockQueue and the FromISR functions lose no wake-up: while
\* tasks wait on an unlocked queue, each item, or free slot, has a task that was woken for
\* it, whatever the interleaving -- as long as interrupts send or receive no more items in
\* one lock than int8_t counts, and a queue of several slots that is reset while in use
\* has one sender, since xQueueGenericReset wakes one only.
THEOREM QueueWakeupsKept ==
    ASSUME MaxCounted <= LockMax, OneSender PROVE Spec => []WakeupsKept
<1>1. Init => QueueInv /\ WakeInv
  BY InitHolds, InitWakes
<1>2. QueueInv /\ WakeInv /\ [Next]_vars => (QueueInv /\ WakeInv)'
  BY NextKeeps, NextWakes
<1>3. QueueInv /\ WakeInv => WakeupsKept
  BY InvWakes
<1>. QED
  BY <1>1, <1>2, <1>3, PTL DEF Spec
=============================================================================
