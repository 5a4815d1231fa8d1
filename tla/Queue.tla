------------------------------- MODULE Queue -------------------------------
(***************************************************************************)
(* A queue (queue.c) used by tasks that block with a timeout and by        *)
(* interrupt handlers that do not.  A task that has to wait suspends the   *)
(* scheduler and locks the queue; what interrupts send or receive          *)
(* meanwhile is only counted in cTxLock and cRxLock, and the tasks it      *)
(* should wake are woken when the queue is unlocked.  Each action is one   *)
(* critical section, or one piece of code that interrupts cannot disturb.  *)
(***************************************************************************)
EXTENDS TaskLists, QueueStore

CONSTANTS
    Idle,       \* the idle task
    InitPrio,   \* the priority of each task
    Programs,   \* who uses the queue and how, one record each:
                \*   length  uxLength          items   the items sent
                \*   calls   the operations of each task
                \*   isr     the operations of interrupt handlers
                \*   waits   the block times tasks ask for
    LockMax,    \* the largest value of cTxLock and cRxLock; 127 in the code
    MaxCounted, \* bound: items interrupts send, or receive, in one lock
    MaxPended   \* bound: ticks that come while the scheduler is suspended

Sends == {"back", "front", "overwrite"}
Receives == {"receive", "peek"}

ASSUME QueueAssumption ==
    /\ Idle \in Tasks /\ InitPrio \in [Tasks -> Priorities]
    /\ LockMax \in Nat /\ MaxCounted \in Nat /\ MaxPended \in Nat
    /\ EventLists = {"send", "receive"}
    /\ \A p \in Programs :
          /\ p.length \in Nat \ {0} /\ p.items \subseteq Items
          /\ p.calls \in [Tasks -> SUBSET (Sends \cup Receives \cup {"reset"})]
          /\ p.calls[Idle] = {} /\ p.isr \subseteq Sends \cup {"receive"}
          /\ p.waits \subseteq Ticks
          \* configASSERT: queueOVERWRITE is for queues of one item
          /\ "overwrite" \in p.isr \cup UNION {p.calls[t] : t \in Tasks}
                => p.length = 1

VARIABLES
    program,  \* the program that runs, one of Programs
    k,     \* the kernel state, see TaskLists
    q,     \* the buffer, see QueueStore
    lock,  \* cTxLock and cRxLock
    pc,    \* where each task is inside a call, and its local variables
    out,   \* the item copied out of the queue last
    left   \* ghost: ticks until the timeout of each task's call

vars == <<program, k, q, lock, pc, out, left>>

UNLOCKED == -1                \* queueUNLOCKED
LOCKED_UNMODIFIED == 0        \* queueLOCKED_UNMODIFIED
NoTimeOut == [overflows |-> 0, entering |-> -1]  \* xEntryTimeSet is pdFALSE
User == [at |-> "user", op |-> "none", item |-> CHOOSE x \in Items : TRUE,
         wait |-> 0, timeOut |-> NoTimeOut, after |-> "none"]

cur == k.cur
me == pc[cur]
Is(label) == me.at = label
Goto(p) == pc' = [pc EXCEPT ![cur] = p]
GotoLabel(label) == Goto([me EXCEPT !.at = label])
Mode(op) == IF op \in Sends THEN "send" ELSE "receive"

Init ==
    /\ program \in Programs
    /\ \E order \in SetToSeqs(Tasks \ {Idle}) :
          k = StartedWith(Append(order, Idle), InitPrio)
    /\ q = Reset([length |-> program.length, writeTo |-> 0, readFrom |-> 0,
                  store |-> [s \in 0..(program.length - 1) |-> User.item],
                  waiting |-> 0])
    /\ lock = [tx |-> UNLOCKED, rx |-> UNLOCKED]
    /\ pc = [t \in Tasks |-> User]
    /\ out = User.item
    /\ left = [t \in Tasks |-> 0]

IsFull == q.waiting = q.length
IsEmpty == q.waiting = 0
Blocked(op) == IF op \in Sends THEN IsFull ELSE IsEmpty

TypeOK ==
    /\ q \in StoresOf(program.length)
    /\ lock.tx \in UNLOCKED..LockMax /\ lock.rx \in UNLOCKED..LockMax
    /\ k.cur \in Tasks /\ k.suspended \in 0..1 /\ k.pendedTicks \in 0..MaxPended
    /\ \A t \in Tasks : pc[t].op \in Sends \cup Receives \cup {"none"}
    /\ out \in Items /\ left \in [Tasks -> Ticks]

-----------------------------------------------------------------------------
(* xQueueGenericSend and xQueueGenericReceive, from the call to the first  *)
(* critical section, which each turn of their loop starts with             *)

Call(op, item, ticks) ==
    /\ Is("user") /\ op \in program.calls[cur] \ {"reset"}
    /\ Goto([User EXCEPT !.at = "try", !.op = op, !.wait = ticks,
                         !.item = IF op \in Sends THEN item ELSE @])
    /\ UNCHANGED <<k, q, lock, out, left>>

\* A task that waits on event list e, if any, is woken, and is yielded to if
\* its priority is higher.
Woken(e) ==
    IF k.events[e] = <<>> THEN k
    ELSE IF WakesHigher(k, e) THEN SwitchContext(RemoveFromEventList(k, e))
    ELSE RemoveFromEventList(k, e)

Done == Goto(User) /\ left' = [left EXCEPT ![cur] = 0]

\* The room test of xQueueGenericSend lets queueOVERWRITE pass.
CanSend(op) == ~IsFull \/ op = "overwrite"

Send ==
    /\ Is("try") /\ me.op \in Sends /\ CanSend(me.op)
    /\ q' = CopyTo(q, me.item, me.op)
    /\ k' = Woken("receive")
    /\ Done
    /\ UNCHANGED <<lock, out>>

Receive ==
    /\ Is("try") /\ me.op = "receive" /\ ~IsEmpty
    /\ q' = CopyFrom(q) /\ out' = NextItem(q)
    /\ k' = Woken("send")
    /\ Done
    /\ UNCHANGED lock

\* Mutant of Peek: the wake-up is not passed on.
PeekQuietly ==
    /\ Is("try") /\ me.op = "peek" /\ ~IsEmpty
    /\ out' = NextItem(q)
    /\ Done
    /\ UNCHANGED <<k, q, lock>>

\* xJustPeeking: the item stays, so the next receiver is woken for it
Peek ==
    /\ Is("try") /\ me.op = "peek" /\ ~IsEmpty
    /\ out' = NextItem(q)
    /\ k' = Woken("receive")
    /\ Done
    /\ UNCHANGED <<q, lock>>

MustWait ==
    /\ Is("try")
    /\ IF me.op \in Sends THEN ~CanSend(me.op) ELSE IsEmpty

GiveUpAtOnce ==
    /\ MustWait /\ me.wait = 0
    /\ Done
    /\ UNCHANGED <<k, q, lock, out>>

\* vTaskSetTimeOutState, the first time only
SetTimeOut ==
    /\ MustWait /\ me.wait > 0
    /\ IF me.timeOut = NoTimeOut
       THEN /\ Goto([me EXCEPT !.at = "suspend", !.timeOut = TimeOutState(k)])
            /\ left' = [left EXCEPT ![cur] = me.wait]
       ELSE GotoLabel("suspend") /\ UNCHANGED left
    /\ UNCHANGED <<k, q, lock, out>>

-----------------------------------------------------------------------------
(* The task has to wait: the scheduler is suspended, the queue locked *)

SuspendScheduler ==
    /\ Is("suspend")
    /\ k' = SuspendAll(k)
    /\ GotoLabel("lock")
    /\ UNCHANGED <<q, lock, out, left>>

\* prvLockQueue
LockQueue ==
    /\ Is("lock")
    /\ lock' = [side \in {"tx", "rx"} |-> IF lock[side] = UNLOCKED
                                          THEN LOCKED_UNMODIFIED ELSE lock[side]]
    /\ GotoLabel("timeout")
    /\ UNCHANGED <<k, q, out, left>>

\* xTaskCheckForTimeOut; if there is time left, it is what remains
CheckForTimeOut ==
    /\ Is("timeout")
    /\ Goto(IF TimedOut(k, me.timeOut, me.wait)
            THEN [me EXCEPT !.at = "unlocktx", !.after = "expired"]
            ELSE [me EXCEPT !.at = "check", !.timeOut = TimeOutState(k),
                            !.wait = @ - Elapsed(k, me.timeOut)])
    /\ UNCHANGED <<k, q, lock, out, left>>

\* prvIsQueueFull, prvIsQueueEmpty
CheckAgain ==
    /\ Is("check")
    /\ Goto(IF Blocked(me.op) THEN [me EXCEPT !.at = "place"]
            ELSE [me EXCEPT !.at = "unlocktx", !.after = "retry"])
    /\ UNCHANGED <<k, q, lock, out, left>>

\* vTaskPlaceOnEventList: interrupts do not touch the lists of a locked queue
Place ==
    /\ Is("place")
    /\ k' = PlaceOnEventList(k, Mode(me.op), me.wait)
    /\ Goto([me EXCEPT !.at = "unlocktx", !.after = "blocked"])
    /\ UNCHANGED <<q, lock, out, left>>

\* Mutant of WakeCounted: what interrupts did is forgotten.
WakeNone(e, count) == k

\* The loop of prvUnlockQueue, while the count and the event list last
WakeCounted(e, count) ==
    LET n == Highest({0} \cup ((0..Len(k.events[e])) \cap (0..count)))
        woken[i \in 0..n] == IF i = 0 THEN k
                             ELSE RemoveFromEventList(woken[i - 1], e)
    IN woken[n]

\* prvUnlockQueue: two critical sections
UnlockTx ==
    /\ Is("unlocktx")
    /\ k' = WakeCounted("receive", lock.tx)
    /\ lock' = [lock EXCEPT !.tx = UNLOCKED]
    /\ GotoLabel("unlockrx")
    /\ UNCHANGED <<q, out, left>>

\* Mutant of UnlockRx: a queue nothing was received from stays locked.
UnlockRxIfCounted ==
    /\ Is("unlockrx")
    /\ k' = WakeCounted("send", lock.rx)
    /\ lock' = IF lock.rx = LOCKED_UNMODIFIED THEN lock
               ELSE [lock EXCEPT !.rx = UNLOCKED]
    /\ GotoLabel("resume")
    /\ UNCHANGED <<q, out, left>>

UnlockRx ==
    /\ Is("unlockrx")
    /\ k' = WakeCounted("send", lock.rx)
    /\ lock' = [lock EXCEPT !.rx = UNLOCKED]
    /\ GotoLabel("resume")
    /\ UNCHANGED <<q, out, left>>

CountTicks(n) == [t \in Tasks |-> IF left[t] > n THEN left[t] - n ELSE 0]

\* xTaskResumeAll, and what each of the three ways does after it: a blocked
\* task yields if it has not yet, a sender that timed out returns errQUEUE_FULL,
\* a receiver that timed out looks once more.
Resume ==
    /\ Is("resume")
    /\ k' = ResumeAll(k)
    /\ IF me.after = "expired" /\ me.op \in Sends
       THEN Goto(User) /\ left' = [CountTicks(k.pendedTicks) EXCEPT ![cur] = 0]
       ELSE /\ Goto([me EXCEPT !.after = "none", !.at =
                       CASE me.after = "expired" -> "recheck"
                         [] me.after = "retry" -> "try"
                         [] OTHER -> IF AlreadyYielded(k) THEN "try"
                                                          ELSE "yield"])
            /\ left' = CountTicks(k.pendedTicks)
    /\ UNCHANGED <<q, lock, out>>

\* portYIELD_WITHIN_API
YieldWithinApi ==
    /\ Is("yield")
    /\ k' = SwitchContext(k)
    /\ GotoLabel("try")
    /\ UNCHANGED <<q, lock, out, left>>

\* A receiver that timed out returns errQUEUE_EMPTY only if there is no item.
Recheck ==
    /\ Is("recheck")
    /\ IF IsEmpty THEN Done ELSE GotoLabel("try") /\ UNCHANGED left
    /\ UNCHANGED <<k, q, lock, out>>

\* xQueueGenericReset of a queue in use: one sender is woken
ResetQueue ==
    /\ Is("user") /\ "reset" \in program.calls[cur]
    /\ q' = Reset(q)
    /\ lock' = [tx |-> UNLOCKED, rx |-> UNLOCKED]
    /\ k' = Woken("send")
    /\ UNCHANGED <<pc, out, left>>

-----------------------------------------------------------------------------
(* Interrupt handlers *)

\* The increment of an int8_t
Counted(count) == IF count = LockMax THEN -LockMax - 1 ELSE count + 1

\* A locked queue only counts; the handler may end in portYIELD_FROM_ISR().
IsrWakes(e, side) ==
    IF lock[side] # UNLOCKED
    THEN /\ lock[side] < MaxCounted
         /\ lock' = [lock EXCEPT ![side] = Counted(@)]
         /\ UNCHANGED k
    ELSE /\ \/ k' = IF k.events[e] = <<>> THEN k ELSE RemoveFromEventList(k, e)
            \/ k' = Woken(e)
         /\ UNCHANGED lock

\* xQueueGenericSendFromISR
SendFromISR(x, position) ==
    /\ position \in program.isr \cap Sends /\ CanSend(position)
    /\ q' = CopyTo(q, x, position)
    /\ IsrWakes("receive", "tx")
    /\ UNCHANGED <<pc, out, left>>

\* xQueueReceiveFromISR
ReceiveFromISR ==
    /\ "receive" \in program.isr /\ ~IsEmpty
    /\ q' = CopyFrom(q) /\ out' = NextItem(q)
    /\ IsrWakes("send", "rx")
    /\ UNCHANGED <<pc, left>>

\* vTickISR
TickISR ==
    /\ k.pendedTicks < MaxPended
    /\ k' = SwitchContext(IncrementTick(k))
    /\ left' = IF k.suspended = 0 THEN CountTicks(1) ELSE left
    /\ UNCHANGED <<q, lock, pc, out>>

-----------------------------------------------------------------------------
CallStep ==
    \/ Send \/ Receive \/ Peek \/ GiveUpAtOnce \/ SetTimeOut
    \/ SuspendScheduler \/ LockQueue \/ CheckForTimeOut \/ CheckAgain \/ Place
    \/ UnlockTx \/ UnlockRx \/ Resume \/ YieldWithinApi \/ Recheck

Next ==
    /\ \/ \E op \in Sends, x \in program.items, n \in program.waits : Call(op, x, n)
       \/ \E op \in Receives, n \in program.waits : Call(op, User.item, n)
       \/ CallStep
       \/ ResetQueue
       \/ \E x \in program.items, position \in Sends : SendFromISR(x, position)
       \/ ReceiveFromISR
       \/ TickISR
    /\ UNCHANGED program

Spec == Init /\ [][Next]_vars

-----------------------------------------------------------------------------
(* Properties *)

\* The queue is a bounded FIFO, whatever tasks and interrupts do between the
\* critical sections of the blocking functions.
Fifo == INSTANCE BoundedFifo WITH capacity <- q.length, queued <- Contents(q)
QueueIsFifo == Fifo!Spec

\* Tasks that will look at the queue again before they wait or give up.
Retrying(ops) ==
    {t \in Tasks : /\ pc[t].op \in ops
                   /\ \/ pc[t].at \in {"try", "yield"}
                      \/ pc[t].at \in {"unlockrx", "resume"} /\ pc[t].after # "expired"
                   /\ ~Contains(k.events[Mode(pc[t].op)], t)}

\* No wake-up is lost: while receivers wait on an unlocked queue, each item in
\* it has a receiver that was woken for it; the same of senders and free slots.
WakeupsKept ==
    /\ (lock.tx = UNLOCKED /\ k.events["receive"] # <<>>)
           => q.waiting <= Cardinality(Retrying(Receives))
    /\ (lock.rx = UNLOCKED /\ k.events["send"] # <<>>)
           => q.length - q.waiting <= Cardinality(Retrying(Sends))

\* The queue is locked only by the task that runs, with the scheduler suspended,
\* and only inside the part of the call that locks it.
LockOwned ==
    \/ lock = [tx |-> UNLOCKED, rx |-> UNLOCKED]
    \/ /\ k.suspended = 1
       /\ me.at \in {"timeout", "check", "place", "unlocktx", "unlockrx"}

\* Interrupts, which do not look at the event lists of a locked queue, and tasks
\* leave them as the wake-ups need them: each task waits for its own direction,
\* ordered by priority, and the queue is locked only by the task that runs.
WaitersOrdered ==
    /\ TypeOK
    /\ LockOwned
    /\ \A e \in EventLists :
        LET waiters == k.events[e] IN
        /\ \A t \in ToSet(waiters) : Mode(pc[t].op) = e
        /\ \A i, j \in DOMAIN waiters :
              i < j => k.prio[waiters[i]] >= k.prio[waiters[j]]

\* A call gives up only when all the ticks it asked for have passed, however
\* often it was woken and found that another task had been faster.
GivesUp(t) == /\ pc[t].at \in {"try", "resume", "recheck"} /\ pc'[t].at = "user"
              /\ q' = q /\ pc[t].op \notin {"peek", "overwrite"}
NeverEarly == [][\A t \in Tasks : GivesUp(t) => left[t] = 0]_vars
=============================================================================
