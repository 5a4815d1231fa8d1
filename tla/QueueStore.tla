----------------------------- MODULE QueueStore -----------------------------
(***************************************************************************)
(* The circular buffer of a queue (queue.c: prvCopyDataToQueue,            *)
(* prvCopyDataFromQueue, xQueueGenericReset), as operators on a record q:  *)
(*   length    uxLength                                                    *)
(*   store     the item slots from pcHead up to pcTail                      *)
(*   writeTo   pcWriteTo, as a slot number: where the next item goes       *)
(*   readFrom  u.pcReadFrom: the slot read last, before the next to read   *)
(*   waiting   uxMessagesWaiting                                           *)
(* A semaphore is a queue whose only item is a single value.               *)
(***************************************************************************)
EXTENDS Integers, Sequences

CONSTANT Items  \* what can be queued

ASSUME QueueStoreAssumption == Items # {}

\* The queues of n items
StoresOf(n) == [length : {n}, store : [0..(n - 1) -> Items],
                writeTo : 0..(n - 1), readFrom : 0..(n - 1), waiting : 0..n]
Stores == UNION {StoresOf(n) : n \in Nat \ {0}}

\* The pointers wrap at pcTail, and below pcHead.
NextSlot(q, s) == IF s + 1 >= q.length THEN 0 ELSE s + 1
PreviousSlot(q, s) == IF s - 1 < 0 THEN q.length - 1 ELSE s - 1

\* xQueueGenericReset: the slots keep what they hold
Reset(q) == [q EXCEPT !.writeTo = 0, !.readFrom = q.length - 1, !.waiting = 0]

\* prvCopyDataToQueue, queueSEND_TO_BACK
CopyToBack(q, x) ==
    [q EXCEPT !.store[q.writeTo] = x, !.writeTo = NextSlot(q, @), !.waiting = @ + 1]

\* Mutant of CopyToFront: the read pointer does not step back.
CopyToFrontStays(q, x) ==
    [q EXCEPT !.store[q.readFrom] = x, !.waiting = @ + 1]

\* prvCopyDataToQueue, queueSEND_TO_FRONT
CopyToFront(q, x) ==
    [q EXCEPT !.store[q.readFrom] = x, !.readFrom = PreviousSlot(q, @),
              !.waiting = @ + 1]

\* prvCopyDataToQueue, queueOVERWRITE (for a queue of one item)
Overwrite(q, x) ==
    [q EXCEPT !.store[q.readFrom] = x, !.readFrom = PreviousSlot(q, @),
              !.waiting = IF @ > 0 THEN @ ELSE @ + 1]

CopyTo(q, x, position) ==
    CASE position = "back" -> CopyToBack(q, x)
      [] position = "front" -> CopyToFront(q, x)
      [] position = "overwrite" -> Overwrite(q, x)

\* prvCopyDataFromQueue: pcReadFrom advances, then the item is copied
NextItem(q) == q.store[NextSlot(q, q.readFrom)]
CopyFrom(q) == [q EXCEPT !.readFrom = NextSlot(q, @), !.waiting = @ - 1]

-----------------------------------------------------------------------------
(* What the buffer stands for *)

Slot(q, i) == IF q.readFrom + i < q.length THEN q.readFrom + i
                                         ELSE q.readFrom + i - q.length

\* The queued items, the next one to be received first
Contents(q) == [i \in 1..q.waiting |-> q.store[Slot(q, i)]]

\* The write pointer is just after the last queued item.
Coherent(q) ==
    q.writeTo = IF q.waiting = q.length THEN NextSlot(q, q.readFrom)
                                      ELSE Slot(q, q.waiting + 1)
=============================================================================
