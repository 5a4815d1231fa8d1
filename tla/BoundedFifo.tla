---------------------------- MODULE BoundedFifo ----------------------------
(***************************************************************************)
(* What a queue promises its users (include/queue.h): a sequence of at     *)
(* most capacity items.  Items go in at the back, or at the front, and     *)
(* come out at the front, each of them once.                               *)
(***************************************************************************)
EXTENDS Naturals, Sequences

CONSTANT Items

VARIABLES
    capacity,  \* how many items fit, fixed when the queue is created
    queued,  \* the items in the queue
    out      \* the item copied out last

vars == <<capacity, queued, out>>

Init == capacity \in Nat \ {0} /\ queued = <<>> /\ out \in Items

Room == Len(queued) < capacity

Send(x) == Room /\ queued' = Append(queued, x) /\ UNCHANGED out
SendToFront(x) == Room /\ queued' = <<x>> \o queued /\ UNCHANGED out
Replace(x) == capacity = 1 /\ queued' = <<x>> /\ UNCHANGED out
Peek == queued # <<>> /\ out' = Head(queued) /\ UNCHANGED queued
Receive == queued # <<>> /\ out' = Head(queued) /\ queued' = Tail(queued)
Clear == queued' = <<>> /\ UNCHANGED out

Next ==
    /\ \/ \E x \in Items : Send(x) \/ SendToFront(x) \/ Replace(x)
       \/ Peek \/ Receive \/ Clear
    /\ UNCHANGED capacity

Spec == Init /\ [][Next]_vars
=============================================================================
