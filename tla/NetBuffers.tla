---------------------------- MODULE NetBuffers ----------------------------
(***************************************************************************)
(* The pool of network buffer descriptors, BufferAllocation_2.c: a list of *)
(* free descriptors, a counting semaphore that says how many there are,    *)
(* and the payload each descriptor in use has on the heap.  The functions  *)
(* run in several tasks, and nothing makes the semaphore and the list one: *)
(* a task can be preempted between any two of the steps below.             *)
(*                                                                         *)
(* A component that uses the pool starts a call with BeginGet or           *)
(* BeginRelease and goes on once op[t] is idle again.                      *)
(***************************************************************************)
EXTENDS Integers, Sequences, FiniteSets

CONSTANTS
    Users,  \* the tasks that call the pool
    Bufs,   \* xNetworkBufferDescriptors
    NoBuf   \* NULL

ASSUME NetBuffersAssumption ==
    /\ IsFiniteSet(Users)
    /\ IsFiniteSet(Bufs)
    /\ NoBuf \notin Bufs

VARIABLES
    pool,  \* free: xFreeBuffersList; sem: the count of xNetworkBufferSemaphore;
           \* payload: the descriptors whose pucEthernetBuffer is not NULL;
           \* out: the descriptors handed out and not yet released
    op     \* the pool function each task is in: its step and the descriptor

poolVars == <<pool, op>>

Steps == {"idle", "take", "unlink", "alloc", "free", "insert", "give"}
Idle(b) == [step |-> "idle", buf |-> b]
InFree == {pool.free[i] : i \in DOMAIN pool.free}
CallsAt(s) == {t \in Users : op[t].step = s}

\* xNetworkBuffersInitialise: all descriptors are free and have no payload
InitPool ==
    /\ pool \in [free : {s \in [1..Cardinality(Bufs) -> Bufs] :
                            /\ \A i, j \in DOMAIN s : s[i] = s[j] => i = j
                            /\ \A b \in Bufs : \E i \in DOMAIN s : s[i] = b},
                 sem : {Cardinality(Bufs)}, payload : {{}}, out : {{}}]
    /\ op = [t \in Users |-> Idle(NoBuf)]

-----------------------------------------------------------------------------
(* pxGetNetworkBufferWithDescriptor *)

BeginGet(t) ==
    /\ op[t].step = "idle"
    /\ op' = [op EXCEPT ![t] = [step |-> "take", buf |-> NoBuf]]
    /\ UNCHANGED pool

\* Mutant of Take: a task that finds the count at zero goes on all the same.
TakeUnchecked(t) ==
    /\ op[t].step = "take"
    /\ op' = [op EXCEPT ![t].step = "unlink"]
    /\ pool' = [pool EXCEPT !.sem = @ - 1]

\* xSemaphoreTake
Take(t) ==
    /\ op[t].step = "take"
    /\ pool.sem > 0
    /\ op' = [op EXCEPT ![t].step = "unlink"]
    /\ pool' = [pool EXCEPT !.sem = @ - 1]

\* The block time, which may be zero, runs out with the count at zero.
TakeTimesOut(t) ==
    /\ op[t].step = "take"
    /\ pool.sem = 0
    /\ op' = [op EXCEPT ![t] = Idle(NoBuf)]
    /\ UNCHANGED pool

\* The head of the list is taken without a look at its length.
Unlink(t) ==
    /\ op[t].step = "unlink"
    /\ op' = [op EXCEPT ![t] = [step |-> "alloc", buf |-> Head(pool.free)]]
    /\ pool' = [pool EXCEPT !.free = Tail(@)]

\* pvPortMalloc finds room for the payload
Alloc(t) ==
    /\ op[t].step = "alloc"
    /\ op' = [op EXCEPT ![t].step = "idle"]
    /\ pool' = [pool EXCEPT !.payload = @ \cup {op[t].buf},
                            !.out = @ \cup {op[t].buf}]

\* Mutant of AllocFails: the descriptor is not released.
AllocGivesUp(t) ==
    /\ op[t].step = "alloc"
    /\ op' = [op EXCEPT ![t] = Idle(NoBuf)]
    /\ UNCHANGED pool

\* or it does not, and the descriptor is released again.
AllocFails(t) ==
    /\ op[t].step = "alloc"
    /\ op' = [op EXCEPT ![t].step = "free"]
    /\ UNCHANGED pool

-----------------------------------------------------------------------------
(* vReleaseNetworkBufferAndDescriptor *)

BeginRelease(t, b) ==
    /\ op[t].step = "idle"
    /\ op' = [op EXCEPT ![t] = [step |-> "free", buf |-> b]]
    /\ pool' = [pool EXCEPT !.out = @ \ {b}]

\* Mutant of FreePayload: the pointer to the payload is kept.
FreePayloadOnly(t) ==
    /\ op[t].step = "free"
    /\ op' = [op EXCEPT ![t].step = "insert"]
    /\ UNCHANGED pool

FreePayload(t) ==
    /\ op[t].step = "free"
    /\ op' = [op EXCEPT ![t].step = "insert"]
    /\ pool' = [pool EXCEPT !.payload = @ \ {op[t].buf}]

\* Mutant of Insert: the count is given before the descriptor is back.
InsertAfterGive(t) ==
    /\ op[t].step = "insert"
    /\ op' = [op EXCEPT ![t].step = "give"]
    /\ pool' = [pool EXCEPT !.sem = @ + 1]

\* A descriptor that is in the list already stays where it is.
Insert(t) ==
    /\ op[t].step = "insert"
    /\ IF op[t].buf \in InFree
       THEN /\ op' = [op EXCEPT ![t] = Idle(NoBuf)]
            /\ UNCHANGED pool
       ELSE /\ op' = [op EXCEPT ![t].step = "give"]
            /\ pool' = [pool EXCEPT !.free = Append(@, op[t].buf)]

\* xSemaphoreGive
Give(t) ==
    /\ op[t].step = "give"
    /\ op' = [op EXCEPT ![t] = Idle(NoBuf)]
    /\ pool' = [pool EXCEPT !.sem = @ + 1]

PoolStep(t) ==
    \/ Take(t) \/ TakeTimesOut(t) \/ Unlink(t) \/ Alloc(t) \/ AllocFails(t)
    \/ FreePayload(t) \/ Insert(t) \/ Give(t)

\* The pool used in any way that releases only what was handed out.
PoolNext ==
    \E t \in Users :
        \/ PoolStep(t)
        \/ BeginGet(t)
        \/ \E b \in pool.out : BeginRelease(t, b)

PoolSpec == InitPool /\ [][PoolNext]_poolVars

-----------------------------------------------------------------------------
(* Types and properties *)

\* Every variable keeps its type.
PoolTypeOK ==
    /\ pool \in [free : Seq(Bufs), sem : Nat, payload : SUBSET Bufs, out : SUBSET Bufs]
    /\ op \in [Users -> [step : Steps, buf : Bufs \cup {NoBuf}]]

\* The count never promises more than the list holds: it is the length of the
\* list, less the tasks that have taken a count and not yet the head, less
\* those that have put a descriptor back and not yet given the count.  So the
\* head that pxGetNetworkBufferWithDescriptor takes without looking is there.
SemaphoreCovers ==
    pool.sem + Cardinality(CallsAt("unlink")) + Cardinality(CallsAt("give")) = Len(pool.free)

\* A descriptor in the free list is there once and has no payload, and one that
\* is handed out has a payload: no payload is lost with a descriptor that is
\* taken again, and nobody is given a descriptor without one.
PayloadOnlyInUse ==
    /\ \A i, j \in DOMAIN pool.free : pool.free[i] = pool.free[j] => i = j
    /\ InFree \cap pool.payload = {}
    /\ pool.out \subseteq pool.payload

\* The descriptors a task is moving between the list and its users
Moving(t) == IF op[t].step \in {"alloc", "free", "insert"} THEN {op[t].buf} ELSE {}

\* Each descriptor is in exactly one place: the free list, the hands of a user
\* of the pool, or one call that is moving it.  None is lost when the heap has
\* no room for a payload, and none is released twice.
EachInOnePlace ==
    /\ Bufs = InFree \cup pool.out \cup UNION {Moving(t) : t \in Users}
    /\ InFree \cap pool.out = {}
    /\ \A t \in Users : Moving(t) \cap (InFree \cup pool.out) = {}
    /\ \A t, u \in Users : t # u => Moving(t) \cap Moving(u) = {}

\* The pool survives calls that are interrupted anywhere, refused or time out.
PoolIntact == PoolTypeOK /\ SemaphoreCovers /\ PayloadOnlyInUse /\ EachInOnePlace
=============================================================================
