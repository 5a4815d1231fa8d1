----------------------------- MODULE Scheduler -----------------------------
(***************************************************************************)
(* The scheduler of FreeRTOS (tasks.c) driven by the tick interrupt of the *)
(* Raspberry Pi port (port.c, vTickISR): tasks that delay themselves, wait *)
(* on an event list, suspend the scheduler, change priorities, create and  *)
(* delete each other.  Each action is one critical section or one piece of *)
(* code between two points where an interrupt can be taken; PortCritical   *)
(* says when a critical section is indeed one step.                        *)
(***************************************************************************)
EXTENDS TaskLists

CONSTANTS
    Idle,       \* the idle task, of priority 0
    Delays,     \* the delays, in ticks, that tasks ask for
    MaxPended,  \* bound: ticks that come while the scheduler is suspended
    Programs,   \* what may be run, one record each:
                \*   tasks     the tasks that exist at the start
                \*   setters   those that call vTaskPrioritySet
                \*   deleters  those that create and delete tasks
    InitPrio    \* the priority each task is created with

ASSUME SchedulerAssumption ==
    /\ Idle \in Tasks /\ InitPrio \in [Tasks -> Priorities]
    /\ InitPrio[Idle] = 0 /\ 0 \in Priorities
    /\ Delays \subseteq Ticks \ {0} /\ MaxPended \in Nat /\ EventLists # {}
    /\ Programs \subseteq [tasks : SUBSET Tasks, setters : SUBSET Tasks,
                            deleters : SUBSET Tasks]
    /\ \A program \in Programs : Idle \in program.tasks

VARIABLES
    program,  \* the program that is run
    k,     \* the kernel state, see TaskLists
    pc,    \* where each task is inside an API function, with its argument
    left,  \* ghost: ticks until each blocked task's timeout
    taken  \* ghost: tick interrupts taken, modulo TickMod

vars == <<program, k, pc, left, taken>>

QueueList == CHOOSE e \in EventLists : TRUE

At(label, n) == [at |-> label, ticks |-> n]
Running == At("run", 0)
cur == k.cur
Is(label) == pc[cur].at = label
Goto(p) == pc' = [pc EXCEPT ![cur] = p]

TypeOK ==
    /\ k.cur \in Tasks
    /\ k.tick \in Ticks /\ k.nextUnblock \in Ticks
    /\ k.suspended \in 0..2 /\ k.pendedTicks \in 0..MaxPended
    /\ k.prio \in [Tasks -> Priorities] /\ k.base \in [Tasks -> Priorities]
    /\ \A p \in Priorities : k.ready[p].index \in 0..Len(k.ready[p].items)
    /\ \A t \in Tasks : pc[t].at \in {"run", "delay", "block", "heap",
                                      "resume", "yield", "deleted"}

Init ==
    /\ program \in Programs
    /\ \E order \in SetToSeqs(program.tasks \ {Idle}) :
          k = StartedWith(Append(order, Idle), InitPrio)
    /\ pc = [t \in Tasks |-> IF t \in program.tasks THEN Running
                                                    ELSE At("deleted", 0)]
    /\ left = [t \in Tasks |-> 0]
    /\ taken = 0

\* The ghost count-down follows every processed tick.
CountTicks(n) ==
    left' = [t \in Tasks |-> IF left[t] > n THEN left[t] - n ELSE 0]

-----------------------------------------------------------------------------
(* vTaskDelay, and the blocking path of the queue functions *)

\* vTaskSuspendAll() at the start of vTaskDelay or of a blocking attempt
BeginBlocking(label, n) ==
    /\ Is("run") /\ cur # Idle
    /\ k' = SuspendAll(k)
    /\ Goto(At(label, n))
    /\ UNCHANGED <<left, taken>>

\* prvAddCurrentTaskToDelayedList
PlaceDelayed ==
    /\ Is("delay")
    /\ k' = AddCurrentToDelayed(k, pc[cur].ticks)
    /\ left' = [left EXCEPT ![cur] = pc[cur].ticks]
    /\ Goto(At("resume", 0))
    /\ UNCHANGED taken

\* vTaskPlaceOnEventList
PlaceOnQueue ==
    /\ Is("block")
    /\ k' = PlaceOnEventList(k, QueueList, pc[cur].ticks)
    /\ left' = [left EXCEPT ![cur] = pc[cur].ticks]
    /\ Goto(At("resume", 0))
    /\ UNCHANGED taken

\* pvPortMalloc and vPortFree: a suspension not followed by a yield
BeginHeapCall ==
    /\ Is("run")
    /\ k' = SuspendAll(k)
    /\ Goto(At("heap", 0))
    /\ UNCHANGED <<left, taken>>

\* xTaskResumeAll
Resume ==
    /\ Is("resume") \/ Is("heap")
    /\ k' = ResumeAll(k)
    /\ IF k.suspended = 1 THEN CountTicks(k.pendedTicks) ELSE UNCHANGED left
    /\ UNCHANGED taken
    /\ Goto(IF Is("heap") \/ AlreadyYielded(k) THEN Running
            ELSE At("yield", 0))

\* portYIELD_WITHIN_API() of a caller that xTaskResumeAll did not switch
YieldWithinApi ==
    /\ Is("yield")
    /\ k' = SwitchContext(k)
    /\ Goto(Running)
    /\ UNCHANGED <<left, taken>>

\* taskYIELD(); the idle task yields when it shares its priority
Yield ==
    /\ Is("run")
    /\ cur = Idle => Len(k.ready[0].items) > 1
    /\ k' = SwitchContext(k)
    /\ UNCHANGED <<pc, left, taken>>

-----------------------------------------------------------------------------
(* Waking a task that waits on the event list *)

Unblocked == Head(k.events[QueueList])
Forget(t) == left' = [left EXCEPT ![t] = 0]

\* A task gives: critical section with queueYIELD_IF_USING_PREEMPTION inside
Signal ==
    /\ Is("run") /\ cur # Idle /\ k.events[QueueList] # <<>>
    /\ k' = LET r == RemoveFromEventList(k, QueueList)
            IN IF WakesHigher(k, QueueList) THEN SwitchContext(r) ELSE r
    /\ Forget(Unblocked)
    /\ UNCHANGED <<pc, taken>>

\* prvUnlockQueue, the scheduler being suspended: vTaskMissedYield
SignalSuspended ==
    /\ Is("resume") /\ k.events[QueueList] # <<>>
    /\ k' = LET r == RemoveFromEventList(k, QueueList)
            IN [r EXCEPT !.yieldPending = @ \/ WakesHigher(k, QueueList)]
    /\ Forget(Unblocked)
    /\ UNCHANGED <<pc, taken>>

\* An interrupt handler gives, and ends with portYIELD_FROM_ISR() or not
SignalFromIsr ==
    /\ k.events[QueueList] # <<>>
    /\ LET r == RemoveFromEventList(k, QueueList)
       IN k' = r \/ (WakesHigher(k, QueueList) /\ k' = SwitchContext(r))
    /\ Forget(Unblocked)
    /\ UNCHANGED <<pc, taken>>

-----------------------------------------------------------------------------
\* vTickISR: xTaskIncrementTick, its result unused, then vTaskSwitchContext
TickIsr ==
    /\ k.pendedTicks < MaxPended
    /\ k' = SwitchContext(IncrementTick(k))
    /\ taken' = (taken + 1) % TickMod
    /\ IF k.suspended = 0 THEN CountTicks(1) ELSE UNCHANGED left
    /\ UNCHANGED pc

-----------------------------------------------------------------------------
(* vTaskPrioritySet *)

\* A task that runs at its base priority takes the new one at once.
NewPriority(t, new) == IF k.base[t] = k.prio[t] THEN new ELSE k.prio[t]

\* Mutant of Reprioritised: the task stays on its old ready list.
ReprioritisedInPlace(t, new) ==
    [k EXCEPT !.prio[t] = NewPriority(t, new), !.base[t] = new,
              !.evValue[t] = Highest(Priorities) + 1 - new]

\* A ready task moves to the list of its new priority.
Reprioritised(t, new) ==
    LET set == [k EXCEPT !.prio[t] = NewPriority(t, new), !.base[t] = new,
                         !.evValue[t] = Highest(Priorities) + 1 - new]
    IN IF t \in ReadyTasks(k) THEN AddToReady(RemoveState(set, t), t) ELSE set

PrioritySet(t, new) ==
    /\ Is("run") /\ cur \in program.setters /\ pc[t].at # "deleted"
    /\ k.base[t] # new
    /\ LET yield == IF new > k.base[t] THEN t # cur /\ new >= k.prio[cur]
                                       ELSE t = cur
       IN k' = IF yield THEN SwitchContext(Reprioritised(t, new))
                        ELSE Reprioritised(t, new)
    /\ UNCHANGED <<pc, left, taken>>

-----------------------------------------------------------------------------
(* xTaskCreate, vTaskDelete and the idle task's clean-up *)

Exists(t) == t \in ReadyTasks(k) \cup DelayedTasks(k) \cup ToSet(k.terminating)

\* Mutant of Create: the caller does not yield to the new task.
CreateWithoutYield(t, prio) ==
    /\ Is("run") /\ cur \in program.deleters /\ t \in program.tasks /\ ~Exists(t)
    /\ k' = AddToReady([k EXCEPT !.prio[t] = prio, !.base[t] = prio,
                          !.evValue[t] = Highest(Priorities) + 1 - prio], t)
    /\ pc' = [pc EXCEPT ![t] = Running]
    /\ UNCHANGED <<left, taken>>

\* prvAddNewTaskToReadyList; the caller then yields to a higher priority
Create(t, prio) ==
    /\ Is("run") /\ cur \in program.deleters /\ t \in program.tasks /\ ~Exists(t)
    /\ k' = AddToReady([k EXCEPT !.prio[t] = prio, !.base[t] = prio,
                          !.evValue[t] = Highest(Priorities) + 1 - prio], t)
    /\ pc' = [pc EXCEPT ![t] = Running,
                        ![cur] = IF k.prio[cur] < prio THEN At("yield", 0)
                                                       ELSE @]
    /\ UNCHANGED <<left, taken>>

\* Mutant of DeleteOther: the task's event list item stays on its list.
DeleteOtherKeepsEvent(t) ==
    /\ Is("run") /\ cur \in program.deleters
    /\ t \notin {cur, Idle} /\ Exists(t) /\ pc[t].at # "deleted"
    /\ k' = ResetNextUnblock(RemoveState(k, t))
    /\ pc' = [pc EXCEPT ![t] = At("deleted", 0)]
    /\ Forget(t)
    /\ UNCHANGED taken

\* vTaskDelete of another task: taken off its lists and freed at once
DeleteOther(t) ==
    /\ Is("run") /\ cur \in program.deleters
    /\ t \notin {cur, Idle} /\ Exists(t) /\ pc[t].at # "deleted"
    /\ k' = ResetNextUnblock(RemoveEvent(RemoveState(k, t), t))
    /\ pc' = [pc EXCEPT ![t] = At("deleted", 0)]
    /\ Forget(t)
    /\ UNCHANGED taken

\* vTaskDelete of the caller: freed by the idle task later
DeleteSelf ==
    /\ Is("run") /\ cur \in program.deleters /\ cur # Idle
    /\ k' = [RemoveEvent(RemoveState(k, cur), cur) EXCEPT
                !.terminating = Append(@, cur)]
    /\ Goto(At("deleted", 0))
    /\ UNCHANGED <<left, taken>>

\* portYIELD_WITHIN_API() at the end of vTaskDelete: it never returns here
YieldDeleted ==
    /\ Is("deleted")
    /\ k' = SwitchContext(k)
    /\ UNCHANGED <<pc, left, taken>>

\* prvCheckTasksWaitingTermination
IdleCleanUp ==
    /\ cur = Idle /\ Is("run") /\ k.terminating # <<>>
    /\ k' = [k EXCEPT !.terminating = Tail(@)]
    /\ UNCHANGED <<pc, left, taken>>

-----------------------------------------------------------------------------
ApiStep == PlaceDelayed \/ PlaceOnQueue \/ Resume \/ YieldWithinApi
           \/ YieldDeleted

Next ==
    /\ \/ \E n \in Delays, l \in {"delay", "block"} : BeginBlocking(l, n)
       \/ BeginHeapCall
       \/ ApiStep
       \/ Yield
       \/ Signal
       \/ SignalSuspended
       \/ SignalFromIsr
       \/ TickIsr
       \/ \E t \in Tasks, p \in Priorities : PrioritySet(t, p) \/ Create(t, p)
       \/ \E t \in Tasks : DeleteOther(t)
       \/ DeleteSelf
       \/ IdleCleanUp
    /\ UNCHANGED program

\* The timer keeps interrupting, unless only the idle task was ever created, and an
\* API call that has begun goes on while its task is scheduled; nothing is assumed
\* of what tasks decide to do.  Both are strong fairness of TickIsr and of ApiStep,
\* written with the guards of these actions in place of ENABLED and with what only
\* they change.
TimeMoves == k'.tick # k.tick \/ k'.pendedTicks > k.pendedTicks

Fairness ==
    /\ []<>(program.tasks # {Idle} /\ k.pendedTicks < MaxPended)
          => []<><<TimeMoves>>_vars
    /\ \A t \in Tasks :
          []<>(cur = t /\ pc[t].at \notin {"run", "deleted"})
              => []<><<cur = t /\ pc'[t] # pc[t]>>_vars

Spec == Init /\ [][Next]_vars
FairSpec == Spec /\ Fairness

-----------------------------------------------------------------------------
(* Properties *)

StateLists == {k.ready[p].items : p \in Priorities} \cup {k.delayed, k.overflow, k.terminating}
StateSets == <<ReadyTasks(k), ToSet(k.delayed), ToSet(k.overflow), ToSet(k.terminating)>>
StatesOf(t) == {i \in 1..4 : t \in StateSets[i]}
OnEvent(t) == \E e \in EventLists : t \in ToSet(k.events[e])
OnPending(t) == t \in ToSet(k.pending)

\* Every task is on exactly one state list, once, and if it is ready on the one of
\* the priority it has; only a deleted one is on none, or waits for the idle task.
\* It is on an event or pending list only while it is blocked, once, and never on
\* both, whichever of tasks, interrupts and deletions moved it last.
ListsIntact ==
    /\ TypeOK
    /\ \A t \in Tasks :
        /\ IF pc[t].at = "deleted" THEN StatesOf(t) \in {{}, {4}}
                                   ELSE StatesOf(t) \in {{1}, {2}, {3}}
        /\ ~(OnEvent(t) /\ OnPending(t))
        /\ OnEvent(t) \/ OnPending(t) => t \in DelayedTasks(k)
    /\ \A s \in StateLists \cup {k.pending, k.events[QueueList]} : IsInjective(s)
    /\ \A p \in Priorities : \A t \in ToSet(k.ready[p].items) : k.prio[t] = p

\* Whenever the scheduler is not suspended and no yield is pending, the task
\* that runs is a ready one of the highest priority.
HighestRuns ==
    (k.suspended = 0 /\ ~k.yieldPending /\ Is("run"))
        => cur \in ToSet(k.ready[TopReady(k)].items)

\* Across the wrap of the tick count, every blocked task is on the list, and
\* has the wake value, of the tick at which its timeout expires; a task whose
\* time has come is not left behind, and xNextTaskUnblockTime, which the tick
\* looks at first, never lies after the first timeout of the current list.  And
\* no tick is lost: each tick interrupt was processed, or is counted in
\* uxPendedTicks.
TimeoutsKept ==
    /\ taken = (k.tick + k.pendedTicks) % TickMod
    /\ \A t \in DelayedTasks(k) \ ToSet(k.pending) :
        /\ left[t] > 0
        /\ k.wake[t] = (k.tick + left[t]) % TickMod
        /\ Contains(k.overflow, t) <=> k.tick + left[t] >= TickMod
    /\ k.delayed # <<>> => k.nextUnblock <= k.wake[Head(k.delayed)]

\* A task that waits on no event leaves the delayed lists, unless deleted,
\* only when all the ticks it asked for have been processed.
NeverEarly ==
    [][\A t \in DelayedTasks(k) \ DelayedTasks(k)' :
          (~OnEvent(t) /\ ~OnPending(t) /\ pc'[t].at # "deleted") => left'[t] = 0]_vars

\* While the scheduler is suspended no other task runs, and none of the lists
\* an interrupt handler must not touch is touched by the tick.
SuspensionKept ==
    [][(k.suspended > 0 /\ k'.suspended > 0)
          => k'.cur = k.cur /\ k'.tick = k.tick]_vars

\* A delayed task becomes ready again, whichever of the two delayed lists it is
\* in when the tick count wraps (programs without vTaskDelete).
DelaysEnd ==
    \A t \in Tasks :
        t \in ToSet(k.delayed \o k.overflow) ~> t \in ReadyTasks(k)

\* Ready tasks of the highest priority take turns: each of them runs.
TakeTurns ==
    \A t \in Tasks :
        (t \in ReadyTasks(k) /\ \A u \in Tasks : k.prio[u] <= k.prio[t])
            ~> (k.cur = t \/ t \notin ReadyTasks(k))
=============================================================================
