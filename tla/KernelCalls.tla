---------------------------- MODULE KernelCalls ----------------------------
(***************************************************************************)
(* What mutexes, event groups and task notifications share: the kernel     *)
(* they block their callers in, where each task is inside a call, and the  *)
(* tick.  A blocking call suspends the scheduler, enters the delayed list  *)
(* and resumes: no other task runs in between, and the interrupts that do  *)
(* only count ticks or append to xPendingReadyList.                        *)
(***************************************************************************)
EXTENDS TaskLists, FiniteSets

CONSTANTS
    Idle,      \* the idle task
    InitPrio,  \* the priority of each task
    Programs,  \* what the tasks do, see the modules that extend this one
    MaxPended  \* bound: ticks that come while the scheduler is suspended

ASSUME KernelCallsAssumption ==
    Idle \in Tasks /\ InitPrio \in [Tasks -> Priorities] /\ MaxPended \in Nat

VARIABLES
    program,  \* the program that runs, one of Programs
    k,        \* the kernel state, see TaskLists
    pc,       \* where each task is inside a call, and its local variables
    item      \* what the event list items hold of an event group

NoTimeOut == [overflows |-> 0, entering |-> -1]
User == [at |-> "user", op |-> "none", arg |-> "none", wait |-> 0,
         timeOut |-> NoTimeOut]

\* taskEVENT_LIST_ITEM_VALUE_IN_USE is clear: the item holds a priority.
NotInUse == [for |-> {}, all |-> FALSE, clear |-> FALSE, unblocked |-> FALSE,
             inUse |-> FALSE]

cur == k.cur
me == pc[cur]
Is(label) == me.at = label
IsIn(op, label) == me.op = op /\ me.at = label
Goto(p) == pc' = [pc EXCEPT ![cur] = p]
GotoLabel(label) == Goto([me EXCEPT !.at = label])

InitKernel ==
    /\ program \in Programs
    /\ \E order \in SetToSeqs(Tasks \ {Idle}) :
          k = StartedWith(Append(order, Idle), InitPrio)
    /\ pc = [t \in Tasks |-> User]
    /\ item = [t \in Tasks |-> NotInUse]

\* vTaskDelay
Delay(n) ==
    /\ Is("user") /\ n \in program.delays[cur]
    /\ k' = SwitchContext(ResumeAll(AddCurrentToDelayed(SuspendAll(k), n)))
    /\ UNCHANGED <<pc, item>>

\* xTaskResumeAll after the caller was put to sleep: unless that has switched
\* already, portYIELD_WITHIN_API() comes next.
ResumeBlocked(op) ==
    /\ IsIn(op, "blocked")
    /\ k' = ResumeAll(k)
    /\ GotoLabel(IF AlreadyYielded(k) THEN "awake" ELSE "yield")
    /\ UNCHANGED item

YieldWithinApi(op) ==
    /\ IsIn(op, "yield")
    /\ k' = SwitchContext(k)
    /\ GotoLabel("awake")
    /\ UNCHANGED item

\* vTickISR
TickISR ==
    /\ k.pendedTicks < MaxPended
    /\ k' = SwitchContext(IncrementTick(k))
    /\ UNCHANGED <<pc, item>>

KernelTypeOK ==
    /\ program \in Programs /\ cur \in Tasks
    /\ k.suspended \in 0..1 /\ k.pendedTicks \in 0..MaxPended
    /\ \A e \in EventLists : ToSet(k.events[e]) \subseteq Tasks \ {Idle}
    /\ \A t \in Tasks : item[t].inUse => pc[t].op = "events"

\* A task is about to run its call again.
Awake(t) == t \in ReadyTasks(k) \cup ToSet(k.pending)
=============================================================================
