----------------------------- MODULE TaskLists -----------------------------
(***************************************************************************)
(* The lists the scheduler keeps (FreeRTOS/Source/list.c and the static    *)
(* functions of tasks.c), as operators on a record k that holds the kernel *)
(* state.  Each operator is the whole body of the C function it is named   *)
(* after; the modules that extend this one apply it inside their actions,  *)
(* one action per critical section.                                        *)
(*                                                                         *)
(*   ready     pxReadyTasksLists: per priority, a ring and its pxIndex     *)
(*   delayed, overflow  the two delayed lists, sorted by wake              *)
(*   pending   xPendingReadyList      terminating  xTasksWaitingTermination *)
(*   events    the event lists of the queues, sorted by evValue            *)
(*   wake, evValue      the values of a task's state and event list items  *)
(***************************************************************************)
EXTENDS Integers, Sequences, SequencesExt

CONSTANTS
    Tasks,       \* task control blocks
    Priorities,  \* 0 .. configMAX_PRIORITIES - 1
    TickMod,     \* number of tick values; 2^32 in the code
    OverflowMod, \* bound: number of values xNumOfOverflows takes
    EventLists   \* the event lists tasks can wait on

Ticks == 0..(TickMod - 1)
MAX_DELAY == TickMod - 1    \* portMAX_DELAY
Highest(S) == CHOOSE p \in S : \A q \in S : q <= p

ASSUME TaskListsAssumption ==
    /\ IsFiniteSet(Tasks)
    /\ Highest(Priorities) \in Nat /\ Priorities = 0..Highest(Priorities)
    /\ TickMod \in Nat \ {0, 1} /\ OverflowMod \in Nat \ {0}

-----------------------------------------------------------------------------
(* list.c.  A list with pxIndex: the items in order from the end marker,   *)
(* and the position of pxIndex, 0 when it is the marker itself.            *)

EmptyList == [items |-> <<>>, index |-> 0]

\* vListInsertEnd: the new item goes just before pxIndex
InsertEnd(l, x) ==
    IF l.index = 0 THEN [l EXCEPT !.items = Append(@, x)]
    ELSE [items |-> InsertAt(l.items, l.index, x), index |-> l.index + 1]

\* An item is on a list at most once: it is unlinked from where it is.
PlaceOf(s, x) == CHOOSE i \in DOMAIN s : s[i] = x
Without(s, x) == IF Contains(s, x) THEN RemoveAt(s, PlaceOf(s, x)) ELSE s

\* Mutant of ListRemove: pxIndex is left pointing at the removed item.
ListRemoveKeepsIndex(l, x) == [l EXCEPT !.items = Without(@, x)]

\* uxListRemove: pxIndex steps back when it pointed at the item
ListRemove(l, x) ==
    [items |-> Without(l.items, x),
     index |-> IF Contains(l.items, x) /\ PlaceOf(l.items, x) <= l.index
               THEN l.index - 1 ELSE l.index]

\* listGET_OWNER_OF_NEXT_ENTRY: advance pxIndex, over the end marker
NextIndex(l) == IF l.index < Len(l.items) THEN l.index + 1 ELSE 1

\* vListInsert: before the first item of a greater value
InsertSorted(s, x, value) ==
    LET greater == {i \in DOMAIN s : value[s[i]] > value[x]}
    IN  InsertAt(s, IF greater = {} THEN Len(s) + 1 ELSE Min(greater), x)

-----------------------------------------------------------------------------
(* tasks.c: the ready, delayed and event lists *)

\* prvAddTaskToReadyList
AddToReady(k, t) == [k EXCEPT !.ready[k.prio[t]] = InsertEnd(@, t)]

\* uxListRemove( &( pxTCB->xStateListItem ) ), whatever list holds it.  The
\* item's old value, never read again, is forgotten.
RemoveState(k, t) ==
    [k EXCEPT !.wake[t] = 0,
              !.ready = [p \in Priorities |-> ListRemove(@[p], t)],
              !.delayed = Without(@, t),
              !.overflow = Without(@, t),
              !.terminating = Without(@, t)]

\* uxListRemove( &( pxTCB->xEventListItem ) ), if it is on a list
RemoveEvent(k, t) ==
    [k EXCEPT !.events = [e \in EventLists |-> Without(@[e], t)],
              !.pending = Without(@, t)]

\* The three calls that unblock a task, in the order of any of their users
MakeReady(k, t) == AddToReady(RemoveState(RemoveEvent(k, t), t), t)

\* prvResetNextTaskUnblockTime
ResetNextUnblock(k) ==
    [k EXCEPT !.nextUnblock = IF k.delayed = <<>> THEN MAX_DELAY
                              ELSE k.wake[Head(k.delayed)]]

\* Mutants of AddCurrentToDelayed: every wake time goes to the current list;
\* xNextTaskUnblockTime is not brought forward.
DelayNeverOverflows(k, n) ==
    LET r == [RemoveState(k, k.cur) EXCEPT
                 !.wake[k.cur] = (k.tick + n) % TickMod]
    IN [r EXCEPT !.delayed = InsertSorted(@, k.cur, r.wake),
                 !.nextUnblock = IF r.wake[k.cur] < @ THEN r.wake[k.cur]
                                                      ELSE @]

DelayKeepsNextUnblock(k, n) ==
    LET r == [RemoveState(k, k.cur) EXCEPT
                 !.wake[k.cur] = (k.tick + n) % TickMod]
    IN IF r.wake[k.cur] < k.tick
       THEN [r EXCEPT !.overflow = InsertSorted(@, k.cur, r.wake)]
       ELSE [r EXCEPT !.delayed = InsertSorted(@, k.cur, r.wake)]

\* prvAddCurrentTaskToDelayedList; INCLUDE_vTaskSuspend is 0, so portMAX_DELAY
\* is a delay like any other
AddCurrentToDelayed(k, n) ==
    LET r == [RemoveState(k, k.cur) EXCEPT
                 !.wake[k.cur] = (k.tick + n) % TickMod]
    IN IF r.wake[k.cur] < k.tick
       THEN [r EXCEPT !.overflow = InsertSorted(@, k.cur, r.wake)]
       ELSE [r EXCEPT !.delayed = InsertSorted(@, k.cur, r.wake),
                      !.nextUnblock = IF r.wake[k.cur] < @ THEN r.wake[k.cur]
                                                           ELSE @]

\* Mutant of PlaceOnEventList: first come first served, whatever the priority.
PlaceLast(k, e, n) ==
    AddCurrentToDelayed([k EXCEPT !.events[e] = Append(@, k.cur)], n)

\* vTaskPlaceOnEventList
PlaceOnEventList(k, e, n) ==
    AddCurrentToDelayed(
        [k EXCEPT !.events[e] = InsertSorted(@, k.cur, k.evValue)], n)

\* vTaskPlaceOnUnorderedEventList, but for the value stored in the item, which
\* EventGroups keeps
PlaceOnUnorderedEventList(k, e, n) ==
    AddCurrentToDelayed([k EXCEPT !.events[e] = Append(@, k.cur)], n)

\* What xTaskRemoveFromEventList returns: the caller should yield.
WakesHigher(k, e) == k.prio[Head(k.events[e])] > k.prio[k.cur]

\* xTaskRemoveFromEventList
RemoveFromEventList(k, e) ==
    LET t == Head(k.events[e])
        r == IF k.suspended = 0 THEN MakeReady(k, t)
             ELSE [RemoveEvent(k, t) EXCEPT !.pending = Append(@, t)]
    IN [r EXCEPT !.yieldPending = @ \/ WakesHigher(k, e)]

\* vTaskRemoveFromUnorderedEventList, the scheduler being suspended, but for
\* the value stored in the item
RemoveFromUnorderedEventList(k, t) ==
    [MakeReady(k, t) EXCEPT !.yieldPending = @ \/ k.prio[t] > k.prio[k.cur]]

-----------------------------------------------------------------------------
(* tasks.c: selection of the next task and the tick *)

TopReady(k) == Highest({p \in Priorities : k.ready[p].items # <<>>})

\* Mutants of SwitchContext: the head of the list is selected and pxIndex not
\* advanced; the suspension is not looked at.
SwitchToHead(k) ==
    IF k.suspended > 0 THEN [k EXCEPT !.yieldPending = TRUE]
    ELSE [k EXCEPT !.yieldPending = FALSE,
                   !.cur = Head(k.ready[TopReady(k)].items)]

SwitchWhileSuspended(k) ==
    LET p == TopReady(k)
        i == NextIndex(k.ready[p])
    IN [k EXCEPT !.yieldPending = FALSE,
                 !.ready[p].index = i,
                 !.cur = k.ready[p].items[i]]

\* vTaskSwitchContext with taskSELECT_HIGHEST_PRIORITY_TASK
SwitchContext(k) ==
    IF k.suspended > 0 THEN [k EXCEPT !.yieldPending = TRUE]
    ELSE LET p == TopReady(k)
             i == NextIndex(k.ready[p])
         IN [k EXCEPT !.yieldPending = FALSE,
                      !.ready[p].index = i,
                      !.cur = k.ready[p].items[i]]

\* Mutant of SwitchDelayedLists: the lists are not exchanged.
CountOverflowOnly(k) == [k EXCEPT !.overflows = (@ + 1) % OverflowMod]

\* taskSWITCH_DELAYED_LISTS
SwitchDelayedLists(k) ==
    ResetNextUnblock([k EXCEPT !.delayed = k.overflow,
                               !.overflow = k.delayed,
                               !.overflows = (@ + 1) % OverflowMod])

\* Mutant of WakeHead: a task is woken one tick early.
WakeHeadEarly(k) ==
    IF k.delayed = <<>> \/ k.wake[Head(k.delayed)] > k.tick + 1 THEN k
    ELSE MakeReady(k, Head(k.delayed))

\* The loop of xTaskIncrementTick: the head leaves while its time has come.
WakeHead(k) ==
    IF k.delayed = <<>> \/ k.wake[Head(k.delayed)] > k.tick THEN k
    ELSE MakeReady(k, Head(k.delayed))

WakeDue(k) ==
    LET after[i \in 0..Len(k.delayed)] ==
            IF i = 0 THEN k ELSE WakeHead(after[i - 1])
    IN ResetNextUnblock(after[Len(k.delayed)])

\* xTaskIncrementTick with the scheduler running: one tick is processed
AdvanceTick(k) ==
    LET next == [k EXCEPT !.tick = (@ + 1) % TickMod]
        lists == IF next.tick = 0 THEN SwitchDelayedLists(next) ELSE next
    IN IF lists.tick >= lists.nextUnblock THEN WakeDue(lists) ELSE lists

IncrementTick(k) ==
    IF k.suspended = 0 THEN AdvanceTick(k)
    ELSE [k EXCEPT !.pendedTicks = @ + 1]

\* What xTaskIncrementTick returns: a task of at least the running task's
\* priority was woken, it shares its priority, or a yield is pending.
TickNeedsSwitch(before, after) ==
    \/ \E t \in ToSet(before.delayed \o before.overflow)
                \ ToSet(after.delayed \o after.overflow) :
          after.prio[t] >= after.prio[after.cur]
    \/ Len(after.ready[after.prio[after.cur]].items) > 1
    \/ after.yieldPending

-----------------------------------------------------------------------------
(* tasks.c: suspending and resuming the scheduler *)

\* vTaskSuspendAll
SuspendAll(k) == [k EXCEPT !.suspended = @ + 1]

\* xTaskResumeAll, first part: the pending ready tasks
DrainPending(k) ==
    LET ready[i \in 0..Len(k.pending)] ==
            IF i = 0 THEN k ELSE MakeReady(ready[i - 1], k.pending[i])
        r == ready[Len(k.pending)]
    IN IF k.pending = <<>> THEN k
       ELSE ResetNextUnblock(
               [r EXCEPT !.yieldPending =
                   \/ @
                   \/ \E t \in ToSet(k.pending) : k.prio[t] >= k.prio[k.cur]])

TickAndYield(k) ==
    LET a == AdvanceTick(k) IN [a EXCEPT !.yieldPending = TickNeedsSwitch(k, a)]

\* Mutant of ProcessPended: the ticks are dropped.
DropPended(k) == [k EXCEPT !.pendedTicks = 0]

\* xTaskResumeAll, second part: the ticks that came meanwhile
ProcessPended(k) ==
    LET after[i \in 0..k.pendedTicks] ==
            IF i = 0 THEN k ELSE TickAndYield(after[i - 1])
    IN [after[k.pendedTicks] EXCEPT !.pendedTicks = 0]

\* The state xTaskResumeAll leaves when its caller's is the last suspension
Resumed(k) == ProcessPended(DrainPending([k EXCEPT !.suspended = 0]))

\* xTaskResumeAll returns whether it has yielded itself
AlreadyYielded(k) == k.suspended = 1 /\ Resumed(k).yieldPending

ResumeAll(k) ==
    IF k.suspended > 1 THEN [k EXCEPT !.suspended = @ - 1]
    ELSE IF Resumed(k).yieldPending THEN SwitchContext(Resumed(k))
    ELSE Resumed(k)

-----------------------------------------------------------------------------
(* tasks.c: timeouts *)

\* vTaskSetTimeOutState
TimeOutState(k) == [overflows |-> k.overflows, entering |-> k.tick]

Elapsed(k, timeOut) == (k.tick - timeOut.entering) % TickMod

\* Mutant of TimedOut: any overflow since the entry is taken for a whole round.
TimedOutByOverflow(k, timeOut, ticksToWait) ==
    \/ k.overflows # timeOut.overflows
    \/ Elapsed(k, timeOut) >= ticksToWait

\* xTaskCheckForTimeOut returns pdTRUE; otherwise it subtracts what elapsed
TimedOut(k, timeOut, ticksToWait) ==
    \/ k.overflows # timeOut.overflows /\ k.tick >= timeOut.entering
    \/ Elapsed(k, timeOut) >= ticksToWait

-----------------------------------------------------------------------------
(* The state vTaskStartScheduler leaves: the given tasks created, in order. *)

ItemValue(prio) == [t \in Tasks |-> Highest(Priorities) + 1 - prio[t]]

\* prvInitialiseTaskLists
NoneCreated(first, prio) ==
    [ready |-> [p \in Priorities |-> EmptyList],
     delayed |-> <<>>, overflow |-> <<>>, pending |-> <<>>,
     terminating |-> <<>>, events |-> [e \in EventLists |-> <<>>],
     wake |-> [t \in Tasks |-> 0], evValue |-> ItemValue(prio),
     prio |-> prio, base |-> prio, cur |-> first,
     tick |-> 0, overflows |-> 0, nextUnblock |-> MAX_DELAY,
     suspended |-> 0, pendedTicks |-> 0, yieldPending |-> FALSE]

\* prvAddNewTaskToReadyList before the scheduler runs: the last task created of the
\* highest priority is the one to run
CreateBefore(k, t) ==
    [AddToReady(k, t) EXCEPT !.cur = IF k.prio[@] <= k.prio[t] THEN t ELSE @]

\* xTaskCreate of each task in turn, then the idle task
StartedWith(order, prio) ==
    LET created[i \in 0..Len(order)] ==
            IF i = 0 THEN NoneCreated(order[1], prio)
            ELSE CreateBefore(created[i - 1], order[i])
    IN created[Len(order)]

ReadyTasks(k) == UNION {ToSet(k.ready[p].items) : p \in Priorities}
DelayedTasks(k) == ToSet(k.delayed) \cup ToSet(k.overflow)
=============================================================================
