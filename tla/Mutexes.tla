------------------------------ MODULE Mutexes ------------------------------
(***************************************************************************)
(* Mutexes with priority inheritance: the semaphore functions of queue.c   *)
(* for a queue of type queueQUEUE_IS_MUTEX, with vTaskPriorityInherit and  *)
(* xTaskPriorityDisinherit of tasks.c.  A mutex is empty exactly while it  *)
(* has a holder, and is never given by an interrupt, so only tasks touch   *)
(* it; program.mutexes names those each task uses.                         *)
(***************************************************************************)
EXTENDS KernelCalls

CONSTANTS
    Mutex,   \* the mutexes; each has the event list of its receivers
    NoTask   \* NULL

ASSUME MutexAssumption ==
    NoTask \notin Tasks /\ Mutex \subseteq EventLists /\ IsFiniteSet(Mutex)

VARIABLES
    holder,  \* pxMutexHolder
    held     \* uxMutexesHeld

mutexVars == <<holder, held>>

InitMutexes ==
    /\ holder = [m \in Mutex |-> NoTask]
    /\ held = [t \in Tasks |-> 0]

-----------------------------------------------------------------------------
(* tasks.c *)

\* The item's value is changed, its place in an event list is not.
WithEventPriority(t, prio, r) ==
    IF item[t].inUse THEN r
    ELSE [r EXCEPT !.evValue[t] = Highest(Priorities) + 1 - prio]

WithPriority(r, t, prio) ==
    IF Contains(r.ready[r.prio[t]].items, t)
    THEN AddToReady([r EXCEPT !.ready[r.prio[t]] = ListRemove(@, t),
                              !.prio[t] = prio], t)
    ELSE [r EXCEPT !.prio[t] = prio]

\* Mutant of PriorityInherit: the holder stays in the list of its own priority.
InheritInPlace(r, t) ==
    IF t = NoTask \/ r.prio[t] >= r.prio[r.cur] THEN r
    ELSE [WithEventPriority(t, r.prio[r.cur], r) EXCEPT !.prio[t] = r.prio[r.cur]]

\* Mutant of PriorityInherit: only a ready holder inherits.
InheritWhenReady(r, t) ==
    IF t = NoTask \/ r.prio[t] >= r.prio[r.cur] \/ t \notin ReadyTasks(r) THEN r
    ELSE WithPriority(WithEventPriority(t, r.prio[r.cur], r), t, r.prio[r.cur])

\* vTaskPriorityInherit
PriorityInherit(r, t) ==
    IF t = NoTask \/ r.prio[t] >= r.prio[r.cur] THEN r
    ELSE WithPriority(WithEventPriority(t, r.prio[r.cur], r), t, r.prio[r.cur])

\* Whether xTaskPriorityDisinherit changes the priority, and asks for a yield
Disinherits(t) == k.prio[t] # k.base[t] /\ held[t] = 1

\* Mutant of PriorityDisinherit: the boost ends with the last mutex but one.
DisinheritEarly(t) ==
    IF k.prio[t] # k.base[t] /\ held[t] <= 2
    THEN WithPriority(WithEventPriority(t, k.base[t], k), t, k.base[t])
    ELSE k

\* xTaskPriorityDisinherit
PriorityDisinherit(t) ==
    IF Disinherits(t)
    THEN WithPriority(WithEventPriority(t, k.base[t], k), t, k.base[t])
    ELSE k

-----------------------------------------------------------------------------
(* xSemaphoreTake, which is xQueueGenericReceive *)

CallTake(m, n) ==
    /\ Is("user") /\ m \in program.mutexes[cur] /\ holder[m] # cur
    /\ n \in program.waits
    /\ Goto([User EXCEPT !.at = "awake", !.op = "mutex", !.arg = m, !.wait = n])
    /\ UNCHANGED <<k, item, holder, held>>

Take ==
    /\ IsIn("mutex", "awake") /\ holder[me.arg] = NoTask
    /\ holder' = [holder EXCEPT ![me.arg] = cur]
    /\ held' = [held EXCEPT ![cur] = @ + 1]
    /\ Goto(User)
    /\ UNCHANGED <<k, item>>

\* The mutex is taken: return, or note the time and go on to wait.
NotTaken ==
    /\ IsIn("mutex", "awake") /\ holder[me.arg] # NoTask
    /\ Goto(IF me.wait = 0 THEN User
            ELSE IF me.timeOut = NoTimeOut
                 THEN [me EXCEPT !.at = "wait", !.timeOut = TimeOutState(k)]
                 ELSE [me EXCEPT !.at = "wait"])
    /\ UNCHANGED <<k, item, holder, held>>

\* Scheduler suspended, queue locked: xTaskCheckForTimeOut, prvIsQueueEmpty,
\* vTaskPriorityInherit, vTaskPlaceOnEventList, prvUnlockQueue
Expire ==
    /\ IsIn("mutex", "wait") /\ TimedOut(k, me.timeOut, me.wait)
    /\ k' = SuspendAll(k)
    /\ GotoLabel("expired")
    /\ UNCHANGED <<item, holder, held>>

TryAgain ==
    /\ IsIn("mutex", "wait") /\ ~TimedOut(k, me.timeOut, me.wait)
    /\ holder[me.arg] = NoTask
    /\ k' = SuspendAll(k)
    /\ Goto([me EXCEPT !.at = "retry", !.timeOut = TimeOutState(k),
                       !.wait = @ - Elapsed(k, me.timeOut)])
    /\ UNCHANGED <<item, holder, held>>

Block ==
    /\ IsIn("mutex", "wait") /\ ~TimedOut(k, me.timeOut, me.wait)
    /\ holder[me.arg] # NoTask
    /\ LET left == me.wait - Elapsed(k, me.timeOut)
       IN /\ k' = PlaceOnEventList(PriorityInherit(SuspendAll(k), holder[me.arg]),
                                   me.arg, left)
          /\ Goto([me EXCEPT !.at = "blocked", !.timeOut = TimeOutState(k),
                             !.wait = left])
    /\ UNCHANGED <<item, holder, held>>

\* xTaskResumeAll of the two ways that did not block
ResumeUnblocked ==
    /\ IsIn("mutex", "expired") \/ IsIn("mutex", "retry")
    /\ k' = ResumeAll(k)
    /\ GotoLabel(IF Is("expired") THEN "recheck" ELSE "awake")
    /\ UNCHANGED <<item, holder, held>>

\* After the timeout: prvIsQueueEmpty once more
Recheck ==
    /\ IsIn("mutex", "recheck")
    /\ Goto(IF holder[me.arg] # NoTask THEN User ELSE [me EXCEPT !.at = "awake"])
    /\ UNCHANGED <<k, item, holder, held>>

\* Mutant of Give: only a task of a higher priority is woken.
GiveWakesHigher(m) ==
    /\ Is("user") /\ m \in program.mutexes[cur] /\ holder[m] = cur
    /\ holder' = [holder EXCEPT ![m] = NoTask]
    /\ held' = [held EXCEPT ![cur] = @ - 1]
    /\ LET r == PriorityDisinherit(cur)
       IN k' = IF r.events[m] # <<>> /\ WakesHigher(r, m)
               THEN SwitchContext(RemoveFromEventList(r, m))
               ELSE IF Disinherits(cur) THEN SwitchContext(r) ELSE r
    /\ UNCHANGED <<pc, item>>

\* xSemaphoreGive, which is xQueueGenericSend with prvCopyDataToQueue.  When it
\* wakes a waiter, it does not look at whether the priority was disinherited.
Give(m) ==
    /\ Is("user") /\ m \in program.mutexes[cur] /\ holder[m] = cur
    /\ holder' = [holder EXCEPT ![m] = NoTask]
    /\ held' = [held EXCEPT ![cur] = @ - 1]
    /\ LET r == PriorityDisinherit(cur)
       IN k' = IF r.events[m] # <<>>
               THEN IF WakesHigher(r, m) THEN SwitchContext(RemoveFromEventList(r, m))
                    ELSE RemoveFromEventList(r, m)
               ELSE IF Disinherits(cur) THEN SwitchContext(r) ELSE r
    /\ UNCHANGED <<pc, item>>

MutexStep ==
    \/ \E m \in Mutex, n \in program.waits : CallTake(m, n)
    \/ Take \/ NotTaken \/ Expire \/ TryAgain \/ Block
    \/ /\ ResumeBlocked("mutex") \/ YieldWithinApi("mutex")
       /\ UNCHANGED mutexVars
    \/ ResumeUnblocked \/ Recheck
    \/ \E m \in Mutex : Give(m)

-----------------------------------------------------------------------------
(* Properties *)

MutexTypeOK ==
    /\ holder \in [Mutex -> Tasks \cup {NoTask}]
    /\ \A t \in Tasks : held[t] = Cardinality({m \in Mutex : holder[m] = t})

\* No inversion: the task that goes to sleep on a mutex leaves its holder at no
\* lower priority than its own, wherever the holder is (ready, delayed, or asleep
\* on another mutex), and whatever mutexes the holder gives back in whatever order,
\* its priority does not fall while it has one of them (tasks.c:3780, :3790).
InheritanceKept ==
    [][\A m \in Mutex :
          LET h == holder'[m]
          IN  h # NoTask =>
                /\ \A t \in ToSet(k'.events[m]) \ ToSet(k.events[m]) : k'.prio[h] >= k'.prio[t]
                /\ holder[m] = h => k'.prio[h] >= k.prio[h]]_<<k, holder>>

\* The boost ends with the last mutex, and not before: until then the holder is
\* in the ready list of the priority it runs at; so uxMutexesHeld must count.
BoostEnds ==
    /\ MutexTypeOK
    /\ \A t \in Tasks :
        /\ held[t] = 0 => k.prio[t] = k.base[t]
        /\ k.prio[t] >= k.base[t]
        /\ \A p \in Priorities : t \in ToSet(k.ready[p].items) => p = k.prio[t]

\* No wake-up is lost: while tasks wait for a free mutex, one of those woken, or
\* one that has not blocked yet, is about to try it.
FreeMutexTried ==
    \A m \in Mutex :
        (holder[m] = NoTask /\ k.events[m] # <<>>)
            => \E t \in Tasks :
                  /\ pc[t].op = "mutex" /\ pc[t].arg = m
                  /\ pc[t].at \notin {"expired", "recheck"} /\ Awake(t)

\* tasks.c:3816: "a context switch should occur when the last mutex is returned
\* whether a task is waiting on it or not": a task that loses an inherited priority
\* with its last mutex is not left running below a task that is ready.
LastMutexYields ==
    [][(held[cur] = 1 /\ held'[cur] = 0 /\ k'.prio[cur] < k.prio[cur])
          => \A t \in ReadyTasks(k') : k'.prio[t] <= k'.prio[k'.cur]]_<<k, held>>
=============================================================================
