---------------------------- MODULE EventGroups ----------------------------
(***************************************************************************)
(* An event group (event_groups.c).  Tasks wait for any or for all of some *)
(* bits, may have them cleared as they leave, or meet in a rendezvous; the *)
(* bits that woke a task are left in its event list item, so that it need  *)
(* not look at the group again.  Every body runs with the scheduler        *)
(* suspended, and no interrupt touches the group.                          *)
(***************************************************************************)
EXTENDS KernelCalls

CONSTANT Bits  \* the event bits

VARIABLES
    bits,   \* uxEventBits
    alive   \* FALSE once vEventGroupDelete has freed the group

eventVars == <<bits, alive>>
Group == "group"  \* xTasksWaitingForBits

ASSUME EventGroupAssumption == Group \in EventLists

\* A wait condition: the bits, whether all of them, whether to clear them
Conditions == [for : (SUBSET Bits) \ {{}}, all : BOOLEAN, clear : BOOLEAN]
Rendezvous(b) == [for |-> b, all |-> TRUE, clear |-> TRUE]

InitEvents == bits = {} /\ alive = TRUE

\* prvTestWaitCondition
Met(b, c) == IF c.all THEN c.for \subseteq b ELSE c.for \cap b # {}

\* What a read of uxEventBits returns: anything, once the group is freed
ReadBits == IF alive THEN {bits} ELSE SUBSET Bits
Store(b) == bits' = IF alive THEN b ELSE bits

Waiting(r) == r.events[Group]
InItem(c) == [for |-> c.for, all |-> c.all, clear |-> c.clear,
              unblocked |-> FALSE, inUse |-> TRUE]
UnblockedBy(b) == [for |-> b, all |-> FALSE, clear |-> FALSE,
                   unblocked |-> TRUE, inUse |-> TRUE]

\* The three functions return the bits to the caller, which is not modelled.
ReturnAtOnce == Goto([User EXCEPT !.at = "return", !.op = "events"])

-----------------------------------------------------------------------------
(* xEventGroupSetBits *)

\* The loop over the waiting tasks, each of which that is in met goes through
\* vTaskRemoveFromUnorderedEventList
Unblock(r, met) ==
    LET w == Waiting(r)
        after[i \in 0..Len(w)] ==
            IF i = 0 THEN r
            ELSE IF w[i] \in met THEN RemoveFromUnorderedEventList(after[i - 1], w[i])
            ELSE after[i - 1]
    IN after[Len(w)]

\* Mutant of Matched: the loop ends with the first task that is woken.
MatchedFirst(r, b) ==
    LET w == Waiting(r)
        met == {i \in DOMAIN w : Met(b, item[w[i]])}
    IN {w[i] : i \in {j \in met : \A h \in met : j <= h}}

\* Mutant of Matched: the loop clears bits as it goes.
MatchedInTurn(r, b) ==
    LET w == Waiting(r)
        left[i \in 0..Len(w)] ==
            IF i = 0 THEN b
            ELSE IF Met(left[i - 1], item[w[i]]) /\ item[w[i]].clear
                 THEN left[i - 1] \ item[w[i]].for
                 ELSE left[i - 1]
    IN {w[i] : i \in {j \in DOMAIN w : Met(left[j - 1], item[w[j]])}}

\* The loop looks at the bits as they were set, and clears only after it: b are
\* the bits after the OR.
Matched(r, b) == {t \in ToSet(Waiting(r)) : Met(b, item[t])}

ClearedBy(tasks) == UNION {item[t].for : t \in {u \in tasks : item[u].clear}}

\* Mutant of WakeItems: the tasks are given the bits that are left after them.
WakeItemsCleared(tasks, b) ==
    [t \in Tasks |-> IF t \in tasks THEN UnblockedBy(b \ ClearedBy(tasks)) ELSE item[t]]

WakeItems(tasks, b) ==
    [t \in Tasks |-> IF t \in tasks THEN UnblockedBy(b) ELSE item[t]]

ClearAfter(tasks, b) == b \ ClearedBy(tasks)

SetBits(s) ==
    /\ Is("user") /\ s \in program.sets[cur] /\ alive
    /\ LET tasks == Matched(k, bits \cup s)
       IN /\ k' = Unblock(SuspendAll(k), tasks)
          /\ item' = WakeItems(tasks, bits \cup s)
          /\ bits' = ClearAfter(tasks, bits \cup s)
    /\ ReturnAtOnce
    /\ UNCHANGED alive

-----------------------------------------------------------------------------
(* xEventGroupWaitBits and xEventGroupSync *)

\* The call blocks: the condition goes into the item, the task on the list.
PlaceWaiter(r, c, n) ==
    /\ k' = PlaceOnUnorderedEventList(r, Group, n)
    /\ Goto([User EXCEPT !.at = "blocked", !.op = "events", !.arg = c, !.wait = n])

WaitBits(c, n) ==
    /\ Is("user") /\ c \in program.conditions[cur] /\ n \in program.waits /\ alive
    /\ IF Met(bits, c)
       THEN /\ ReturnAtOnce
            /\ k' = SuspendAll(k)
            /\ bits' = IF c.clear THEN bits \ c.for ELSE bits
            /\ UNCHANGED item
       ELSE IF n = 0
       THEN ReturnAtOnce /\ k' = SuspendAll(k) /\ UNCHANGED <<bits, item>>
       ELSE /\ PlaceWaiter(SuspendAll(k), c, n)
            /\ item' = [item EXCEPT ![cur] = InItem(c)]
            /\ UNCHANGED bits
    /\ UNCHANGED alive

\* xEventGroupSync: xEventGroupSetBits inside the suspension, then the test on
\* the bits before the waiters cleared any
GroupSync(s, f, n) ==
    /\ Is("user") /\ <<s, f>> \in program.syncs[cur] /\ n \in program.waits /\ alive
    /\ LET tasks == Matched(k, bits \cup s)
           after == ClearAfter(tasks, bits \cup s)
           r == Unblock(SuspendAll(k), tasks)
       IN IF f \subseteq bits \cup s
          THEN /\ ReturnAtOnce
               /\ k' = r /\ bits' = after \ f /\ item' = WakeItems(tasks, bits \cup s)
          ELSE /\ IF n = 0 THEN ReturnAtOnce /\ k' = r
                           ELSE PlaceWaiter(r, Rendezvous(f), n)
               /\ bits' = after
               /\ item' = IF n = 0 THEN WakeItems(tasks, bits \cup s)
                          ELSE [WakeItems(tasks, bits \cup s) EXCEPT
                                   ![cur] = InItem(Rendezvous(f))]
    /\ UNCHANGED alive

\* xTaskResumeAll of a call that did not block
ResumeReturn ==
    /\ IsIn("events", "return")
    /\ k' = ResumeAll(k)
    /\ Goto(User)
    /\ UNCHANGED <<item, bits, alive>>

\* uxTaskResetEventItemValue: the item holds the task's priority again.
ResetItem ==
    /\ item' = [item EXCEPT ![cur] = NotInUse]
    /\ k' = [k EXCEPT !.evValue[cur] = Highest(Priorities) + 1 - k.prio[cur]]

\* The task was unblocked by the bits in its item.
WokenByBits ==
    /\ IsIn("events", "awake") /\ item[cur].unblocked
    /\ ResetItem
    /\ Goto(User)
    /\ UNCHANGED <<bits, alive>>

\* The task timed out: it reads the group, where bits may have been set since.
WokenByTimeout ==
    /\ IsIn("events", "awake") /\ ~item[cur].unblocked
    /\ \E b \in ReadBits :
          Store(IF Met(b, me.arg) /\ me.arg.clear THEN b \ me.arg.for ELSE b)
    /\ ResetItem
    /\ Goto(User)
    /\ UNCHANGED alive

-----------------------------------------------------------------------------
\* xEventGroupClearBits
ClearBits(s) ==
    /\ Is("user") /\ s \in program.clears[cur] /\ alive
    /\ bits' = bits \ s
    /\ UNCHANGED <<k, pc, item, alive>>

\* vEventGroupDelete: every waiter is told that it was unblocked, by no bits.
DeleteGroup ==
    /\ Is("user") /\ cur \in program.deleters /\ alive
    /\ k' = Unblock(SuspendAll(k), ToSet(Waiting(k)))
    /\ item' = WakeItems(ToSet(Waiting(k)), {})
    /\ alive' = FALSE
    /\ ReturnAtOnce
    /\ UNCHANGED bits

EventStep ==
    \/ \E s \in SUBSET Bits : SetBits(s) \/ ClearBits(s)
    \/ \E c \in Conditions, n \in program.waits : WaitBits(c, n)
    \/ \E s, f \in SUBSET Bits, n \in program.waits : GroupSync(s, f, n)
    \/ ResumeReturn \/ WokenByBits \/ WokenByTimeout \/ DeleteGroup
    \/ /\ ResumeBlocked("events") \/ YieldWithinApi("events")
       /\ UNCHANGED eventVars

-----------------------------------------------------------------------------
(* Properties *)

InWait(t) == pc[t].op = "events" /\ pc[t].at \in {"blocked", "yield", "awake"}

\* Nobody sleeps while the bits it waits for are set: xEventGroupSetBits wakes
\* every task whose condition it meets, whatever bits others have cleared.  And a
\* task that is told its bits were set finds them in its item, however the group
\* has changed since, and a task that is not has been taken off the list.
NoneSleepsOnMetCondition ==
    /\ alive => \A t \in ToSet(Waiting(k)) : ~Met(bits, item[t])
    /\ \A t \in Tasks :
        InWait(t) =>
            /\ item[t].inUse
            /\ item[t].unblocked => (alive => Met(item[t].for, pc[t].arg))
            /\ item[t].unblocked => Awake(t) /\ t \notin ToSet(Waiting(k))

\* One xEventGroupSetBits serves all waiters alike: the bits that wake one task
\* wake every other one whose condition they meet, also when a task that is
\* woken clears them.
SetReachesAll ==
    [][\A t, u \in ToSet(Waiting(k)) :
          (alive' /\ item'[u].unblocked /\ Met(item'[u].for, item[t]))
              => t \notin ToSet(Waiting(k'))]_<<k, alive, item>>
=============================================================================
