--------------------------- MODULE Notifications ---------------------------
(***************************************************************************)
(* Direct-to-task notifications (tasks.c): a value and a state per task,   *)
(* which tasks and interrupts write and only the task itself waits for.    *)
(* There is no event list: a waiting task is in the delayed list only, and *)
(* the notifier takes it out.                                              *)
(***************************************************************************)
EXTENDS KernelCalls

CONSTANT MaxValue  \* bound: the largest notification value

ASSUME NotifyAssumption == MaxValue \in Nat

VARIABLES
    value,   \* ulNotifiedValue
    nstate   \* ucNotifyState

notifyVars == <<value, nstate>>
Values == 0..MaxValue
NotifyStates == {"notWaiting", "waiting", "received"}

InitNotify ==
    /\ value = [t \in Tasks |-> 0]
    /\ nstate = [t \in Tasks |-> "notWaiting"]

-----------------------------------------------------------------------------
(* ulTaskNotifyTake and xTaskNotifyWait: two critical sections each, with   *)
(* the yield of a task that blocks inside the first                         *)

\* Mark as waiting, and sleep if there are ticks to wait
WaitForNotification(call, n) ==
    /\ nstate' = [nstate EXCEPT ![cur] = "waiting"]
    /\ k' = IF n > 0 THEN SwitchContext(AddCurrentToDelayed(k, n)) ELSE k
    /\ Goto(call)

Notifiable == cur \in program.notifiable /\ Is("user")
Second(op) == [User EXCEPT !.at = "second", !.op = op]

NotifyTake(n) ==
    /\ Notifiable /\ n \in program.waits
    /\ IF value[cur] = 0 THEN WaitForNotification(Second("take"), n)
       ELSE Goto(Second("take")) /\ UNCHANGED <<k, nstate>>
    /\ UNCHANGED <<value, item>>

\* Mutant of NotifyTaken: the state keeps saying that the task waits.
NotifyTakenStillWaiting(clear) ==
    /\ IsIn("take", "second")
    /\ value' = [value EXCEPT ![cur] = IF clear \/ @ = 0 THEN 0 ELSE @ - 1]
    /\ Goto(User)
    /\ UNCHANGED <<k, item, nstate>>

\* clear: xClearCountOnExit
NotifyTaken(clear) ==
    /\ IsIn("take", "second")
    /\ value' = [value EXCEPT ![cur] = IF clear \/ @ = 0 THEN 0 ELSE @ - 1]
    /\ nstate' = [nstate EXCEPT ![cur] = "notWaiting"]
    /\ Goto(User)
    /\ UNCHANGED <<k, item>>

\* The values are cleared of all bits, or of none, on entry and on exit.
NotifyWait(n, clearOnEntry) ==
    /\ Notifiable /\ n \in program.waits
    /\ IF nstate[cur] # "received"
       THEN /\ WaitForNotification(Second("wait"), n)
            /\ value' = [value EXCEPT ![cur] = IF clearOnEntry THEN 0 ELSE @]
       ELSE Goto(Second("wait")) /\ UNCHANGED <<k, nstate, value>>
    /\ UNCHANGED item

\* Returns pdFALSE when the state still is taskWAITING_NOTIFICATION
NotifyWaited(clearOnExit) ==
    /\ IsIn("wait", "second")
    /\ value' = [value EXCEPT ![cur] =
                    IF clearOnExit /\ nstate[cur] # "waiting" THEN 0 ELSE @]
    /\ nstate' = [nstate EXCEPT ![cur] = "notWaiting"]
    /\ Goto(User)
    /\ UNCHANGED <<k, item>>

\* xTaskNotifyStateClear
NotifyStateClear(t) ==
    /\ Is("user") /\ t \in program.notifiable /\ cur \in program.notifiers
    /\ nstate' = [nstate EXCEPT ![t] = IF @ = "received" THEN "notWaiting" ELSE @]
    /\ UNCHANGED <<k, pc, item, value>>

-----------------------------------------------------------------------------
(* xTaskNotify: the value is updated as the action says, and the state is   *)
(* set whether or not it could be                                           *)

\* Mutant of Update: a notification without overwrite does not set the state.
UpdateKeepsState(t, action, x) ==
    /\ action = "eIncrement" => value[t] < MaxValue
    /\ value' = [value EXCEPT ![t] =
          CASE action = "eIncrement" -> @ + 1
            [] action = "eSetValueWithOverwrite" -> x
            [] action = "eSetValueWithoutOverwrite" ->
                  IF nstate[t] # "received" THEN x ELSE @
            [] action = "eNoAction" -> @]
    /\ nstate' = [nstate EXCEPT ![t] =
                     IF action = "eSetValueWithoutOverwrite" THEN @ ELSE "received"]

Update(t, action, x) ==
    /\ action = "eIncrement" => value[t] < MaxValue
    /\ value' = [value EXCEPT ![t] =
          CASE action = "eIncrement" -> @ + 1
            [] action = "eSetValueWithOverwrite" -> x
            [] action = "eSetValueWithoutOverwrite" ->
                  IF nstate[t] # "received" THEN x ELSE @
            [] action = "eNoAction" -> @]
    /\ nstate' = [nstate EXCEPT ![t] = "received"]

\* uxListRemove of the state list item, then prvAddTaskToReadyList
Unblocked(r, t) == AddToReady(RemoveState(r, t), t)

\* Mutant of Notify: a task that waits is not taken out of the delayed list.
NotifyAsleep(t, action, x) ==
    /\ Is("user") /\ cur \in program.notifiers /\ t \in program.notifiable
    /\ Update(t, action, x)
    /\ UNCHANGED <<k, pc, item>>

\* xTaskGenericNotify, from a task
Notify(t, action, x) ==
    /\ Is("user") /\ cur \in program.notifiers /\ t \in program.notifiable
    /\ Update(t, action, x)
    /\ k' = IF nstate[t] # "waiting" THEN k
            ELSE IF k.prio[t] > k.prio[cur] THEN SwitchContext(Unblocked(k, t))
            ELSE Unblocked(k, t)
    /\ UNCHANGED <<pc, item>>

\* xTaskGenericNotifyFromISR and vTaskNotifyGiveFromISR; a caller that passes no
\* flag leaves the yield pending, one that does may end in portYIELD_FROM_ISR().
NotifyFromISR(t, action, x) ==
    /\ program.isrNotifies /\ t \in program.notifiable
    /\ Update(t, action, x)
    /\ LET r == IF k.suspended = 0 THEN Unblocked(k, t)
                ELSE [k EXCEPT !.pending = Append(@, t)]
       IN IF nstate[t] # "waiting" THEN k' = k
          ELSE IF k.prio[t] <= k.prio[cur] THEN k' = r
          ELSE k' = [r EXCEPT !.yieldPending = TRUE] \/ k' = SwitchContext(r)
    /\ UNCHANGED <<pc, item>>

\* Any call that only suspends the scheduler: malloc() and free() do.
Suspended ==
    /\ Is("user") /\ cur \in program.notifiers
    /\ k' = SuspendAll(k)
    /\ Goto([User EXCEPT !.at = "suspended", !.op = "malloc"])
    /\ UNCHANGED <<item, value, nstate>>

ResumeSuspended ==
    /\ Is("suspended")
    /\ k' = ResumeAll(k)
    /\ Goto(User)
    /\ UNCHANGED <<item, value, nstate>>

NotifyStep ==
    \/ \E n \in program.waits :
          NotifyTake(n) \/ \E b \in program.clearing : NotifyWait(n, b)
    \/ \E b \in program.clearing : NotifyTaken(b) \/ NotifyWaited(b)
    \/ \E t \in Tasks : NotifyStateClear(t)
    \/ \E t \in Tasks, action \in program.actions, x \in Values : Notify(t, action, x)
    \/ Suspended \/ ResumeSuspended

NotifyInterrupt ==
    \E t \in Tasks, action \in program.actions, x \in Values :
        NotifyFromISR(t, action, x)

-----------------------------------------------------------------------------
(* Properties *)

NotifyTypeOK ==
    /\ value \in [Tasks -> Values] /\ nstate \in [Tasks -> NotifyStates]
    /\ \A t \in Tasks : pc[t].at = "user" => nstate[t] # "waiting"

\* A task is on the pending list at most once, while the scheduler is suspended,
\* and only if it is still inside its wait.
PendedOnce ==
    \A i, j \in DOMAIN k.pending :
        /\ k.pending[i] = k.pending[j] => i = j
        /\ k.suspended > 0
        /\ pc[k.pending[i]].at = "second"

\* No notification is slept through, and none is for two waits: a task inside
\* ulTaskNotifyTake or xTaskNotifyWait that was notified, by tasks or by
\* interrupts in any number, is ready or is made so by xTaskResumeAll, once; a
\* task outside of them does not look as if it waited.
NotifiedAwake ==
    /\ KernelTypeOK /\ NotifyTypeOK /\ PendedOnce
    /\ \A t \in Tasks :
        (pc[t].at = "second" /\ nstate[t] # "waiting") => Awake(t)
=============================================================================
