-------------------------------- MODULE Sync --------------------------------
(***************************************************************************)
(* Tasks that block on mutexes, event groups and notifications in one      *)
(* kernel.  A program is a record that says what each task does:           *)
(*   mutexes     the mutexes it takes       syncs    its xEventGroupSync   *)
(*   conditions  what it waits for          sets, clears   the bits        *)
(*   deleters    who deletes the group      delays   its vTaskDelay        *)
(*   notifiable, notifiers, isrNotifies, actions, clearing  notifications  *)
(*   waits       the block times of all calls                              *)
(***************************************************************************)
EXTENDS Mutexes, EventGroups, Notifications

vars == <<program, k, pc, item, holder, held, bits, alive, value, nstate>>

ASSUME SyncAssumption ==
    /\ Group \notin Mutex
    /\ \A p \in Programs :
        /\ p.waits \subseteq Ticks /\ p.delays[Idle] = {}
        /\ p.mutexes[Idle] = {} /\ p.conditions[Idle] = {} /\ p.syncs[Idle] = {}
        /\ p.sets[Idle] = {} /\ p.clears[Idle] = {} /\ Idle \notin p.notifiable
        /\ Idle \notin p.deleters /\ Idle \notin p.notifiers
        /\ \A t \in Tasks : /\ p.mutexes[t] \subseteq Mutex
                            /\ p.conditions[t] \subseteq Conditions
                            /\ p.delays[t] \subseteq Ticks \ {0}
        /\ p.actions \subseteq {"eNoAction", "eIncrement", "eSetValueWithOverwrite",
                                "eSetValueWithoutOverwrite"}

Init == InitKernel /\ InitMutexes /\ InitEvents /\ InitNotify

Next ==
    /\ \/ MutexStep /\ UNCHANGED <<bits, alive, value, nstate>>
       \/ EventStep /\ UNCHANGED <<holder, held, value, nstate>>
       \/ NotifyStep /\ UNCHANGED <<holder, held, bits, alive>>
       \/ NotifyInterrupt /\ UNCHANGED <<holder, held, bits, alive>>
       \/ /\ TickISR \/ \E n \in Ticks : Delay(n)
          /\ UNCHANGED <<holder, held, bits, alive, value, nstate>>
    /\ UNCHANGED program

Spec == Init /\ [][Next]_vars
=============================================================================
