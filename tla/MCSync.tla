------------------------------- MODULE MCSync -------------------------------
(* Model-checking instances of Sync.  A program gives three tasks, each of  *)
(* its own priority, the mutexes, event groups or notifications they use.   *)
EXTENDS Sync

CONSTANTS low, mid, high, idle, M1, M2, bitA, bitB, bitC

MCTasks == {low, mid, high, idle}
MCPriorities == 0..3
MCPrio == [t \in Tasks |-> CASE t = high -> 3 [] t = mid -> 2
                             [] t = low -> 1 [] t = idle -> 0]
MCEventLists == {M1, M2, Group}

All(x) == [t \in Tasks |-> x]
Of(h, m, l) == [t \in Tasks |-> CASE t = high -> h [] t = mid -> m
                                  [] t = low -> l [] t = idle -> {}]

Nothing == [mutexes |-> All({}), conditions |-> All({}), syncs |-> All({}),
            sets |-> All({}), clears |-> All({}), delays |-> All({}),
            deleters |-> {}, notifiable |-> {}, notifiers |-> {},
            isrNotifies |-> FALSE, actions |-> {}, clearing |-> {TRUE, FALSE},
            waits |-> {1}]

AnyOf(s) == [for |-> s, all |-> FALSE, clear |-> TRUE]
AllOf(s, clears) == [for |-> s, all |-> TRUE, clear |-> clears]

MCPrograms == {
    \* one mutex that three tasks take
    [Nothing EXCEPT !.mutexes = Of({M1}, {M1}, {M1}), !.delays = Of({1}, {2}, {})],
    \* a task that holds two mutexes, one that waits for one of them, and one
    \* of a priority between theirs
    [Nothing EXCEPT !.mutexes = Of({M1}, {}, {M1, M2}),
                    !.delays = Of({1}, {1}, {})],
    \* two waiters on the same bits, of which one clears them, and a setter
    [Nothing EXCEPT !.conditions =
                        Of({AnyOf({bitA}), AllOf({bitA, bitB}, TRUE)},
                           {AllOf({bitA, bitB}, FALSE), AnyOf({bitB})}, {}),
                    !.sets = Of({}, {}, {{bitA}, {bitB}, {bitA, bitB}}),
                    !.clears = Of({}, {}, {{bitA}}), !.delays = Of({1}, {1}, {1}),
                    !.waits = {0, 2}],
    \* waiters of a group that may be deleted
    [Nothing EXCEPT !.conditions =
                        Of({AllOf({bitA}, TRUE)}, {AnyOf({bitA, bitB})}, {}),
                    !.sets = Of({}, {{bitA}}, {{bitB}}), !.delays = Of({1}, {1}, {}),
                    !.deleters = {low}, !.waits = {1, 2}],
    \* a rendezvous of three tasks, one of which may set a bit without waiting
    [Nothing EXCEPT !.syncs = Of({<<{bitA}, {bitA, bitB, bitC}>>},
                                 {<<{bitB}, {bitA, bitB, bitC}>>},
                                 {<<{bitC}, {bitA, bitB, bitC}>>}),
                    !.sets = Of({}, {}, {{bitC}}), !.clears = Of({}, {{bitA}}, {}),
                    !.delays = Of({}, {1}, {}), !.waits = {0, 1}],
    \* notifications from a task and from interrupts
    [Nothing EXCEPT !.notifiable = {high}, !.notifiers = {mid}, !.waits = {0, 2},
                    !.isrNotifies = TRUE, !.delays = Of({1}, {}, {}),
                    !.actions = {"eIncrement", "eSetValueWithoutOverwrite"}],
    [Nothing EXCEPT !.notifiable = {mid, low}, !.notifiers = {high, mid},
                    !.delays = Of({1}, {}, {}), !.isrNotifies = TRUE,
                    !.actions = {"eNoAction", "eSetValueWithOverwrite"}]}

\* A task that gives its two mutexes back to two waiters
MCTwoWaiters ==
    {[Nothing EXCEPT !.mutexes = Of({M2}, {M1, M2}, {M1}), !.delays = Of({1}, {1}, {}),
                     !.waits = {2}]}
=============================================================================
