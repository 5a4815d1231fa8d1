---------------------------- MODULE MCScheduler ----------------------------
(* Model-checking instances of Scheduler: two tasks that share a priority,  *)
(* one above them and the idle task, none of which is ever deleted; and two *)
(* peers of which one changes priorities, creates and deletes tasks.        *)
EXTENDS Scheduler

CONSTANTS low, mid, high, idle

MCFour == {low, mid, high, idle}
MCThree == {low, mid, idle}
MCPriorities == 0..2
MCPrio == [t \in Tasks |-> CASE t = idle -> 0 [] t = high -> 2 [] OTHER -> 1]

MCPeers == [t \in Tasks |-> IF t = idle THEN 0 ELSE 1]

Fixed(tasks) == [tasks |-> tasks, setters |-> {}, deleters |-> {}]
Dynamic == [tasks |-> MCThree, setters |-> {mid}, deleters |-> {mid}]
All == {Fixed(MCFour), Dynamic}
StartedOnly == {Fixed(MCFour), Fixed({idle})}
=============================================================================
