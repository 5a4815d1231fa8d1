------------------------------ MODULE MCQueue ------------------------------
(* Model-checking instances of Queue: who sends, who receives, and how.     *)
EXTENDS Queue

CONSTANTS low, high, idle

MCTasks == {low, high, idle}
MCPriorities == 0..2
MCPrio == [t \in Tasks |-> CASE t = high -> 2 [] t = low -> 1 [] t = idle -> 0]

Program(length, items, ofHigh, ofLow, isr, waits) ==
    [length |-> length, items |-> items, isr |-> isr, waits |-> waits,
     calls |-> [t \in Tasks |-> CASE t = high -> ofHigh [] t = low -> ofLow
                                   [] t = idle -> {}]]

MCPrograms == {
    \* receivers, one of which may only look, and what interrupts send
    Program(2, {1}, {"receive", "peek"}, {"receive"}, {"back"}, {1}),
    \* senders, and interrupts that receive
    Program(2, {1}, {"back"}, {"front"}, {"receive"}, {1}),
    \* a reader, and a writer that also resets the queue
    Program(2, {1, 2}, {"receive", "peek"}, {"back", "front", "reset"}, {}, {1}),
    \* a receiver, and interrupts that send to either end
    Program(2, {1, 2}, {"receive"}, {}, {"back", "front"}, {1}),
    \* a mailbox
    Program(1, {1, 2}, {"receive", "peek"}, {"overwrite"}, {"overwrite"}, {0, 1}),
    \* a receiver whose items interrupts take away
    Program(1, {1}, {"receive"}, {}, {"back", "receive"}, {0, 1, 2})}
=============================================================================
