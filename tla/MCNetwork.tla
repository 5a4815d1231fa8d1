---------------------------- MODULE MCNetwork ----------------------------
(***************************************************************************)
(* The network and the heap that its buffers come from, three parts of     *)
(* which a behaviour runs one: the tasks that pass frames on (MCIpTask);   *)
(* the server task and its connection (MCTcp); and heap_4.c, driven by any *)
(* sequence of calls.  The others stay in one initial state.               *)
(***************************************************************************)
EXTENDS MCIpTask, MCTcp, MCHeap4

VARIABLE part

allVars == <<mcVars, vars, heapVars, part>>

NetworkInit ==
    /\ MCInit /\ Init /\ InitHeap /\ part \in {"frames", "stream", "heap"}
    /\ part # "frames" => program = "net" /\ budget.calls = 1 /\ budget.frames = 3
    /\ part # "stream" => faults = 2

NetworkNext ==
    /\ UNCHANGED part
    /\ \/ part = "frames" /\ MCNext /\ UNCHANGED <<vars, heapVars>>
       \/ part = "stream" /\ Next /\ UNCHANGED <<mcVars, heapVars>>
       \/ part = "heap" /\ HeapNext /\ UNCHANGED <<mcVars, vars>>

NetworkSpec == NetworkInit /\ [][NetworkNext]_allVars
=============================================================================
