----------------------------- MODULE MCIpTask -----------------------------
(***************************************************************************)
(* Two programs: the whole of IpTask with a small ARP cache and a few      *)
(* frames, and the ARP cache alone, driven by any sequence of frames,      *)
(* packets and timer events.                                               *)
(***************************************************************************)
EXTENDS IpTask, TLC

CONSTANTS i1, i2, r1, m1, m2, Programs

VARIABLE program

mcVars == <<netVars, program>>

MCWire ==
    {[kind |-> "other", ip |-> i2, mac |-> m2], [kind |-> "arpRequest", ip |-> i1, mac |-> m1],
     [kind |-> "arpReply", ip |-> i1, mac |-> m2], [kind |-> "udp", ip |-> i1, mac |-> m1]}

Budget(f, t, c, e) == [frames |-> f, ticks |-> t, calls |-> c, failures |-> e]
MCBudgets == {Budget(3, 0, 1, 0), Budget(1, 0, 2, 0), Budget(0, 1, 2, 0),
              Budget(0, 1, 2, 1), Budget(1, 1, 1, 1), Budget(0, 0, 3, 0),
              Budget(0, 2, 0, 0)}
MCSymmetry == Permutations(Bufs)

MCInit ==
    /\ InitIpTask
    /\ program \in Programs
    /\ stack.length = 1 <=> budget.failures > 0
    /\ program = "arp" => budget.frames = 3

MCNext ==
    /\ UNCHANGED program
    /\ \/ program = "net" /\ NetNext
       \/ program = "arp" /\ ArpNext /\ UNCHANGED <<poolVars, ipVars>>

MCSpec == MCInit /\ [][MCNext]_mcVars
=============================================================================
