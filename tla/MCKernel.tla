------------------------------ MODULE MCKernel ------------------------------
(***************************************************************************)
(* The scheduler and the port it stands on.  A behaviour runs one of the   *)
(* two, the other stays in one initial state.                              *)
(***************************************************************************)
EXTENDS PortCritical, MCScheduler

CONSTANTS sensor, server

VARIABLE part

kernelVars == <<portVars, vars, part>>

KernelInit ==
    /\ PortInit /\ Init /\ part \in {"port", "tasks"}
    /\ part = "tasks" => running = sensor
    /\ part = "port" => program = Fixed(MCFour) /\ k.ready[1].items = <<low, mid>>

KernelNext ==
    /\ UNCHANGED part
    /\ \/ part = "port" /\ PortNext /\ UNCHANGED vars
       \/ part = "tasks" /\ Next /\ UNCHANGED portVars

KernelSpec == KernelInit /\ [][KernelNext]_kernelVars /\ PortFairness
=============================================================================
