----------------------------- MODULE MCProgress -----------------------------
(***************************************************************************)
(* What must happen some time: to a task that waits for the USB host, and  *)
(* to tasks that are delayed or share a priority.  A behaviour runs one of *)
(* the two; the other is the host without a request, or the idle task.     *)
(***************************************************************************)
EXTENDS MCUsb, MCScheduler

VARIABLE part

progressVars == <<usbVars, vars, part>>

ProgressInit ==
    /\ UsbInit /\ Init /\ part \in {"usb", "tasks"}
    /\ part = "usb" <=> program = Fixed({idle})
    /\ part = "tasks" => usb.channels = 1 /\ usb.endpoints = {"keys0"}

ProgressNext ==
    /\ UNCHANGED part
    /\ \/ part = "usb" /\ UsbNext /\ UNCHANGED vars
       \/ part = "tasks" /\ Next /\ UNCHANGED usbVars

ProgressSpec ==
    ProgressInit /\ [][ProgressNext]_progressVars /\ UsbFairness /\ Fairness
=============================================================================
