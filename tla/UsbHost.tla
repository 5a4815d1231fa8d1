------------------------------- MODULE UsbHost -------------------------------
(***************************************************************************)
(* The USB host of the LAN9514 driver (dwhcidevice.c with the stage data,  *)
(* the frame schedulers and the endpoints it uses).  A task submits a      *)
(* request, stage by stage, and waits on one flag; the interrupt handler   *)
(* moves each stage on, ends it, and in the keyboard's completion routine  *)
(* starts the next.  The controller and the devices are external: a        *)
(* transaction ends in any of the ways that the handler tells apart.       *)
(***************************************************************************)
EXTENDS Naturals, FiniteSets, Sequences, FiniteSetsExt

CONSTANTS
    MaxChannels,   \* bound: of the channels that the controller has
    Control, BulkIn, BulkOut, Keyboards,   \* the endpoints, by their type
    ViaHub,        \* those of slow devices behind a hub: split transactions
    Plugged,       \* the sets of them that may be there
    MaxPackets,    \* bound: the packets of a buffer
    Tries          \* m_nTries at the first complete-split

Endpoints == Control \cup BulkIn \cup BulkOut \cup Keyboards
Channels == 0..(MaxChannels - 1)

ASSUME UsbAssumption ==
    /\ MaxChannels \in Nat \ {0} /\ MaxPackets \in Nat \ {0} /\ Tries \in Nat
    /\ ViaHub \subseteq Endpoints /\ Plugged \subseteq SUBSET Endpoints

VARIABLES
    usb,     \* TDWHCIDevice, its endpoints and requests, and the registers
    task,    \* the request that is submitted, and the stages still to do
    device   \* external: the packet each endpoint expects; in step until an error

usbVars == <<usb, task, device>>

NoStage == [ep |-> "none"]
NoTask == [at |-> "idle", ep |-> "none", todo |-> <<>>, channel |-> 0]
Off == [is |-> "off", ints |-> {}, mask |-> {}, packets |-> 0, left |-> 0]
FirstPID(ep) == IF ep \in Control THEN "setup" ELSE "data0"

UsbInit ==
    /\ \E channels \in 1..MaxChannels, endpoints \in Plugged :
       usb = [channels |-> channels, endpoints |-> endpoints,
              allocated |-> {}, enabled |-> {}, waiting |-> FALSE,
              stage |-> [c \in Channels |-> NoStage],
              pid |-> [ep \in Endpoints |-> FirstPID(ep)],
              status |-> FALSE,
              channel |-> [c \in Channels |-> Off], listening |-> {}]
    /\ task = NoTask
    /\ device = [ep \in Endpoints |-> [expects |-> FirstPID(ep), inStep |-> TRUE]]

-----------------------------------------------------------------------------
(* Endpoints and stages *)

Toggled(pid, n) == IF n % 2 = 0 THEN pid ELSE IF pid = "data0" THEN "data1" ELSE "data0"

\* Mutants of SkipPID: the toggle moves once a transfer; a status stage leaves it.
SkipOnce(pid, n, isStatus) ==
    IF isStatus THEN "setup" ELSE IF pid = "setup" THEN "data1" ELSE Toggled(pid, 1)

SkipPID(pid, n, isStatus) ==
    IF isStatus THEN "setup" ELSE IF pid = "setup" THEN "data1" ELSE Toggled(pid, n)

Stage(in, isStatus, packets) == [in |-> in, isStatus |-> isStatus, packets |-> packets]

\* The stages of a request, as DWHCIDeviceSubmitBlockingRequest orders them
Stages(ep, in, packets) ==
    IF ep \notin Control THEN <<Stage(in, FALSE, packets)>>
    ELSE IF in THEN <<Stage(FALSE, FALSE, packets), Stage(TRUE, FALSE, packets),
                      Stage(FALSE, TRUE, packets)>>
    ELSE IF packets = 0 THEN <<Stage(FALSE, FALSE, 0), Stage(TRUE, TRUE, 0)>>
    ELSE <<Stage(FALSE, FALSE, packets), Stage(FALSE, FALSE, packets),
           Stage(TRUE, TRUE, packets)>>

\* The packets of a stage: a status or set-up packet, or those of the buffer
PacketsOf(s, ep, g) == IF g.isStatus \/ s.pid[ep] = "setup" THEN 1 ELSE g.packets

\* DWHCITransferStageData, the state that DWHCIDeviceTransferStageAsync gives it
\* and, for a split, its frame scheduler's
StageData(s, ep, g) ==
    [ep |-> ep, in |-> g.in, isStatus |-> g.isStatus, packets |-> PacketsOf(s, ep, g),
     state |-> IF ep \in ViaHub THEN "start" ELSE "no split",
     waitsFor |-> "none", retries |-> 0]

IsSplit(g) == g.ep \in ViaHub
IsPeriodic(g) == g.ep \in Keyboards

-----------------------------------------------------------------------------
(* Channels *)

Free(s) == 0..(s.channels - 1) \ s.allocated

\* DWHCIDeviceAllocateChannel gave the channel c.
Attach(s, c, ep, g) ==
    [s EXCEPT !.stage[c] = StageData(s, ep, g), !.enabled = @ \cup {c}]

StatusMask(g) ==
    {"complete", "halted", "error"}
    \cup IF IsSplit(g) \/ IsPeriodic(g) THEN {"ack", "nak", "nyet"} ELSE {}

StartChannel(s, c) ==
    LET g == s.stage[c]
        n == IF IsSplit(g) THEN 1 ELSE g.packets
    IN  [s EXCEPT !.stage[c].waitsFor = "transaction",
                  !.channel[c] = [is |-> "on", ints |-> {}, mask |-> StatusMask(g),
                                  packets |-> n, left |-> n]]

\* Mutant of StartTransaction: the halt of a channel that is on is not unmasked.
StartMasked(s, c) ==
    IF s.channel[c].is = "off" THEN StartChannel(s, c)
    ELSE [s EXCEPT !.stage[c].waitsFor = "disable"]

\* A channel that is still on is disabled first: its halt starts it.
StartTransaction(s, c) ==
    IF s.channel[c].is = "off" THEN StartChannel(s, c)
    ELSE [s EXCEPT !.stage[c].waitsFor = "disable", !.channel[c].mask = {"halted"}]

\* The request of a keyboard, again submitted by its completion routine: it is
\* lost when there is no channel.
Listen(s, ep) ==
    LET c == Min(Free(s))
    IN  IF Free(s) = {} THEN s
        ELSE StartTransaction(Attach([s EXCEPT !.allocated = @ \cup {c}], c, ep,
                                     Stage(TRUE, FALSE, 1)), c)

\* The request gets its status, and its completion routine is called.
Completed(s, ep, ok) ==
    IF ep \in Keyboards THEN Listen(s, ep) ELSE [s EXCEPT !.status = ok, !.waiting = FALSE]

\* The stage and the channel are given up.  What the channel's registers hold is
\* not read again, but for whether it is still on.
Detached(s, c) ==
    [s EXCEPT !.enabled = @ \ {c}, !.stage[c] = NoStage, !.allocated = @ \ {c},
              !.channel[c] = [Off EXCEPT !.is = s.channel[c].is]]

\* Mutant of Finish: the channel stays allocated.
FinishKeeping(s, c, ok) ==
    Completed([Detached(s, c) EXCEPT !.allocated = s.allocated], s.stage[c].ep, ok)

\* The end of a stage, as the handler has it in five places
Finish(s, c, ok) == Completed(Detached(s, c), s.stage[c].ep, ok)

-----------------------------------------------------------------------------
(* The interrupt handler *)

WasRefused(ints) == ints \cap {"error", "nak", "nyet"} # {}

\* Mutant of CountPackets: a start-split counts as the packet it announces.
CountStart(s, c) ==
    LET g == s.stage[c]
        n == IF g.state = "start" THEN 1 ELSE s.channel[c].packets - s.channel[c].left
    IN  IF WasRefused(s.channel[c].ints) THEN s
        ELSE [s EXCEPT !.stage[c].packets = @ - n,
                       !.pid[g.ep] = SkipPID(@, n, g.isStatus)]

\* DWHCITransferStageDataTransactionComplete
CountPackets(s, c) ==
    LET g == s.stage[c]
        n == s.channel[c].packets - s.channel[c].left
    IN  IF WasRefused(s.channel[c].ints) THEN s
        ELSE [s EXCEPT !.stage[c].packets = @ - n,
                       !.pid[g.ep] = IF g.state = "start" THEN @
                                     ELSE SkipPID(@, n, g.isStatus)]

\* The timer that would start the next attempt is StartKernelTimer of uspibind.c,
\* which starts none.
Delay(s, c) == [s EXCEPT !.stage[c].state = "delay", !.stage[c].waitsFor = "timer"]

NoSplitDone(s, c) ==
    LET ints == s.channel[c].ints
    IN  IF "error" \in ints THEN Finish(s, c, FALSE)
        ELSE IF ints \cap {"nak", "nyet"} # {} /\ IsPeriodic(s.stage[c]) THEN Delay(s, c)
        ELSE Finish(s, c, TRUE)

StartSplitDone(s, c) ==
    IF WasRefused(s.channel[c].ints) THEN Finish(s, c, FALSE)
    ELSE StartTransaction([s EXCEPT !.stage[c].state = "complete",
                                    !.stage[c].retries = Tries], c)

\* LeaveCompleteSplit: the stage is over with its packets; otherwise it starts
\* its next split, one of a keyboard after a delay.
NextSplit(s, c) ==
    IF s.stage[c].packets = 0 THEN Finish(s, c, TRUE)
    ELSE IF IsPeriodic(s.stage[c]) THEN Delay(s, c)
    ELSE StartTransaction([s EXCEPT !.stage[c].state = "start", !.stage[c].retries = 0], c)

\* The frame schedulers: a complete-split that is not answered is tried again,
\* for a keyboard unless the device had nothing to say.
CompleteSplitDone(s, c) ==
    LET ints == s.channel[c].ints
        again == /\ "complete" \notin ints /\ s.stage[c].retries > 0
                 /\ "nak" \in ints => ~IsPeriodic(s.stage[c])
    IN  IF "error" \in ints THEN Finish(s, c, FALSE)
        ELSE IF again THEN StartTransaction([s EXCEPT !.stage[c].retries = @ - 1], c)
        ELSE NextSplit(s, c)

TransactionDone(s, c) ==
    CASE s.stage[c].state = "no split" -> NoSplitDone(s, c)
      [] s.stage[c].state = "start"    -> StartSplitDone(s, c)
      [] s.stage[c].state = "complete" -> CompleteSplitDone(s, c)

\* DWHCIDeviceChannelInterruptHandler; a channel that has only halted starts again.
Handled(s, c) ==
    IF s.stage[c].waitsFor = "disable" THEN StartChannel(s, c)
    ELSE IF s.channel[c].ints = {"halted"} THEN StartTransaction(s, c)
    ELSE TransactionDone(CountPackets(s, c), c)

Raised(c) == c \in usb.enabled /\ usb.channel[c].ints \cap usb.channel[c].mask # {}

\* DWHCIDeviceInterruptHandler, for one of the channels that are raised
ChannelInterrupt(c) ==
    /\ Raised(c) /\ usb.stage[c] # NoStage
    /\ usb' = Handled([usb EXCEPT !.channel[c].mask = {}], c)
    /\ UNCHANGED <<task, device>>

-----------------------------------------------------------------------------
(* The task *)

\* DWHCIDeviceSubmitBlockingRequest
Submit(ep, in, packets) ==
    /\ task.at = "idle" /\ ep \notin Keyboards
    /\ ep \notin Control => packets > 0 /\ in = (ep \in BulkIn)
    /\ in => packets > 0
    /\ task' = [NoTask EXCEPT !.at = "stage", !.ep = ep, !.todo = Stages(ep, in, packets)]
    /\ UNCHANGED <<usb, device>>

\* USBKeyboardDeviceStartRequest, once for each keyboard
SubmitFirst(ep) ==
    /\ task.at = "idle" /\ ep \in Keyboards \ usb.listening
    /\ usb' = [usb EXCEPT !.listening = @ \cup {ep}]
    /\ task' = [NoTask EXCEPT !.at = "stage", !.ep = ep,
                              !.todo = <<Stage(TRUE, FALSE, 1)>>]
    /\ UNCHANGED device

AllocateChannel ==
    /\ task.at = "stage" /\ Free(usb) # {}
    /\ usb' = [usb EXCEPT !.allocated = @ \cup {Min(Free(usb))},
                          !.waiting = task.ep \notin Keyboards]
    /\ task' = [task EXCEPT !.at = "attach", !.channel = Min(Free(usb))]
    /\ UNCHANGED device

NoChannel ==
    /\ task.at = "stage" /\ Free(usb) = {}
    /\ task' = NoTask /\ usb' = [usb EXCEPT !.status = FALSE]
    /\ UNCHANGED device

\* After an error the endpoint still expects data: a request without any then has
\* no buffer to send, and the assertion on m_pBufferPointer fails.
NoBuffer == PacketsOf(usb, task.ep, Head(task.todo)) = 0

AttachStage ==
    /\ task.at = "attach"
    /\ IF NoBuffer THEN task' = [task EXCEPT !.at = "failed"] /\ UNCHANGED usb
       ELSE /\ usb' = Attach(usb, task.channel, task.ep, Head(task.todo))
            /\ task' = [task EXCEPT !.at = "start"]
    /\ UNCHANGED device

StartStage ==
    /\ task.at = "start"
    /\ usb' = StartTransaction(usb, task.channel)
    /\ task' = IF task.ep \in Keyboards THEN NoTask ELSE [task EXCEPT !.at = "wait"]
    /\ UNCHANGED device

\* The loop in DWHCIDeviceTransferStage ends, and the next stage follows, or the
\* request, with its status, is gone.
WaitOver ==
    /\ task.at = "wait" /\ ~usb.waiting
    /\ IF usb.status /\ Len(task.todo) > 1
       THEN task' = [task EXCEPT !.at = "stage", !.todo = Tail(@)] /\ UNCHANGED usb
       ELSE task' = NoTask /\ usb' = [usb EXCEPT !.status = FALSE]
    /\ UNCHANGED device

\* uspi_assertion_failed loops.
Hangs == task.at = "failed" /\ UNCHANGED usbVars

TaskGoesOn == AllocateChannel \/ NoChannel \/ AttachStage \/ StartStage \/ WaitOver

-----------------------------------------------------------------------------
(* External: the controller, and the devices that answer it *)

\* A transaction on c ends with these bits set and n of its packets moved.
Ends(c, ints, n) ==
    LET g == usb.stage[c]
        d == device[g.ep]
    IN  /\ usb.channel[c].is = "on"
        /\ usb' = [usb EXCEPT !.channel[c].is = IF "halted" \in ints THEN "off" ELSE "ended",
                              !.channel[c].ints = ints, !.channel[c].left = @ - n]
        /\ device' = [device EXCEPT ![g.ep] =
                IF "error" \in ints THEN [expects |-> FirstPID(g.ep), inStep |-> FALSE]
                ELSE IF n > 0 /\ d.inStep
                     THEN [d EXCEPT !.expects =
                              IF g.isStatus THEN "setup"
                              ELSE IF @ = "setup" THEN "data1" ELSE Toggled(@, n)]
                ELSE d]
        /\ UNCHANGED task

\* The halt may follow the completion.
Complete == {{"complete"}, {"complete", "halted"}}
IsOn(c, state) == usb.channel[c].is = "on" /\ usb.stage[c].state = state

\* What comes in may be shorter than the buffer.
Succeeds(c) ==
    /\ IsOn(c, "no split")
    /\ \E ints \in Complete, n \in 1..usb.channel[c].packets :
           (~usb.stage[c].in => n = usb.channel[c].packets) /\ Ends(c, ints, n)

StartSucceeds(c) == IsOn(c, "start") /\ Ends(c, {"ack", "halted"}, 0)
CompleteSucceeds(c) ==
    IsOn(c, "complete") /\ \E ints \in Complete : Ends(c, ints, 1)

\* A refusal of a transaction that is not split is retried by the controller,
\* unless it is periodic.
IsRefused(c) ==
    \/ IsOn(c, "no split") /\ IsPeriodic(usb.stage[c]) /\ Ends(c, {"nak", "halted"}, 0)
    \/ IsOn(c, "start") /\ Ends(c, {"nak", "halted"}, 0)
    \/ IsOn(c, "complete") /\ \E b \in {"nak", "nyet"} : Ends(c, {b, "halted"}, 0)

Fails(c) ==
    \E n \in 0..(usb.channel[c].packets - 1) :
        (IsSplit(usb.stage[c]) => n = 0) /\ Ends(c, {"error", "halted"}, n)

OnlyHalts(c) == Ends(c, {"halted"}, 0)

\* A channel that was on after its transaction halts.
Halts(c) ==
    /\ usb.channel[c].is = "ended"
    /\ usb' = [usb EXCEPT !.channel[c].is = "off", !.channel[c].ints = @ \cup {"halted"}]
    /\ UNCHANGED <<task, device>>

Controller(c) ==
    \/ Succeeds(c) \/ StartSucceeds(c) \/ CompleteSucceeds(c)
    \/ IsRefused(c) \/ Fails(c) \/ OnlyHalts(c) \/ Halts(c)

-----------------------------------------------------------------------------
UsbNext ==
    \/ \E ep \in usb.endpoints, in \in BOOLEAN, n \in 0..MaxPackets : Submit(ep, in, n)
    \/ \E ep \in Keyboards \cap usb.endpoints : SubmitFirst(ep)
    \/ TaskGoesOn \/ Hangs
    \/ \E c \in Channels : ChannelInterrupt(c) \/ Controller(c)

UsbSpec == UsbInit /\ [][UsbNext]_usbVars

\* What happens to the stage that the task waits for
Served == ChannelInterrupt(task.channel) \/ Halts(task.channel)
Answered == Succeeds(task.channel) \/ CompleteSucceeds(task.channel)

\* For the stage that a task waits for: the task runs again, the handler is not kept
\* out, and the channel halts; and the device, asked for ever, once answers, and its
\* hub accepts a start.  Nothing is assumed of a keyboard.
UsbFairness ==
    /\ WF_usbVars(WaitOver)
    /\ WF_usbVars(task.at = "wait" /\ Served)
    /\ SF_usbVars(task.at = "wait" /\ StartSucceeds(task.channel))
    /\ SF_usbVars(task.at = "wait" /\ Answered)

-----------------------------------------------------------------------------
(* Properties *)

UsbTypeOK ==
    /\ usb.allocated \subseteq Channels /\ usb.enabled \subseteq Channels
    /\ usb.waiting \in BOOLEAN /\ usb.listening \subseteq Keyboards
    /\ usb.pid \in [Endpoints -> {"setup", "data0", "data1"}]
    /\ usb.status \in BOOLEAN
    /\ \A c \in Channels :
          /\ usb.stage[c] = NoStage \/ usb.stage[c].packets \in 0..MaxPackets
          /\ usb.channel[c].left \in 0..MaxPackets
    /\ task.at \in {"idle", "stage", "attach", "start", "wait", "failed"}

InUse == {c \in Channels : usb.stage[c] # NoStage}
StagesOf(ep) == {c \in InUse : usb.stage[c].ep = ep}

\* A channel is allocated while a stage, or the task that is about to attach one,
\* has it, and never longer; it can interrupt only while it has a stage, which is
\* what the handler asserts; and no request has two stages at once.
ChannelsOwned ==
    /\ usb.allocated = InUse \cup (IF task.at \in {"attach", "failed"} THEN {task.channel} ELSE {})
    /\ task.at = "attach" => task.channel \notin InUse
    /\ usb.enabled = InUse
    /\ \A ep \in Endpoints : Cardinality(StagesOf(ep)) <= 1

\* The waiting task and the handler agree: as long as m_bWaiting is set there is a
\* stage that will clear it, and when the call returns no stage is left that points
\* to its request, which is on the stack of the caller.
WaiterServed ==
    /\ task.at = "wait" => (usb.waiting <=> StagesOf(task.ep) # {})
    /\ usb.waiting => task.at \in {"attach", "start", "wait", "failed"}
    /\ \A ep \in Endpoints \ Keyboards :
          StagesOf(ep) # {} => task.ep = ep /\ task.at \in {"start", "wait"}

\* Both together: task and interrupt handler, which share the channels and one
\* flag, never disagree on whose stage is where.
StagesOwned == UsbTypeOK /\ ChannelsOwned /\ WaiterServed

\* Host and device agree on the next packet of each endpoint, however often a
\* transaction was tried and split, as long as none of the endpoint has failed.
TogglesAgree ==
    \A ep \in Endpoints :
        (device[ep].inStep /\ StagesOf(ep) = {}) => usb.pid[ep] = device[ep].expects

\* The task that waits for a stage is served: every stage ends.
RequestsEnd == task.at = "wait" ~> task.at # "wait"
=============================================================================
