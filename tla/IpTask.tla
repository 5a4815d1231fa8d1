------------------------------ MODULE IpTask ------------------------------
(***************************************************************************)
(* The life of a network buffer: the IP task (FreeRTOS_IP.c), the task     *)
(* that polls the Ethernet device (NetworkInterface.c) and an application  *)
(* task with a UDP socket, which hand descriptors of the pool to each      *)
(* other through the event queue of the IP task, the output queue of the   *)
(* interface and the list of packets that wait at the socket.              *)
(*                                                                         *)
(* The IP task and the application have priority 1 and share the processor *)
(* in time slices; the poll task has priority 0 and runs only while both   *)
(* of them are blocked.                                                    *)
(***************************************************************************)
EXTENDS NetBuffers, ArpCache

CONSTANTS
    EventLengths, \* what ipconfigEVENT_QUEUE_LENGTH may be
    Leave,        \* xMinDescriptorsToLeave
    StackWord,    \* what the uninitialised bReleaseAfterSend may be
    Wire,         \* the frames the device may receive
    Budgets       \* bounds: how often the inputs counted in budget may happen

\* Received frames, by what the IP task does with them
Received == {"other", "arpRequest", "arpReply", "ping", "udp"}

ASSUME IpTaskAssumption ==
    /\ EventLengths \subseteq Nat \ {0} /\ Leave \in Nat
    /\ Wire \subseteq [kind : Received, ip : Ips, mac : Macs]
    /\ StackWord \subseteq BOOLEAN /\ StackWord # {}
    /\ Budgets \subseteq [frames : Nat, ticks : Nat, calls : Nat, failures : Nat]
    /\ {"ip", "app", "poll"} \subseteq Users

VARIABLES
    ip,      \* the IP task: where it is, the buffer it works on, the row of
             \* the ARP cache it ages, and where it goes on after an output
    app,     \* the application task
    poll,    \* ethernetPollTask: i, pxNextNetworkBufferDescriptor and the word
             \* on its stack
    events,  \* xNetworkEventQueue
    output,  \* xOutputQueue
    packets, \* xWaitingPacketsList of the socket
    frame,   \* what the payload of each descriptor holds
    stack,   \* initialised: xIPTaskInitialised; pending: xNetworkDownEventPending;
             \* arpActive: the ARP timer runs; gratuitous: one was sent;
             \* bound: the socket is bound; length: that of the event queue
    budget   \* how often the bounded inputs may still happen

ipVars == <<ip, app, poll, events, output, packets, frame, stack, budget>>
netVars == <<poolVars, arpVars, ipVars>>

NoFrame == [kind |-> "none", ip |-> NoIp, mac |-> NoMac]
Frame == [kind : Received \cup {"none", "udpOut", "reply", "arpOut"},
          ip : Ips \cup {NoIp}, mac : Macs \cup {NoMac}]
Event(type, b) == [type |-> type, buf |-> b]

InitIpTask ==
    /\ InitPool /\ InitArp
    /\ ip = [at |-> "start", buf |-> NoBuf, row |-> 0, dest |-> NoIp, back |-> "end"]
    /\ app = [at |-> "unbound", buf |-> NoBuf, dest |-> NoIp]
    /\ poll \in [at : {"none"}, i : {0}, next : {NoBuf}, word : StackWord]
    /\ events = <<>> /\ output = <<>> /\ packets = <<>>
    /\ frame = [b \in Bufs |-> NoFrame]
    /\ stack \in [initialised : {FALSE}, pending : {FALSE}, arpActive : {FALSE},
                  gratuitous : {FALSE}, bound : {FALSE}, length : EventLengths]
    /\ budget \in Budgets

-----------------------------------------------------------------------------
(* Steps common to the tasks *)

HasRoom == Len(events) < stack.length

\* xSendEventStructToIPTask without a block time
Post(e) == events' = IF HasRoom THEN Append(events, e) ELSE events

\* A task goes on with its own code when it is in no function of the pool.
IpAt(l) == ip.at = l /\ op["ip"].step = "idle"
AppAt(l) == app.at = l /\ op["app"].step = "idle"

\* A task that waits for an event, for data, or for a descriptor
IpBlocked == ip.at = "retry" \/ (IpAt("wait") /\ events = <<>>)
AppBlocked ==
    \/ app.at \in {"unbound", "ready", "binding"} /\ op["app"].step = "idle"
    \/ app.at = "post" /\ ~HasRoom /\ op["app"].step = "idle"
    \/ op["app"].step = "take" /\ pool.sem = 0
PollRuns == IpBlocked /\ AppBlocked
PollAt(l) == PollRuns /\ poll.at = l /\ op["poll"].step = "idle"

PoolCall ==
    /\ \/ PoolStep("ip")
       \/ PoolStep("app")
       \/ PollRuns /\ PoolStep("poll")
    /\ UNCHANGED <<arpVars, ipVars>>

-----------------------------------------------------------------------------
(* The IP task: its loop *)

\* FreeRTOS_NetworkDown
NetworkDown == /\ Post(Event("networkDown", NoBuf))
               /\ stack' = [stack EXCEPT !.pending = ~HasRoom, !.initialised = TRUE]

StartIpTask ==
    /\ IpAt("start")
    /\ NetworkDown
    /\ ip' = [ip EXCEPT !.at = "timers"]
    /\ UNCHANGED <<poolVars, arpVars, app, poll, output, packets, frame, budget>>

\* The period of the ARP timer is ten seconds: by then the poll task has run.
ArpTimerExpires ==
    /\ stack.arpActive /\ poll.at # "created"
    /\ budget.ticks > 0
    /\ budget' = [budget EXCEPT !.ticks = @ - 1]
    /\ Post(Event("arpTimer", NoBuf))

\* prvCheckNetworkTimers
CheckNetworkTimers ==
    /\ IpAt("timers")
    /\ ip' = [ip EXCEPT !.at = "wait"]
    /\ ArpTimerExpires \/ UNCHANGED <<events, budget>>
    /\ UNCHANGED <<poolVars, arpVars, app, poll, output, packets, frame, stack>>

\* xQueueReceive; the handler of the event runs next
ReceiveEvent ==
    /\ IpAt("wait") /\ events # <<>>
    /\ ip' = [ip EXCEPT !.at = Head(events).type, !.buf = Head(events).buf,
                        !.row = IF Head(events).type = "arpTimer" THEN 1 ELSE 0]
    /\ events' = Tail(events)
    /\ UNCHANGED <<poolVars, arpVars, app, poll, output, packets, frame, stack, budget>>

\* xQueueReceive returns without an event when the sleep time is over
SleepTimesOut ==
    /\ IpAt("wait") /\ events = <<>>
    /\ ip' = [ip EXCEPT !.at = "end"]
    /\ UNCHANGED <<poolVars, arpVars, app, poll, events, output, packets, frame, stack, budget>>

\* The end of the loop: a network down event that did not fit is posted again.
EndOfLoop ==
    /\ IpAt("end")
    /\ IF stack.pending THEN NetworkDown ELSE UNCHANGED <<events, stack>>
    /\ ip' = [ip EXCEPT !.at = "timers", !.buf = NoBuf]
    /\ UNCHANGED <<poolVars, arpVars, app, poll, output, packets, frame, budget>>

\* prvProcessNetworkDownEvent: xNetworkInterfaceInitialise finds the device and
\* creates the poll task, and vIPNetworkUpCalls starts the ARP timer
NetworkUp ==
    /\ IpAt("networkDown")
    /\ poll' = [poll EXCEPT !.at = "created"]
    /\ stack' = [stack EXCEPT !.arpActive = TRUE]
    /\ ip' = [ip EXCEPT !.at = "end"]
    /\ UNCHANGED <<poolVars, arpVars, app, events, output, packets, frame, budget>>

\* or it fails, and is tried again after ipINITIALISATION_RETRY_DELAY.
NetworkFails ==
    /\ IpAt("networkDown")
    /\ budget.failures > 0
    /\ budget' = [budget EXCEPT !.failures = @ - 1]
    /\ stack' = [stack EXCEPT !.arpActive = FALSE]
    /\ ip' = [ip EXCEPT !.at = "retry"]
    /\ UNCHANGED <<poolVars, arpVars, app, poll, events, output, packets, frame>>

RetryNetwork ==
    /\ IpAt("retry")
    /\ NetworkDown
    /\ ip' = [ip EXCEPT !.at = "end"]
    /\ UNCHANGED <<poolVars, arpVars, app, poll, output, packets, frame, budget>>

-----------------------------------------------------------------------------
(* The IP task: a received frame *)

ReleaseAndEnd ==
    /\ BeginRelease("ip", ip.buf)
    /\ ip' = [ip EXCEPT !.at = "end", !.buf = NoBuf]

ReceivedFrame == frame[ip.buf]
HearSender == Hear(ReceivedFrame.mac, ReceivedFrame.ip)
Handles(kinds) == IpAt("rx") /\ ReceivedFrame.kind \in kinds

\* A frame that is not for this node, or an answer to a request
ProcessAndRelease ==
    /\ Handles({"other", "arpReply"})
    /\ IF ReceivedFrame.kind = "arpReply" THEN HearSender ELSE UNCHANGED arpVars
    /\ ReleaseAndEnd
    /\ UNCHANGED <<app, poll, events, output, packets, frame, stack, budget>>

\* eReturnEthernetFrame: a request and an echo request go back in their buffer
ProcessAndReturn ==
    /\ Handles({"arpRequest", "ping"})
    /\ HearSender
    /\ frame' = [frame EXCEPT ![ip.buf].kind = "reply"]
    /\ ip' = [ip EXCEPT !.at = "output", !.back = "end"]
    /\ UNCHANGED <<poolVars, app, poll, events, output, packets, stack, budget>>

\* Mutant of ProcessUDP: the caller releases the frame all the same.
ProcessUDPAndRelease ==
    /\ Handles({"udp"})
    /\ IF stack.bound
       THEN /\ HearSender
            /\ packets' = Append(packets, ip.buf)
       ELSE UNCHANGED <<arpVars, packets>>
    /\ ReleaseAndEnd
    /\ UNCHANGED <<app, poll, events, output, frame, stack, budget>>

\* xProcessReceivedUDPPacket: a packet for the socket waits there
ProcessUDP ==
    /\ Handles({"udp"})
    /\ IF stack.bound
       THEN /\ HearSender
            /\ packets' = Append(packets, ip.buf)
            /\ ip' = [ip EXCEPT !.at = "end", !.buf = NoBuf]
            /\ UNCHANGED poolVars
       ELSE /\ ReleaseAndEnd
            /\ UNCHANGED <<arpVars, packets>>
    /\ UNCHANGED <<app, poll, events, output, frame, stack, budget>>

\* xNetworkInterfaceOutput, whose result nobody looks at
Output ==
    /\ IpAt("output")
    /\ output' = IF Len(output) < Cardinality(Bufs) THEN Append(output, ip.buf) ELSE output
    /\ ip' = [ip EXCEPT !.at = ip.back, !.buf = NoBuf]
    /\ UNCHANGED <<poolVars, arpVars, app, poll, events, packets, frame, stack, budget>>

-----------------------------------------------------------------------------
(* The IP task: a packet to send, vProcessGeneratedUDPPacket *)

SendOrAsk(f) ==
    /\ frame' = [frame EXCEPT ![ip.buf] = f]
    /\ ip' = [ip EXCEPT !.at = "output", !.back = "end"]
    /\ UNCHANGED poolVars

SendPacket ==
    /\ IpAt("tx") /\ Lookup(ReceivedFrame.ip) = "hit"
    /\ \E m \in LookedUp(ReceivedFrame.ip) : SendOrAsk([ReceivedFrame EXCEPT !.mac = m])
    /\ UNCHANGED <<arpVars, app, poll, events, output, packets, stack, budget>>

\* The packet is given up for a request, made in its buffer.
AskForAddress ==
    /\ IpAt("tx") /\ Reserve(ReceivedFrame.ip)
    /\ SendOrAsk([kind |-> "arpOut", ip |-> Hop(ReceivedFrame.ip), mac |-> NoMac])
    /\ UNCHANGED <<app, poll, events, output, packets, stack, budget>>

DropPacket ==
    /\ IpAt("tx") /\ Lookup(ReceivedFrame.ip) = "cantSend"
    /\ ReleaseAndEnd
    /\ UNCHANGED <<arpVars, app, poll, events, output, packets, frame, stack, budget>>

-----------------------------------------------------------------------------
(* The IP task: the ARP timer, vARPAgeCache *)

\* One row, with the request its age calls for
AgeNextRow ==
    /\ IpAt("arpTimer") /\ ip.row \in Rows
    /\ AgeRow(ip.row)
    /\ IF AsksAgain(ip.row)
       THEN /\ BeginGet("ip")
            /\ ip' = [ip EXCEPT !.at = "ask", !.row = @ + 1, !.dest = arp[ip.row].ip,
                                !.back = "arpTimer"]
       ELSE /\ ip' = [ip EXCEPT !.row = @ + 1]
            /\ UNCHANGED poolVars
    /\ UNCHANGED <<app, poll, events, output, packets, frame, stack, budget>>

\* After the last row: the gratuitous request, the first time and whenever
\* arpGRATUITOUS_ARP_PERIOD has passed
SendGratuitous ==
    /\ IpAt("arpTimer") /\ ip.row \notin Rows
    /\ BeginGet("ip")
    /\ stack' = [stack EXCEPT !.gratuitous = TRUE]
    /\ ip' = [ip EXCEPT !.at = "ask", !.dest = NoIp, !.back = "end"]
    /\ UNCHANGED <<arpVars, app, poll, events, output, packets, frame, budget>>

SkipGratuitous ==
    /\ IpAt("arpTimer") /\ ip.row \notin Rows /\ stack.gratuitous
    /\ ip' = [ip EXCEPT !.at = "end"]
    /\ UNCHANGED <<poolVars, arpVars, app, poll, events, output, packets, frame, stack, budget>>

\* FreeRTOS_OutputARPRequest, if there is a descriptor for it
AskAgain ==
    /\ IpAt("ask")
    /\ IF op["ip"].buf = NoBuf
       THEN /\ ip' = [ip EXCEPT !.at = ip.back]
            /\ UNCHANGED frame
       ELSE /\ frame' = [frame EXCEPT ![op["ip"].buf] =
                            [kind |-> "arpOut", ip |-> ip.dest, mac |-> NoMac]]
            /\ ip' = [ip EXCEPT !.at = "output", !.buf = op["ip"].buf]
    /\ UNCHANGED <<poolVars, arpVars, app, poll, events, output, packets, stack, budget>>

-----------------------------------------------------------------------------
(* The IP task: socket events *)

BindSocket ==
    /\ IpAt("bind")
    /\ stack' = [stack EXCEPT !.bound = TRUE]
    /\ app' = [app EXCEPT !.at = "ready"]
    /\ ip' = [ip EXCEPT !.at = "end"]
    /\ UNCHANGED <<poolVars, arpVars, poll, events, output, packets, frame, budget>>

\* Mutant of CloseSocket: one packet is released, and the others are left.
CloseSocketOnce ==
    /\ IpAt("close")
    /\ stack' = [stack EXCEPT !.bound = FALSE]
    /\ packets' = <<>>
    /\ IF packets # <<>> THEN BeginRelease("ip", Head(packets)) ELSE UNCHANGED poolVars
    /\ ip' = [ip EXCEPT !.at = "end"]
    /\ UNCHANGED <<arpVars, app, poll, events, output, frame, budget>>

\* vSocketClose: the socket is unbound, then its packets are released, one in
\* each turn of the loop
CloseSocket ==
    /\ IpAt("close")
    /\ stack' = [stack EXCEPT !.bound = FALSE]
    /\ IF packets # <<>>
       THEN /\ packets' = Tail(packets)
            /\ BeginRelease("ip", Head(packets))
            /\ UNCHANGED ip
       ELSE /\ ip' = [ip EXCEPT !.at = "end"]
            /\ UNCHANGED <<poolVars, packets>>
    /\ UNCHANGED <<arpVars, app, poll, events, output, frame, budget>>

IpStep ==
    \/ StartIpTask \/ CheckNetworkTimers \/ ReceiveEvent \/ SleepTimesOut \/ EndOfLoop
    \/ NetworkUp \/ NetworkFails \/ RetryNetwork
    \/ ProcessAndRelease \/ ProcessAndReturn \/ ProcessUDP \/ Output
    \/ SendPacket \/ AskForAddress \/ DropPacket
    \/ AgeNextRow \/ SendGratuitous \/ SkipGratuitous \/ AskAgain
    \/ BindSocket \/ CloseSocket

-----------------------------------------------------------------------------
(* The application, with one UDP socket *)

Bounded == budget.calls > 0 /\ budget' = [budget EXCEPT !.calls = @ - 1]

\* FreeRTOS_bind, which blocks until the event fits and until the IP task has
\* bound the socket
AppBind ==
    /\ AppAt("unbound") /\ stack.initialised /\ HasRoom
    /\ Bounded
    /\ Post(Event("bind", NoBuf))
    /\ app' = [app EXCEPT !.at = "binding"]
    /\ UNCHANGED <<poolVars, arpVars, ip, poll, output, packets, frame, stack>>

\* FreeRTOS_sendto.  The application answers requests, so the poll task has
\* created the output queue by then.
AppSendTo ==
    /\ AppAt("ready") /\ poll.at \notin {"none", "created"}
    /\ Bounded
    /\ BeginGet("app")
    /\ \E i \in Ips : app' = [app EXCEPT !.at = "got", !.dest = i]
    /\ UNCHANGED <<arpVars, ip, poll, events, output, packets, frame, stack>>

AppFillsBuffer ==
    /\ AppAt("got")
    /\ IF op["app"].buf = NoBuf
       THEN /\ app' = [app EXCEPT !.at = "ready", !.dest = NoIp]
            /\ UNCHANGED frame
       ELSE /\ app' = [app EXCEPT !.at = "post", !.buf = op["app"].buf, !.dest = NoIp]
            /\ frame' = [frame EXCEPT ![op["app"].buf] =
                            [kind |-> "udpOut", ip |-> app.dest, mac |-> NoMac]]
    /\ UNCHANGED <<poolVars, arpVars, ip, poll, events, output, packets, stack, budget>>

AppPosts ==
    /\ AppAt("post") /\ HasRoom
    /\ Post(Event("tx", app.buf))
    /\ app' = [app EXCEPT !.at = "ready", !.buf = NoBuf]
    /\ UNCHANGED <<poolVars, arpVars, ip, poll, output, packets, frame, stack, budget>>

\* The event queue stays full for the send block time.
AppGivesUp ==
    /\ AppAt("post") /\ ~HasRoom
    /\ BeginRelease("app", app.buf)
    /\ app' = [app EXCEPT !.at = "ready", !.buf = NoBuf]
    /\ UNCHANGED <<arpVars, ip, poll, events, output, packets, frame, stack, budget>>

\* Mutant of AppReceive: a packet that was copied stays in the list.
AppPeeks ==
    /\ AppAt("ready") /\ packets # <<>>
    /\ BeginRelease("app", Head(packets))
    /\ UNCHANGED <<arpVars, ip, app, poll, events, output, packets, frame, stack, budget>>

\* FreeRTOS_recvfrom with a packet there
AppReceive ==
    /\ AppAt("ready") /\ packets # <<>>
    /\ packets' = Tail(packets)
    /\ BeginRelease("app", Head(packets))
    /\ UNCHANGED <<arpVars, ip, app, poll, events, output, frame, stack, budget>>

\* FreeRTOS_closesocket, which does nothing if the event does not fit
AppClose ==
    /\ AppAt("ready") /\ HasRoom
    /\ Post(Event("close", NoBuf))
    /\ app' = [app EXCEPT !.at = "unbound"]
    /\ UNCHANGED <<poolVars, arpVars, ip, poll, output, packets, frame, stack, budget>>

AppStep ==
    \/ AppBind \/ AppSendTo \/ AppFillsBuffer \/ AppPosts \/ AppGivesUp
    \/ AppReceive \/ AppClose

-----------------------------------------------------------------------------
(* ethernetPollTask *)

PollStarts ==
    /\ PollAt("created")
    /\ poll' = [poll EXCEPT !.at = "drain"]
    /\ UNCHANGED <<poolVars, arpVars, ip, app, events, output, packets, frame, stack, budget>>

\* The queue's items are one word: the flag next to the pointer is what the
\* stack held before.
SendFrame ==
    /\ PollAt("drain") /\ poll.i < Len(output)
    /\ output' = Tail(output)
    /\ poll' = [poll EXCEPT !.i = @ + 1]
    /\ IF poll.word THEN BeginRelease("poll", Head(output)) ELSE UNCHANGED poolVars
    /\ UNCHANGED <<arpVars, ip, app, events, packets, frame, stack, budget>>

\* The loop ends when it has counted as many frames as are left; a descriptor
\* for the next frame is asked for if more than a few are free.
AllocateNext ==
    /\ PollAt("drain") /\ poll.i >= Len(output)
    /\ IF poll.next = NoBuf /\ Len(pool.free) > Leave
       THEN /\ BeginGet("poll")
            /\ poll' = [poll EXCEPT !.at = "obtained"]
       ELSE /\ poll' = [poll EXCEPT !.at = "receive"]
            /\ UNCHANGED poolVars
    /\ UNCHANGED <<arpVars, ip, app, events, output, packets, frame, stack, budget>>

NextAllocated ==
    /\ PollAt("obtained")
    /\ poll' = [poll EXCEPT !.at = "receive", !.next = op["poll"].buf]
    /\ UNCHANGED <<poolVars, arpVars, ip, app, events, output, packets, frame, stack, budget>>

\* USPiReceiveFrame has no frame, or one with an error: the descriptor is kept.
NothingReceived ==
    /\ PollAt("receive") /\ poll.next # NoBuf
    /\ poll' = [poll EXCEPT !.at = "drain", !.i = 0]
    /\ UNCHANGED <<poolVars, arpVars, ip, app, events, output, packets, frame, stack, budget>>

\* Without a descriptor the buffer is NULL: an assertion of the driver fails,
\* and uspi_assertion_failed never returns.
ReceiveFails ==
    /\ PollAt("receive") /\ poll.next = NoBuf
    /\ poll' = [poll EXCEPT !.at = "failed"]
    /\ UNCHANGED <<poolVars, arpVars, ip, app, events, output, packets, frame, stack, budget>>

\* Mutant of ReceiveFrame: the frame is passed on without a descriptor.
ReceiveWithout ==
    /\ PollAt("receive")
    /\ budget.frames > 0
    /\ budget' = [budget EXCEPT !.frames = @ - 1]
    /\ \E f \in Wire : frame' = IF poll.next = NoBuf THEN frame ELSE [frame EXCEPT ![poll.next] = f]
    /\ poll' = [poll EXCEPT !.at = "post"]
    /\ UNCHANGED <<poolVars, arpVars, ip, app, events, output, packets, stack>>

ReceiveFrame ==
    /\ PollAt("receive") /\ poll.next # NoBuf
    /\ budget.frames > 0
    /\ budget' = [budget EXCEPT !.frames = @ - 1]
    /\ \E f \in Wire : frame' = [frame EXCEPT ![poll.next] = f]
    /\ poll' = [poll EXCEPT !.at = "post"]
    /\ UNCHANGED <<poolVars, arpVars, ip, app, events, output, packets, stack>>

\* Mutant of PassToIpTask: the poll task keeps the descriptor it has passed on.
PassAndKeep ==
    /\ PollAt("post")
    /\ Post(Event("rx", poll.next))
    /\ IF HasRoom THEN UNCHANGED poolVars ELSE BeginRelease("poll", poll.next)
    /\ poll' = [poll EXCEPT !.at = "drain", !.i = 0]
    /\ UNCHANGED <<arpVars, ip, app, output, packets, frame, stack, budget>>

PassToIpTask ==
    /\ PollAt("post")
    /\ Post(Event("rx", poll.next))
    /\ IF HasRoom THEN UNCHANGED poolVars ELSE BeginRelease("poll", poll.next)
    /\ poll' = [poll EXCEPT !.at = "drain", !.i = 0, !.next = NoBuf]
    /\ UNCHANGED <<arpVars, ip, app, output, packets, frame, stack, budget>>

PollStep ==
    \/ PollStarts \/ SendFrame \/ AllocateNext \/ NextAllocated
    \/ NothingReceived \/ ReceiveFails \/ ReceiveFrame \/ PassToIpTask

-----------------------------------------------------------------------------

NetNext == PoolCall \/ IpStep \/ AppStep \/ PollStep

NetSpec == InitIpTask /\ [][NetNext]_netVars

-----------------------------------------------------------------------------
(* Types and properties *)

IpTypeOK ==
    /\ ip \in [at : {"start", "timers", "wait", "end", "networkDown", "retry", "rx", "tx",
                     "output", "arpTimer", "ask", "bind", "close"},
               buf : Bufs \cup {NoBuf}, row : 0..NumRows + 1, dest : Ips \cup {NoIp},
               back : {"end", "arpTimer"}]
    /\ app \in [at : {"unbound", "binding", "ready", "got", "post"},
                buf : Bufs \cup {NoBuf}, dest : Ips \cup {NoIp}]
    /\ poll \in [at : {"none", "created", "drain", "obtained", "receive", "post", "failed"},
                 i : Nat, next : Bufs \cup {NoBuf}, word : BOOLEAN]
    /\ \A e \in {events[j] : j \in DOMAIN events} : e.buf \in Bufs <=> e.type \in {"rx", "tx"}
    /\ frame \in [Bufs -> Frame]

\* What a task has in hand, the result of the pool function it called included
InHand(t) ==
    LET result == IF op[t].step = "idle" THEN {op[t].buf} ELSE {}
    IN  (CASE t = "ip"   -> {ip.buf} \cup IF ip.at = "ask" THEN result ELSE {}
           [] t = "app"  -> {app.buf} \cup IF app.at = "got" THEN result ELSE {}
           [] t = "poll" -> {poll.next} \cup IF poll.at = "obtained" THEN result ELSE {})
        \ {NoBuf}

Places(b) ==
    Cardinality({t \in {"ip", "app", "poll"} : b \in InHand(t)})
    + Cardinality({j \in DOMAIN events : events[j].buf = b})
    + Cardinality({j \in DOMAIN output : output[j] = b})
    + Cardinality({j \in DOMAIN packets : packets[j] = b})

\* Every descriptor that is out of the pool is in one task's hands or in one
\* queue, and in one only, through every refusal, timeout and early exit: no
\* task loses one, uses one it has passed on, or releases one that another
\* still uses.
EachHandedOnOnce == \A b \in Bufs : Places(b) = IF b \in pool.out THEN 1 ELSE 0

\* What a task takes from a queue has the payload it expects there: a frame
\* that was received, a packet the application filled, or a frame to send; a
\* payload is never reused while it waits.
QueuedFramesKept ==
    /\ IpTypeOK
    /\ \A j \in DOMAIN events :
        /\ events[j].type = "rx" => frame[events[j].buf].kind \in Received
        /\ events[j].type = "tx" => frame[events[j].buf].kind = "udpOut"
    /\ \A j \in DOMAIN output : frame[output[j]].kind \in {"udpOut", "reply", "arpOut"}
    /\ \A j \in DOMAIN packets : frame[packets[j]].kind = "udp"

\* What NetworkInterface.c says of a turn without a descriptor: the messages
\* that come in are flushed, and the poll task goes on.
PollGoesOn == poll.at # "failed"
=============================================================================
