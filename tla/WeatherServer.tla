--------------------------- MODULE WeatherServer ---------------------------
(***************************************************************************)
(* vTemperatureServerTask of Demo/main.c with the socket calls it makes,   *)
(* FreeRTOS_accept, recv, send, shutdown and closesocket, the IP task that *)
(* serves the socket (TcpSocket) and the client at the other end           *)
(* (TcpClient).                                                            *)
(*                                                                         *)
(* Both tasks have priority 1 and the task that polls for packets has 0: a *)
(* packet comes in when the server task is blocked and the IP task has     *)
(* nothing to do, which it has not before it has delivered the event bits. *)
(* A step of the server task is a call up to where it waits, copies or     *)
(* returns; the timer check may come between any two.                      *)
(***************************************************************************)
EXTENDS TcpClient

CONSTANT ReplyLen   \* NUM_TEMPERATURE_CHARS

ASSUME ServerAssumption == ReplyLen \in Nat \ {0}

VARIABLES
    sock,      \* the socket
    pc,        \* where the server task is
    left,      \* bytes of the reply that were not accepted yet
    readings,  \* temperatures there still are for tque
    some,      \* this call of FreeRTOS_send accepted some bytes
    taken,     \* the sequence number of the next byte it reads
    written,   \* the sequence number of the next byte it writes
    closing    \* an eSocketCloseEvent is on its way to the IP task

client == <<peer, net, faults>>
server == <<pc, left, readings, some, taken, written, closing>>
vars == <<client, sock, server>>

Init ==
    /\ \E c \in Cases : peer = NewPeer(c.request) /\ faults = c.faults /\ readings = c.readings
    /\ net = {}
    /\ sock = Listening
    /\ pc = "accept" /\ left = 0 /\ some = FALSE /\ closing = FALSE
    /\ taken = Plus(PeerISS, 1) /\ written = Plus(OurISS, 1)

-----------------------------------------------------------------------------
(* The IP task *)

\* A handler has run, with n faults met; its packets are sent.
Handler(s, n) ==
    /\ sock' = [s EXCEPT !.out = <<>>, !.late = 0, !.poor = FALSE]
    /\ Transmit(s.out, n)
    /\ UNCHANGED server

One(fault) == IF fault THEN 1 ELSE 0

WaitsFor(bits) == sock.group \cap bits = {}

\* The server task is blocked.
Blocked ==
    CASE pc = "acceptWait" -> WaitsFor({"ACCEPT"})
      [] pc \in {"recvWait", "drainWait"} -> WaitsFor({"RECEIVE", "CLOSED"})
      [] pc = "addWait" -> WaitsFor({"SEND", "CLOSED"})
      [] OTHER -> pc \in {"reading", "open", "done"}

\* A packet is handled; with poor there is no memory at that time.
Receive ==
    \E p \in net, poor \in BOOLEAN :
        /\ Blocked /\ sock.bits = {} /\ ~closing
        /\ net' = net \ {p}
        /\ Handler(ProcessReceived([sock EXCEPT !.poor = poor], p), One(poor))

\* The timer check, before the IP task sleeps or not.  Any time may have gone by.
Timer ==
    \E due, willSleep, poor \in BOOLEAN, late \in 0..Len(sock.win.wait) :
        /\ sock.state # "LISTEN"
        /\ ~due => ~poor /\ late = 0
        /\ Handler(TimerCheck([sock EXCEPT !.poor = poor, !.late = late], due, willSleep),
                   One(poor) + One(late > 0))
        /\ UNCHANGED net

\* eSocketCloseEvent
CloseEvent ==
    /\ closing /\ closing' = FALSE
    /\ sock' = SocketClose(sock)
    /\ UNCHANGED <<client, pc, left, readings, some, taken, written>>

-----------------------------------------------------------------------------
(* The server task *)

Goto(there) == pc' = there
App(s) == sock' = s /\ UNCHANGED <<net, peer>>
Sleep(bits) == sock.group \cap bits # {} /\ App([sock EXCEPT !.group = @ \ bits])
Times == Fault(1)   \* a wait times out
Only == UNCHANGED <<left, readings, some, taken, written, closing>>

\* FreeRTOS_accept
Accept ==
    /\ pc = "accept" /\ Only /\ UNCHANGED faults
    /\ IF sock.passAccept THEN App([sock EXCEPT !.passAccept = FALSE]) /\ Goto("recv")
       ELSE App(sock) /\ Goto("acceptWait")

AcceptWait ==
    /\ pc = "acceptWait" /\ Only /\ UNCHANGED faults
    /\ Sleep({"ACCEPT"}) /\ Goto("accept")

Size == IF sock.rx = NoStream THEN 0 ELSE GetSize(sock.rx)

\* FreeRTOS_recv, before the shutdown (recv) and after it (drain)
Recv(there, wait, get, error) ==
    /\ pc = there /\ Only /\ UNCHANGED faults
    /\ App(sock)
    /\ Goto(IF Size > 0 THEN get
            ELSE IF sock.state \in {"CLOSED", "CLOSE_WAIT", "CLOSING"} THEN error ELSE wait)

\* After a time-out, too, it looks once more whether there is data.
RecvWait(wait, there, timeout) ==
    /\ pc = wait /\ Only
    /\ \/ Sleep({"RECEIVE", "CLOSED"}) /\ Goto(there) /\ UNCHANGED faults
       \/ Times /\ App(sock) /\ Goto(IF Size > 0 THEN there ELSE timeout)

\* What it reads, and the end of low water
Taken(s) ==
    LET a == [s EXCEPT !.rx = Got(@, MSS)]
    IN  IF s.lowWater /\ FrontSpace(a.rx) >= (4 * RxStream) \div 5
        THEN [a EXCEPT !.lowWater = FALSE, !.winChange = TRUE] ELSE a

RecvGet(get, there) ==
    /\ pc = get /\ UNCHANGED <<left, readings, some, written, closing, faults>>
    /\ App(Taken(sock)) /\ Goto(there)
    /\ taken' = Plus(taken, Available(sock.rx, 0, MSS))

\* xQueueReceive of a reading, which may time out
Reading ==
    /\ pc = "reading" /\ App(sock) /\ UNCHANGED <<some, taken, written, closing, faults>>
    /\ \/ readings > 0 /\ readings' = readings - 1 /\ left' = ReplyLen /\ Goto("check")
       \/ UNCHANGED <<left, readings>> /\ Goto("recv")

\* prvTCPSendCheck.  Once a FIN was sent the answer is 0, and main's loop calls
\* again.  An error leaves the loop with the socket open.
SendCheck ==
    \E poor \in BOOLEAN :
        LET creates == sock.tx = NoStream
            failed  == StateChange([sock EXCEPT !.mallocError = TRUE], "CLOSE_WAIT")
            made    == [sock EXCEPT !.tx = EmptyBuffer(TxLength)]
        IN  /\ pc = "check" /\ UNCHANGED <<left, readings, taken, written, closing>>
            /\ some' = FALSE
            /\ poor => creates
            /\ Fault(One(poor))
            /\ IF sock.mallocError \/ sock.state = "CLOSED" THEN App(sock) /\ Goto("open")
               ELSE IF sock.finSent THEN App(sock) /\ UNCHANGED pc
               ELSE IF creates /\ poor THEN App(failed) /\ Goto("open")
               ELSE App(IF creates THEN made ELSE sock) /\ Goto("add")

\* FreeRTOS_send copies what fits.
SendAdd ==
    LET n == Smaller(GetSpace(sock.tx), left)
    IN  /\ pc = "add" /\ UNCHANGED <<readings, taken, closing, faults>>
        /\ App([sock EXCEPT !.tx = Add(@, 0, [i \in 1..n |-> Plus(written, i - 1)], n)])
        /\ left' = left - n /\ written' = Plus(written, n)
        /\ some' = (n > 0 \/ some)
        /\ Goto(IF n = left THEN "recv" ELSE "addWait")

\* After a time-out, too, it looks once more whether there is space.  When no byte
\* was accepted the time-out is an error.
SendWait ==
    /\ pc = "addWait" /\ Only
    /\ \/ Sleep({"SEND", "CLOSED"}) /\ Goto("add") /\ UNCHANGED faults
       \/ /\ Times /\ App(sock)
          /\ Goto(IF GetSpace(sock.tx) > 0 THEN "add" ELSE IF some THEN "check" ELSE "open")

\* FreeRTOS_shutdown
Shutdown ==
    /\ pc = "shutdown" /\ Only /\ UNCHANGED faults /\ Goto("drain")
    /\ App(IF sock.state = "ESTABLISHED" THEN [sock EXCEPT !.userShutdown = TRUE] ELSE sock)

\* FreeRTOS_closesocket
Close ==
    /\ pc = "close" /\ UNCHANGED <<left, readings, some, taken, written, faults>> /\ Goto("done")
    /\ App(sock) /\ closing' = TRUE

Server ==
    \/ Accept \/ AcceptWait
    \/ Recv("recv", "recvWait", "get", "shutdown")
    \/ RecvWait("recvWait", "recv", "shutdown") \/ RecvGet("get", "reading")
    \/ Reading \/ SendCheck \/ SendAdd \/ SendWait
    \/ Shutdown
    \/ Recv("drain", "drainWait", "drainGet", "close")
    \/ RecvWait("drainWait", "drain", "close")
    \/ RecvGet("drainGet", "drain") \/ RecvGet("drainGet", "close")
    \/ Close

Next ==
    \/ Receive \/ Timer \/ CloseEvent
    \/ ClientNext /\ UNCHANGED <<sock, server>>
    \/ Server

Spec == Init /\ [][Next]_vars

\* The socket after a timer check that finds it due, before the IP task sleeps
Ticked == [TimerCheck(sock, TRUE, TRUE) EXCEPT !.out = <<>>]

\* Both tasks of priority 1 get their share, the timer goes on, and so does the
\* client; but a packet comes in only when the task that polls for it may run.
\* (Weak fairness of Receive and Timer, written without ENABLED.)
FairSpec ==
    /\ Spec
    /\ WF_vars(Server) /\ WF_vars(CloseEvent)
    /\ WF_vars(ClientNext /\ UNCHANGED <<sock, server>>)
    /\ []<>~(net # {} /\ Blocked /\ sock.bits = {} /\ ~closing) \/ []<><<net \ net' # {}>>_vars
    /\ []<>(sock.state = "LISTEN" \/ sock = Ticked) \/ []<><<sock' = Ticked>>_vars

-----------------------------------------------------------------------------
(* Properties *)

\* The byte at a place of a stream, places counted from the head
At(b, k) == b.cells[Onward(b, b.head, k)]

\* A FIN that was accepted takes one sequence number.
DataEnd == IF sock.finAccepted THEN Plus(sock.win.rxCur, -1) ELSE sock.win.rxCur

\* The receive buffer holds, in order and without a gap, the bytes from the one
\* that the server task reads next up to the one acknowledged, and ahead of
\* them each segment that came too early at the place of its bytes.  So no
\* loss, repetition or reordering changes what FreeRTOS_recv returns.
\* (Once the server task has shut the connection down, it does not care: a FIN
\* is then acknowledged with all before it.)
RxInOrder ==
    sock.rx # NoStream /\ (sock.finSent => sock.finAccepted) =>
        /\ Plus(taken, Size) = DataEnd
        /\ \A i \in 1..Size : At(sock.rx, -i) = Plus(DataEnd, -i)
        /\ \A g \in sock.win.stored, i \in 0..(MSS - 1) :
              i < g.len => At(sock.rx, Diff(g.seq, DataEnd) + i) = Plus(g.seq, i)

\* The client gets every byte of the replies at the place where
\* FreeRTOS_send put it, whatever segments are sent again or out of order.
PeerGetsTheBytes == \A b \in peer.got : b[1] = b[2] /\ Less(b[1], written)

\* The segments cover the transmit buffer from tail to mid without a gap, each
\* at the place of its bytes; one that is not acknowledged is in exactly one of
\* the three queues, and the pool has lent no more segments than it has.  A
\* segment in no queue would never be sent again.
TxQueuesIntact ==
    LET w == sock.win
        all == w.prio \o w.wait \o w.txq
        sum[i \in 0..Len(w.segs)] == IF i = 0 THEN 0 ELSE sum[i - 1] + w.segs[i].len
    IN  /\ FreeSegments(w) >= 0
        /\ Len(all) = Cardinality(ToSet(all))
        /\ ToSet(all) = {w.segs[i].seq : i \in {j \in DOMAIN w.segs : ~w.segs[j].acked}}
        /\ sock.tx # NoStream =>
              /\ sum[Len(w.segs)] = Distance(sock.tx, sock.tx.tail, sock.tx.mid)
              /\ \A i \in DOMAIN w.segs : sock.tx.cells[w.segs[i].pos] = w.segs[i].seq
              /\ ~sock.finSent /\ w.segs # <<>> => w.segs[1].seq = w.txCur

\* prvHandleEstablished accepts the FIN of the client only when the whole request
\* came before it: what the server task has read and what is still in the receive
\* buffer, through all loss and reordering.
FinAfterRequest == sock.finAccepted => Plus(taken, Size) = End

\* FreeRTOS_TCP_IP.c:2005, of the closure: "it has been checked that both reception
\* and transmission are complete".  The socket's FIN comes after every byte that
\* FreeRTOS_send took.
FinAfterReply == [][ sock'.finSent /\ ~sock.finSent => sock'.win.txFin = written ]_sock

\* No wake-up is lost: whoever waits in FreeRTOS_accept, recv or send although
\* it need not has an event bit set, in the group or in those that the timer
\* check delivers.
AppWoken ==
    LET told == sock.group \cup sock.bits
    IN  /\ pc = "acceptWait" /\ sock.passAccept => "ACCEPT" \in told
        /\ /\ pc \in {"recvWait", "drainWait"}
           /\ Size > 0 \/ sock.state \in {"CLOSED", "CLOSE_WAIT", "CLOSING"}
           => told \cap {"RECEIVE", "CLOSED"} # {}
        /\ pc = "addWait" /\ GetSpace(sock.tx) > 0 => told \cap {"SEND", "CLOSED"} # {}

\* A received packet is given back once, unless it is kept as the one
\* acknowledgement that was put off.
KeptOnce == sock.held = (IF sock.ack THEN 1 ELSE 0) /\ ~sock.mine

\* A client whose request was met with a temperature gets the reply.
RequestAnswered == pc = "check" ~> Cardinality(peer.got) = ReplyLen
=============================================================================
