----------------------------- MODULE TcpSocket -----------------------------
(***************************************************************************)
(* One TCP socket of FreeRTOS_TCP_IP.c and FreeRTOS_Sockets.c: the record  *)
(* s, and what the IP task does to it as operators from a record to a      *)
(* record.  A byte is known by its sequence number.                        *)
(*                                                                         *)
(* The socket is the one of the weather server, which listens and, with    *)
(* FREERTOS_SO_REUSE_LISTEN_SOCKET, becomes the connection itself.  The    *)
(* fields out, mine, late and poor are for the handler that is running:    *)
(* what it sends; whether it still has the descriptor of the received      *)
(* packet; how many segments at the head of the wait queue are late; and   *)
(* whether neither descriptors nor memory can be had.                      *)
(***************************************************************************)
EXTENDS StreamBuffer, TcpWindow

CONSTANTS
    OurISS,    \* ulNextInitialSequenceNumber when the client connects
    RxStream,  \* uxRxStreamSize
    RxLength,  \* LENGTH of the receive buffer: that, rounded up to a whole word more
    TxLength,  \* LENGTH of the transmit buffer
    Repeats    \* SEND_REPEATED_COUNT

ASSUME SocketAssumption ==
    /\ OurISS \in 0..(SeqSpace - 1) /\ Repeats \in Nat
    /\ RxStream \in Nat /\ RxLength \in Nat /\ RxLength > RxStream /\ TxLength \in Nat \ {0, 1}

NoStream == [length |-> 0]

\* eTCP_STATE, in its order
States == <<"CLOSED", "LISTEN", "CONNECT_SYN", "SYN_FIRST", "SYN_RECEIVED", "ESTABLISHED",
            "FIN_WAIT_1", "FIN_WAIT_2", "CLOSE_WAIT", "CLOSING", "LAST_ACK", "TIME_WAIT">>
Rank == [name \in {States[i] : i \in DOMAIN States} |->
            CHOOSE i \in DOMAIN States : States[i] = name]
From(s, state) == Rank[s.state] >= Rank[state]

\* NOW_CONNECTED and prvTCPSocketIsActive
Connected(state) == Rank[state] >= Rank["ESTABLISHED"] /\ state # "CLOSE_WAIT"
IsActive(s) == s.state \notin {"CLOSED", "CLOSE_WAIT", "FIN_WAIT_2", "CLOSING", "TIME_WAIT"}

\* The socket after FreeRTOS_listen
Listening ==
    [state |-> "LISTEN", win |-> NewWindow(0, 0), rx |-> NoStream, tx |-> NoStream,
     peerWin |-> 0, curWin |-> 0, hiAllowed |-> 0,
     finSent |-> FALSE, finAccepted |-> FALSE, finRecv |-> FALSE, finLast |-> FALSE,
     finAcked |-> FALSE, winChange |-> FALSE, lowWater |-> FALSE, userShutdown |-> FALSE,
     passQueued |-> FALSE, passAccept |-> FALSE, mallocError |-> FALSE,
     lastFin |-> FALSE,   \* the FIN flag in ucLastPacket
     ack |-> FALSE,       \* pxAckMessage is not NULL
     bits |-> {},         \* xEventBits
     group |-> {},        \* the bits set in xEventGroup
     held |-> 0,          \* descriptors of received packets not yet given back
     out |-> <<>>, mine |-> FALSE, late |-> 0, poor |-> FALSE]

\* vSocketWakeUpUser
WakeUpUser(s) == [s EXCEPT !.group = @ \cup s.bits, !.bits = {}]

\* vTCPStateChange.  The socket that listens is its own parent: the task in
\* FreeRTOS_accept is woken at once, other events wait for the timer check.
StateChange(s, state) ==
    LET was == Connected(s.state)
        is  == Connected(state)
        to  == [s EXCEPT !.state = state]
    IN  IF was = is THEN to
        ELSE IF ~is THEN [to EXCEPT !.bits = @ \cup {"CLOSED"}]
        ELSE IF s.passQueued
        THEN WakeUpUser([to EXCEPT !.bits = @ \cup {"ACCEPT"},
                                   !.passQueued = FALSE, !.passAccept = TRUE])
        ELSE [to EXCEPT !.bits = @ \cup {"CONNECT"}]

-----------------------------------------------------------------------------
(* Sending *)

\* The descriptor of the received packet is given back, to the driver or to
\* the pool.
Drop(s) == IF s.mine THEN [s EXCEPT !.mine = FALSE, !.held = @ - 1] ELSE s

\* prvTCPReturnPacket.  A packet that the caller does not own is sent as a copy.
ReturnPacket(s, owned, flags, data, opt) ==
    LET w     == s.win
        front == IF s.rx = NoStream THEN RxStream ELSE FrontSpace(s.rx)
        usual == IF s.lowWater THEN 0 ELSE Smaller(s.curWin, RxWinLen)
        space == IF usual < MSS /\ front >= MSS THEN MSS ELSE usual
        isFin == opt = <<>> /\ Plus(w.our, Len(data)) = w.txFin
    IN  IF ~owned /\ s.poor THEN s
        ELSE [s EXCEPT !.winChange = FALSE, !.hiAllowed = Plus(w.rxCur, space),
                       !.out = Append(@,
                          [flags |-> IF isFin THEN flags ELSE flags \ {"FIN"},
                           seq |-> w.our, ack |-> w.rxCur, win |-> space,
                           data |-> data, sack |-> opt])]

\* prvTCPSendReset
SendReset(s, p) ==
    IF s.poor THEN s
    ELSE [s EXCEPT !.out = Append(@, [flags |-> {"ACK", "RST"}, seq |-> p.ack, ack |-> p.seq,
                                      win |-> 0, data |-> <<>>, sack |-> <<>>])]

\* prvTCPPrepareSend, in a buffer with room for so many bytes; without a buffer
\* for them it fails, but the segment is taken as sent.
PrepareSend(s, room) ==
    LET next == IF s.tx = NoStream THEN [w |-> s.win, seq |-> NoSeq, late |-> s.late]
                ELSE TxGet(s.win, s.peerWin, s.late)
        data(got) ==
          IF got.seq = NoSeq THEN <<>>
          ELSE LET g == Seg(got.w, got.seq)
               IN  Peeked(s.tx, Distance(s.tx, s.tx.tail, g.pos), g.len)
        fails(got)  == got.seq # NoSeq /\ s.poor /\ room < Seg(got.w, got.seq).len
        closes(got) == ~fails(got) /\ s.state = "ESTABLISHED" /\ s.userShutdown /\ TxDone(got.w)
        after(got)  ==
          LET a == [s EXCEPT !.win = got.w, !.late = got.late]
          IN  IF ~closes(got) THEN a
              ELSE StateChange([a EXCEPT !.userShutdown = FALSE, !.finSent = TRUE,
                                         !.winChange = TRUE, !.win.txFin = got.w.txCur],
                               "FIN_WAIT_1")
        prepared(got) ==
          [s |-> after(got), data |-> data(got), fin |-> closes(got),
           sends |-> ~fails(got) /\ (got.seq # NoSeq \/ closes(got) \/ s.winChange)]
    IN  prepared(next)

\* The flags of a data packet or window update
Flags(base, q) ==
    {"ACK"} \cup base \cup (IF q.fin THEN {"FIN"} ELSE {})
            \cup (IF q.data = <<>> THEN {} ELSE {"PSH"})

\* prvTCPSendRepeated: packets that are made from ucLastPacket
Repeated(q) ==
    LET last == [q.s EXCEPT !.lastFin = @ \/ (q.fin /\ q.data = <<>>)]
        base == IF q.s.lastFin THEN {"FIN"} ELSE {}
    IN  IF ~q.sends THEN [s |-> q.s, on |-> FALSE]
        ELSE [s |-> ReturnPacket(last, q.data # <<>>, Flags(base, q), q.data, <<>>),
              on |-> TRUE]
SendAnother(a) == IF a.on THEN Repeated(PrepareSend(a.s, -1)) ELSE a
SendRepeated(s) ==
    LET sent[i \in 0..Repeats] ==
            IF i = 0 THEN [s |-> s, on |-> TRUE] ELSE SendAnother(sent[i - 1])
    IN  sent[Repeats].s

\* prvTCPAddTxData
AddTxData(s) ==
    LET with(added) == [s EXCEPT !.win = added.w, !.tx = MoveMid(@, added.done)]
    IN  IF s.tx = NoStream \/ MidSpace(s.tx) = 0 THEN s
        ELSE with(TxAdd(s.win, MidSpace(s.tx), s.tx.mid, s.tx.length))

\* Mutant of Acknowledged: the task in FreeRTOS_send is not told of the space.
AcknowledgedOnly(s, n) == IF s.tx = NoStream \/ n = 0 THEN s ELSE [s EXCEPT !.tx = Got(@, n)]

\* What prvCheckOptions and prvHandleEstablished do when n bytes at the head
\* of the transmit buffer were acknowledged.
Acknowledged(s, n) ==
    IF s.tx = NoStream \/ n = 0 THEN s
    ELSE [s EXCEPT !.tx = Got(@, n), !.bits = @ \cup {"SEND"}]

-----------------------------------------------------------------------------
(* Receiving *)

\* prvTCPCreateStream for the receive buffer, and lTCPAddRxdata
AddRxdata(s, offset, data, n) ==
    LET stream == IF s.rx = NoStream THEN EmptyBuffer(RxLength) ELSE s.rx
        after  == Add(stream, offset, data, n)
        low    == offset = 0 /\ ~s.lowWater /\ FrontSpace(after) <= RxStream \div 5
    IN  IF s.rx = NoStream /\ s.poor
        THEN [s |-> StateChange([s EXCEPT !.mallocError = TRUE], "CLOSE_WAIT"), stored |-> -1]
        ELSE [s |-> [s EXCEPT !.rx = after, !.lowWater = @ \/ low,
                              !.winChange = @ \/ low,
                              !.bits = IF offset = 0 THEN @ \cup {"RECEIVE"} ELSE @],
              stored |-> Fits(stream, offset, n)]

PacketData(p) == [i \in 1..p.len |-> Plus(p.seq, i - 1)]

\* Mutant of StoreRxData: what follows in the buffer already is not passed on.
StoreRxDataOnly(s, p) ==
    LET space == IF s.rx = NoStream THEN RxStream ELSE GetSpace(s.rx)
        stored(check) ==
          LET a == [s EXCEPT !.win = [check.w EXCEPT !.userData = 0]]
          IN  IF check.offset < 0 THEN a
              ELSE AddRxdata(a, check.offset, PacketData(p), p.len).s
    IN  IF p.len > 0 /\ From(s, "SYN_RECEIVED")
        THEN [s |-> stored(RxCheck(s.win, p.seq, p.len, space)), fails |-> FALSE]
        ELSE [s |-> [s EXCEPT !.win.opt = <<>>], fails |-> FALSE]

\* prvStoreRxData
StoreRxData(s, p) ==
    LET space == IF s.rx = NoStream THEN RxStream ELSE GetSpace(s.rx)
        moved(a) == IF a.win.userData = 0 THEN a
                    ELSE [AddRxdata(a, 0, <<>>, a.win.userData).s EXCEPT !.win.userData = 0]
        added(b) == IF b.stored # p.len THEN [s |-> SendReset(b.s, p), fails |-> TRUE]
                    ELSE [s |-> moved(b.s), fails |-> FALSE]
        stored(check) ==
          LET a == [s EXCEPT !.win = check.w]
          IN  IF check.offset < 0 THEN [s |-> a, fails |-> FALSE]
              ELSE added(AddRxdata(a, check.offset, PacketData(p), p.len))
    IN  IF p.len > 0 /\ From(s, "SYN_RECEIVED")
        THEN stored(RxCheck(s.win, p.seq, p.len, space))
        ELSE [s |-> [s EXCEPT !.win.opt = <<>>], fails |-> FALSE]

-----------------------------------------------------------------------------
(* The states.  A handler gives the socket and its answer, which prvSendData *)
(* may send at once or keep.                                                 *)

NoAnswer == [sends |-> FALSE, flags |-> {}, data |-> <<>>, opt |-> <<>>]
Answer(flags, data, opt) == [sends |-> TRUE, flags |-> flags, data |-> data, opt |-> opt]
To(s, answer) == [s |-> s, answer |-> answer]

\* prvTCPHandleFin
HandleFin(s, p) ==
    LET a == IF "FIN" \in p.flags THEN [s EXCEPT !.win.rxCur = Plus(s.win.rxFin, 1)] ELSE s
        b == IF ~a.finSent THEN [a EXCEPT !.finSent = TRUE, !.win.txFin = a.win.txCur]
             ELSE [a EXCEPT !.finAcked = @ \/ p.ack = Plus(a.win.txFin, 1)]
        cur == IF b.finAcked THEN Plus(b.win.txFin, 1) ELSE b.win.txFin
        c == [b EXCEPT !.win.txCur = cur, !.win.our = cur]
    IN  IF ~c.finAcked THEN To(StateChange(c, "LAST_ACK"), Answer({"ACK", "FIN"}, <<>>, c.win.opt))
        ELSE IF ~c.finRecv THEN To(c, NoAnswer)
        ELSE To(StateChange(c, "CLOSE_WAIT"),
                IF c.finLast THEN NoAnswer ELSE Answer({"ACK"}, <<>>, c.win.opt))

\* prvHandleSynReceived
HandleSynReceived(s, p, opt) ==
    LET a == IF p.len = 0 THEN [s EXCEPT !.win.rxCur = p.seq] ELSE s
        b == StateChange([a EXCEPT !.win.our = Plus(OurISS, 1)], "ESTABLISHED")
    IN  IF p.flags \ {"PSH"} # {"ACK"}
        THEN To(StateChange(s, "CLOSE_WAIT"), Answer(p.flags \cup {"RST"}, <<>>, opt))
        ELSE To(b, IF p.len # 0 THEN Answer({"ACK"}, <<>>, opt) ELSE NoAnswer)

\* Mutant of MayClose: a FIN is accepted while bytes before it are missing.
MayCloseEarly(s, p) ==
    /\ s.finAccepted \/ "FIN" \in p.flags
    /\ s.finSent \/ TxDone(s.win)

\* The condition of prvHandleEstablished to accept a FIN: all was received, all
\* was acknowledged
MayClose(s, p) ==
    /\ s.finAccepted \/ "FIN" \in p.flags
    /\ \/ s.finSent
       \/ /\ RxEmpty(s.win) /\ TxDone(s.win)
          /\ Diff(Plus(p.seq, p.len), s.win.rxCur) <= 1

\* prvHandleEstablished
HandleEstablished(s, p, opt) ==
    LET acked == IF "ACK" \in p.flags THEN TxAck(s.win, p.ack) ELSE [n |-> 0, w |-> s.win]
        after(a) == AddTxData(Acknowledged([s EXCEPT !.peerWin = p.win, !.win = a.w], a.n))
        first == IF p.len # 0 THEN Answer({"ACK"}, <<>>, opt) ELSE NoAnswer
        answered(q) == To(q.s, IF q.sends THEN Answer(Flags({}, q), q.data, <<>>) ELSE first)
        goOn(b) == IF opt # <<>> THEN To(b, first) ELSE answered(PrepareSend(b, p.len))
        go(b) ==
          IF MayClose(b, p) THEN HandleFin([b EXCEPT !.finAccepted = TRUE], p)
          ELSE goOn(IF p.len # 0 /\ b.finSent THEN [b EXCEPT !.win.txCur = b.win.txFin] ELSE b)
        current(a) == [a EXCEPT !.win.our = a.win.txCur]
    IN  go(current(after(acked)))

\* Mutant of SendData: what was put off before is not given back.
SendDataKeeps(s, p, answer) ==
    LET later == p.len > 0 /\ ~s.finSent /\ s.state = "ESTABLISHED"
                 /\ answer = Answer({"ACK"}, <<>>, <<>>)
    IN  IF later THEN [s |-> [s EXCEPT !.ack = TRUE, !.mine = FALSE], sent |-> FALSE]
        ELSE [s |-> Drop(ReturnPacket([s EXCEPT !.ack = FALSE],
                                      TRUE, answer.flags, answer.data, answer.opt)),
              sent |-> TRUE]

\* prvSendData: an acknowledgement is put off, in pxAckMessage, as long as the
\* client may send two more segments.
SendData(s, p, answer) ==
    LET front == IF s.rx = NoStream THEN RxStream ELSE FrontSpace(s.rx)
        room  == (RxWinLen - s.win.rxHigh + s.win.rxCur) % SeqSpace
        a     == [s EXCEPT !.curWin = Smaller(front, room),
                           !.held = IF s.ack THEN @ - 1 ELSE @]
        later == /\ p.len > 0 /\ Diff(s.hiAllowed, s.win.rxCur) >= 2 * MSS
                 /\ ~s.finSent /\ s.state = "ESTABLISHED"
                 /\ answer = Answer({"ACK"}, <<>>, <<>>)
    IN  IF later THEN [s |-> [a EXCEPT !.ack = TRUE, !.mine = FALSE], sent |-> FALSE]
        ELSE [s |-> Drop(ReturnPacket([a EXCEPT !.ack = FALSE],
                                      TRUE, answer.flags, answer.data, answer.opt)),
              sent |-> TRUE]

\* prvTCPHandleState: what it does before the switch
Arrived(s, p) ==
    LET a == IF From(s, "ESTABLISHED") /\ s.win.rxCur = Plus(p.seq, 1)
             THEN [s EXCEPT !.winChange = TRUE] ELSE s
    IN  IF Diff(Plus(p.seq, p.len), s.win.rxHigh) > 0
        THEN [a EXCEPT !.win.rxHigh = Plus(p.seq, p.len)] ELSE a

NoteFin(s, p) ==
    IF "FIN" \in p.flags /\ ~s.finRecv
    THEN [s EXCEPT !.finRecv = TRUE, !.win.rxFin = Plus(p.seq, p.len),
                   !.finLast = @ \/ ~s.finSent]
    ELSE s

\* ...and the switch
Handled(s, p) ==
    LET opt == s.win.opt
        synAck == [s EXCEPT !.win.rxCur = Plus(p.seq, 1), !.win.rxHigh = Plus(p.seq, 1),
                            !.win.txCur = Plus(OurISS, 1), !.win.next = Plus(OurISS, 1)]
    IN  CASE s.state = "SYN_FIRST" ->
               To(StateChange(synAck, "SYN_RECEIVED"), Answer({"SYN", "ACK"}, <<>>, <<>>))
          [] s.state = "SYN_RECEIVED" -> HandleSynReceived(s, p, opt)
          [] s.state = "ESTABLISHED" -> HandleEstablished(s, p, opt)
          [] s.state \in {"LAST_ACK", "FIN_WAIT_1", "FIN_WAIT_2"} -> HandleFin(s, p)
          [] OTHER -> To(s, NoAnswer)

HandleState(s, p) ==
    LET again(a) == IF a.state = "SYN_RECEIVED" /\ p.flags = {"SYN"}
                    THEN StateChange(a, "SYN_FIRST") ELSE a
        sent(h) == IF h.answer.sends THEN SendData(h.s, p, h.answer)
                   ELSE [s |-> h.s, sent |-> FALSE]
        stored(a) == IF a.fails THEN [s |-> a.s, sent |-> FALSE]
                     ELSE sent(Handled(NoteFin(again(a.s), p), p))
    IN  stored(StoreRxData(Arrived(s, p), p))

\* prvHandleListen with prvTCPCreateWindow
HandleListen(s, p) ==
    StateChange([s EXCEPT !.passQueued = TRUE, !.win = NewWindow(p.seq, OurISS)], "SYN_FIRST")

\* prvCheckOptions, the selective acknowledgement
CheckOptions(s, p) ==
    LET with(a) == Acknowledged([s EXCEPT !.win = a.w], a.n)
    IN  IF p.sack = <<>> THEN s ELSE with(TxSack(s.win, p.sack[1], p.sack[2]))

\* xProcessReceivedTCPPacket once the packet is known to be for the socket
Served(s, p) ==
    LET more(h) == IF h.sent THEN SendRepeated(h.s) ELSE h.s
    IN  more(HandleState([CheckOptions(s, p) EXCEPT !.peerWin = p.win], p))

\* xProcessReceivedTCPPacket, and the release of the packet if nobody kept it
ProcessReceived(s0, p) ==
    LET s == [s0 EXCEPT !.mine = TRUE, !.held = @ + 1]
        pure == p.flags = {"ACK"} \/ "RST" \in p.flags
        copied == [s EXCEPT !.lastFin = "FIN" \in p.flags]
    IN  Drop(IF ~IsActive(s) THEN (IF pure THEN s ELSE SendReset(s, p))
             ELSE IF s.state = "LISTEN"
             THEN (IF p.flags = {"SYN"} THEN Served(HandleListen(s, p), p)
                   ELSE IF "RST" \in p.flags THEN s ELSE SendReset(s, p))
             ELSE IF "RST" \in p.flags THEN StateChange(s, "CLOSED")
             ELSE IF p.flags = {"SYN"} /\ From(s, "ESTABLISHED") THEN s
             ELSE Served(copied, p))

-----------------------------------------------------------------------------
(* The timer *)

\* xTCPSocketCheck.  An acknowledgement that was put off is sent, unless there
\* is data to send at once, which carries it.
SocketCheck(s) ==
    LET sends(a) == a.ack /\ ~a.userShutdown /\ a.state # "CLOSED"
        acked(a) == IF sends(a) THEN ReturnPacket(a, TRUE, {"ACK"}, <<>>, <<>>) ELSE a
        given(a) == [acked(a) EXCEPT !.ack = FALSE, !.held = @ - 1]
        ready(a) == a.ack /\ ~a.userShutdown /\ ~TxHasData(a.win, a.peerWin, a.late)
        go(a) == IF ready(a) \/ ~From(a, "ESTABLISHED") THEN given(a) ELSE SendRepeated(given(a))
        check(a) == IF sends(a) \/ (a.ack /\ a.userShutdown) THEN go(a)
                    ELSE IF From(a, "ESTABLISHED") THEN SendRepeated(a) ELSE a
    IN  check(IF From(s, "ESTABLISHED") THEN AddTxData(s) ELSE s)

\* xTCPTimerCheck
TimerCheck(s, due, willSleep) ==
    LET a == IF due THEN SocketCheck(s) ELSE s IN IF willSleep THEN WakeUpUser(a) ELSE a

\* vSocketClose
SocketClose(s) ==
    [Listening EXCEPT !.state = "CLOSED", !.held = IF s.ack THEN s.held - 1 ELSE s.held]
=============================================================================
