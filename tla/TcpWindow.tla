----------------------------- MODULE TcpWindow -----------------------------
(***************************************************************************)
(* The sliding windows of FreeRTOS_TCP_WIN.c: one operator per function,   *)
(* on a record w that stands for a TCPWindow_t.                            *)
(*                                                                         *)
(* Received segments that came too early are a set; a transmit segment is  *)
(* a record of the sequence segs (xTxSegments), and the three queues hold  *)
(* the sequence numbers of the segments that are in them.  The segments of *)
(* both kinds come from one pool, xSegmentList.                            *)
(***************************************************************************)
EXTENDS Integers, FiniteSets, SequencesExt

CONSTANTS
    SeqSpace,         \* sequence numbers are taken modulo this, 2^32 in the code
    MSS,            \* usMSS and usCurMSS
    SegCount,       \* ipconfigTCP_WIN_SEG_COUNT
    RxWinLen,       \* ulRxWindowLength
    TxWinLen,       \* ulTxWindowLength
    DuplicateAcks,  \* DUPLICATE_ACKS_BEFORE_FAST_RETRANSMIT
    MaxTransmit     \* MAX_TRANSMIT_COUNT_USING_LARGE_WINDOW

ASSUME WindowAssumption ==
    /\ SeqSpace \in Nat /\ SeqSpace % 2 = 0
    /\ MSS \in Nat \ {0, 1} /\ SegCount \in Nat
    /\ RxWinLen \in Nat /\ TxWinLen \in Nat /\ 2 * RxWinLen < SeqSpace
    /\ DuplicateAcks \in Nat \ {0} /\ MaxTransmit \in Nat \ {0}

NoSeq == -1

-----------------------------------------------------------------------------
(* Sequence numbers *)

Plus(a, n) == (a + n) % SeqSpace

\* The difference as a signed number
Diff(a, b) == LET d == (a - b) % SeqSpace IN IF 2 * d < SeqSpace THEN d ELSE d - SeqSpace

\* xSequenceLessThan and its kin: the top bit of a difference is clear
AtMost(a, b) == 2 * ((b - a) % SeqSpace) < SeqSpace
Less(a, b) == 2 * ((b - a - 1) % SeqSpace) < SeqSpace

-----------------------------------------------------------------------------
(* Creation, and the pool of segments *)

\* vTCPWindowCreate and vTCPWindowInit
NewWindow(ackNumber, sequenceNumber) ==
    [rxCur |-> ackNumber, rxHigh |-> ackNumber, rxFin |-> 0, stored |-> {},
     userData |-> 0, opt |-> <<>>,
     txCur |-> sequenceNumber, txHigh |-> sequenceNumber, txFin |-> 0,
     our |-> sequenceNumber, next |-> sequenceNumber,
     segs |-> <<>>, prio |-> <<>>, txq |-> <<>>, wait |-> <<>>, head |-> NoSeq,
     txWindow |-> TxWinLen]

FreeSegments(w) == SegCount - Cardinality(w.stored) - Len(w.segs)

-----------------------------------------------------------------------------
(* Receiving *)

\* xTCPWindowRxEmpty
RxEmpty(w) == w.stored = {} /\ AtMost(w.rxHigh, w.rxCur)

\* The loop of xTCPWindowRxFind: as long as a stored segment begins where the
\* last one ended, go on with it; what is left are the segments not met.
Followers(a) == {g \in a.left : g.seq = a.end}
Joined(a) ==
    LET g == CHOOSE g \in Followers(a) : TRUE
    IN  IF Followers(a) = {} THEN a
        ELSE [end |-> Plus(a.end, g.len), left |-> a.left \ {g}]
RunFrom(start, S) ==
    LET run[i \in 0..Cardinality(S)] ==
            IF i = 0 THEN [end |-> start, left |-> S] ELSE Joined(run[i - 1])
    IN  run[Cardinality(S)]

\* xTCPWindowRxConfirm and its use: the first stored segment that begins within
\* the new one is dropped, and the new one is taken to end where it ended.
Confirm(w, seq, len) ==
    LET inside == {g \in w.stored : AtMost(seq, g.seq) /\ Less(g.seq, Plus(seq, len))}
        best   == CHOOSE g \in inside : \A h \in inside : AtMost(g.seq, h.seq)
    IN  IF inside = {} THEN [end |-> Plus(seq, len), left |-> w.stored]
        ELSE [end |-> Plus(best.seq, best.len), left |-> w.stored \ {best}]

Refused(w) == [w |-> w, offset |-> -1]

\* lTCPWindowRxCheck, data that is expected next: all that was stored and now
\* follows it is in order, too.
InOrder(w, seq, len, space) ==
    LET run(met) == RunFrom(met.end, met.left)
        to(r) == [w |-> [w EXCEPT !.rxCur = r.end, !.stored = r.left,
                                  !.userData = (r.end - Plus(seq, len)) % SeqSpace],
                  offset |-> 0]
    IN  IF len > space THEN Refused(w) ELSE to(run(Confirm(w, seq, len)))

\* Data that is not: it is stored, with a selective acknowledgement of it and
\* of what follows it.
TooEarly(w, seq, len, space) ==
    LET distance == Diff(Plus(seq, len), w.rxCur)
        known    == \E g \in w.stored : g.seq = seq
        sack     == <<seq, RunFrom(Plus(seq, len), w.stored).end>>
    IN  IF distance <= 0 \/ distance > space THEN Refused(w)
        ELSE IF known THEN Refused([w EXCEPT !.opt = sack])
        ELSE IF FreeSegments(w) = 0 THEN Refused(w)
        ELSE [w |-> [w EXCEPT !.stored = @ \cup {[seq |-> seq, len |-> len]},
                              !.opt = sack],
              offset |-> Diff(seq, w.rxCur)]

\* lTCPWindowRxCheck: where in the stream the data goes, -1 if nowhere
RxCheck(w0, seq, len, space) ==
    LET w == [w0 EXCEPT !.opt = <<>>, !.userData = 0]
    IN  IF w.rxCur = seq THEN InOrder(w, seq, len, space)
        ELSE IF w.rxCur = Plus(seq, 1) THEN Refused(w)  \* a keep-alive
        ELSE TooEarly(w, seq, len, space)

-----------------------------------------------------------------------------
(* Transmitting *)

Seg(w, seq) == w.segs[CHOOSE i \in DOMAIN w.segs : w.segs[i].seq = seq]

\* lTCPWindowTxAdd: n new bytes at a position of a stream of the given length.
\* They fill the segment at the end, if that was not sent yet, and then new
\* segments, as long as the pool has some.
TxAdd(w, n, position, length) ==
    LET ends   == {i \in DOMAIN w.segs : LET g == w.segs[i] IN
                     g.seq = w.head /\ g.len < MSS /\ ~g.out /\ g.len # 0}
        open   == ends # {}
        at     == CHOOSE i \in ends : TRUE
        last   == w.segs[at]
        fill   == IF open THEN (IF n < MSS - last.len THEN n ELSE MSS - last.len) ELSE 0
        filled == IF open THEN [w EXCEPT !.segs[at].len = @ + fill] ELSE w
        wanted == (n - fill + MSS - 1) \div MSS
        k      == IF wanted < FreeSegments(w) THEN wanted ELSE FreeSegments(w)
        rest(i) == n - fill - (i - 1) * MSS
        new    == [i \in 1..k |->
                     [seq |-> Plus(w.next, fill + (i - 1) * MSS),
                      len |-> IF rest(i) < MSS THEN rest(i) ELSE MSS,
                      pos |-> (position + fill + (i - 1) * MSS) % length,
                      sent |-> 0, dup |-> 0, acked |-> FALSE, out |-> FALSE]]
        done   == fill + (IF k = wanted THEN n - fill ELSE k * MSS)
        end    == IF k > 0 THEN new[k] ELSE filled.segs[at]
    IN  [done |-> done,
         w |-> [filled EXCEPT
                  !.segs = @ \o new,
                  !.txq = @ \o [i \in 1..k |-> new[i].seq],
                  !.next = Plus(@, done),
                  !.head = IF k = 0 /\ ~open THEN @
                           ELSE IF end.len < MSS THEN end.seq ELSE NoSeq]]

\* xTCPWindowTxDone
TxDone(w) == w.segs = <<>>

\* prvTCPWindowTxHasSpace.  The two sequence numbers are compared as they are,
\* not as sequence numbers.
TxHasSpace(w, window) ==
    LET len         == Seg(w, w.txq[1]).len
        outstanding == IF w.txHigh >= w.txCur THEN w.txHigh - w.txCur ELSE 0
    IN  /\ w.txq # <<>>
        /\ window - (IF window < outstanding THEN window ELSE outstanding) >= len
        /\ outstanding = 0 \/ w.txWindow >= outstanding + len

\* xTCPWindowTxHasData with a delay of zero: the socket is served again at once.
\* late is the number of segments at the head of the wait queue whose time is
\* over.
TxHasData(w, window, late) ==
    \/ w.prio # <<>>
    \/ w.wait # <<>> /\ late > 0
    \/ w.wait = <<>> /\ TxHasSpace(w, window)

\* A segment after the one with that number was sent, and after its time was over
Marked(g, seq) == IF g.seq = seq THEN [g EXCEPT !.out = TRUE, !.sent = @ + 1] ELSE g
Late(g, seq) == IF g.seq = seq THEN [g EXCEPT !.dup = 0] ELSE g

\* Mutant of Sending: a segment that is sent again is not kept.
SendingOnce(w, seq) ==
    [w EXCEPT !.segs = [i \in DOMAIN @ |-> Marked(@[i], seq)],
              !.wait = IF Seg(w, seq).sent = 0 THEN Append(@, seq) ELSE @, !.our = seq]

\* ulTCPWindowTxGet once a segment is chosen: it waits for its acknowledgement.
Sending(w, seq) ==
    LET often == Seg(w, seq).sent + 1 = MaxTransmit
    IN  [w EXCEPT !.segs = [i \in DOMAIN @ |-> Marked(@[i], seq)],
                  !.wait = Append(@, seq), !.our = seq,
                  !.txWindow = IF often /\ @ > 2 * MSS THEN 2 * MSS ELSE @]

\* ulTCPWindowTxGet: the segment to send now, NoSeq if there is none
TxGet(w0, window, late) ==
    LET w     == [w0 EXCEPT !.our = w0.txHigh]
        again == Head(w.wait)
        new   == Seg(w, Head(w.txq))
    IN  IF w.prio # <<>>
        THEN [w |-> Sending([w EXCEPT !.prio = Tail(@)], Head(w.prio)),
              seq |-> Head(w.prio), late |-> late]
        ELSE IF w.wait # <<>> /\ late > 0
        THEN [w |-> Sending([w EXCEPT !.wait = Tail(@),
                                      !.segs = [i \in DOMAIN @ |-> Late(@[i], again)]], again),
              seq |-> again, late |-> late - 1]
        ELSE IF TxHasSpace(w, window)
        THEN [w |-> Sending([w EXCEPT !.txq = Tail(@),
                                      !.head = IF @ = new.seq THEN NoSeq ELSE @,
                                      !.txHigh = Plus(new.seq, new.len)], new.seq),
              seq |-> new.seq, late |-> late]
        ELSE [w |-> w, seq |-> NoSeq, late |-> late]

Without(queue, S) ==
    LET rest[i \in 0..Len(queue)] ==
            IF i = 0 THEN <<>>
            ELSE IF queue[i] \in S THEN rest[i - 1]
            ELSE Append(rest[i - 1], queue[i])
    IN  rest[Len(queue)]

\* prvTCPWindowTxCheckAck: first to last is acknowledged.  Segments at the left
\* edge are freed, others marked and taken out of their queue; the loop ends at
\* a gap and at a segment of which only a part is acknowledged.
Checked(a, g, last) ==
    LET kept  == [a EXCEPT !.segs = Append(@, g)]
        after == [a EXCEPT !.at = Plus(@, g.len), !.gone = @ \cup {g.seq}]
    IN  IF ~a.on \/ ~Less(a.at, last) \/ Less(g.seq, a.at) THEN kept
        ELSE IF a.at # g.seq \/ (~g.acked /\ Less(last, Plus(g.seq, g.len)))
        THEN [kept EXCEPT !.on = FALSE]
        ELSE IF a.at = a.cur
        THEN [after EXCEPT !.cur = Plus(@, g.len), !.n = @ + g.len]
        ELSE [after EXCEPT !.segs = Append(@, [g EXCEPT !.acked = TRUE])]

CheckAck(w, first, last) ==
    LET check[i \in 0..Len(w.segs)] ==
            IF i = 0
            THEN [at |-> first, on |-> TRUE, cur |-> w.txCur, n |-> 0,
                  segs |-> <<>>, gone |-> {}]
            ELSE Checked(check[i - 1], w.segs[i], last)
        a == check[Len(w.segs)]
    IN  [n |-> a.n,
         w |-> [w EXCEPT !.segs = a.segs, !.txCur = a.cur, !.prio = Without(@, a.gone),
                         !.txq = Without(@, a.gone), !.wait = Without(@, a.gone)]]

\* prvTCPWindowFastRetransmit: segments before the acknowledged ones that were
\* passed over often enough go to the priority queue.
FastRetransmit(w, first) ==
    LET passed(g) == ~g.acked /\ Less(g.seq, first) /\ g.seq \in ToSet(w.wait)
        counted   == [i \in DOMAIN w.segs |->
                        LET g == w.segs[i]
                        IN  IF ~passed(g) THEN g
                            ELSE [g EXCEPT !.dup = IF @ > DuplicateAcks THEN @ ELSE @ + 1,
                                           !.sent = IF g.dup + 1 = DuplicateAcks THEN 0 ELSE @]]
        hit == {seq \in ToSet(w.wait) :
                  LET g == Seg(w, seq) IN passed(g) /\ g.dup + 1 = DuplicateAcks}
    IN  [w EXCEPT !.segs = counted,
                  !.wait = Without(@, hit),
                  !.prio = @ \o Without(w.wait, ToSet(w.wait) \ hit)]

\* ulTCPWindowTxAck and ulTCPWindowTxSack
TxAck(w, ack) ==
    IF AtMost(ack, w.txCur) THEN [n |-> 0, w |-> w] ELSE CheckAck(w, w.txCur, ack)

TxSack(w, first, last) ==
    LET a == CheckAck(w, first, last) IN [a EXCEPT !.w = FastRetransmit(@, first)]
=============================================================================
