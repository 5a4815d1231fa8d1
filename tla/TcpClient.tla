----------------------------- MODULE TcpClient -----------------------------
(***************************************************************************)
(* The other end of the connection and the network between: no code of the *)
(* repository.  The client is a well-behaved TCP: it sends a request in    *)
(* segments that never change, stays within the window it was offered,     *)
(* acknowledges what it gets, selectively where there is a gap, and sends  *)
(* a FIN when it has no more to send.  It may also reset the connection.   *)
(*                                                                         *)
(* Packets to the server are a set: they arrive in any order or are lost.  *)
(* Packets from the server arrive at once or are lost.                     *)
(***************************************************************************)
EXTENDS TcpSocket

CONSTANTS
    PeerISS,    \* the client's initial sequence number
    PeerWin,    \* the window it offers
    MaxNet,     \* bound: packets on their way to the server
    Cases       \* what the client asks for, and bounds: for each case the lengths of
                \* the segments of the request, the readings there are, and the number
                \* of losses, repetitions, time-outs and failed allocations

ASSUME ClientAssumption ==
    /\ PeerISS \in 0..(SeqSpace - 1) /\ PeerWin \in Nat
    /\ MaxNet \in Nat
    /\ \A c \in Cases : c.request \in Seq(1..MSS) /\ c.readings \in Nat /\ c.faults \in Nat

VARIABLES
    peer,    \* the client
    net,     \* packets on their way to the server
    faults   \* faults there may still be

NewPeer(request) ==
    [state |-> "CLOSED", request |-> request,
     next |-> 1,                   \* the first segment not sent yet
     una |-> Plus(PeerISS, 1),     \* the first byte not acknowledged
     edge |-> Plus(PeerISS, 1),    \* the end of the window offered by the server
     rcv |-> 0,                    \* the next byte expected of the server
     got |-> {},                   \* <<place, byte>> of the bytes received
     fin |-> FALSE,                \* it has sent a FIN
     eof |-> FALSE,                \* it has received one in order
     sack |-> <<>>, owes |-> FALSE]

\* The number of bytes in the first segments of a request, however many
Before(request) ==
    LET sum[j \in 0..Len(request)] == IF j = 0 THEN 0 ELSE sum[j - 1] + request[j] IN sum

\* Where segment i begins, for i one more than the last where the request ends
Start(i) == Plus(PeerISS, 1 + Before(peer.request)[i - 1])
Count == Len(peer.request)
End == Start(Count + 1)

Segments(i) == Less(peer.una, Start(i + 1))  \* segment i is not acknowledged

Put(p) == Cardinality(net) < MaxNet /\ p \notin net /\ net' = net \cup {p}
Fault(n) == n <= faults /\ faults' = faults - n

\* The sequence number after all that was sent
SndNext(c) == IF c.fin THEN Plus(End, 1) ELSE Start(c.next)

Segment(c, i, fin) ==
    [flags |-> {"ACK", "PSH"} \cup (IF fin THEN {"FIN"} ELSE {}), seq |-> Start(i),
     len |-> c.request[i], ack |-> c.rcv, win |-> PeerWin, sack |-> c.sack]
Bare(c, flags, seq) ==
    [flags |-> flags, seq |-> seq, len |-> 0, ack |-> c.rcv, win |-> PeerWin, sack |-> c.sack]

-----------------------------------------------------------------------------
(* What the client does with a packet from the server *)

\* The next byte expected once the bytes at the places in S are there
Advance(from, S) ==
    LET next[i \in 0..Cardinality(S)] ==
            IF i = 0 THEN from
            ELSE LET a == next[i - 1] IN IF a \in S THEN Plus(a, 1) ELSE a
    IN  next[Cardinality(S)]

Gets(c, q) ==
    LET got  == c.got \cup {<<Plus(q.seq, i - 1), q.data[i]>> : i \in DOMAIN q.data}
        ahead == {b[1] : b \in {b \in got : Diff(b[1], c.rcv) >= 0}}
        rcv  == Advance(c.rcv, ahead)
        eof  == c.eof \/ ("FIN" \in q.flags /\ Plus(q.seq, Len(q.data)) = rcv)
        edge == Plus(q.ack, q.win)
    IN  [c EXCEPT !.got = got, !.eof = eof,
                  !.rcv = IF eof /\ ~c.eof THEN Plus(rcv, 1) ELSE rcv,
                  !.una = IF Less(@, q.ack) THEN q.ack ELSE @,
                  !.edge = IF Less(@, edge) THEN edge ELSE @,
                  !.sack = IF q.data # <<>> /\ Diff(q.seq, rcv) > 0
                           THEN <<q.seq, Plus(q.seq, Len(q.data))>> ELSE <<>>,
                  !.owes = @ \/ q.data # <<>> \/ "FIN" \in q.flags]

Hears(c, q) ==
    IF c.state \in {"CLOSED", "GONE"} THEN c
    ELSE IF "RST" \in q.flags THEN [c EXCEPT !.state = "GONE"]
    ELSE IF "SYN" \in q.flags
    THEN (IF c.state = "SYN_SENT"
          THEN [c EXCEPT !.state = "OPEN", !.rcv = Plus(q.seq, 1), !.owes = TRUE,
                         !.edge = Plus(q.ack, q.win)]
          ELSE [c EXCEPT !.owes = TRUE])
    ELSE IF c.state = "SYN_SENT" THEN c
    ELSE Gets(c, q)

HearsAll(c, out, lost) ==
    LET heard[i \in 0..Len(out)] ==
            IF i = 0 THEN c
            ELSE IF i \in lost THEN heard[i - 1] ELSE Hears(heard[i - 1], out[i])
    IN  heard[Len(out)]

\* The client gets some of the packets that the server has just sent; n faults
\* were met on the way.
Transmit(out, n) ==
    \E lost \in SUBSET DOMAIN out :
        /\ Fault(Cardinality(lost) + n)
        /\ peer' = HearsAll(peer, out, lost)

-----------------------------------------------------------------------------
(* What the client does of its own *)

Connect ==
    /\ peer.state = "CLOSED"
    /\ Put([Bare(peer, {"SYN"}, PeerISS) EXCEPT !.ack = 0])
    /\ peer' = [peer EXCEPT !.state = "SYN_SENT"]
    /\ UNCHANGED faults

\* The SYN is sent again, once the first has arrived or is lost.
ConnectAgain ==
    /\ peer.state = "SYN_SENT" /\ \A p \in net : "SYN" \notin p.flags
    /\ Put([Bare(peer, {"SYN"}, PeerISS) EXCEPT !.ack = 0])
    /\ Fault(1)
    /\ UNCHANGED peer

SendSegment(fin) ==
    /\ peer.state = "OPEN" /\ peer.next <= Count
    /\ AtMost(Start(peer.next + 1), peer.edge)
    /\ fin => peer.next = Count
    /\ Put(Segment(peer, peer.next, fin))
    /\ peer' = [peer EXCEPT !.next = @ + 1, !.fin = fin, !.owes = FALSE, !.sack = <<>>]
    /\ UNCHANGED faults

SendFin ==
    /\ peer.state = "OPEN" /\ peer.next > Count /\ ~peer.fin
    /\ Put(Bare(peer, {"ACK", "FIN"}, End))
    /\ peer' = [peer EXCEPT !.fin = TRUE, !.owes = FALSE, !.sack = <<>>]
    /\ UNCHANGED faults

SendAck ==
    /\ peer.state = "OPEN" /\ peer.owes
    /\ Put(Bare(peer, {"ACK"}, SndNext(peer)))
    /\ peer' = [peer EXCEPT !.owes = FALSE, !.sack = <<>>]
    /\ UNCHANGED faults

\* What is not acknowledged is sent again.
SendAgain ==
    /\ peer.state = "OPEN" /\ peer.una # SndNext(peer)
    /\ \/ \E i \in 1..(peer.next - 1) : Segments(i) /\ Put(Segment(peer, i, FALSE))
       \/ peer.fin /\ Put(Bare(peer, {"ACK", "FIN"}, End))
    /\ Fault(1)
    /\ UNCHANGED peer

\* A probe of a window that is closed, when nothing is on its way: a byte before the
\* first one expected
Probe ==
    /\ peer.state = "OPEN" /\ peer.next \in 2..Count
    /\ peer.una = Start(peer.next) /\ Less(peer.edge, Start(peer.next + 1))
    /\ Put(Bare(peer, {"ACK"}, Plus(peer.una, -1)))
    /\ Fault(1)
    /\ UNCHANGED peer

Abort ==
    /\ peer.state = "OPEN"
    /\ Put(Bare(peer, {"ACK", "RST"}, SndNext(peer)))
    /\ peer' = [peer EXCEPT !.state = "GONE"]
    /\ Fault(1)

Lose ==
    /\ \E p \in net : net' = net \ {p}
    /\ Fault(1)
    /\ UNCHANGED peer

ClientNext ==
    \/ Connect \/ ConnectAgain \/ \E fin \in BOOLEAN : SendSegment(fin)
    \/ SendFin \/ SendAck \/ SendAgain \/ Probe \/ Abort \/ Lose
=============================================================================
