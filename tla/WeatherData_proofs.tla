------------------------- MODULE WeatherData_proofs -------------------------
(***************************************************************************)
(* The data of a connection of the weather server, for every request that  *)
(* is shorter than half of the sequence space, any number of readings,     *)
(* sizes of the buffers and number of faults: what the application reads   *)
(* is what the client sent, in order and once.                             *)
(***************************************************************************)
EXTENDS WeatherServer_proofs

-----------------------------------------------------------------------------
(* The receive buffer and the request *)

\* The bytes from one place of the request up to another are in the buffer,
\* whose tail is at t.
InPlace(b, t, from, to) == \A x \in from..(to - 1) : Cell(b, x - t) = AtPeer(x)

\* A piece that came too early is further on, and in the buffer.
Ahead(b, g, t, e) ==
    /\ Off(g.seq) > e /\ Off(g.seq) + g.len - t <= RxLength - 1
    /\ InPlace(b, t, Off(g.seq), Off(g.seq) + g.len)

FinTook(s) == IF s.finAccepted THEN 1 ELSE 0

\* The server task has read up to t, the next byte expected is e.
RxAt(s, q, t, e) ==
    /\ e \in Edges(q) /\ t \in 1..e /\ s.win.rxCur = AtPeer(e + FinTook(s))
    /\ s.win.stored \subseteq Pieces(q)
    /\ s.rx = NoStream => e = 1 /\ s.win.stored = {}
    /\ s.rx # NoStream => /\ IsRing(s.rx, RxLength) /\ GetSize(s.rx) = e - t
                          /\ InPlace(s.rx, t, t, e)
                          /\ \A g \in s.win.stored : Ahead(s.rx, g, t, e)
    /\ s.finAccepted => e = Total(q) + 1 /\ s.win.stored = {}

\* As long as anyone cares for it
Cares(s) ==
    \/ s.finAccepted
    \/ ~s.finSent /\ (s.rx # NoStream \/ s.state \in {"SYN_RECEIVED", "ESTABLISHED"})

High(s, q) == \E h \in 0..(Total(q) + 2) : s.win.rxHigh = AtPeer(h)

RxGood(s, q, t) ==
    /\ s.finAccepted => s.finSent
    /\ s.state \in {"LISTEN", "SYN_FIRST", "SYN_RECEIVED", "ESTABLISHED"} => ~s.finSent
    /\ s.state \in {"FIN_WAIT_1", "LAST_ACK"} => s.finSent
    /\ s.finRecv => s.win.rxFin = AtPeer(Total(q) + 1)
    /\ s.state \in {"SYN_RECEIVED", "ESTABLISHED"} => High(s, q)
    /\ s.state \in {"LISTEN", "SYN_FIRST", "SYN_RECEIVED"} => s.rx = NoStream /\ t = 1
    /\ s.state = "SYN_FIRST" => s.win.stored = {}
    /\ s.state = "LISTEN" => ~s.finRecv
    /\ Cares(s) => \E e \in Edges(q) : RxAt(s, q, t, e)

Resting == {"CLOSED", "LISTEN", "SYN_RECEIVED", "ESTABLISHED", "FIN_WAIT_1", "CLOSE_WAIT", "LAST_ACK"}

\* lTCPWindowRxCheck on a piece of the request that is refused, that continues
\* the data, and that is ahead of it
Refuses(c, w) == c.offset = -1 /\ c.w.rxCur = w.rxCur /\ c.w.stored = w.stored
Continues(c, w, q, z, x) ==
    /\ c.offset = 0 /\ c.w.rxCur = AtPeer(x) /\ c.w.userData = x - z /\ x \in Edges(q) /\ x >= z
    /\ c.w.stored \subseteq w.stored /\ \A g \in c.w.stored : Off(g.seq) > x
    /\ \A y \in z..(x - 1) : \E g \in w.stored : Off(g.seq) <= y /\ y < Off(g.seq) + g.len
Fills(c, w, g, d) ==
    c.offset = d /\ c.w.rxCur = w.rxCur /\ c.w.userData = 0 /\ c.w.stored = w.stored \cup {g}

LEMMA PeerOrder ==
    ASSUME NEW q, IsRequest(q), NEW x \in 0..(Total(q) + 2), NEW y \in 0..(Total(q) + 2)
    PROVE  /\ Diff(AtPeer(x), AtPeer(y)) = x - y
           /\ AtMost(AtPeer(x), AtPeer(y)) <=> x <= y
           /\ Less(AtPeer(x), AtPeer(y)) <=> x < y
           /\ AtPeer(x) = AtPeer(y) <=> x = y
<1>1. x \in Reach /\ y \in Reach /\ PeerISS \in Int
  BY RequestReach, PeerIs
<1>. QED
  BY <1>1, SeqOrder DEF AtPeer

LEMMA FurtherOn ==
    ASSUME NEW q, IsRequest(q), NEW i \in 1..Len(q), NEW g \in Pieces(q), Off(g.seq) > Place(q, i)
    PROVE  Off(g.seq) >= Place(q, i + 1)
<1>1. PICK j \in 1..Len(q) : g = Piece(q, j)
  BY RequestReach
<1>2. Off(g.seq) = Place(q, j) /\ Place(q, j) \in 1..Total(q) /\ Place(q, i) \in 1..Total(q) /\ Total(q) \in Nat
  BY <1>1, PieceIs, RequestReach
<1>3. q \in Seq(1..MSS) /\ Len(q) \in Nat
  BY RequestReach
<1>4. /\ i \in 1..(Len(q) + 1) /\ j \in 1..(Len(q) + 1) /\ i + 1 \in 1..(Len(q) + 1)
  BY <1>3
<1>5. Place(q, i + 1) \in 1..(Total(q) + 1)
  BY PieceIs
<1>6. j # i
  BY <1>2
<1>7. ~(j < i)
  BY <1>2, <1>3, <1>4, PlaceGrows
<1>8. j = i + 1 \/ i + 1 < j
  BY <1>6, <1>7
<1>9. i + 1 < j => Place(q, i + 1) < Place(q, j)
  BY <1>3, <1>4, PlaceGrows
<1>. QED
  BY <1>2, <1>5, <1>8, <1>9

-----------------------------------------------------------------------------
(* lTCPWindowRxCheck on a piece of the request *)

LEMMA InOrderIs ==
    ASSUME NEW q, IsRequest(q), NEW i \in 1..Len(q), NEW v, IsWin(v), NEW space \in Int,
           v.stored \subseteq Pieces(q), \A g \in v.stored : Off(g.seq) > Place(q, i), q[i] <= space
    PROVE  \E x : Continues(InOrder(v, AtPeer(Place(q, i)), q[i], space), v, q, Place(q, i + 1), x)
<1>. DEFINE a == Place(q, i)   n == q[i]   z == Place(q, i + 1)
            inside == {g \in v.stored : AtMost(AtPeer(a), g.seq) /\ Less(g.seq, Plus(AtPeer(a), n))}
<1>1. /\ z \in Edges(q) /\ a \in 1..Total(q) /\ n \in Nat /\ z = a + n /\ z \in 1..(Total(q) + 1)
      /\ Total(q) \in Nat /\ Plus(AtPeer(a), n) = AtPeer(z)
  BY PieceIs, RequestReach
<1>2. ASSUME NEW g \in v.stored PROVE Off(g.seq) >= z
  BY <1>2, FurtherOn
<1>3. inside = {}
  <2>1. ASSUME NEW g \in v.stored PROVE ~Less(g.seq, Plus(AtPeer(a), n))
    <3>1. PICK j \in 1..Len(q) : g = Piece(q, j)
      BY <2>1, RequestReach
    <3>2. g.seq = AtPeer(Place(q, j)) /\ Off(g.seq) = Place(q, j) /\ Place(q, j) \in 1..Total(q)
      BY <3>1, PieceIs
    <3>. DEFINE y == Place(q, j)
    <3>3. y >= z /\ y \in 0..(Total(q) + 2) /\ z \in 0..(Total(q) + 2)
      BY <1>1, <1>2, <3>2, SMTT(20)
    <3>4. g.seq = AtPeer(y)
      BY <3>2
    <3>. HIDE DEF y, a, n, z
    <3>5. ~Less(AtPeer(y), AtPeer(z))
      BY <3>3, PeerOrder
    <3>. QED
      BY <1>1, <3>4, <3>5
  <2>. QED
    BY <2>1
<1>4. Confirm(v, AtPeer(a), n) = [end |-> AtPeer(z), left |-> v.stored]
  BY <1>1, <1>3 DEF Confirm
<1>. DEFINE run == RunFrom(AtPeer(z), v.stored)
            c == InOrder(v, AtPeer(a), n, space)
<1>5. c = [w |-> [v EXCEPT !.rxCur = run.end, !.stored = run.left,
                           !.userData = (run.end - AtPeer(z)) % SeqSpace],
           offset |-> 0]
  <2>1. Confirm(v, AtPeer(a), n).end = AtPeer(z) /\ Confirm(v, AtPeer(a), n).left = v.stored
    BY <1>4
  <2>2. n <= space /\ ~(n > space) /\ Plus(AtPeer(a), n) = AtPeer(z)
    <3>1. n <= space
      OBVIOUS
    <3>2. ~(n > space)
      BY <3>1, <1>1
    <3>. QED
      BY <1>1, <3>1, <3>2
  <2>. HIDE DEF a, n, z
  <2>. DEFINE M == Confirm(v, AtPeer(a), n)   R == RunFrom(M.end, M.left)
  <2>3. c = [w |-> [v EXCEPT !.rxCur = R.end, !.stored = R.left,
                             !.userData = (R.end - Plus(AtPeer(a), n)) % SeqSpace],
             offset |-> 0]
    BY <2>2 DEF InOrder
  <2>4. R = run
    BY <2>1
  <2>. HIDE DEF R, run, c
  <2>. QED
    BY <2>2, <2>3, <2>4
<1>6. PICK x : Ran(run, q, z, v.stored, x) /\ \A g \in run.left : Off(g.seq) > x
  <2>1. z \in Edges(q) /\ \A g \in v.stored : Off(g.seq) >= z
    BY <1>1, <1>2
  <2>. HIDE DEF z
  <2>. QED
    BY <2>1, RunFromIs
<1>7. /\ x \in Edges(q) /\ x >= z /\ run.end = AtPeer(x) /\ run.left \subseteq v.stored
      /\ \A y \in z..(x - 1) : \E g \in v.stored : Off(g.seq) <= y /\ y < Off(g.seq) + g.len
  BY <1>6 DEF Ran
<1>8. (AtPeer(x) - AtPeer(z)) % SeqSpace = x - z
  <2>1. x \in 0..(Total(q) + 2) /\ z \in 0..(Total(q) + 2) /\ PeerISS \in Int
    BY <1>1, <1>7, RequestReach, PeerIs
  <2>. HIDE DEF z
  <2>2. (AtPeer(x) - AtPeer(z) + 0) % SeqSpace = (x - z + 0) % SeqSpace
    BY <2>1, PlusMinus DEF AtPeer
  <2>3. AtPeer(x) \in Int /\ AtPeer(z) \in Int
    <3>1. x \in Int /\ z \in Int /\ PeerISS \in Int
      BY <2>1
    <3>2. Plus(PeerISS, x) \in Int /\ Plus(PeerISS, z) \in Int
      BY <3>1, PlusInt
    <3>. QED
      BY <3>2 DEF AtPeer
  <2>4. (x - z) \in 0..(SeqSpace - 1)
    <3>1. 2 * (Total(q) + 4) < SeqSpace /\ Total(q) \in Nat
      BY <1>1 DEF IsRequest
    <3>. QED
      BY <1>7, <2>1, <3>1, SpaceIs
  <2>5. (x - z) % SeqSpace = x - z
    <3>. DEFINE u == x - z
    <3>1. u \in 0..(SeqSpace - 1)
      BY <2>4
    <3>2. u \in Int /\ SeqSpace \in Nat \ {0}
      BY <3>1, SpaceIs
    <3>. HIDE DEF u
    <3>3. u % SeqSpace = u
      BY <3>1, <3>2, ModSmall
    <3>. QED
      BY <3>3 DEF u
  <2>6. AtPeer(x) - AtPeer(z) + 0 = AtPeer(x) - AtPeer(z) /\ x - z + 0 = x - z
    BY <2>1, <2>3
  <2>. QED
    BY <2>2, <2>5, <2>6
<1>. HIDE DEF run, z, a, n, c
<1>9. c.offset = 0 /\ c.w.rxCur = AtPeer(x) /\ c.w.userData = x - z /\ c.w.stored = run.left
  BY <1>5, <1>7, <1>8 DEF IsWin, WinFields
<1>10. Continues(c, v, q, z, x)
  BY <1>6, <1>7, <1>9 DEF Continues
<1>. USE DEF c, a, n, z
<1>. QED
  BY <1>10, Zenon

LEMMA TooEarlyIs ==
    ASSUME NEW q, IsRequest(q), NEW i \in 1..Len(q), NEW v, IsWin(v), NEW space \in Int,
           NEW e \in 1..(Total(q) + 1), NEW f \in {0, 1}, v.rxCur = AtPeer(e + f),
           f = 1 => e = Total(q) + 1, e < Place(q, i) \/ Place(q, i + 1) <= e,
           v.userData = 0
    PROVE  LET c == TooEarly(v, AtPeer(Place(q, i)), q[i], space)
           IN  \/ Refuses(c, v)
               \/ /\ f = 0 /\ e < Place(q, i) /\ Place(q, i + 1) - e <= space
                  /\ Fills(c, v, Piece(q, i), Place(q, i) - e)
<1>. DEFINE a == Place(q, i)   n == q[i]   z == Place(q, i + 1)   r == e + f
            c == TooEarly(v, AtPeer(a), n, space)
            distance == Diff(Plus(AtPeer(a), n), v.rxCur)
<1>1. /\ a \in 1..Total(q) /\ n \in Nat /\ z = a + n /\ z \in 1..(Total(q) + 1)
      /\ Total(q) \in Nat /\ Plus(AtPeer(a), n) = AtPeer(z)
  BY PieceIs, RequestReach, ZenonT(40)
<1>2. a \in 0..(Total(q) + 2) /\ z \in 0..(Total(q) + 2) /\ r \in 0..(Total(q) + 2)
  BY <1>1
<1>3. v.rxCur = AtPeer(r)
  OBVIOUS
<1>4. Piece(q, i) = [seq |-> AtPeer(a), len |-> n]
  BY DEF Piece
<1>. HIDE DEF a, n, z, r
<1>5. distance = z - r /\ Diff(AtPeer(a), v.rxCur) = a - r
  BY <1>1, <1>2, <1>3, PeerOrder, SMTT(20)
<1>6. \/ Refuses(c, v)
      \/ /\ ~(distance <= 0 \/ distance > space)
         /\ c = [w |-> [v EXCEPT !.stored = @ \cup {[seq |-> AtPeer(a), len |-> n]},
                                 !.opt = <<AtPeer(a), RunFrom(Plus(AtPeer(a), n), v.stored).end>>],
                 offset |-> Diff(AtPeer(a), v.rxCur)]
  <2>. DEFINE known == \E g \in v.stored : g.seq = AtPeer(a)
              sack == <<AtPeer(a), RunFrom(Plus(AtPeer(a), n), v.stored).end>>
              b == [v EXCEPT !.stored = @ \cup {[seq |-> AtPeer(a), len |-> n]}, !.opt = sack]
  <2>1. c = IF distance <= 0 \/ distance > space THEN Refused(v)
            ELSE IF known THEN Refused([v EXCEPT !.opt = sack])
            ELSE IF FreeSegments(v) = 0 THEN Refused(v)
            ELSE [w |-> b, offset |-> Diff(AtPeer(a), v.rxCur)]
    BY DEF TooEarly
  <2>. HIDE DEF distance, known, sack
  <2>2. Refuses(Refused(v), v) /\ Refuses(Refused([v EXCEPT !.opt = sack]), v)
    BY DEF Refuses, Refused, IsWin, WinFields
  <2>. HIDE DEF b, c
  <2>3. Refuses(c, v) \/ (~(distance <= 0 \/ distance > space) /\ c = [w |-> b, offset |-> Diff(AtPeer(a), v.rxCur)])
    BY <2>1, <2>2
  <2>. QED
    BY <2>3 DEF b, sack
<1>7. ASSUME ~(distance <= 0 \/ distance > space)
      PROVE  f = 0 /\ e < a /\ z - e <= space /\ r = e
  <2>. HIDE DEF distance
  <2>1. z - r > 0 /\ z - r <= space /\ z \in Int /\ r \in Int
    BY <1>2, <1>5, <1>7
  <2>2. e \in Int /\ r = e + f /\ (f = 0 \/ f = 1)
    BY DEF r
  <2>3. f = 0
    BY <1>1, <2>1, <2>2
  <2>4. e < a \/ z <= e
    BY DEF a, z
  <2>. QED
    BY <2>1, <2>2, <2>3, <2>4
<1>8. ASSUME ~(distance <= 0 \/ distance > space),
             c = [w |-> [v EXCEPT !.stored = @ \cup {[seq |-> AtPeer(a), len |-> n]},
                                 !.opt = <<AtPeer(a), RunFrom(Plus(AtPeer(a), n), v.stored).end>>],
                 offset |-> Diff(AtPeer(a), v.rxCur)]
      PROVE  Fills(c, v, Piece(q, i), a - e)
  <2>1. r = e
    BY <1>7, <1>8
  <2>2. c.offset = a - e
    BY <1>5, <1>8, <2>1
  <2>. DEFINE S == {[seq |-> AtPeer(a), len |-> n]}   k == <<AtPeer(a), RunFrom(Plus(AtPeer(a), n), v.stored).end>>
  <2>3. c.w = [v EXCEPT !.stored = @ \cup S, !.opt = k]
    BY <1>8
  <2>4. S = {Piece(q, i)}
    BY <1>4
  <2>. HIDE DEF S, k, c
  <2>5. c.w.rxCur = v.rxCur /\ c.w.stored = v.stored \cup S /\ c.w.userData = v.userData
    BY <2>3 DEF IsWin, WinFields
  <2>. QED
    BY <2>2, <2>4, <2>5 DEF Fills
<1>. QED
  BY <1>6, <1>7, <1>8 DEF a, n, z

-----------------------------------------------------------------------------
\* What becomes of a piece of the request when e is the next byte expected
Outcome(c, w, q, i, e, f, space) ==
    \/ Refuses(c, w)
    \/ f = 0 /\ e = Place(q, i) /\ q[i] <= space /\ \E x : Continues(c, w, q, Place(q, i + 1), x)
    \/ f = 0 /\ e < Place(q, i) /\ Place(q, i + 1) - e <= space /\ Fills(c, w, Piece(q, i), Place(q, i) - e)
Expects(w, q, e, f) ==
    /\ e \in Edges(q) /\ f \in {0, 1} /\ w.rxCur = AtPeer(e + f) /\ w.stored \subseteq Pieces(q)
    /\ \A g \in w.stored : Off(g.seq) > e
    /\ f = 1 => e = Total(q) + 1

LEMMA EdgeIs ==
    ASSUME NEW q, IsRequest(q), NEW i \in 1..Len(q), NEW e \in Edges(q)
    PROVE  e < Place(q, i) \/ e = Place(q, i) \/ Place(q, i + 1) <= e
<1>1. PICK j \in 1..(Len(q) + 1) : e = Place(q, j)
  BY DEF Edges
<1>2. q \in Seq(1..MSS) /\ Len(q) \in Nat /\ i \in 1..(Len(q) + 1)
  BY RequestReach
<1>3. Place(q, i + 1) = Place(q, i) + q[i]
  BY PieceIs
<1>4. i < j => Place(q, i) + q[i] <= Place(q, j)
  BY <1>2, PlaceGrows
<1>5. j < i => Place(q, j) < Place(q, i)
  BY <1>2, PlaceGrows
<1>6. i < j \/ i = j \/ j < i
  BY <1>2
<1>. QED
  BY <1>1, <1>3, <1>4, <1>5, <1>6

LEMMA RxCheckIs ==
    ASSUME NEW q, IsRequest(q), NEW i \in 1..Len(q), NEW w, IsWin(w), NEW space \in Int,
           NEW e, NEW f, Expects(w, q, e, f)
    PROVE  Outcome(RxCheck(w, AtPeer(Place(q, i)), q[i], space), w, q, i, e, f, space)
<1>. DEFINE v == [w EXCEPT !.opt = <<>>, !.userData = 0]
            a == Place(q, i)   n == q[i]
            c == RxCheck(w, AtPeer(a), n, space)
<1>1. /\ e \in Edges(q) /\ e \in 1..(Total(q) + 1) /\ f \in {0, 1} /\ w.rxCur = AtPeer(e + f)
      /\ w.stored \subseteq Pieces(q) /\ \A g \in w.stored : Off(g.seq) > e
      /\ f = 1 => e = Total(q) + 1
  BY RequestReach DEF Expects
<1>2. IsWin(v) /\ v.rxCur = w.rxCur /\ v.stored = w.stored /\ v.userData = 0
  BY DEF IsWin, WinFields
<1>3. a \in 1..Total(q) /\ Total(q) \in Nat /\ a \in 0..(Total(q) + 2) /\ e + f \in 0..(Total(q) + 2)
  BY <1>1, PieceIs, RequestReach
<1>4. v.rxCur = AtPeer(a) <=> e + f = a
  <2>. DEFINE r == e + f
  <2>. HIDE DEF r, a
  <2>1. AtPeer(r) = AtPeer(a) <=> r = a
    BY <1>3, PeerOrder DEF r
  <2>. HIDE DEF v
  <2>. QED
    BY <1>1, <1>2, <2>1 DEF r
<1>5. c = IF v.rxCur = AtPeer(a) THEN InOrder(v, AtPeer(a), n, space)
          ELSE IF v.rxCur = Plus(AtPeer(a), 1) THEN Refused(v)
          ELSE TooEarly(v, AtPeer(a), n, space)
  BY DEF RxCheck
<1>6. CASE v.rxCur = AtPeer(a)
  <2>1. f = 0 /\ e = a
    BY <1>1, <1>3, <1>4, <1>6
  <2>2. c = InOrder(v, AtPeer(a), n, space)
    BY <1>5, <1>6
  <2>3. CASE n <= space
    <3>1. v.stored \subseteq Pieces(q) /\ \A g \in v.stored : Off(g.seq) > Place(q, i)
      BY <1>1, <1>2, <2>1
    <3>2. \E x : Continues(InOrder(v, AtPeer(Place(q, i)), q[i], space), v, q, Place(q, i + 1), x)
      <4>. HIDE DEF v
      <4>. QED
        BY <1>2, <2>3, <3>1, InOrderIs, Zenon
    <3>3. PICK x : Continues(c, v, q, Place(q, i + 1), x)
      BY <2>2, <3>2
    <3>. HIDE DEF c, v
    <3>4. Continues(c, w, q, Place(q, i + 1), x)
      BY <1>2, <3>3 DEF Continues
    <3>5. Outcome(c, w, q, i, e, f, space)
      BY <2>1, <2>3, <3>4 DEF Outcome
    <3>. QED
      BY <3>5 DEF c
  <2>4. CASE ~(n <= space)
    <3>1. n > space
      BY <2>4, PieceIs
    <3>. HIDE DEF n, v
    <3>2. c = Refused(v)
      <4>1. InOrder(v, AtPeer(a), n, space) = Refused(v)
        BY <3>1 DEF InOrder
      <4>. QED
        BY <2>2, <4>1
    <3>. QED
      BY <1>2, <3>2 DEF Outcome, Refuses, Refused, n
  <2>. QED
    BY <2>3, <2>4
<1>7. CASE v.rxCur # AtPeer(a) /\ v.rxCur = Plus(AtPeer(a), 1)
  <2>. HIDE DEF v
  <2>1. c = Refused(v)
    BY <1>5, <1>7
  <2>. QED
    BY <1>2, <2>1 DEF Outcome, Refuses, Refused
<1>8. CASE v.rxCur # AtPeer(a) /\ v.rxCur # Plus(AtPeer(a), 1)
  <2>1. c = TooEarly(v, AtPeer(a), n, space)
    BY <1>5, <1>8
  <2>2. e < Place(q, i) \/ Place(q, i + 1) <= e
    <3>1. e < Place(q, i) \/ e = Place(q, i) \/ Place(q, i + 1) <= e
      BY <1>1, EdgeIs
    <3>2. e = a => f = 1
      BY <1>1, <1>3, <1>4, <1>8
    <3>3. e # a
      BY <1>1, <1>3, <3>2
    <3>. QED
      BY <3>1, <3>3
  <2>3. v.rxCur = AtPeer(e + f)
    BY <1>1, <1>2
  <2>. HIDE DEF v
  <2>4. \/ Refuses(TooEarly(v, AtPeer(Place(q, i)), q[i], space), v)
        \/ /\ f = 0 /\ e < Place(q, i) /\ Place(q, i + 1) - e <= space
           /\ Fills(TooEarly(v, AtPeer(Place(q, i)), q[i], space), v, Piece(q, i), Place(q, i) - e)
    BY <1>1, <1>2, <2>2, <2>3, TooEarlyIs, Zenon
  <2>. HIDE DEF c
  <2>5. \/ Refuses(c, v)
        \/ /\ f = 0 /\ e < Place(q, i) /\ Place(q, i + 1) - e <= space
           /\ Fills(c, v, Piece(q, i), Place(q, i) - e)
    BY <2>1, <2>4
  <2>6. Outcome(c, w, q, i, e, f, space)
    BY <1>2, <2>5 DEF Outcome, Refuses, Fills
  <2>. QED
    BY <2>6 DEF c
<1>. QED
  BY <1>6, <1>7, <1>8

-----------------------------------------------------------------------------
(* What is added to the receive buffer *)

\* n bytes of the request from a on
Bytes(data, a, n) == Len(data) = n /\ \A k \in 1..n : data[k] = AtPeer(a + k - 1)

LEMMA PacketDataIs ==
    ASSUME NEW p, NEW a \in Int, p.seq = AtPeer(a), p.len \in Nat
    PROVE  Bytes(PacketData(p), a, p.len)
<1>1. DOMAIN PacketData(p) = 1..p.len /\ Len(PacketData(p)) = p.len
  BY DEF PacketData
<1>2. ASSUME NEW k \in 1..p.len PROVE PacketData(p)[k] = AtPeer(a + k - 1)
  <2>. DEFINE y == k - 1
  <2>1. PacketData(p)[k] = Plus(AtPeer(a), y)
    BY DEF PacketData
  <2>2. y \in Int /\ PeerISS \in Int /\ a + k - 1 = a + y
    BY PeerIs
  <2>. HIDE DEF y
  <2>3. Plus(Plus(PeerISS, a), y) = Plus(PeerISS, a + y)
    BY <2>2, PlusPlus
  <2>. QED
    BY <2>1, <2>2, <2>3 DEF AtPeer
<1>. QED
  BY <1>1, <1>2 DEF Bytes

\* Every byte that is where it belongs in b is there in c.
Keeps(c, b, t) ==
    \A from \in Nat, to \in Nat :
        t <= from /\ to - t <= RxLength /\ InPlace(b, t, from, to) => InPlace(c, t, from, to)

LEMMA KeepsPlace ==
    ASSUME NEW c, NEW b, NEW t \in Nat, Keeps(c, b, t), NEW from \in Nat, NEW to \in Nat,
           t <= from, to - t <= RxLength, InPlace(b, t, from, to)
    PROVE  InPlace(c, t, from, to)
BY DEF Keeps

LEMMA PiecesAre ==
    ASSUME NEW q, IsRequest(q), NEW g \in Pieces(q)
    PROVE  Off(g.seq) \in Nat /\ g.len \in Nat /\ Off(g.seq) + g.len \in Nat
<1>1. PICK j \in 1..Len(q) : g = Piece(q, j)
  BY RequestReach
<1>2. Off(Piece(q, j).seq) = Place(q, j) /\ Piece(q, j).len = q[j]
  BY PieceIs
<1>3. Place(q, j) \in Nat /\ q[j] \in Nat
  BY PieceIs
<1>. DEFINE a == Place(q, j)   n == q[j]
<1>4. a \in Nat /\ n \in Nat /\ Off(g.seq) = a /\ g.len = n
  BY <1>1, <1>2, <1>3
<1>. HIDE DEF a, n
<1>. QED
  BY <1>4

LEMMA AheadIs ==
    ASSUME NEW b, NEW g, NEW t \in Nat, NEW e \in Nat, g.len \in Nat,
           NEW u \in Nat, u = Off(g.seq), NEW v \in Nat, v = Off(g.seq) + g.len
    PROVE  Ahead(b, g, t, e) <=> (u > e /\ v - t <= RxLength - 1 /\ InPlace(b, t, u, v))
BY TxLengthIs DEF Ahead

LEMMA AheadKept ==
    ASSUME NEW q, IsRequest(q), NEW g \in Pieces(q), NEW b, NEW c, NEW t \in Nat, NEW e \in Nat, NEW x \in Nat,
           t <= e, Ahead(b, g, t, e), Keeps(c, b, t), Off(g.seq) > x
    PROVE  Ahead(c, g, t, x)
<1>. DEFINE u == Off(g.seq)   v == Off(g.seq) + g.len
<1>1. g.len \in Nat /\ u \in Nat /\ v \in Nat
  BY PiecesAre
<1>2. u = Off(g.seq) /\ v = Off(g.seq) + g.len /\ u > x
  OBVIOUS
<1>. HIDE DEF u, v
<1>3. u > e /\ v - t <= RxLength - 1 /\ InPlace(b, t, u, v)
  <2>1. Ahead(b, g, t, e) <=> (u > e /\ v - t <= RxLength - 1 /\ InPlace(b, t, u, v))
    BY <1>1, <1>2, TxLengthIs DEF Ahead
  <2>. QED
    BY <2>1, Zenon
<1>4. t <= u /\ v - t <= RxLength
  BY <1>1, <1>3, TxLengthIs
<1>5. InPlace(c, t, u, v)
  BY <1>1, <1>3, <1>4, KeepsPlace
<1>. QED
  BY <1>1, <1>2, <1>3, <1>5, AheadIs

LEMMA AheadHas ==
    ASSUME NEW q, IsRequest(q), NEW g \in Pieces(q), NEW b, NEW t \in Nat, NEW e \in Nat,
           Ahead(b, g, t, e), NEW y \in Nat, Off(g.seq) <= y, y < Off(g.seq) + g.len
    PROVE  Cell(b, y - t) = AtPeer(y) /\ y - t < RxLength - 1
<1>. DEFINE u == Off(g.seq)   v == Off(g.seq) + g.len
<1>1. g.len \in Nat /\ u \in Nat /\ v \in Nat
  BY PiecesAre
<1>2. u = Off(g.seq) /\ v = Off(g.seq) + g.len /\ u <= y /\ y < v
  OBVIOUS
<1>. HIDE DEF u, v
<1>3. v - t <= RxLength - 1 /\ InPlace(b, t, u, v)
  <2>1. Ahead(b, g, t, e) <=> (u > e /\ v - t <= RxLength - 1 /\ InPlace(b, t, u, v))
    BY <1>1, <1>2, TxLengthIs DEF Ahead
  <2>. QED
    BY <2>1, Zenon
<1>4. y \in u..(v - 1)
  BY <1>1, <1>2
<1>5. Cell(b, y - t) = AtPeer(y)
  BY <1>3, <1>4 DEF InPlace
<1>6. y - t < RxLength - 1
  BY <1>1, <1>2, <1>3, TxLengthIs
<1>. QED
  BY <1>5, <1>6

\* Bytes that are put where they belong leave every other byte where it belongs.
Placing(c, b, t, a, offset, data, n) ==
    /\ IsRing(b, RxLength) /\ t \in Nat /\ a \in Nat /\ offset \in Nat /\ n \in Nat
    /\ offset + n <= GetSpace(b) /\ t + GetSize(b) + offset = a
    /\ Bytes(data, a, n) /\ c = Add(b, offset, data, n)

LEMMA AddPlaced ==
    ASSUME NEW c, NEW b, NEW t, NEW a, NEW offset, NEW data, NEW n, Placing(c, b, t, a, offset, data, n)
    PROVE  /\ Fits(b, offset, n) = n
           /\ IsRing(c, RxLength)
           /\ GetSize(c) = (IF offset = 0 THEN GetSize(b) + n ELSE GetSize(b))
           /\ InPlace(c, t, a, a + n)
           /\ Keeps(c, b, t)
<1>. /\ IsRing(b, RxLength) /\ t \in Nat /\ a \in Nat /\ offset \in Nat /\ n \in Nat
     /\ offset + n <= GetSpace(b) /\ t + GetSize(b) + offset = a
     /\ Bytes(data, a, n) /\ c = Add(b, offset, data, n)
  BY DEF Placing
<1>0. RxLength \in Nat \ {0} /\ Len(data) = n /\ \A k \in 1..n : data[k] = AtPeer(a + k - 1)
  BY TxLengthIs DEF Bytes
<1>1. /\ Fits(b, offset, n) = n /\ IsRing(c, RxLength)
      /\ GetSize(c) = (IF offset = 0 THEN GetSize(b) + n ELSE GetSize(b))
      /\ \A k \in 0..(RxLength - 1) :
            Cell(c, k) = IF GetSize(b) + offset <= k /\ k < GetSize(b) + offset + n /\ k - (GetSize(b) + offset) < Len(data)
                         THEN data[k - (GetSize(b) + offset) + 1] ELSE Cell(b, k)
  BY <1>0, AddIs
<1>2. GetSize(b) \in 0..(RxLength - 1) /\ GetSpace(b) = RxLength - 1 - GetSize(b)
  BY <1>0, RingIs
<1>. DEFINE z == GetSize(b)
<1>3. z \in Nat /\ z + offset = a - t /\ z + offset + n <= RxLength - 1
  <2>. DEFINE g == GetSpace(b)
  <2>1. z \in 0..(RxLength - 1) /\ g = RxLength - 1 - z /\ offset + n <= g /\ t + z + offset = a
    BY <1>2
  <2>2. RxLength \in Nat
    BY <1>0
  <2>. HIDE DEF z, g
  <2>3. z \in Nat /\ g \in Int
    BY <2>1, <2>2
  <2>. QED
    BY <2>1, <2>2, <2>3
<1>4. \A k \in 0..(RxLength - 1) :
         Cell(c, k) = IF z + offset <= k /\ k < z + offset + n /\ k - (z + offset) < n
                      THEN data[k - (z + offset) + 1] ELSE Cell(b, k)
  <2>1. Len(data) = n
    BY <1>0
  <2>2. \A k \in 0..(RxLength - 1) :
            Cell(c, k) = IF z + offset <= k /\ k < z + offset + n /\ k - (z + offset) < Len(data)
                         THEN data[k - (z + offset) + 1] ELSE Cell(b, k)
    BY <1>1
  <2>. HIDE DEF z
  <2>. QED
    BY <2>1, <2>2, Zenon
<1>. HIDE DEF z
<1>5. ASSUME NEW x \in Nat, t <= x, x - t <= RxLength - 1
      PROVE  Cell(c, x - t) = IF a <= x /\ x < a + n THEN AtPeer(x) ELSE Cell(b, x - t)
  <2>. DEFINE k == x - t
  <2>1. k \in 0..(RxLength - 1)
    BY <1>0, <1>5
  <2>2. Cell(c, k) = IF z + offset <= k /\ k < z + offset + n /\ k - (z + offset) < n
                     THEN data[k - (z + offset) + 1] ELSE Cell(b, k)
    BY <1>4, <2>1
  <2>3. (z + offset <= k /\ k < z + offset + n /\ k - (z + offset) < n) <=> (a <= x /\ x < a + n)
    BY <1>3
  <2>4. ASSUME a <= x, x < a + n PROVE data[k - (z + offset) + 1] = AtPeer(x)
    <3>. DEFINE j == x - a + 1
    <3>1. j \in 1..n /\ k - (z + offset) + 1 = j /\ a + j - 1 = x
      BY <1>3, <2>4
    <3>. HIDE DEF j
    <3>2. data[j] = AtPeer(a + j - 1)
      BY <1>0, <3>1
    <3>. QED
      BY <3>1, <3>2
  <2>. HIDE DEF k
  <2>5. Cell(c, k) = IF a <= x /\ x < a + n THEN AtPeer(x) ELSE Cell(b, k)
    BY <2>2, <2>3, <2>4
  <2>. QED
    BY <2>5 DEF k
<1>6. InPlace(c, t, a, a + n)
  <2>1. ASSUME NEW x \in a..(a + n - 1) PROVE Cell(c, x - t) = AtPeer(x)
    <3>1. x \in Nat /\ t <= x /\ x - t <= RxLength - 1 /\ a <= x /\ x < a + n
      BY <1>0, <1>3
    <3>. QED
      BY <1>5, <3>1
  <2>. QED
    BY <2>1 DEF InPlace
<1>7. ASSUME NEW from \in Nat, NEW to \in Nat, t <= from, to - t <= RxLength, InPlace(b, t, from, to)
      PROVE  InPlace(c, t, from, to)
  <2>1. ASSUME NEW x \in from..(to - 1) PROVE Cell(c, x - t) = AtPeer(x)
    <3>1. x \in Nat /\ t <= x /\ x - t <= RxLength - 1
      BY <1>0, <1>7
    <3>2. Cell(b, x - t) = AtPeer(x)
      BY <1>7, <2>1 DEF InPlace
    <3>. QED
      BY <1>5, <3>1, <3>2
  <2>. QED
    BY <2>1 DEF InPlace
<1>. QED
  BY <1>1, <1>6, <1>7 DEF z, Keeps

\* The head moves over what is in the buffer.
LEMMA AddMoved ==
    ASSUME NEW b, IsRing(b, RxLength), NEW t \in Nat, NEW n \in Nat, n <= GetSpace(b),
           NEW c, c = Add(b, 0, <<>>, n)
    PROVE  IsRing(c, RxLength) /\ GetSize(c) = GetSize(b) + n /\ Keeps(c, b, t)
<1>. DEFINE data == <<>>
<1>0. RxLength \in Nat \ {0} /\ Len(data) = 0 /\ 0 + n <= GetSpace(b) /\ 0 \in Nat /\ Len(data) \in Nat
  BY TxLengthIs
<1>00. c = Add(b, 0, data, n)
  OBVIOUS
<1>. HIDE DEF data
<1>1. /\ IsRing(c, RxLength)
      /\ GetSize(c) = GetSize(b) + n
      /\ \A k \in 0..(RxLength - 1) :
            Cell(c, k) = IF GetSize(b) + 0 <= k /\ k < GetSize(b) + 0 + n /\ k - (GetSize(b) + 0) < Len(data)
                         THEN data[k - (GetSize(b) + 0) + 1] ELSE Cell(b, k)
  BY <1>0, <1>00, AddIs
<1>2. GetSize(b) \in Nat
  BY <1>0, RingIs
<1>3. \A k \in 0..(RxLength - 1) : Cell(c, k) = Cell(b, k)
  <2>1. ASSUME NEW k \in 0..(RxLength - 1) PROVE Cell(c, k) = Cell(b, k)
    <3>. DEFINE z == GetSize(b)
    <3>1. z \in Nat /\ k \in Int
      BY <1>0, <1>2
    <3>. HIDE DEF z
    <3>2. ~(z + 0 <= k /\ k < z + 0 + n /\ k - (z + 0) < 0)
      BY <3>1
    <3>. QED
      BY <1>0, <1>1, <3>2 DEF z
  <2>. QED
    BY <2>1
<1>7. ASSUME NEW from \in Nat, NEW to \in Nat, t <= from, to - t <= RxLength, InPlace(b, t, from, to)
      PROVE  InPlace(c, t, from, to)
  <2>1. ASSUME NEW x \in from..(to - 1) PROVE Cell(c, x - t) = AtPeer(x)
    <3>1. x - t \in 0..(RxLength - 1)
      BY <1>0, <1>7
    <3>2. Cell(b, x - t) = AtPeer(x)
      BY <1>7, <2>1 DEF InPlace
    <3>. QED
      BY <1>3, <3>1, <3>2
  <2>. QED
    BY <2>1 DEF InPlace
<1>. QED
  BY <1>1, <1>7 DEF Keeps

-----------------------------------------------------------------------------
\* The receive buffer b, the segments S that came too early, and the next byte e
RxIn(b, S, t, e) ==
    /\ IsRing(b, RxLength) /\ GetSize(b) = e - t /\ InPlace(b, t, t, e)
    /\ \A g \in S : Ahead(b, g, t, e)

Filling(c, b, S, q, i, t, e, d, data) ==
    /\ IsRequest(q) /\ i \in 1..Len(q) /\ S \subseteq Pieces(q) /\ t \in Nat /\ e \in Nat
    /\ t <= e /\ RxIn(b, S, t, e) /\ e < Place(q, i) /\ Place(q, i + 1) - e <= GetSpace(b)
    /\ Bytes(data, Place(q, i), q[i]) /\ d = Place(q, i) - e /\ c = Add(b, d, data, q[i])

\* A piece that came too early gets a place.
LEMMA RxInFills ==
    ASSUME NEW c, NEW b, NEW S, NEW q, NEW i, NEW t, NEW e, NEW d, NEW data, Filling(c, b, S, q, i, t, e, d, data)
    PROVE  /\ Fits(b, d, q[i]) = q[i] /\ d > 0
           /\ RxIn(c, S \cup {Piece(q, i)}, t, e)
<1>. /\ IsRequest(q) /\ i \in 1..Len(q) /\ S \subseteq Pieces(q) /\ t \in Nat /\ e \in Nat
     /\ t <= e /\ RxIn(b, S, t, e) /\ e < Place(q, i) /\ Place(q, i + 1) - e <= GetSpace(b)
     /\ Bytes(data, Place(q, i), q[i]) /\ d = Place(q, i) - e /\ c = Add(b, d, data, q[i])
  BY DEF Filling
<1>. DEFINE a == Place(q, i)   n == q[i]
<1>1. /\ a \in Nat /\ n \in Nat /\ Place(q, i + 1) = a + n /\ Off(Piece(q, i).seq) = a /\ Piece(q, i).len = n
  BY PieceIs, RequestReach
<1>2. IsRing(b, RxLength) /\ GetSize(b) = e - t /\ InPlace(b, t, t, e) /\ \A g \in S : Ahead(b, g, t, e)
  BY DEF RxIn
<1>3. GetSpace(b) = RxLength - 1 - (e - t) /\ RxLength \in Nat \ {0} /\ GetSize(b) \in 0..(RxLength - 1)
  BY <1>2, TxLengthIs, RingIs
<1>. HIDE DEF a, n
<1>4. d \in Nat /\ d > 0 /\ t + GetSize(b) + d = a /\ d + n <= GetSpace(b)
  <2>. DEFINE size == GetSize(b)   space == GetSpace(b)
  <2>1. d = a - e /\ e < a /\ a + n - e <= space
    BY <1>1 DEF a, n
  <2>2. size = e - t /\ space = RxLength - 1 - (e - t) /\ RxLength \in Nat
    BY <1>2, <1>3
  <2>. HIDE DEF size, space
  <2>3. d \in Nat /\ d > 0
    BY <1>1, <2>1
  <2>4. t + size + d = a
    BY <1>1, <2>1, <2>2
  <2>5. d + n <= space
    BY <1>1, <2>1, <2>2
  <2>. QED
    BY <2>3, <2>4, <2>5 DEF size, space
<1>5. Placing(c, b, t, a, d, data, n)
  <2>1. Bytes(data, a, n) /\ c = Add(b, d, data, n)
    BY DEF a, n
  <2>. QED
    BY <1>1, <1>2, <1>4, <2>1 DEF Placing
<1>6. /\ Fits(b, d, n) = n /\ IsRing(c, RxLength) /\ GetSize(c) = (IF d = 0 THEN GetSize(b) + n ELSE GetSize(b))
      /\ InPlace(c, t, a, a + n)
      /\ Keeps(c, b, t)
  BY <1>5, AddPlaced
<1>7. InPlace(c, t, t, e)
  <2>1. e - t <= RxLength
    BY <1>2, <1>3
  <2>. QED
    BY <1>2, <1>6, <2>1, KeepsPlace
<1>8. ASSUME NEW g \in S PROVE Ahead(c, g, t, e)
  <2>1. g \in Pieces(q) /\ Ahead(b, g, t, e)
    BY <1>2, <1>8
  <2>2. Off(g.seq) > e
    BY <2>1 DEF Ahead
  <2>. QED
    BY <1>6, <2>1, <2>2, AheadKept
<1>9. Ahead(c, Piece(q, i), t, e)
  <2>1. a > e /\ a + n - t <= RxLength - 1
    BY <1>1, <1>2, <1>3, <1>4 DEF a
  <2>. DEFINE g == Piece(q, i)   v == a + n
  <2>2. Off(g.seq) = a /\ g.len = n /\ v \in Nat
    BY <1>1
  <2>. HIDE DEF g
  <2>3. Ahead(c, g, t, e)
    <3>1. a = Off(g.seq) /\ v = Off(g.seq) + g.len /\ g.len \in Nat /\ v - t <= RxLength - 1 /\ InPlace(c, t, a, v)
      BY <1>1, <1>6, <2>1, <2>2
    <3>. HIDE DEF v
    <3>. QED
      BY <1>1, <2>1, <2>2, <3>1, AheadIs
  <2>. QED
    BY <2>3 DEF g
<1>10. \A g \in S \cup {Piece(q, i)} : Ahead(c, g, t, e)
  BY <1>8, <1>9
<1>11. GetSize(c) = e - t
  BY <1>2, <1>4, <1>6
<1>12. RxIn(c, S \cup {Piece(q, i)}, t, e)
  BY <1>6, <1>7, <1>10, <1>11 DEF RxIn
<1>. QED
  BY <1>4, <1>6, <1>12 DEF n

Continuing(b2, b3, b, w, q, i, t, e, c, x, data) ==
    /\ IsRequest(q) /\ i \in 1..Len(q) /\ w.stored \subseteq Pieces(q) /\ t \in Nat /\ e \in Nat
    /\ t <= e /\ RxIn(b, w.stored, t, e) /\ e = Place(q, i) /\ q[i] <= GetSpace(b)
    /\ Bytes(data, Place(q, i), q[i]) /\ Continues(c, w, q, Place(q, i + 1), x)
    /\ b2 = Add(b, 0, data, q[i]) /\ b3 = Add(b2, 0, <<>>, c.w.userData)

\* A piece that continues the data is added, and with it what follows it.
LEMMA RxInContinues ==
    ASSUME NEW b2, NEW b3, NEW b, NEW w, NEW q, NEW i, NEW t, NEW e, NEW c, NEW x, NEW data,
           Continuing(b2, b3, b, w, q, i, t, e, c, x, data)
    PROVE  /\ Fits(b, 0, q[i]) = q[i]
           /\ c.w.userData \in Nat
           /\ c.w.userData = 0 => RxIn(b2, c.w.stored, t, x)
           /\ RxIn(b3, c.w.stored, t, x)
<1>. /\ IsRequest(q) /\ i \in 1..Len(q) /\ w.stored \subseteq Pieces(q) /\ t \in Nat /\ e \in Nat
     /\ t <= e /\ RxIn(b, w.stored, t, e) /\ e = Place(q, i) /\ q[i] <= GetSpace(b)
     /\ Bytes(data, Place(q, i), q[i]) /\ Continues(c, w, q, Place(q, i + 1), x)
     /\ b2 = Add(b, 0, data, q[i]) /\ b3 = Add(b2, 0, <<>>, c.w.userData)
  BY DEF Continuing
<1>. DEFINE n == q[i]   z == Place(q, i + 1)   m == c.w.userData
<1>1. /\ n \in Nat /\ z = e + n /\ z \in Nat
  BY PieceIs, RequestReach
<1>2. IsRing(b, RxLength) /\ GetSize(b) = e - t /\ InPlace(b, t, t, e) /\ \A g \in w.stored : Ahead(b, g, t, e)
  BY DEF RxIn
<1>3. GetSpace(b) = RxLength - 1 - (e - t) /\ RxLength \in Nat \ {0} /\ GetSize(b) \in 0..(RxLength - 1)
  BY <1>2, TxLengthIs, RingIs
<1>4. /\ x \in Nat /\ x >= z /\ m = x - z /\ c.w.stored \subseteq w.stored /\ \A g \in c.w.stored : Off(g.seq) > x
      /\ \A y \in z..(x - 1) : \E g \in w.stored : Off(g.seq) <= y /\ y < Off(g.seq) + g.len
  BY RequestReach DEF Continues
<1>. HIDE DEF n, z, m
<1>5. 0 \in Nat /\ t + GetSize(b) + 0 = e /\ 0 + n <= GetSpace(b) /\ Bytes(data, e, n) /\ b2 = Add(b, 0, data, n)
  <2>1. n <= GetSpace(b) /\ Bytes(data, e, n) /\ b2 = Add(b, 0, data, n)
    BY DEF n
  <2>2. GetSize(b) \in Nat
    BY <1>3
  <2>3. t + GetSize(b) + 0 = e
    BY <1>2, <2>2
  <2>4. 0 + n <= GetSpace(b)
    BY <1>1, <2>1
  <2>. QED
    BY <2>1, <2>3, <2>4
<1>6. /\ Fits(b, 0, n) = n /\ IsRing(b2, RxLength) /\ GetSize(b2) = (IF 0 = 0 THEN GetSize(b) + n ELSE GetSize(b))
      /\ InPlace(b2, t, e, e + n)
      /\ Keeps(b2, b, t)
  <2>1. Placing(b2, b, t, e, 0, data, n)
    BY <1>1, <1>2, <1>5 DEF Placing
  <2>. QED
    BY <2>1, AddPlaced
<1>7. ASSUME NEW g \in w.stored, NEW y \in Nat, Off(g.seq) <= y, y < Off(g.seq) + g.len
      PROVE  Cell(b2, y - t) = AtPeer(y) /\ y - t < RxLength - 1
  <2>1. g \in Pieces(q) /\ Ahead(b, g, t, e)
    BY <1>2, <1>7
  <2>2. Off(g.seq) > e
    BY <2>1 DEF Ahead
  <2>3. Ahead(b2, g, t, e)
    BY <1>6, <2>1, <2>2, AheadKept
  <2>. QED
    BY <1>7, <2>1, <2>3, AheadHas
<1>8. InPlace(b2, t, t, e)
  <2>1. e - t <= RxLength
    BY <1>2, <1>3
  <2>. QED
    BY <1>2, <1>6, <2>1, KeepsPlace
<1>9. InPlace(b2, t, t, x)
  <2>1. ASSUME NEW y \in t..(x - 1) PROVE Cell(b2, y - t) = AtPeer(y)
    <3>1. CASE y < e
      <4>1. y \in t..(e - 1)
        BY <1>4, <3>1
      <4>. QED
        BY <1>8, <4>1 DEF InPlace
    <3>2. CASE e <= y /\ y < z
      <4>. DEFINE f == e + n
      <4>1. y \in e..(f - 1)
        BY <1>1, <1>4, <3>2
      <4>2. InPlace(b2, t, e, f)
        BY <1>6
      <4>. HIDE DEF f
      <4>. QED
        BY <4>1, <4>2 DEF InPlace
    <3>3. CASE z <= y
      <4>1. y \in z..(x - 1) /\ y \in Nat
        BY <1>1, <1>4, <3>3
      <4>2. PICK g \in w.stored : Off(g.seq) <= y /\ y < Off(g.seq) + g.len
        BY <1>4, <4>1
      <4>. QED
        BY <1>7, <4>1, <4>2
    <3>4. y < e \/ (e <= y /\ y < z) \/ z <= y
      <4>1. y \in Int /\ e \in Int /\ z \in Int
        BY <1>1, <1>4
      <4>. QED
        BY <4>1
    <3>. QED
      BY <3>1, <3>2, <3>3, <3>4
  <2>. QED
    BY <2>1 DEF InPlace
<1>10. x - t <= RxLength - 1
  <2>1. CASE x = z
    <3>1. n <= RxLength - 1 - (e - t)
      BY <1>1, <1>3, <1>5
    <3>. QED
      <4>. DEFINE r == RxLength
      <4>1. r \in Nat /\ n <= r - 1 - (e - t) /\ x = e + n
        BY <1>1, <1>3, <2>1, <3>1
      <4>. HIDE DEF r
      <4>2. x - t <= r - 1
        BY <1>1, <4>1, SMTT(20)
      <4>. QED
        BY <4>2 DEF r
  <2>2. CASE x # z
    <3>. DEFINE y == x - 1
    <3>1. y \in z..(x - 1) /\ y \in Nat
      BY <1>1, <1>4, <2>2, SMTT(20)
    <3>2. PICK g \in w.stored : Off(g.seq) <= y /\ y < Off(g.seq) + g.len
      BY <1>4, <3>1
    <3>3. y - t < RxLength - 1
      BY <1>7, <3>1, <3>2
    <3>. QED
      BY <1>3, <1>4, <3>3
  <2>. QED
    BY <2>1, <2>2
<1>11. ASSUME NEW g \in c.w.stored PROVE g \in Pieces(q) /\ Ahead(b2, g, t, x) /\ Off(g.seq) > x
  <2>1. g \in Pieces(q) /\ Ahead(b, g, t, e) /\ Off(g.seq) > x
    BY <1>2, <1>4, <1>11
  <2>2. Ahead(b2, g, t, x)
    BY <1>4, <1>6, <2>1, AheadKept
  <2>. QED
    BY <2>1, <2>2
<1>12. GetSize(b2) = z - t /\ z - t \in Nat
  <2>1. GetSize(b2) = (e - t) + n
    BY <1>2, <1>6
  <2>. QED
    BY <1>1, <2>1
<1>13. m \in Nat /\ (m = 0 => x = z)
  BY <1>1, <1>4
<1>14. m = 0 => RxIn(b2, c.w.stored, t, x)
  BY <1>6, <1>9, <1>11, <1>12, <1>13 DEF RxIn
<1>15. m <= GetSpace(b2)
  <2>1. GetSpace(b2) = RxLength - 1 - GetSize(b2)
    BY <1>3, <1>6, RingIs
  <2>2. GetSpace(b2) = RxLength - 1 - (z - t)
    BY <1>12, <2>1
  <2>. QED
    <3>. DEFINE r == RxLength   space == GetSpace(b2)
    <3>1. space = r - 1 - (z - t) /\ r \in Nat /\ x - t <= r - 1 /\ m = x - z
      BY <1>3, <1>4, <1>10, <2>2
    <3>2. x \in Nat /\ z \in Nat
      BY <1>1, <1>4
    <3>. HIDE DEF r, space
    <3>3. m <= space
      BY <3>1, <3>2
    <3>. QED
      BY <3>3 DEF space
<1>16. IsRing(b3, RxLength) /\ GetSize(b3) = GetSize(b2) + m /\ Keeps(b3, b2, t)
  <2>1. b3 = Add(b2, 0, <<>>, m)
    BY DEF m
  <2>. QED
    BY <1>6, <1>13, <1>15, <2>1, AddMoved
<1>17. InPlace(b3, t, t, x)
  <2>1. x - t <= RxLength /\ t <= x
    <3>. DEFINE r == RxLength
    <3>1. r \in Nat /\ x - t <= r - 1
      BY <1>3, <1>10
    <3>. HIDE DEF r
    <3>2. x - t <= r /\ t <= x
      BY <1>1, <1>4, <3>1
    <3>. QED
      BY <3>2 DEF r
  <2>. QED
    BY <1>4, <1>9, <1>16, <2>1, KeepsPlace
<1>18. ASSUME NEW g \in c.w.stored PROVE Ahead(b3, g, t, x)
  <2>1. t <= x
    BY <1>1, <1>4
  <2>. QED
    BY <1>4, <1>11, <1>16, <2>1, AheadKept
<1>19. GetSize(b3) = x - t
  BY <1>1, <1>4, <1>12, <1>16
<1>20. RxIn(b3, c.w.stored, t, x)
  BY <1>16, <1>17, <1>18, <1>19 DEF RxIn
<1>. QED
  BY <1>6, <1>13, <1>14, <1>20 DEF m, n

-----------------------------------------------------------------------------
(* prvStoreRxData *)

Stream(s) == IF s.rx = NoStream THEN EmptyBuffer(RxLength) ELSE s.rx

LEMMA RxAtIn ==
    ASSUME NEW s, NEW q, IsRequest(q), NEW t, NEW e, RxAt(s, q, t, e)
    PROVE  /\ e \in Edges(q) /\ e \in Nat /\ t \in Nat /\ t >= 1 /\ t <= e
           /\ RxIn(Stream(s), s.win.stored, t, e) /\ s.win.stored \subseteq Pieces(q)
           /\ RxSpace(s) \in Int /\ GetSpace(Stream(s)) \in Int /\ RxSpace(s) <= GetSpace(Stream(s))
           /\ Expects(s.win, q, e, FinTook(s)) /\ (FinTook(s) = 0 <=> ~s.finAccepted)
<1>1. /\ e \in Edges(q) /\ e \in Nat /\ t \in Nat /\ t >= 1 /\ t <= e /\ s.win.stored \subseteq Pieces(q)
      /\ s.win.rxCur = AtPeer(e + FinTook(s))
  BY RequestReach DEF RxAt
<1>2. FinTook(s) \in {0, 1} /\ (FinTook(s) = 0 <=> ~s.finAccepted)
  BY DEF FinTook
<1>3. RxLength \in Nat \ {0} /\ RxStream \in Nat /\ RxStream <= RxLength - 1
  BY SocketAssumption, TxLengthIs
<1>4. CASE s.rx = NoStream
  <2>1. e = 1 /\ s.win.stored = {} /\ t = 1
    BY <1>1, <1>4 DEF RxAt
  <2>2. Stream(s) = EmptyBuffer(RxLength) /\ RxSpace(s) = RxStream
    BY <1>4 DEF Stream, RxSpace
  <2>. DEFINE b == EmptyBuffer(RxLength)
  <2>3. IsRing(b, RxLength) /\ GetSize(b) = 0
    BY <1>3, EmptyBufferIs
  <2>. HIDE DEF b
  <2>4. GetSpace(b) = RxLength - 1
    <3>1. GetSpace(b) = RxLength - 1 - 0
      BY <1>3, <2>3, RingIs
    <3>. QED
      BY <1>3, <3>1
  <2>5. InPlace(b, t, t, e)
    BY <2>1 DEF InPlace
  <2>6. RxIn(b, s.win.stored, t, e)
    BY <2>1, <2>3, <2>5 DEF RxIn
  <2>7. Expects(s.win, q, e, FinTook(s))
    BY <1>1, <1>2, <2>1 DEF Expects, RxAt, FinTook
  <2>. QED
    BY <1>1, <1>2, <1>3, <2>2, <2>4, <2>6, <2>7 DEF b
<1>5. CASE s.rx # NoStream
  <2>1. /\ IsRing(s.rx, RxLength) /\ GetSize(s.rx) = e - t /\ InPlace(s.rx, t, t, e)
        /\ \A g \in s.win.stored : Ahead(s.rx, g, t, e)
    BY <1>5 DEF RxAt
  <2>2. Stream(s) = s.rx /\ RxSpace(s) = GetSpace(s.rx)
    BY <1>5 DEF Stream, RxSpace
  <2>3. GetSpace(s.rx) \in Int
    <3>1. GetSpace(s.rx) = RxLength - 1 - GetSize(s.rx) /\ GetSize(s.rx) \in Int
      BY <1>3, <2>1, RingIs
    <3>. QED
      BY <1>3, <3>1
  <2>4. \A g \in s.win.stored : Off(g.seq) > e
    BY <2>1 DEF Ahead
  <2>5. s.finAccepted => e = Total(q) + 1
    BY DEF RxAt
  <2>6. Expects(s.win, q, e, FinTook(s))
    BY <1>1, <1>2, <2>4, <2>5 DEF Expects
  <2>. QED
    BY <1>1, <1>2, <2>1, <2>2, <2>3, <2>6 DEF RxIn
<1>. QED
  BY <1>4, <1>5

LEMMA RxAtOf ==
    ASSUME NEW r, NEW q, NEW t, NEW x, RxIn(r.rx, r.win.stored, t, x), x \in Edges(q), t \in 1..x,
           r.win.rxCur = AtPeer(x), IsRequest(q),
           r.win.stored \subseteq Pieces(q), ~r.finAccepted
    PROVE  RxAt(r, q, t, x)
<1>1. FinTook(r) = 0 /\ x \in Nat
  BY RequestReach DEF FinTook
<1>2. x + FinTook(r) = x
  BY <1>1
<1>3. r.rx # NoStream
  <2>1. DOMAIN NoStream = {"length"} /\ DOMAIN r.rx = BufferFields
    BY DEF NoStream, RxIn, IsRing
  <2>. QED
    BY <2>1 DEF BufferFields
<1>. QED
  BY <1>2, <1>3 DEF RxAt, RxIn

\* What RxAt depends on
LEMMA RxAtSame ==
    ASSUME NEW r, NEW s, NEW q, NEW t, NEW e, RxAt(s, q, t, e), r.rx = s.rx, r.win.rxCur = s.win.rxCur,
           r.win.stored = s.win.stored, r.finAccepted = s.finAccepted
    PROVE  RxAt(r, q, t, e)
BY DEF RxAt, FinTook

LEMMA AddRxdataIs ==
    ASSUME NEW s, IsSock(s), NEW offset, NEW data, NEW n, NEW a, a = AddRxdata(s, offset, data, n)
    PROVE  /\ IsSock(a.s)
           /\ s.rx = NoStream /\ s.poor =>
                 a.stored = -1 /\ a.s.state = "CLOSE_WAIT" /\ a.s.rx = NoStream /\ a.s.finAccepted = s.finAccepted
                 /\ a.s.finSent = s.finSent
           /\ ~(s.rx = NoStream /\ s.poor) =>
                 /\ a.stored = Fits(Stream(s), offset, n) /\ a.s.rx = Add(Stream(s), offset, data, n)
                 /\ a.s.win = s.win /\ a.s.state = s.state /\ a.s.finAccepted = s.finAccepted
                 /\ a.s.poor = s.poor
<1>1. IsSock(AddRxdata(s, offset, data, n).s)
  BY AddRxdataChanges, ChangesSock
<1>2. CASE s.rx = NoStream /\ s.poor
  <2>. DEFINE m == [s EXCEPT !.mallocError = TRUE]
  <2>1. IsSock(m) /\ m.rx = s.rx /\ m.finAccepted = s.finAccepted /\ m.finSent = s.finSent
    BY DEF IsSock, Fields
  <2>2. AddRxdata(s, offset, data, n).s = StateChange(m, "CLOSE_WAIT") /\ AddRxdata(s, offset, data, n).stored = -1
    BY <1>2 DEF AddRxdata
  <2>. HIDE DEF m
  <2>3. StateChange(m, "CLOSE_WAIT").state = "CLOSE_WAIT" /\ Changes(StateChange(m, "CLOSE_WAIT"), m, OfState, {})
    BY <2>1, StateChangeChanges
  <2>4. /\ StateChange(m, "CLOSE_WAIT").rx = m.rx /\ StateChange(m, "CLOSE_WAIT").finAccepted = m.finAccepted
        /\ StateChange(m, "CLOSE_WAIT").finSent = m.finSent
    BY <2>3 DEF Changes, OfState, Fields
  <2>. QED
    BY <1>1, <1>2, <2>1, <2>2, <2>3, <2>4
<1>3. CASE ~(s.rx = NoStream /\ s.poor)
  <2>. DEFINE stream == IF s.rx = NoStream THEN EmptyBuffer(RxLength) ELSE s.rx
              after == Add(stream, offset, data, n)
              low == offset = 0 /\ ~s.lowWater /\ FrontSpace(after) <= RxStream \div 5
              r == [s EXCEPT !.rx = after, !.lowWater = @ \/ low, !.winChange = @ \/ low,
                             !.bits = IF offset = 0 THEN @ \cup {"RECEIVE"} ELSE @]
  <2>1. AddRxdata(s, offset, data, n).s = r /\ AddRxdata(s, offset, data, n).stored = Fits(stream, offset, n)
    BY <1>3 DEF AddRxdata
  <2>2. stream = Stream(s)
    BY DEF Stream
  <2>. HIDE DEF stream
  <2>3. after = Add(Stream(s), offset, data, n)
    BY <2>2
  <2>. HIDE DEF after, low
  <2>4. r.rx = after /\ r.win = s.win /\ r.state = s.state /\ r.finAccepted = s.finAccepted /\ r.poor = s.poor
    BY DEF IsSock, Fields
  <2>. HIDE DEF r
  <2>. QED
    BY <1>1, <1>3, <2>1, <2>2, <2>3, <2>4
<1>. QED
  BY <1>2, <1>3

-----------------------------------------------------------------------------
\* A piece of the request that is stored leaves the buffer in order; if there is no
\* memory for the buffer the connection is given up.
RxFailed(r, s) ==
    /\ r.fails /\ s.rx = NoStream /\ ~s.finAccepted
    /\ r.s.state = "CLOSE_WAIT" /\ r.s.rx = NoStream /\ ~r.s.finAccepted
RxStored(r, s, q, t) ==
    /\ ~r.fails /\ r.s.state = s.state /\ \E x : RxAt(r.s, q, t, x)
IsPiece(p, q, i) == i \in 1..Len(q) /\ p.seq = AtPeer(Place(q, i)) /\ p.len = q[i]

\* With the data added and the head moved over what follows
LEMMA OnMovedIs ==
    ASSUME NEW b, IsSock(b), b.rx # NoStream, b.win.userData \in Nat
    PROVE  /\ b.win.userData = 0 => OnMoved(b) = b
           /\ b.win.userData # 0 => OnMoved(b).rx = Add(b.rx, 0, <<>>, b.win.userData)
           /\ OnMoved(b).win.rxCur = b.win.rxCur /\ OnMoved(b).win.stored = b.win.stored
           /\ OnMoved(b).state = b.state /\ OnMoved(b).finAccepted = b.finAccepted
<1>1. CASE b.win.userData = 0
  BY <1>1 DEF OnMoved
<1>2. CASE b.win.userData # 0
  <2>. DEFINE m == b.win.userData   a == AddRxdata(b, 0, <<>>, m).s   r == [a EXCEPT !.win.userData = 0]
  <2>1. OnMoved(b) = r
    BY <1>2 DEF OnMoved
  <2>2. Stream(b) = b.rx
    BY DEF Stream
  <2>3. ~(b.rx = NoStream /\ b.poor)
    OBVIOUS
  <2>4. /\ IsSock(a) /\ a.rx = Add(Stream(b), 0, <<>>, m) /\ a.win = b.win /\ a.state = b.state
        /\ a.finAccepted = b.finAccepted
    <3>. DEFINE all == AddRxdata(b, 0, <<>>, m)
    <3>1. /\ IsSock(all.s) /\ all.s.rx = Add(Stream(b), 0, <<>>, m) /\ all.s.win = b.win /\ all.s.state = b.state
          /\ all.s.finAccepted = b.finAccepted
      BY <2>3, AddRxdataIs
    <3>. QED
      BY <3>1
  <2>. HIDE DEF a
  <2>5. /\ r.rx = a.rx /\ r.win.rxCur = a.win.rxCur /\ r.win.stored = a.win.stored /\ r.state = a.state
        /\ r.finAccepted = a.finAccepted
    BY <2>4 DEF IsSock, Fields, IsWin, WinFields
  <2>. HIDE DEF r
  <2>. QED
    BY <1>2, <2>1, <2>2, <2>4, <2>5
<1>. QED
  BY <1>1, <1>2

LEMMA StoredIs ==
    ASSUME NEW s, IsSock(s), NEW q, IsRequest(q), NEW t, NEW e, RxAt(s, q, t, e), NEW p, NEW i,
           IsPiece(p, q, i), From(s, "SYN_RECEIVED")
    PROVE  RxFailed(StoreRxData(s, p), s) \/ RxStored(StoreRxData(s, p), s, q, t)
<1>. DEFINE w == s.win   f == FinTook(s)   space == RxSpace(s)
            c == Check(s, p)   a == OnChecked(s, p)   b == OnAdded(s, p)   data == PacketData(p)
<1>1. i \in 1..Len(q) /\ p.seq = AtPeer(Place(q, i)) /\ p.len = q[i] /\ q[i] \in 1..MSS /\ p.len \in Nat /\ p.len > 0
      /\ Place(q, i) \in Nat /\ Place(q, i) \in Edges(q) /\ Place(q, i + 1) = Place(q, i) + q[i]
  BY PieceIs, WindowAssumption DEF IsPiece
<1>2. /\ e \in Edges(q) /\ e \in Nat /\ t \in Nat /\ t >= 1 /\ t <= e
      /\ RxIn(Stream(s), w.stored, t, e) /\ w.stored \subseteq Pieces(q)
      /\ space \in Int /\ GetSpace(Stream(s)) \in Int /\ space <= GetSpace(Stream(s))
      /\ Expects(w, q, e, f) /\ (f = 0 <=> ~s.finAccepted)
  BY RxAtIn
<1>3. Outcome(c, w, q, i, e, f, space)
  <2>1. IsWin(w)
    BY DEF IsSock
  <2>2. c = RxCheck(w, AtPeer(Place(q, i)), q[i], space)
    BY <1>1 DEF Check
  <2>. HIDE DEF c, w, space, f
  <2>3. Outcome(RxCheck(w, AtPeer(Place(q, i)), q[i], space), w, q, i, e, f, space)
    BY <1>1, <1>2, <2>1, RxCheckIs
  <2>. QED
    BY <2>2, <2>3
<1>4. /\ IsSock(a) /\ a.win = c.w /\ a.rx = s.rx /\ a.state = s.state /\ a.finAccepted = s.finAccepted /\ a.poor = s.poor
  <2>1. Changes(a, s, {}, OfCheck) /\ a.win = c.w
    BY OnCheckedChanges
  <2>. HIDE DEF a, c
  <2>2. IsSock(a)
    BY <2>1, ChangesSock
  <2>. QED
    BY <2>1, <2>2 DEF Changes, Fields
<1>5. StoreRxData(s, p) = IF c.offset < 0 THEN [s |-> a, fails |-> FALSE]
                          ELSE IF b.stored # p.len THEN [s |-> SendReset(b.s, p), fails |-> TRUE]
                          ELSE [s |-> OnMoved(b.s), fails |-> FALSE]
  BY <1>1, StoreRxDataIs
<1>6. b = AddRxdata(a, c.offset, data, p.len)
  BY DEF OnAdded
<1>7. Bytes(data, Place(q, i), q[i])
  BY <1>1, PacketDataIs
<1>8. Stream(a) = Stream(s)
  BY <1>4 DEF Stream
<1>. DEFINE r == StoreRxData(s, p)
<1>. HIDE DEF c, a, b, data, r
<1>9. CASE Refuses(c, w)
  <2>1. c.offset < 0 /\ c.w.rxCur = w.rxCur /\ c.w.stored = w.stored
    BY <1>9 DEF Refuses
  <2>2. r.s = a /\ ~r.fails
    BY <1>5, <2>1 DEF r
  <2>3. RxAt(a, q, t, e)
    BY <1>4, <2>1, RxAtSame
  <2>4. RxStored(r, s, q, t)
    BY <1>4, <2>2, <2>3 DEF RxStored
  <2>. QED
    BY <2>4 DEF r
<1>10. ASSUME ~(c.offset < 0), s.rx = NoStream, s.poor, f = 0
       PROVE  RxFailed(r, s)
  <2>1. b.stored = -1 /\ b.s.state = "CLOSE_WAIT" /\ b.s.rx = NoStream /\ b.s.finAccepted = a.finAccepted /\ IsSock(b.s)
    <3>1. a.rx = NoStream /\ a.poor /\ IsSock(a)
      BY <1>4, <1>10
    <3>. QED
      BY <1>6, <3>1, AddRxdataIs
  <2>2. b.stored # p.len
    BY <1>1, <2>1
  <2>3. r.s = SendReset(b.s, p) /\ r.fails
    BY <1>5, <1>10, <2>2 DEF r
  <2>4. Changes(SendReset(b.s, p), b.s, {"out"}, {})
    BY <2>1, SendResetChanges
  <2>5. /\ SendReset(b.s, p).state = b.s.state /\ SendReset(b.s, p).rx = b.s.rx
        /\ SendReset(b.s, p).finAccepted = b.s.finAccepted
    BY <2>4 DEF Changes, Fields
  <2>. QED
    BY <1>2, <1>4, <1>10, <2>1, <2>3, <2>5 DEF RxFailed
<1>11. ASSUME ~(c.offset < 0), ~(s.rx = NoStream /\ s.poor)
       PROVE  /\ b.stored = Fits(Stream(s), c.offset, p.len) /\ b.s.rx = Add(Stream(s), c.offset, data, p.len)
              /\ b.s.win = c.w /\ b.s.state = s.state /\ b.s.finAccepted = s.finAccepted /\ IsSock(b.s)
              /\ b.stored = p.len => r.s = OnMoved(b.s) /\ ~r.fails
  <2>1. ~(a.rx = NoStream /\ a.poor)
    BY <1>4, <1>11
  <2>2. /\ b.stored = Fits(Stream(a), c.offset, p.len) /\ b.s.rx = Add(Stream(a), c.offset, data, p.len)
        /\ b.s.win = a.win /\ b.s.state = a.state /\ b.s.finAccepted = a.finAccepted /\ IsSock(b.s)
    BY <1>4, <1>6, <2>1, AddRxdataIs
  <2>3. b.stored = p.len => r.s = OnMoved(b.s) /\ ~r.fails
    BY <1>5, <1>11 DEF r
  <2>. QED
    BY <1>4, <1>8, <2>2, <2>3
<1>12. ASSUME NEW x, f = 0, e = Place(q, i), q[i] <= space, Continues(c, w, q, Place(q, i + 1), x)
       PROVE  RxFailed(r, s) \/ RxStored(r, s, q, t)
  <2>1. c.offset = 0 /\ c.w.rxCur = AtPeer(x) /\ x \in Edges(q) /\ c.w.stored \subseteq w.stored /\ ~(c.offset < 0)
        /\ x >= Place(q, i + 1)
    BY <1>12 DEF Continues
  <2>2. CASE s.rx = NoStream /\ s.poor
    BY <1>10, <1>12, <2>1, <2>2
  <2>3. CASE ~(s.rx = NoStream /\ s.poor)
    <3>. DEFINE b2 == Add(Stream(s), 0, data, q[i])   b3 == Add(b2, 0, <<>>, c.w.userData)
    <3>1. q[i] <= GetSpace(Stream(s))
      BY <1>1, <1>2, <1>12
    <3>2. /\ Fits(Stream(s), 0, q[i]) = q[i] /\ c.w.userData \in Nat
          /\ c.w.userData = 0 => RxIn(b2, c.w.stored, t, x)
          /\ RxIn(b3, c.w.stored, t, x)
      <4>. HIDE DEF w, space, f
      <4>1. Continuing(b2, b3, Stream(s), w, q, i, t, e, c, x, data)
        BY <1>1, <1>2, <1>7, <1>12, <3>1 DEF Continuing
      <4>. QED
        BY <4>1, RxInContinues
    <3>. HIDE DEF b2, b3
    <3>3. /\ b.stored = p.len /\ b.s.rx = b2 /\ b.s.win = c.w /\ b.s.state = s.state /\ b.s.finAccepted = s.finAccepted
          /\ IsSock(b.s) /\ r.s = OnMoved(b.s) /\ ~r.fails
      BY <1>1, <1>11, <2>1, <2>3, <3>2 DEF b2
    <3>4. b2 # NoStream
      <4>1. DOMAIN NoStream = {"length"}
        BY DEF NoStream
      <4>2. IsRing(Stream(s), RxLength)
        BY <1>2 DEF RxIn
      <4>3. DOMAIN b2 = DOMAIN Stream(s)
        BY DEF b2, Add
      <4>4. DOMAIN b2 = BufferFields
        BY <4>2, <4>3 DEF IsRing
      <4>. QED
        BY <4>1, <4>4 DEF BufferFields
    <3>5. /\ c.w.userData = 0 => OnMoved(b.s) = b.s
          /\ c.w.userData # 0 => OnMoved(b.s).rx = Add(b2, 0, <<>>, c.w.userData)
          /\ OnMoved(b.s).win.rxCur = c.w.rxCur /\ OnMoved(b.s).win.stored = c.w.stored
          /\ OnMoved(b.s).state = b.s.state /\ OnMoved(b.s).finAccepted = b.s.finAccepted
      <4>1. b.s.rx # NoStream /\ b.s.win.userData \in Nat
        BY <3>2, <3>3, <3>4
      <4>. QED
        BY <3>3, <4>1, OnMovedIs
    <3>6. RxIn(OnMoved(b.s).rx, c.w.stored, t, x)
      <4>1. CASE c.w.userData = 0
        BY <3>2, <3>3, <3>5, <4>1
      <4>2. CASE c.w.userData # 0
        BY <3>2, <3>5, <4>2 DEF b3
      <4>. QED
        BY <4>1, <4>2
    <3>7. t \in 1..x
      <4>1. x \in Nat
        BY <2>1, RequestReach
      <4>2. e <= x
        BY <1>1, <1>2, <1>12, <2>1, <4>1
      <4>. QED
        BY <1>2, <4>1, <4>2
    <3>8. RxAt(r.s, q, t, x)
      <4>1. r.s.win.rxCur = AtPeer(x) /\ r.s.win.stored \subseteq Pieces(q) /\ ~r.s.finAccepted
            /\ RxIn(r.s.rx, r.s.win.stored, t, x)
        BY <1>2, <1>12, <2>1, <3>3, <3>5, <3>6
      <4>. QED
        BY <2>1, <3>7, <4>1, RxAtOf
    <3>. QED
      BY <3>3, <3>5, <3>8 DEF RxStored
  <2>. QED
    BY <2>2, <2>3
<1>13. ASSUME f = 0, e < Place(q, i), Place(q, i + 1) - e <= space, Fills(c, w, Piece(q, i), Place(q, i) - e)
       PROVE  RxFailed(r, s) \/ RxStored(r, s, q, t)
  <2>. DEFINE d == Place(q, i) - e
  <2>1. c.offset = d /\ c.w.rxCur = w.rxCur /\ c.w.userData = 0 /\ c.w.stored = w.stored \cup {Piece(q, i)}
    BY <1>13 DEF Fills
  <2>2. d \in Nat /\ ~(c.offset < 0)
    BY <1>1, <1>2, <1>13, <2>1
  <2>3. CASE s.rx = NoStream /\ s.poor
    BY <1>10, <1>13, <2>2, <2>3
  <2>4. CASE ~(s.rx = NoStream /\ s.poor)
    <3>. DEFINE b2 == Add(Stream(s), d, data, q[i])
    <3>1. Place(q, i + 1) - e <= GetSpace(Stream(s))
      BY <1>1, <1>2, <1>13
    <3>2. Fits(Stream(s), d, q[i]) = q[i] /\ RxIn(b2, w.stored \cup {Piece(q, i)}, t, e)
      <4>1. d = Place(q, i) - e
        OBVIOUS
      <4>2. Filling(b2, Stream(s), w.stored, q, i, t, e, d, data)
        BY <1>1, <1>2, <1>7, <1>13, <3>1 DEF Filling
      <4>. HIDE DEF w, space, f, d, b2
      <4>. QED
        BY <4>2, RxInFills
    <3>. HIDE DEF b2, d
    <3>3. /\ b.stored = p.len /\ b.s.rx = b2 /\ b.s.win = c.w /\ b.s.state = s.state /\ b.s.finAccepted = s.finAccepted
          /\ IsSock(b.s) /\ r.s = OnMoved(b.s) /\ ~r.fails
      BY <1>1, <1>11, <2>1, <2>2, <2>4, <3>2 DEF b2
    <3>4. b2 # NoStream
      <4>1. DOMAIN NoStream = {"length"} /\ DOMAIN b2 = BufferFields
        BY <3>2 DEF NoStream, RxIn, IsRing
      <4>. QED
        BY <4>1 DEF BufferFields
    <3>5. OnMoved(b.s) = b.s
      BY <2>1, <3>3, <3>4, OnMovedIs
    <3>6. RxAt(r.s, q, t, e)
      <4>1. Piece(q, i) \in Pieces(q)
        BY <1>1 DEF Pieces
      <4>2. r.s.win.stored \subseteq Pieces(q) /\ ~r.s.finAccepted /\ RxIn(r.s.rx, r.s.win.stored, t, e)
        BY <1>2, <1>13, <2>1, <3>2, <3>3, <3>5, <4>1
      <4>3. e + 0 = e /\ t \in 1..e
        BY <1>2
      <4>4. r.s.win.rxCur = AtPeer(e)
        BY <1>2, <1>13, <2>1, <3>3, <3>5, <4>3 DEF Expects
      <4>. QED
        BY <1>2, <4>2, <4>3, <4>4, RxAtOf
    <3>. QED
      BY <3>3, <3>5, <3>6 DEF RxStored
  <2>. QED
    BY <2>3, <2>4
<1>14. RxFailed(r, s) \/ RxStored(r, s, q, t)
  BY <1>3, <1>9, <1>12, <1>13 DEF Outcome, r
<1>. QED
  BY <1>14 DEF r

-----------------------------------------------------------------------------
(* A packet of the client, up to the handler for the state *)

Syn == [flags |-> {"SYN"}, seq |-> PeerISS, len |-> 0, ack |-> 0, win |-> PeerWin, sack |-> <<>>]
IsData(p, q) ==
    \E i \in 1..Len(q) : /\ p.seq = AtPeer(Place(q, i)) /\ p.len = q[i]
                         /\ p.flags = {"ACK", "PSH"} \/ (p.flags = {"ACK", "PSH", "FIN"} /\ i = Len(q))
IsBare(p, q) ==
    /\ p.len = 0
    /\ \E y \in 0..(Total(q) + 2) :
          /\ p.seq = AtPeer(y)
          /\ p.flags \in {{"ACK"}, {"ACK", "RST"}} \/ (p.flags = {"ACK", "FIN"} /\ y = Total(q) + 1)
IsPacket(p, q) == p = Syn \/ IsData(p, q) \/ IsBare(p, q)

\* The packet ends before y; a FIN follows the request.
Ends(p, q, y) ==
    y \in 0..(Total(q) + 2) /\ Plus(p.seq, p.len) = AtPeer(y) /\ ("FIN" \in p.flags => y = Total(q) + 1)

LEMMA PacketIs ==
    ASSUME NEW q, IsRequest(q), NEW p, IsPacket(p, q)
    PROVE  /\ \E y : Ends(p, q, y)
           /\ p.len \in Nat /\ (p.len > 0 => \E i : IsPiece(p, q, i))
           /\ p.flags = {"SYN"} => p = Syn
           /\ p.flags \in {{"SYN"}, {"ACK", "PSH"}, {"ACK", "PSH", "FIN"}, {"ACK"}, {"ACK", "RST"}, {"ACK", "FIN"}}
           /\ p.len > 0 => p.flags \in {{"ACK", "PSH"}, {"ACK", "PSH", "FIN"}}
           /\ p.len = 0 => p.flags \in {{"SYN"}, {"ACK"}, {"ACK", "RST"}, {"ACK", "FIN"}}
<1>0. Total(q) \in Nat /\ PeerISS \in Int
  BY RequestReach, PeerIs
<1>1. CASE p = Syn
  <2>1. p.seq = PeerISS /\ p.len = 0 /\ p.flags = {"SYN"}
    BY <1>1 DEF Syn
  <2>2. Plus(p.seq, p.len) = AtPeer(0) /\ 0 \in 0..(Total(q) + 2) /\ "FIN" \notin p.flags
    BY <1>0, <2>1 DEF AtPeer
  <2>3. Ends(p, q, 0)
    BY <2>2 DEF Ends
  <2>. QED
    BY <1>1, <2>1, <2>3
<1>2. CASE IsData(p, q)
  <2>1. PICK i \in 1..Len(q) : /\ p.seq = AtPeer(Place(q, i)) /\ p.len = q[i]
                               /\ p.flags = {"ACK", "PSH"} \/ (p.flags = {"ACK", "PSH", "FIN"} /\ i = Len(q))
    BY <1>2 DEF IsData
  <2>2. IsPiece(p, q, i)
    BY <2>1 DEF IsPiece
  <2>. DEFINE y == Place(q, i + 1)
  <2>3. Plus(p.seq, p.len) = AtPeer(y) /\ y \in 0..(Total(q) + 2) /\ p.len \in Nat /\ p.len > 0
    <3>1. Plus(Piece(q, i).seq, q[i]) = AtPeer(Place(q, i + 1)) /\ Piece(q, i).seq = AtPeer(Place(q, i))
      BY PieceIs
    <3>2. q[i] \in 1..MSS /\ Place(q, i + 1) \in 1..(Total(q) + 1)
      BY PieceIs
    <3>3. MSS \in Nat
      BY WindowAssumption
    <3>. QED
      BY <2>1, <1>0, <3>1, <3>2, <3>3
  <2>4. "FIN" \in p.flags => y = Total(q) + 1
    <3>1. "FIN" \in p.flags => i = Len(q)
      BY <2>1
    <3>2. Total(q) = Place(q, Len(q) + 1) - 1 /\ Place(q, Len(q) + 1) \in Nat
      BY RequestReach, PlaceIs
    <3>. QED
      BY <1>0, <3>1, <3>2
  <2>5. Ends(p, q, y)
    BY <2>3, <2>4 DEF Ends
  <2>6. p.flags \in {{"ACK", "PSH"}, {"ACK", "PSH", "FIN"}} /\ p.flags # {"SYN"}
    BY <2>1
  <2>. QED
    BY <2>2, <2>3, <2>5, <2>6
<1>3. CASE IsBare(p, q)
  <2>1. PICK y \in 0..(Total(q) + 2) :
          /\ p.seq = AtPeer(y)
          /\ p.flags \in {{"ACK"}, {"ACK", "RST"}} \/ (p.flags = {"ACK", "FIN"} /\ y = Total(q) + 1)
    BY <1>3 DEF IsBare
  <2>2. p.len = 0
    BY <1>3 DEF IsBare
  <2>3. Plus(p.seq, p.len) = AtPeer(y)
    <3>1. Plus(Plus(PeerISS, y), 0) = Plus(PeerISS, y + 0) /\ y + 0 = y
      BY <1>0, PlusPlus
    <3>. QED
      BY <2>1, <2>2, <3>1 DEF AtPeer
  <2>4. "FIN" \in p.flags => y = Total(q) + 1
    BY <2>1
  <2>5. Ends(p, q, y)
    BY <2>1, <2>3, <2>4 DEF Ends
  <2>6. p.flags \in {{"ACK"}, {"ACK", "RST"}, {"ACK", "FIN"}} /\ p.flags # {"SYN"}
    BY <2>1
  <2>. QED
    BY <2>2, <2>5, <2>6
<1>. QED
  BY <1>1, <1>2, <1>3 DEF IsPacket

\* What the client has sent up to the end of the packet was seen.
Reached(s, p, q) ==
    \E y, h \in 0..(Total(q) + 2) : Ends(p, q, y) /\ s.win.rxHigh = AtPeer(h) /\ y <= h

MidStates == {"SYN_FIRST", "SYN_RECEIVED", "ESTABLISHED", "FIN_WAIT_1", "LAST_ACK", "CLOSE_WAIT"}
RxMid(s, q, t, p) ==
    /\ s.state \in MidStates
    /\ s.finAccepted => s.finSent
    /\ s.state \in {"SYN_FIRST", "SYN_RECEIVED", "ESTABLISHED"} => ~s.finSent
    /\ s.state \in {"SYN_RECEIVED", "ESTABLISHED"} => Reached(s, p, q)
    /\ s.state \in {"FIN_WAIT_1", "LAST_ACK"} => s.finSent
    /\ s.finRecv => s.win.rxFin = AtPeer(Total(q) + 1)
    /\ s.state \in {"SYN_FIRST", "SYN_RECEIVED"} => t = 1 /\ (p.len = 0 => s.rx = NoStream)
    /\ s.state = "SYN_FIRST" => p = Syn /\ s.win.stored = {}
    /\ s.state = "SYN_RECEIVED" /\ p.flags = {"ACK"} => p.seq = AtPeer(1)
    /\ Cares(s) => \E e : RxAt(s, q, t, e)

SameRx(r, s) ==
    /\ r.rx = s.rx /\ r.finAccepted = s.finAccepted /\ r.win.rxCur = s.win.rxCur
    /\ r.win.stored = s.win.stored
SameView(r, s) ==
    /\ SameRx(r, s) /\ r.state = s.state /\ r.finSent = s.finSent /\ r.finRecv = s.finRecv
    /\ r.win.rxHigh = s.win.rxHigh /\ r.win.rxFin = s.win.rxFin
OfView == {"rx", "finAccepted", "state", "finSent", "finRecv"}
OfWinView == {"rxCur", "stored", "rxHigh", "rxFin"}

LEMMA ViewOf ==
    ASSUME NEW r, NEW s, NEW S, NEW W, Changes(r, s, S, W), S \cap OfView = {}, W \cap OfWinView = {}
    PROVE  SameView(r, s)
<1>1. \A f \in OfView : f \in Fields \ (S \cup {"win"})
  BY DEF OfView, Fields
<1>2. \A f \in OfWinView : f \in WinFields \ W
  BY DEF OfWinView, WinFields
<1>3. (\A f \in Fields \ (S \cup {"win"}) : r[f] = s[f]) /\ (\A f \in WinFields \ W : r.win[f] = s.win[f])
  BY DEF Changes, WinChanges
<1>4. (\A f \in OfView : r[f] = s[f]) /\ (\A f \in OfWinView : r.win[f] = s.win[f])
  BY <1>1, <1>2, <1>3
<1>. QED
  BY <1>4 DEF SameView, SameRx, OfView, OfWinView

LEMMA RxSame ==
    ASSUME NEW r, NEW s, NEW q, NEW t, SameRx(r, s)
    PROVE  \A e : RxAt(s, q, t, e) => RxAt(r, q, t, e)
BY DEF SameRx, RxAt, FinTook

LEMMA MidSame ==
    ASSUME NEW r, NEW s, NEW q, NEW t, NEW p, SameView(r, s), RxMid(s, q, t, p)
    PROVE  RxMid(r, q, t, p)
<1>1. \A e : RxAt(s, q, t, e) => RxAt(r, q, t, e)
  BY RxSame DEF SameView
<1>2. Cares(r) => Cares(s)
  BY DEF Cares, SameView, SameRx
<1>3. Reached(s, p, q) => Reached(r, p, q)
  BY DEF Reached, SameView
<1>. QED
  BY <1>1, <1>2, <1>3 DEF RxMid, SameView, SameRx

LEMMA GoodSame ==
    ASSUME NEW r, NEW s, NEW q, NEW t, SameView(r, s), RxGood(s, q, t)
    PROVE  RxGood(r, q, t)
<1>1. \A e : RxAt(s, q, t, e) => RxAt(r, q, t, e)
  BY RxSame DEF SameView
<1>2. Cares(r) => Cares(s)
  BY DEF Cares, SameView, SameRx
<1>3. High(s, q) => High(r, q)
  BY DEF High, SameView
<1>. QED
  BY <1>1, <1>2, <1>3 DEF RxGood, SameView, SameRx

\* prvTCPHandleState notes how far the client has come.
Handles(s, q, t, p) ==
    /\ IsSock(s) /\ IsRequest(q) /\ IsPacket(p, q) /\ RxGood(s, q, t)
    /\ s.state \in {"SYN_FIRST", "SYN_RECEIVED", "ESTABLISHED", "FIN_WAIT_1", "LAST_ACK"}
    /\ s.state = "SYN_FIRST" => p = Syn
    /\ s.state = "SYN_RECEIVED" /\ p.flags = {"ACK"} => p.seq = AtPeer(1)

LEMMA ArrivedMid ==
    ASSUME NEW s, NEW q, NEW t, NEW p, Handles(s, q, t, p)
    PROVE  IsSock(Arrived(s, p)) /\ RxMid(Arrived(s, p), q, t, p)
<1>. DEFINE r == Arrived(s, p)
<1>0. /\ IsSock(s) /\ IsRequest(q) /\ IsPacket(p, q) /\ RxGood(s, q, t)
      /\ s.state \in {"SYN_FIRST", "SYN_RECEIVED", "ESTABLISHED", "FIN_WAIT_1", "LAST_ACK"}
      /\ s.state = "SYN_FIRST" => p = Syn
      /\ s.state = "SYN_RECEIVED" /\ p.flags = {"ACK"} => p.seq = AtPeer(1)
  BY DEF Handles
<1>1. Changes(r, s, {"winChange"}, {"rxHigh"})
  BY <1>0, ArrivedChanges
<1>2. IsSock(r)
  BY <1>1, ChangesSock
<1>. DEFINE v == Plus(p.seq, p.len)
<1>3. r.win.rxHigh = IF Diff(v, s.win.rxHigh) > 0 THEN v ELSE s.win.rxHigh
  <2>. DEFINE a == IF From(s, "ESTABLISHED") /\ s.win.rxCur = Plus(p.seq, 1)
                   THEN [s EXCEPT !.winChange = TRUE] ELSE s
  <2>1. r = IF Diff(v, s.win.rxHigh) > 0 THEN [a EXCEPT !.win.rxHigh = v] ELSE a
    BY DEF Arrived
  <2>2. IsSock(a) /\ a.win = s.win
    BY <1>0 DEF IsSock, Fields
  <2>. HIDE DEF a, v, r
  <2>3. [a EXCEPT !.win.rxHigh = v].win.rxHigh = v
    BY <2>2 DEF IsSock, Fields, IsWin, WinFields
  <2>. QED
    BY <2>1, <2>2, <2>3
<1>. HIDE DEF r
<1>4. /\ r.rx = s.rx /\ r.finAccepted = s.finAccepted /\ r.win.rxCur = s.win.rxCur /\ r.win.stored = s.win.stored
      /\ r.state = s.state /\ r.finSent = s.finSent /\ r.finRecv = s.finRecv /\ r.win.rxFin = s.win.rxFin
  BY <1>1 DEF Changes, WinChanges, Fields, WinFields
<1>5. ASSUME High(s, q) PROVE Reached(r, p, q)
  <2>1. PICK h \in 0..(Total(q) + 2) : s.win.rxHigh = AtPeer(h)
    BY <1>5 DEF High
  <2>2. PICK y : Ends(p, q, y)
    BY <1>0, PacketIs
  <2>3. y \in 0..(Total(q) + 2) /\ v = AtPeer(y) /\ y \in Int /\ h \in Int
    BY <2>2 DEF Ends
  <2>. HIDE DEF v
  <2>4. Diff(AtPeer(y), AtPeer(h)) = y - h
    BY <1>0, <2>3, PeerOrder
  <2>5. CASE y > h
    <3>1. r.win.rxHigh = AtPeer(y)
      BY <1>3, <2>1, <2>3, <2>4, <2>5
    <3>2. y <= y
      BY <2>3
    <3>. QED
      BY <2>2, <2>3, <3>1, <3>2 DEF Reached
  <2>6. CASE y <= h
    <3>1. r.win.rxHigh = AtPeer(h)
      BY <1>3, <2>1, <2>3, <2>4, <2>6
    <3>. QED
      BY <2>2, <2>3, <2>6, <3>1 DEF Reached
  <2>. QED
    BY <2>3, <2>5, <2>6
<1>6. s.state \in {"SYN_RECEIVED", "ESTABLISHED"} => High(s, q)
  BY <1>0 DEF RxGood
<1>7. Cares(r) => \E e : RxAt(r, q, t, e)
  <2>1. Cares(r) => Cares(s)
    BY <1>4 DEF Cares
  <2>2. SameRx(r, s)
    BY <1>4 DEF SameRx
  <2>3. \A e : RxAt(s, q, t, e) => RxAt(r, q, t, e)
    BY <2>2, RxSame
  <2>4. Cares(s) => \E e : RxAt(s, q, t, e)
    BY <1>0 DEF RxGood
  <2>. QED
    BY <2>1, <2>3, <2>4
<1>8. RxMid(r, q, t, p)
  BY <1>0, <1>4, <1>5, <1>6, <1>7 DEF RxMid, RxGood, MidStates
<1>. QED
  BY <1>2, <1>8 DEF r

-----------------------------------------------------------------------------
(* prvStoreRxData and the note of a FIN *)

LEMMA AddRxdataState ==
    ASSUME NEW s, IsSock(s), NEW offset, NEW data, NEW n
    PROVE  AddRxdata(s, offset, data, n).s.state \in {s.state, "CLOSE_WAIT"}
BY AddRxdataIs

LEMMA StoreState ==
    ASSUME NEW s, IsSock(s), NEW p
    PROVE  StoreRxData(s, p).s.state \in {s.state, "CLOSE_WAIT"}
<1>. DEFINE a == OnChecked(s, p)   b == OnAdded(s, p).s
<1>1. IsSock(a) /\ a.state = s.state
  <2>1. Changes(a, s, {}, OfCheck)
    BY OnCheckedChanges
  <2>. QED
    BY <2>1, ChangesSock DEF Changes, Fields
<1>2. b.state \in {s.state, "CLOSE_WAIT"} /\ IsSock(b)
  <2>1. Changes(b, a, OfRxdata, {})
    BY <1>1, AddRxdataChanges DEF OnAdded
  <2>2. b.state \in {a.state, "CLOSE_WAIT"}
    BY <1>1, AddRxdataState DEF OnAdded
  <2>. HIDE DEF a, b
  <2>. QED
    BY <1>1, <2>1, <2>2, ChangesSock
<1>3. SendReset(b, p).state = b.state
  <2>1. Changes(SendReset(b, p), b, {"out"}, {})
    BY <1>2, SendResetChanges
  <2>. HIDE DEF b
  <2>. QED
    BY <2>1 DEF Changes, Fields
<1>4. OnMoved(b).state \in {b.state, "CLOSE_WAIT"}
  <2>. DEFINE d == AddRxdata(b, 0, <<>>, b.win.userData).s
  <2>1. d.state \in {b.state, "CLOSE_WAIT"} /\ IsSock(d)
    <3>1. Changes(d, b, OfRxdata, {})
      BY <1>2, AddRxdataChanges
    <3>2. d.state \in {b.state, "CLOSE_WAIT"}
      BY <1>2, AddRxdataState
    <3>. QED
      BY <3>1, <3>2, ChangesSock
  <2>2. OnMoved(b) = b \/ OnMoved(b) = [d EXCEPT !.win.userData = 0]
    BY DEF OnMoved
  <2>. HIDE DEF d, b
  <2>3. [d EXCEPT !.win.userData = 0].state = d.state
    BY <2>1 DEF IsSock, Fields
  <2>. QED
    BY <2>1, <2>2, <2>3
<1>5. CASE ~(p.len > 0 /\ From(s, "SYN_RECEIVED"))
  <2>1. StoreRxData(s, p) = [s |-> [s EXCEPT !.win.opt = <<>>], fails |-> FALSE]
    BY <1>5, StoreRxDataIs
  <2>2. StoreRxData(s, p).s = [s EXCEPT !.win.opt = <<>>]
    BY <2>1
  <2>. QED
    BY <2>2 DEF IsSock, Fields
<1>6. CASE p.len > 0 /\ From(s, "SYN_RECEIVED")
  <2>1. StoreRxData(s, p) =
                    IF Check(s, p).offset < 0 THEN [s |-> a, fails |-> FALSE]
                    ELSE IF OnAdded(s, p).stored # p.len
                    THEN [s |-> SendReset(b, p), fails |-> TRUE]
                    ELSE [s |-> OnMoved(b), fails |-> FALSE]
    BY <1>6, StoreRxDataIs
  <2>. HIDE DEF a, b
  <2>2. StoreRxData(s, p).s \in {a, SendReset(b, p), OnMoved(b)}
    BY <2>1
  <2>. QED
    BY <1>1, <1>2, <1>3, <1>4, <2>2
<1>. QED
  BY <1>5, <1>6

LEMMA MidStored ==
    ASSUME NEW s, IsSock(s), NEW q, IsRequest(q), NEW t, NEW p, IsPacket(p, q),
           RxMid(s, q, t, p), s.state # "CLOSE_WAIT", NEW r, r = StoreRxData(s, p)
    PROVE  /\ IsSock(r.s)
           /\ ~r.fails => RxMid(r.s, q, t, p)
           /\ r.fails => RxGood(r.s, q, t) /\ r.s.state \in {"FIN_WAIT_1", "LAST_ACK", "CLOSE_WAIT"}
<1>1. Changes(r.s, s, OfRxdata \cup {"out"}, OfCheck)
  BY StoreRxDataChanges
<1>2. IsSock(r.s)
  BY <1>1, ChangesSock
<1>3. CASE ~(p.len > 0 /\ From(s, "SYN_RECEIVED"))
  <2>. DEFINE c == [s EXCEPT !.win.opt = <<>>]
  <2>1. r = [s |-> c, fails |-> FALSE]
    BY <1>3, StoreRxDataIs
  <2>2. r.s = c /\ ~r.fails
    BY <2>1
  <2>3. Changes(c, s, {}, {"opt"})
    BY DEF IsSock, IsWin, Fields, WinFields, Changes, WinChanges
  <2>. HIDE DEF c
  <2>4. {} \cap OfView = {} /\ {"opt"} \cap OfWinView = {}
    BY DEF OfWinView
  <2>5. SameView(c, s)
    BY <2>3, <2>4, ViewOf
  <2>6. RxMid(c, q, t, p)
    BY <2>5, MidSame
  <2>. QED
      BY <1>2, <2>2, <2>6
<1>4. CASE p.len > 0 /\ From(s, "SYN_RECEIVED")
  <2>1. /\ r.s.finSent = s.finSent /\ r.s.finAccepted = s.finAccepted /\ r.s.finRecv = s.finRecv
        /\ r.s.win.rxHigh = s.win.rxHigh /\ r.s.win.rxFin = s.win.rxFin
    <3>1. {"finSent", "finAccepted", "finRecv"} \subseteq Fields \ (OfRxdata \cup {"out", "win"})
      BY DEF Fields, OfRxdata, OfState
    <3>2. {"rxHigh", "rxFin"} \subseteq WinFields \ OfCheck
      BY DEF WinFields, OfCheck
    <3>. QED
      BY <1>1, <3>1, <3>2 DEF Changes, WinChanges
  <2>2. r.s.state \in {s.state, "CLOSE_WAIT"}
    BY StoreState
  <2>3. s.state \in {"SYN_RECEIVED", "ESTABLISHED", "FIN_WAIT_1", "LAST_ACK"}
    BY <1>4, RankIs DEF RxMid, MidStates, From
  <2>4. CASE Cares(s)
    <3>1. PICK e : RxAt(s, q, t, e)
      BY <2>4 DEF RxMid
    <3>2. PICK i : IsPiece(p, q, i)
      BY <1>4, PacketIs
    <3>3. RxFailed(r, s) \/ RxStored(r, s, q, t)
      BY <1>4, <3>1, <3>2, StoredIs
    <3>4. CASE RxFailed(r, s)
      <4>1. r.fails /\ r.s.state = "CLOSE_WAIT" /\ r.s.rx = NoStream /\ ~r.s.finAccepted
        BY <3>4 DEF RxFailed
      <4>2. RxGood(r.s, q, t)
        BY <2>1, <4>1 DEF RxGood, RxMid, Cares
      <4>. QED
      BY <1>2, <4>1, <4>2
    <3>5. CASE RxStored(r, s, q, t)
      <4>1. ~r.fails /\ r.s.state = s.state /\ \E x : RxAt(r.s, q, t, x)
        BY <3>5 DEF RxStored
      <4>2. Reached(s, p, q) => Reached(r.s, p, q)
        BY <2>1 DEF Reached
      <4>3. RxMid(r.s, q, t, p)
        BY <1>4, <2>1, <2>3, <4>1, <4>2 DEF RxMid
      <4>. QED
      BY <1>2, <4>1, <4>3
    <3>. QED
      BY <3>3, <3>4, <3>5
  <2>5. CASE ~Cares(s)
    <3>1. ~s.finAccepted /\ s.finSent /\ s.state \in {"FIN_WAIT_1", "LAST_ACK"}
      BY <2>3, <2>5 DEF Cares, RxMid
    <3>2. r.s.state \in {"FIN_WAIT_1", "LAST_ACK", "CLOSE_WAIT"} /\ ~Cares(r.s)
      BY <2>1, <2>2, <3>1 DEF Cares
    <3>3. RxGood(r.s, q, t)
      BY <2>1, <3>1, <3>2 DEF RxGood, RxMid
    <3>4. RxMid(r.s, q, t, p)
      BY <2>1, <3>1, <3>2 DEF RxMid, MidStates
    <3>. QED
      BY <1>2, <3>2, <3>3, <3>4
  <2>. QED
    BY <2>4, <2>5
<1>. QED
  BY <1>3, <1>4

\* A SYN in SYN_RECEIVED starts again.
LEMMA MidAgain ==
    ASSUME NEW s, IsSock(s), NEW q, IsRequest(q), NEW t, NEW p, IsPacket(p, q), RxMid(s, q, t, p)
    PROVE  IsSock(Again(s, p)) /\ RxMid(Again(s, p), q, t, p)
<1>. DEFINE r == Again(s, p)
<1>1. CASE s.state = "SYN_RECEIVED" /\ p.flags = {"SYN"}
  <2>1. r = StateChange(s, "SYN_FIRST")
    BY <1>1 DEF Again
  <2>2. Changes(r, s, OfState, {}) /\ r.state = "SYN_FIRST"
    BY <2>1, StateChangeChanges
  <2>3. IsSock(r)
    BY <2>2, ChangesSock
  <2>4. p = Syn /\ p.len = 0
    BY <1>1, PacketIs DEF Syn
  <2>5. Cares(s) /\ s.rx = NoStream /\ ~s.finSent /\ ~s.finAccepted /\ t = 1
    BY <1>1, <2>4 DEF RxMid, Cares
  <2>6. s.win.stored = {}
    BY <2>5 DEF RxMid, RxAt
  <2>. HIDE DEF r
  <2>7. /\ r.rx = s.rx /\ r.finSent = s.finSent /\ r.finAccepted = s.finAccepted /\ r.finRecv = s.finRecv
        /\ r.win.stored = s.win.stored /\ r.win.rxFin = s.win.rxFin
    BY <2>2 DEF Changes, WinChanges, Fields, WinFields, OfState
  <2>8. RxMid(r, q, t, p)
    BY <2>2, <2>4, <2>5, <2>6, <2>7 DEF RxMid, Cares, MidStates
  <2>. QED
    BY <2>3, <2>8 DEF r
<1>2. CASE ~(s.state = "SYN_RECEIVED" /\ p.flags = {"SYN"})
  BY <1>2 DEF Again
<1>. QED
  BY <1>1, <1>2

LEMMA MidNoted ==
    ASSUME NEW s, IsSock(s), NEW q, IsRequest(q), NEW t, NEW p, IsPacket(p, q), RxMid(s, q, t, p)
    PROVE  /\ IsSock(NoteFin(s, p)) /\ RxMid(NoteFin(s, p), q, t, p)
           /\ "FIN" \in p.flags => NoteFin(s, p).finRecv
<1>. DEFINE r == NoteFin(s, p)
<1>1. Changes(r, s, {"finRecv", "finLast"}, {"rxFin"})
  BY NoteFinChanges
<1>2. IsSock(r)
  BY <1>1, ChangesSock
<1>3. CASE "FIN" \in p.flags /\ ~s.finRecv
  <2>1. r.finRecv /\ r.win.rxFin = Plus(p.seq, p.len)
    BY <1>3 DEF NoteFin, IsSock, IsWin, Fields, WinFields
  <2>2. PICK y : Ends(p, q, y)
    BY PacketIs
  <2>3. r.win.rxFin = AtPeer(Total(q) + 1)
    BY <1>3, <2>1, <2>2 DEF Ends
  <2>. HIDE DEF r
  <2>4. SameRx(r, s) /\ r.state = s.state /\ r.finSent = s.finSent /\ r.win.rxHigh = s.win.rxHigh
    BY <1>1 DEF Changes, WinChanges, Fields, WinFields, SameRx
  <2>5. \A e : RxAt(s, q, t, e) => RxAt(r, q, t, e)
    BY <2>4, RxSame
  <2>6. (Cares(r) => Cares(s)) /\ (Reached(s, p, q) => Reached(r, p, q))
    BY <2>4 DEF Cares, SameRx, Reached
  <2>7. RxMid(r, q, t, p)
    BY <2>3, <2>4, <2>5, <2>6 DEF RxMid, SameRx
  <2>. QED
    BY <1>2, <2>1, <2>7 DEF r
<1>4. CASE ~("FIN" \in p.flags /\ ~s.finRecv)
  BY <1>4 DEF NoteFin
<1>. QED
  BY <1>3, <1>4

-----------------------------------------------------------------------------
(* prvTCPHandleFin: a FIN that is accepted is the next thing expected *)

LEMMA FinDoneIs ==
    ASSUME NEW s, IsSock(s), NEW p, NEW c, c = FinDone(s, p)
    PROVE  /\ IsSock(c) /\ c.finSent
           /\ c.win.rxCur = (IF "FIN" \in p.flags THEN Plus(s.win.rxFin, 1) ELSE s.win.rxCur)
           /\ c.rx = s.rx /\ c.finAccepted = s.finAccepted /\ c.finRecv = s.finRecv
           /\ c.win.stored = s.win.stored /\ c.win.rxFin = s.win.rxFin /\ c.state = s.state
<1>. DEFINE a == FinTaken(s, p)   b == FinGiven(s, p)
<1>1. /\ Changes(a, s, {}, {"rxCur"}) /\ Changes(b, a, {"finSent", "finAcked"}, {"txFin"})
      /\ Changes(c, b, {}, {"txCur", "our"}) /\ Changes(c, s, {"finSent", "finAcked"}, OfFinWin)
  BY FinDoneChanges
<1>2. IsSock(a) /\ IsSock(b) /\ IsSock(c)
  BY <1>1, ChangesSock
<1>3. a.win.rxCur = (IF "FIN" \in p.flags THEN Plus(s.win.rxFin, 1) ELSE s.win.rxCur)
  BY DEF FinTaken, IsSock, IsWin, Fields, WinFields
<1>4. a.finSent = TRUE => b.finSent
  <2>1. a.finSent = TRUE => b = [a EXCEPT !.finAcked = @ \/ p.ack = Plus(a.win.txFin, 1)]
    BY DEF FinGiven
  <2>. HIDE DEF a, b
  <2>. QED
    BY <1>2, <2>1 DEF IsSock, Fields
<1>5. ~a.finSent => b.finSent
  <2>1. ~a.finSent => b = [a EXCEPT !.finSent = TRUE, !.win.txFin = a.win.txCur]
    BY DEF FinGiven
  <2>. HIDE DEF a, b
  <2>. QED
    BY <1>2, <2>1 DEF IsSock, Fields
<1>6. a.finSent => b.finSent = a.finSent
  <2>1. a.finSent => b = [a EXCEPT !.finAcked = @ \/ p.ack = Plus(a.win.txFin, 1)]
    BY DEF FinGiven
  <2>. HIDE DEF a, b
  <2>. QED
    BY <1>2, <2>1 DEF IsSock, Fields
<1>. HIDE DEF a, b
<1>7. b.win.rxCur = a.win.rxCur /\ c.win.rxCur = b.win.rxCur /\ c.finSent = b.finSent
  BY <1>1 DEF Changes, WinChanges, Fields, WinFields
<1>8. /\ c.rx = s.rx /\ c.finAccepted = s.finAccepted /\ c.finRecv = s.finRecv
      /\ c.win.stored = s.win.stored /\ c.win.rxFin = s.win.rxFin /\ c.state = s.state
  BY <1>1 DEF Changes, WinChanges, Fields, WinFields, OfFinWin
<1>. QED
  BY <1>2, <1>3, <1>5, <1>6, <1>7, <1>8

\* Before prvTCPHandleFin: with finAccepted all of the request has come.
AtEnd(s, q, t) ==
    /\ s.win.stored = {} /\ Total(q) + 1 \in Edges(q) /\ t \in 1..(Total(q) + 1)
    /\ s.rx = NoStream => Total(q) + 1 = 1
    /\ s.rx # NoStream => /\ IsRing(s.rx, RxLength) /\ GetSize(s.rx) = (Total(q) + 1) - t
                          /\ InPlace(s.rx, t, t, Total(q) + 1)
Closing(s, q, t, p) ==
    /\ IsSock(s) /\ IsRequest(q)
    /\ s.state \in {"ESTABLISHED", "FIN_WAIT_1", "LAST_ACK"}
    /\ s.state = "ESTABLISHED" => s.finRecv
    /\ "FIN" \in p.flags => s.finRecv
    /\ s.finRecv => s.win.rxFin = AtPeer(Total(q) + 1)
    /\ s.finAccepted => AtEnd(s, q, t) /\ ("FIN" \in p.flags \/ s.win.rxCur = AtPeer(Total(q) + 2))

LEMMA FinIsGood ==
    ASSUME NEW s, NEW q, NEW t, NEW p, Closing(s, q, t, p), NEW r, r = HandleFin(s, p).s
    PROVE  RxGood(r, q, t) /\ r.state \in {"FIN_WAIT_1", "LAST_ACK", "CLOSE_WAIT"}
<1>0. IsSock(s) /\ IsRequest(q) /\ Total(q) \in Nat /\ PeerISS \in Int
  BY RequestReach, PeerIs DEF Closing
<1>. DEFINE c == FinDone(s, p)
<1>1. /\ IsSock(c) /\ c.finSent
      /\ c.win.rxCur = (IF "FIN" \in p.flags THEN Plus(s.win.rxFin, 1) ELSE s.win.rxCur)
      /\ c.rx = s.rx /\ c.finAccepted = s.finAccepted /\ c.finRecv = s.finRecv
      /\ c.win.stored = s.win.stored /\ c.win.rxFin = s.win.rxFin /\ c.state = s.state
  BY <1>0, FinDoneIs
<1>2. \/ r = StateChange(c, "LAST_ACK")
      \/ r = c /\ ~c.finRecv
      \/ r = StateChange(c, "CLOSE_WAIT")
  BY HandleFinIs DEF To
<1>. HIDE DEF c
<1>3. /\ r.finSent = c.finSent /\ r.win.rxCur = c.win.rxCur /\ r.rx = c.rx /\ r.finAccepted = c.finAccepted
      /\ r.finRecv = c.finRecv /\ r.win.stored = c.win.stored /\ r.win.rxFin = c.win.rxFin
  <2>1. r = c \/ Changes(r, c, OfState, {})
    BY <1>1, <1>2, StateChangeChanges
  <2>. QED
    BY <2>1 DEF Changes, WinChanges, Fields, WinFields, OfState
<1>4. r.state \in {"FIN_WAIT_1", "LAST_ACK", "CLOSE_WAIT"}
  <2>1. /\ StateChange(c, "LAST_ACK").state = "LAST_ACK" /\ StateChange(c, "CLOSE_WAIT").state = "CLOSE_WAIT"
    BY <1>1, StateChangeChanges
  <2>. QED
    BY <1>1, <1>2, <2>1 DEF Closing
<1>5. s.finAccepted => RxAt(r, q, t, Total(q) + 1)
  <2>. SUFFICES ASSUME s.finAccepted PROVE RxAt(r, q, t, Total(q) + 1)
    OBVIOUS
  <2>1. AtEnd(s, q, t) /\ ("FIN" \in p.flags \/ s.win.rxCur = AtPeer(Total(q) + 2))
    BY DEF Closing
  <2>2. Plus(AtPeer(Total(q) + 1), 1) = AtPeer(Total(q) + 2)
    <3>1. Plus(Plus(PeerISS, Total(q) + 1), 1) = Plus(PeerISS, Total(q) + 1 + 1)
      BY <1>0, PlusPlus
    <3>2. Total(q) + 1 + 1 = Total(q) + 2
      BY <1>0
    <3>. QED
      BY <3>1, <3>2 DEF AtPeer
  <2>3. r.win.rxCur = AtPeer(Total(q) + 2)
    BY <1>1, <1>3, <2>1, <2>2 DEF Closing
  <2>4. FinTook(r) = 1 /\ Total(q) + 1 + 1 = Total(q) + 2
    BY <1>0, <1>1, <1>3 DEF FinTook
  <2>5. /\ r.win.stored = {} /\ r.rx = s.rx
    BY <1>1, <1>3, <2>1 DEF AtEnd
  <2>6. r.win.rxCur = AtPeer(Total(q) + 1 + FinTook(r))
    BY <2>3, <2>4
  <2>. DEFINE e == Total(q) + 1
  <2>7. /\ e \in Edges(q) /\ t \in 1..e /\ (r.rx = NoStream => e = 1)
        /\ (r.rx # NoStream => IsRing(r.rx, RxLength) /\ GetSize(r.rx) = e - t /\ InPlace(r.rx, t, t, e))
    <3>1. /\ e \in Edges(q) /\ t \in 1..e /\ (s.rx = NoStream => e = 1)
          /\ (s.rx # NoStream => IsRing(s.rx, RxLength) /\ GetSize(s.rx) = e - t /\ InPlace(s.rx, t, t, e))
      BY <2>1, Zenon DEF AtEnd
    <3>. HIDE DEF e
    <3>. QED
      BY <2>5, <3>1, Zenon
  <2>8. r.win.rxCur = AtPeer(e + FinTook(r)) /\ e = Total(q) + 1
    BY <2>6
  <2>. HIDE DEF e
  <2>9. RxAt(r, q, t, e)
    BY <2>5, <2>7, <2>8 DEF RxAt
  <2>. QED
    BY <2>8, <2>9
<1>6. Cares(r) => s.finAccepted
  BY <1>1, <1>3 DEF Cares
<1>7. s.finAccepted => Total(q) + 1 \in Edges(q)
  BY DEF Closing, AtEnd
<1>8. r.finRecv => r.win.rxFin = AtPeer(Total(q) + 1)
  BY <1>1, <1>3 DEF Closing
<1>9. Cares(r) => \E e \in Edges(q) : RxAt(r, q, t, e)
  BY <1>5, <1>6, <1>7
<1>10. r.finSent
  BY <1>1, <1>3
<1>. QED
  BY <1>4, <1>8, <1>9, <1>10 DEF RxGood

-----------------------------------------------------------------------------
(* The handlers for the states *)

\* What Handled makes of a packet that is no reset and whose FIN was noted
Ready(s, q, t, p) ==
    /\ IsSock(s) /\ IsRequest(q) /\ IsPacket(p, q) /\ RxMid(s, q, t, p)
    /\ "FIN" \in p.flags => s.finRecv

LEMMA MidGood ==
    ASSUME NEW s, NEW q, IsRequest(q), NEW t, NEW p, RxMid(s, q, t, p),
           s.state \in {"ESTABLISHED", "FIN_WAIT_1", "LAST_ACK", "CLOSE_WAIT"}
    PROVE  RxGood(s, q, t)
<1>1. Reached(s, p, q) => High(s, q)
  BY DEF Reached, High
<1>2. \A e : RxAt(s, q, t, e) => e \in Edges(q)
  BY DEF RxAt
<1>. QED
  BY <1>1, <1>2 DEF RxMid, RxGood

LEMMA SynFirstGood ==
    ASSUME NEW s, NEW q, NEW t, NEW p, Ready(s, q, t, p), s.state = "SYN_FIRST", NEW r, r = Handled(s, p).s
    PROVE  RxGood(r, q, t) /\ r.state = "SYN_RECEIVED"
<1>. DEFINE a == SynAcked(s, p)
<1>0. IsSock(s) /\ IsRequest(q) /\ Total(q) \in Nat /\ PeerISS \in Int
  BY RequestReach, PeerIs DEF Ready
<1>1. r = StateChange(a, "SYN_RECEIVED")
  BY HandledIs DEF To
<1>2. Changes(a, s, {}, {"rxCur", "rxHigh", "txCur", "next"})
  BY <1>0, SynAckedChanges
<1>3. IsSock(a)
  BY <1>2, ChangesSock
<1>4. Changes(r, a, OfState, {}) /\ r.state = "SYN_RECEIVED"
  BY <1>1, <1>3, StateChangeChanges
<1>5. p.seq = PeerISS /\ p.len = 0 /\ t = 1 /\ s.rx = NoStream /\ ~s.finSent /\ ~s.finAccepted /\ s.win.stored = {}
  BY DEF Ready, RxMid, Syn
<1>6. a.win.rxCur = AtPeer(1) /\ a.win.rxHigh = AtPeer(1)
  BY <1>0, <1>5 DEF SynAcked, IsSock, IsWin, Fields, WinFields, AtPeer
<1>. HIDE DEF a
<1>7. /\ r.win.rxCur = AtPeer(1) /\ r.win.rxHigh = AtPeer(1) /\ r.rx = NoStream /\ ~r.finSent /\ ~r.finAccepted
      /\ r.win.stored = {} /\ r.finRecv = s.finRecv /\ r.win.rxFin = s.win.rxFin
  BY <1>2, <1>4, <1>5, <1>6 DEF Changes, WinChanges, Fields, WinFields, OfState
<1>8. 1 \in Edges(q)
  <2>1. Place(q, 1) = 1 /\ 1 \in 1..(Len(q) + 1)
    BY <1>0, RequestReach, PlaceIs
  <2>. QED
    BY <2>1 DEF Edges
<1>9. RxAt(r, q, t, 1)
  <2>1. FinTook(r) = 0 /\ 1 + 0 = 1
    BY <1>7 DEF FinTook
  <2>. QED
    BY <1>5, <1>7, <1>8, <2>1 DEF RxAt
<1>10. High(r, q)
  <2>1. 1 \in 0..(Total(q) + 2)
    BY <1>0
  <2>. QED
    BY <1>7, <2>1 DEF High
<1>11. r.finRecv => r.win.rxFin = AtPeer(Total(q) + 1)
  BY <1>7 DEF Ready, RxMid
<1>. QED
  BY <1>4, <1>5, <1>7, <1>8, <1>9, <1>10, <1>11 DEF RxGood

LEMMA SynReceivedGood ==
    ASSUME NEW s, NEW q, NEW t, NEW p, Ready(s, q, t, p), s.state = "SYN_RECEIVED", NEW r, r = Handled(s, p).s
    PROVE  RxGood(r, q, t) /\ r.state \in {"ESTABLISHED", "CLOSE_WAIT"}
<1>0. IsSock(s) /\ IsRequest(q) /\ IsPacket(p, q) /\ Total(q) \in Nat /\ PeerISS \in Int
  BY RequestReach, PeerIs DEF Ready
<1>1. Reached(s, p, q) /\ ~s.finSent /\ ~s.finAccepted /\ Cares(s) /\ t = 1 /\ (p.len = 0 => s.rx = NoStream)
  BY DEF Ready, RxMid, Cares
<1>2. PICK e : RxAt(s, q, t, e)
  BY <1>1 DEF Ready, RxMid
<1>3. e \in Edges(q)
  BY <1>2 DEF RxAt
<1>4. s.finRecv => s.win.rxFin = AtPeer(Total(q) + 1)
  BY DEF Ready, RxMid
<1>. DEFINE opt == s.win.opt
            a == IF p.len = 0 THEN [s EXCEPT !.win.rxCur = p.seq] ELSE s
            b == [a EXCEPT !.win.our = Plus(OurISS, 1)]
<1>5. IsSock(a) /\ IsSock(b)
  BY <1>0 DEF IsSock, IsWin, Fields, WinFields
<1>6. IF p.flags \ {"PSH"} # {"ACK"} THEN r = StateChange(s, "CLOSE_WAIT") ELSE r = StateChange(b, "ESTABLISHED")
  <2>1. Handled(s, p) = HandleSynReceived(s, p, opt)
    BY HandledIs
  <2>2. HandleSynReceived(s, p, opt) =
           IF p.flags \ {"PSH"} # {"ACK"}
           THEN To(StateChange(s, "CLOSE_WAIT"), Answer(p.flags \cup {"RST"}, <<>>, opt))
           ELSE To(StateChange(b, "ESTABLISHED"), IF p.len # 0 THEN Answer({"ACK"}, <<>>, opt) ELSE NoAnswer)
    BY DEF HandleSynReceived
  <2>. HIDE DEF b, opt
  <2>. QED
    BY <2>1, <2>2 DEF To
<1>7. /\ a.rx = s.rx /\ a.finSent = s.finSent /\ a.finAccepted = s.finAccepted /\ a.finRecv = s.finRecv
      /\ a.win.stored = s.win.stored /\ a.win.rxFin = s.win.rxFin /\ a.win.rxHigh = s.win.rxHigh
      /\ a.win.rxCur = (IF p.len = 0 THEN p.seq ELSE s.win.rxCur)
  BY <1>0 DEF IsSock, IsWin, Fields, WinFields
<1>. HIDE DEF a
<1>8. /\ b.rx = a.rx /\ b.finSent = a.finSent /\ b.finAccepted = a.finAccepted /\ b.finRecv = a.finRecv
      /\ b.win.stored = a.win.stored /\ b.win.rxFin = a.win.rxFin /\ b.win.rxHigh = a.win.rxHigh
      /\ b.win.rxCur = a.win.rxCur
  BY <1>5 DEF IsSock, IsWin, Fields, WinFields
<1>. HIDE DEF b
<1>9. CASE p.flags \ {"PSH"} # {"ACK"}
  <2>1. Changes(r, s, OfState, {}) /\ r.state = "CLOSE_WAIT"
    BY <1>0, <1>6, <1>9, StateChangeChanges
  <2>2. SameRx(r, s) /\ r.finSent = s.finSent /\ r.finRecv = s.finRecv /\ r.win.rxFin = s.win.rxFin
    BY <2>1 DEF Changes, WinChanges, Fields, WinFields, OfState, SameRx
  <2>3. RxAt(r, q, t, e)
    BY <1>2, <2>2, RxSame
  <2>. QED
    BY <1>1, <1>3, <1>4, <2>1, <2>2, <2>3 DEF RxGood, SameRx
<1>10. CASE p.flags \ {"PSH"} = {"ACK"}
  <2>1. Changes(r, b, OfState, {}) /\ r.state = "ESTABLISHED"
    BY <1>5, <1>6, <1>10, StateChangeChanges
  <2>2. /\ SameRx(r, b) /\ r.finSent = b.finSent /\ r.finRecv = b.finRecv /\ r.win.rxFin = b.win.rxFin
        /\ r.win.rxHigh = b.win.rxHigh
    BY <2>1 DEF Changes, WinChanges, Fields, WinFields, OfState, SameRx
  <2>3. b.win.rxCur = s.win.rxCur
    <3>1. CASE p.len = 0
      <4>1. p.flags \in {{"SYN"}, {"ACK"}, {"ACK", "RST"}, {"ACK", "FIN"}}
        BY <1>0, <3>1, PacketIs
      <4>2. p.flags = {"ACK"}
        BY <1>10, <4>1
      <4>3. p.seq = AtPeer(1)
        BY <4>2 DEF Ready, RxMid
      <4>4. s.rx = NoStream
        BY <1>1, <3>1
      <4>5. e = 1 /\ FinTook(s) = 0 /\ 1 + 0 = 1
        BY <1>1, <1>2, <4>4 DEF RxAt, FinTook
      <4>6. s.win.rxCur = AtPeer(1)
        BY <1>2, <4>5 DEF RxAt
      <4>. QED
        BY <1>7, <1>8, <3>1, <4>3, <4>6
    <3>2. CASE p.len # 0
      BY <1>7, <1>8, <3>2
    <3>. QED
      BY <3>1, <3>2
  <2>4. SameRx(r, s)
    BY <1>7, <1>8, <2>2, <2>3 DEF SameRx
  <2>5. RxAt(r, q, t, e)
    BY <1>2, <2>4, RxSame
  <2>6. High(s, q)
    BY <1>1 DEF Reached, High
  <2>7. High(r, q)
    BY <1>7, <1>8, <2>2, <2>6 DEF High
  <2>. QED
    BY <1>1, <1>3, <1>4, <1>7, <1>8, <2>1, <2>2, <2>4, <2>5, <2>7 DEF RxGood, SameRx
<1>. QED
  BY <1>9, <1>10

-----------------------------------------------------------------------------
(* Sending touches nothing of what was received, and may shut down *)

RxGoes(r, s) ==
    /\ SameRx(r, s) /\ r.finRecv = s.finRecv /\ r.win.rxHigh = s.win.rxHigh /\ r.win.rxFin = s.win.rxFin
    /\ \/ r.state = s.state /\ r.finSent = s.finSent
       \/ s.state = "ESTABLISHED" /\ r.state = "FIN_WAIT_1" /\ r.finSent

LEMMA RxGoesThen ==
    ASSUME NEW u, NEW r, NEW s, RxGoes(r, s), RxGoes(u, r)
    PROVE  RxGoes(u, s)
BY DEF RxGoes, SameRx

LEMMA ViewGoes ==
    ASSUME NEW r, NEW s, SameView(r, s)
    PROVE  RxGoes(r, s)
BY DEF RxGoes, SameView

LEMMA RxGoesGood ==
    ASSUME NEW r, NEW s, RxGoes(r, s), NEW q, NEW t, RxGood(s, q, t)
    PROVE  RxGood(r, q, t)
<1>1. CASE r.state = s.state /\ r.finSent = s.finSent
  <2>1. SameView(r, s)
    BY <1>1 DEF SameView, RxGoes
  <2>. QED
    BY <2>1, GoodSame
<1>2. CASE s.state = "ESTABLISHED" /\ r.state = "FIN_WAIT_1" /\ r.finSent
  <2>1. ~s.finAccepted /\ ~r.finAccepted
    BY <1>2 DEF RxGood, RxGoes, SameRx
  <2>2. ~Cares(r)
    BY <1>2, <2>1 DEF Cares
  <2>. QED
    BY <1>2, <2>1, <2>2 DEF RxGood, RxGoes
<1>. QED
  BY <1>1, <1>2 DEF RxGoes

LEMMA PrepareRx ==
    ASSUME NEW s, IsSock(s), NEW room, NEW r, r = PrepareSend(s, room).s
    PROVE  IsSock(r) /\ RxGoes(r, s)
<1>0. Changes(PrepareSend(s, room).s, s, OfSend, OfGet \cup {"txFin"})
  BY PrepareSendChanges
<1>1. IsSock(r)
  BY <1>0, ChangesSock
<1>2. CASE ~Closes(s, room)
  <2>1. r = Took(s)
    BY <1>2, PrepareSendIs
  <2>2. Changes(r, s, {"late"}, OfGet)
    BY <2>1, TookChanges
  <2>3. {"late"} \cap OfView = {} /\ OfGet \cap OfWinView = {}
    BY DEF OfView, OfWinView, OfGet
  <2>. QED
    BY <1>1, <2>2, <2>3, ViewOf, ViewGoes
<1>3. CASE Closes(s, room)
  <2>. DEFINE d == ShutDown(s)
  <2>1. r = StateChange(d, "FIN_WAIT_1")
    BY <1>3, PrepareSendIs
  <2>2. Changes(d, s, {"late", "userShutdown", "finSent", "winChange"}, OfGet \cup {"txFin"})
    BY ShutDownChanges
  <2>3. d.finSent
    <3>1. IsSock(Took(s))
      <4>1. Changes(Took(s), s, {"late"}, OfGet)
        BY TookChanges
      <4>. QED
        BY <4>1, ChangesSock
    <3>. DEFINE g == Took(s)
    <3>2. d = [g EXCEPT !.userShutdown = FALSE, !.finSent = TRUE, !.winChange = TRUE,
                               !.win.txFin = Chosen(s).w.txCur]
      BY DEF ShutDown
    <3>. HIDE DEF g, d
    <3>. QED
      BY <3>1, <3>2 DEF IsSock, Fields, g
  <2>4. IsSock(d)
    BY <2>2, ChangesSock
  <2>5. Changes(r, d, OfState, {}) /\ r.state = "FIN_WAIT_1"
    BY <2>1, <2>4, StateChangeChanges
  <2>6. s.state = "ESTABLISHED"
    BY <1>3 DEF Closes
  <2>. HIDE DEF d
  <2>7. /\ d.rx = s.rx /\ d.finAccepted = s.finAccepted /\ d.finRecv = s.finRecv /\ d.win.rxCur = s.win.rxCur
        /\ d.win.stored = s.win.stored /\ d.win.rxHigh = s.win.rxHigh /\ d.win.rxFin = s.win.rxFin
    BY <2>2 DEF Changes, WinChanges, Fields, WinFields, OfGet
  <2>8. /\ r.rx = d.rx /\ r.finAccepted = d.finAccepted /\ r.finRecv = d.finRecv /\ r.win.rxCur = d.win.rxCur
        /\ r.win.stored = d.win.stored /\ r.win.rxHigh = d.win.rxHigh /\ r.win.rxFin = d.win.rxFin
        /\ r.finSent = d.finSent
    BY <2>5 DEF Changes, WinChanges, Fields, WinFields, OfState
  <2>. QED
    BY <1>1, <2>3, <2>5, <2>6, <2>7, <2>8 DEF RxGoes, SameRx
<1>. QED
  BY <1>2, <1>3

-----------------------------------------------------------------------------
(* prvHandleEstablished *)

LEMMA EstEmpty ==
    ASSUME NEW s, NEW q, NEW t, NEW p, Ready(s, q, t, p), s.state = "ESTABLISHED",
           NEW b, SameView(b, s), MayClose(b, p)
    PROVE  "FIN" \in p.flags /\ AtEnd(b, q, t)
<1>0. IsRequest(q) /\ Total(q) \in Nat
  BY RequestReach DEF Ready
<1>1. ~s.finSent /\ ~s.finAccepted /\ Cares(s) /\ Reached(s, p, q)
  BY DEF Ready, RxMid, Cares
<1>2. ~b.finSent /\ ~b.finAccepted
  BY <1>1 DEF SameView, SameRx
<1>3. "FIN" \in p.flags /\ RxEmpty(b.win)
  BY <1>2 DEF MayClose
<1>4. PICK y \in 0..(Total(q) + 2), h \in 0..(Total(q) + 2) :
         Ends(p, q, y) /\ s.win.rxHigh = AtPeer(h) /\ y <= h
  BY <1>1 DEF Reached
<1>5. y = Total(q) + 1
  BY <1>3, <1>4 DEF Ends
<1>6. PICK e : RxAt(s, q, t, e)
  BY <1>1 DEF Ready, RxMid
<1>7. e \in Edges(q) /\ e \in 1..(Total(q) + 1) /\ e \in 0..(Total(q) + 2) /\ t \in 1..e
  BY <1>0, <1>6, RequestReach DEF RxAt
<1>8. s.win.rxCur = AtPeer(e)
  <2>1. FinTook(s) = 0 /\ e + 0 = e
    BY <1>1, <1>7 DEF FinTook
  <2>. QED
    BY <1>6, <2>1 DEF RxAt
<1>9. AtMost(AtPeer(h), AtPeer(e)) /\ b.win.stored = {}
  BY <1>3, <1>4, <1>8 DEF RxEmpty, SameView, SameRx
<1>10. AtMost(AtPeer(h), AtPeer(e)) <=> h <= e
  BY <1>0, <1>7, PeerOrder
<1>11. e = Total(q) + 1
  BY <1>0, <1>4, <1>5, <1>7, <1>9, <1>10
<1>12. b.rx = s.rx /\ b.win.stored = s.win.stored
  BY DEF SameView, SameRx
<1>13. /\ s.rx = NoStream => e = 1
       /\ s.rx # NoStream => IsRing(s.rx, RxLength) /\ GetSize(s.rx) = e - t /\ InPlace(s.rx, t, t, e)
  BY <1>6 DEF RxAt
<1>. QED
  BY <1>3, <1>7, <1>9, <1>11, <1>12, <1>13 DEF AtEnd

LEMMA EstablishedGood ==
    ASSUME NEW s, NEW q, NEW t, NEW p, Ready(s, q, t, p), s.state = "ESTABLISHED", NEW r, r = Handled(s, p).s
    PROVE  RxGood(r, q, t) /\ r.state \in {"ESTABLISHED", "FIN_WAIT_1", "LAST_ACK", "CLOSE_WAIT"}
<1>. DEFINE b == EstNow(s, p)   c == EstKept(b, p)   opt == s.win.opt   n == PrepareSend(c, p.len)
<1>0. IsSock(s) /\ IsRequest(q)
  BY DEF Ready
<1>1. Changes(b, s, {"peerWin", "tx", "bits"}, OfAck \cup OfAdd \cup {"our"})
  BY <1>0, EstChanges
<1>2. IsSock(b)
  BY <1>1, ChangesSock
<1>3. SameView(b, s)
  <2>1. {"peerWin", "tx", "bits"} \cap OfView = {} /\ (OfAck \cup OfAdd \cup {"our"}) \cap OfWinView = {}
    BY DEF OfView, OfWinView, OfAck, OfAdd
  <2>. QED
    BY <1>1, <2>1, ViewOf
<1>4. Changes(c, b, {}, {"txCur"})
  BY <1>2, EstKeptChanges
<1>5. IsSock(c) /\ SameView(c, b)
  <2>1. {} \cap OfView = {} /\ {"txCur"} \cap OfWinView = {}
    BY DEF OfWinView
  <2>. QED
    BY <1>4, <2>1, ViewOf, ChangesSock
<1>6. RxGood(s, q, t)
  BY <1>0, MidGood DEF Ready
<1>7. RxGood(c, q, t) /\ c.state = "ESTABLISHED"
  <2>1. RxGood(b, q, t)
    BY <1>3, <1>6, GoodSame
  <2>. QED
    BY <1>3, <1>5, <2>1, GoodSame DEF SameView
<1>8. Handled(s, p).s = IF MayClose(b, p) THEN HandleFin([b EXCEPT !.finAccepted = TRUE], p).s
                        ELSE IF opt # <<>> THEN c ELSE n.s
  <2>1. Handled(s, p) = HandleEstablished(s, p, opt)
    BY HandledIs
  <2>2. HandleEstablished(s, p, opt) =
          IF MayClose(b, p) THEN HandleFin([b EXCEPT !.finAccepted = TRUE], p)
                  ELSE IF opt # <<>> THEN To(c, EstFirst(p, opt))
                  ELSE To(n.s, IF n.sends THEN Answer(Flags({}, n), n.data, <<>>) ELSE EstFirst(p, opt))
    BY HandleEstablishedIs
  <2>. HIDE DEF b, c, n, opt
  <2>. QED
    BY <2>1, <2>2 DEF To
<1>9. CASE MayClose(b, p)
  <2>. DEFINE d == [b EXCEPT !.finAccepted = TRUE]
  <2>1. "FIN" \in p.flags /\ AtEnd(b, q, t)
    BY <1>3, <1>9, EstEmpty
  <2>2. b.finRecv /\ b.win.rxFin = AtPeer(Total(q) + 1) /\ b.state = "ESTABLISHED"
    BY <1>3, <2>1 DEF Ready, RxMid, SameView
  <2>. HIDE DEF b
  <2>3. /\ IsSock(d) /\ d.rx = b.rx /\ d.win = b.win /\ d.finRecv = b.finRecv /\ d.state = b.state
    BY <1>2 DEF IsSock, Fields
  <2>. HIDE DEF d
  <2>4. AtEnd(d, q, t)
    BY <2>1, <2>3 DEF AtEnd
  <2>5. Closing(d, q, t, p)
    BY <1>0, <2>1, <2>2, <2>3, <2>4 DEF Closing
  <2>6. r = HandleFin(d, p).s
    BY <1>8, <1>9 DEF d
  <2>. QED
    BY <2>5, <2>6, FinIsGood
<1>10. CASE ~MayClose(b, p) /\ opt # <<>>
  BY <1>7, <1>8, <1>10
<1>11. CASE ~MayClose(b, p) /\ ~(opt # <<>>)
  <2>1. r = PrepareSend(c, p.len).s
    BY <1>8, <1>11
  <2>. HIDE DEF c
  <2>2. RxGoes(r, c)
    BY <1>5, <2>1, PrepareRx
  <2>. QED
    BY <1>7, <2>2, RxGoesGood DEF RxGoes
<1>. QED
  BY <1>9, <1>10, <1>11

LEMMA HandledGood ==
    ASSUME NEW s, NEW q, NEW t, NEW p, Ready(s, q, t, p), NEW r, r = Handled(s, p).s
    PROVE  /\ RxGood(r, q, t) /\ r.state \in Resting /\ r.state # "LISTEN"
           /\ r.state = "SYN_RECEIVED" => s.state = "SYN_FIRST"
<1>1. CASE s.state = "SYN_FIRST"
  BY <1>1, SynFirstGood DEF Resting
<1>2. CASE s.state = "SYN_RECEIVED"
  BY <1>2, SynReceivedGood DEF Resting
<1>3. CASE s.state = "ESTABLISHED"
  BY <1>3, EstablishedGood DEF Resting
<1>4. CASE s.state \in {"FIN_WAIT_1", "LAST_ACK"}
  <2>1. r = HandleFin(s, p).s
    BY <1>4, HandledIs
  <2>2. s.finAccepted => AtEnd(s, q, t) /\ s.win.rxCur = AtPeer(Total(q) + 2)
    <3>. SUFFICES ASSUME s.finAccepted PROVE AtEnd(s, q, t) /\ s.win.rxCur = AtPeer(Total(q) + 2)
      OBVIOUS
    <3>1. PICK e : RxAt(s, q, t, e)
      BY DEF Ready, RxMid, Cares
    <3>2. e = Total(q) + 1 /\ s.win.stored = {} /\ e \in Edges(q) /\ t \in 1..e
      BY <3>1 DEF RxAt
    <3>3. /\ s.rx = NoStream => e = 1
          /\ s.rx # NoStream => IsRing(s.rx, RxLength) /\ GetSize(s.rx) = e - t /\ InPlace(s.rx, t, t, e)
      BY <3>1 DEF RxAt
    <3>4. AtEnd(s, q, t)
      BY <3>2, <3>3 DEF AtEnd
    <3>5. FinTook(s) = 1 /\ e + 1 = Total(q) + 2
      <4>1. Total(q) \in Nat
        BY RequestReach DEF Ready
      <4>. QED
        BY <3>2, <4>1 DEF FinTook
    <3>6. s.win.rxCur = AtPeer(e + FinTook(s))
      BY <3>1 DEF RxAt
    <3>. QED
      BY <3>4, <3>5, <3>6
  <2>3. Closing(s, q, t, p)
    BY <1>4, <2>2 DEF Closing, Ready, RxMid
  <2>4. RxGood(r, q, t) /\ r.state \in {"FIN_WAIT_1", "LAST_ACK", "CLOSE_WAIT"}
    BY <2>1, <2>3, FinIsGood
  <2>. QED
    BY <2>4 DEF Resting
<1>5. CASE s.state = "CLOSE_WAIT"
  <2>1. Handled(s, p) = To(s, NoAnswer)
    BY <1>5, HandledIs
  <2>2. r = s
    BY <2>1 DEF To
  <2>3. RxGood(s, q, t)
    BY <1>5, MidGood DEF Ready
  <2>. QED
    BY <1>5, <2>2, <2>3 DEF Resting
<1>. QED
  BY <1>1, <1>2, <1>3, <1>4, <1>5 DEF Ready, RxMid, MidStates

-----------------------------------------------------------------------------
(* prvTCPSendRepeated, prvSendData and the timer leave what was received alone *)

LEMMA RepeatedRx ==
    ASSUME NEW s, IsSock(s), NEW r, r = Repeated(PrepareSend(s, -1)).s
    PROVE  IsSock(r) /\ RxGoes(r, s)
<1>. DEFINE n == PrepareSend(s, -1)
            a == n.s
            last == [a EXCEPT !.lastFin = @ \/ (n.fin /\ n.data = <<>>)]
            base == IF a.lastFin THEN {"FIN"} ELSE {}
            d == ReturnPacket(last, n.data # <<>>, Flags(base, n), n.data, <<>>)
<1>1. IsSock(a) /\ RxGoes(a, s)
  BY PrepareRx
<1>2. r \in {a, d}
  BY DEF Repeated
<1>. HIDE DEF n
<1>3. IsSock(last) /\ RxGoes(last, a)
  <2>. HIDE DEF a
  <2>1. Changes(last, a, {"lastFin"}, {})
    BY <1>1 DEF Changes, WinChanges, IsSock, Fields
  <2>2. {"lastFin"} \cap OfView = {} /\ {} \cap OfWinView = {}
    BY DEF OfView
  <2>. HIDE DEF last
  <2>. QED
    BY <2>1, <2>2, ViewOf, ViewGoes, ChangesSock
<1>. HIDE DEF last, a
<1>4. RxGoes(d, last) /\ IsSock(d)
  <2>1. Changes(d, last, {"winChange", "hiAllowed", "out"}, {})
    BY <1>3, ReturnPacketChanges
  <2>2. {"winChange", "hiAllowed", "out"} \cap OfView = {} /\ {} \cap OfWinView = {}
    BY DEF OfView
  <2>. HIDE DEF d
  <2>. QED
    BY <2>1, <2>2, ViewOf, ViewGoes, ChangesSock
<1>. HIDE DEF d
<1>5. RxGoes(d, s)
  BY <1>1, <1>3, <1>4, RxGoesThen
<1>. QED
  BY <1>1, <1>2, <1>4, <1>5

LEMMA SendRepeatedRx ==
    ASSUME NEW s, IsSock(s), NEW u, u = SendRepeated(s)
    PROVE  IsSock(u) /\ RxGoes(u, s)
<1>1. PICK f : /\ SendRepeated(s) = f[Repeats].s /\ DOMAIN f = 0..Repeats
               /\ \A i \in 0..Repeats : f[i] = IF i = 0 THEN [s |-> s, on |-> TRUE] ELSE SendAnother(f[i - 1])
  BY SentLoop
<1>2. Repeats \in Nat
  BY SocketAssumption
<1>. DEFINE T == {i \in Nat : i <= Repeats => RxGoes(f[i].s, s) /\ IsSock(f[i].s)}
<1>3. 0 \in T
  <2>1. f[0].s = s
    BY <1>1, <1>2
  <2>2. RxGoes(s, s)
    BY DEF RxGoes, SameRx
  <2>. QED
    BY <2>1, <2>2
<1>4. ASSUME NEW i \in T PROVE i + 1 \in T
  <2>. SUFFICES ASSUME i + 1 <= Repeats
                PROVE  RxGoes(f[i + 1].s, s) /\ IsSock(f[i + 1].s)
    OBVIOUS
  <2>1. i \in Nat /\ i + 1 \in 0..Repeats /\ i + 1 # 0 /\ (i + 1) - 1 = i /\ i <= Repeats
    BY <1>2, <1>4
  <2>2. f[i + 1] = SendAnother(f[i])
    <3>1. f[i + 1] = SendAnother(f[(i + 1) - 1])
      BY <1>1, <2>1
    <3>. QED
      BY <2>1, <3>1
  <2>. DEFINE a == f[i]
  <2>3. RxGoes(a.s, s) /\ IsSock(a.s)
    BY <1>4, <2>1
  <2>. HIDE DEF a
  <2>. DEFINE r == Repeated(PrepareSend(a.s, -1)).s
  <2>4. RxGoes(r, a.s) /\ IsSock(r)
    BY <2>3, RepeatedRx
  <2>5. SendAnother(a).s \in {a.s, r}
    BY DEF SendAnother
  <2>. HIDE DEF r
  <2>6. RxGoes(r, s)
    BY <2>3, <2>4, RxGoesThen
  <2>. QED
    BY <2>2, <2>3, <2>4, <2>5, <2>6 DEF a
<1>5. T = Nat
  <2>1. T \subseteq Nat
    OBVIOUS
  <2>. HIDE DEF T
  <2>. QED
    BY <1>3, <1>4, <2>1, Induction
<1>6. Repeats \in T
  BY <1>2, <1>5
<1>. QED
  BY <1>1, <1>6

LEMMA SendDataView ==
    ASSUME NEW s, IsSock(s), NEW p, NEW answer, NEW r, r = SendData(s, p, answer).s
    PROVE  IsSock(r) /\ SameView(r, s)
<1>1. r \in {SdKept(s), SdSent(s, answer)}
  BY SendDataIs
<1>2. /\ Changes(SdKept(s), s, {"curWin", "held", "ack", "mine"}, {})
      /\ Changes(SdSent(s, answer), s, OfData, {})
  BY SendDataChanges
<1>3. {"curWin", "held", "ack", "mine"} \cap OfView = {} /\ OfData \cap OfView = {} /\ {} \cap OfWinView = {}
  BY DEF OfView, OfData
<1>4. SameView(SdKept(s), s) /\ SameView(SdSent(s, answer), s) /\ IsSock(SdKept(s)) /\ IsSock(SdSent(s, answer))
  BY <1>2, <1>3, ViewOf, ChangesSock
<1>. QED
  BY <1>1, <1>4

-----------------------------------------------------------------------------
(* A packet for the socket *)

LEMMA HandleStateRx ==
    ASSUME NEW s, NEW q, NEW t, NEW p, Handles(s, q, t, p), NEW r, r = HandleState(s, p).s
    PROVE  /\ IsSock(r) /\ RxGood(r, q, t) /\ r.state \in Resting /\ r.state # "LISTEN"
           /\ r.state = "SYN_RECEIVED" => p = Syn
<1>0. IsSock(s) /\ IsRequest(q) /\ IsPacket(p, q)
  BY DEF Handles
<1>. DEFINE a == Arrived(s, p)   b == StoreRxData(a, p)   c == Again(b.s, p)   d == NoteFin(c, p)   e == Handled(d, p)
<1>1. IsSock(a) /\ RxMid(a, q, t, p) /\ a.state # "CLOSE_WAIT"
  <2>1. Changes(a, s, {"winChange"}, {"rxHigh"})
    BY <1>0, ArrivedChanges
  <2>2. a.state = s.state
    BY <2>1 DEF Changes, Fields
  <2>. QED
    BY <2>2, ArrivedMid DEF Handles
<1>2. HandleState(s, p) =
              IF b.fails THEN [s |-> b.s, sent |-> FALSE]
              ELSE IF e.answer.sends
              THEN SendData(e.s, p, e.answer)
              ELSE [s |-> e.s, sent |-> FALSE]
  BY HandleStateIs DEF HsStored, HsNoted, HsHandled
<1>. HIDE DEF a
<1>3. /\ IsSock(b.s)
      /\ ~b.fails => RxMid(b.s, q, t, p)
      /\ b.fails => RxGood(b.s, q, t) /\ b.s.state \in {"FIN_WAIT_1", "LAST_ACK", "CLOSE_WAIT"}
  BY <1>0, <1>1, MidStored
<1>. HIDE DEF b
<1>4. CASE b.fails
  <2>1. r = b.s
    BY <1>2, <1>4
  <2>. QED
    BY <1>3, <1>4, <2>1 DEF Resting
<1>5. CASE ~b.fails
  <2>1. IsSock(c) /\ RxMid(c, q, t, p)
    BY <1>0, <1>3, <1>5, MidAgain
  <2>. HIDE DEF c
  <2>2. IsSock(d) /\ RxMid(d, q, t, p) /\ ("FIN" \in p.flags => d.finRecv)
    BY <1>0, <2>1, MidNoted
  <2>. HIDE DEF d
  <2>3. Ready(d, q, t, p)
    BY <1>0, <2>2 DEF Ready
  <2>4. /\ RxGood(e.s, q, t) /\ e.s.state \in Resting /\ e.s.state # "LISTEN"
        /\ e.s.state = "SYN_RECEIVED" => d.state = "SYN_FIRST"
    BY <2>3, HandledGood
  <2>5. IsSock(e.s)
    <3>1. Changes(e.s, d, OfHandled, OfHandledWin \cup {"rxHigh"})
      BY <2>2, HandledChanges
    <3>. QED
      BY <3>1, ChangesSock
  <2>6. d.state = "SYN_FIRST" => p = Syn
    BY <2>2 DEF RxMid
  <2>. HIDE DEF e
  <2>. DEFINE g == SendData(e.s, p, e.answer).s
  <2>7. r = e.s \/ r = g
    BY <1>2, <1>5
  <2>8. IsSock(g) /\ SameView(g, e.s)
    BY <2>5, SendDataView
  <2>9. RxGood(g, q, t) /\ g.state = e.s.state
    BY <2>4, <2>8, GoodSame DEF SameView
  <2>. QED
    BY <2>4, <2>5, <2>6, <2>7, <2>8, <2>9
<1>. QED
  BY <1>4, <1>5

LEMMA ServedRx ==
    ASSUME NEW s, NEW q, NEW t, NEW p, Handles(s, q, t, p), NEW r, r = Served(s, p)
    PROVE  /\ IsSock(r) /\ RxGood(r, q, t) /\ r.state \in Resting /\ r.state # "LISTEN"
           /\ r.state = "SYN_RECEIVED" => p = Syn
<1>. DEFINE a == Looked(s, p)   h == HandleState(a, p)
<1>0. IsSock(s)
  BY DEF Handles
<1>1. IsSock(a) /\ SameView(a, s)
  <2>1. Changes(a, s, {"tx", "bits", "peerWin"}, OfAck)
    BY <1>0, LookedChanges
  <2>2. {"tx", "bits", "peerWin"} \cap OfView = {} /\ OfAck \cap OfWinView = {}
    BY DEF OfView, OfWinView, OfAck
  <2>. QED
    BY <2>1, <2>2, ViewOf, ChangesSock
<1>2. r = IF h.sent THEN SendRepeated(h.s) ELSE h.s
  BY DEF Served, Looked
<1>. HIDE DEF a
<1>3. Handles(a, q, t, p)
  <2>1. RxGood(a, q, t)
    BY <1>1, GoodSame DEF Handles
  <2>. QED
    BY <1>1, <2>1 DEF Handles, SameView
<1>4. /\ IsSock(h.s) /\ RxGood(h.s, q, t) /\ h.s.state \in Resting /\ h.s.state # "LISTEN"
      /\ h.s.state = "SYN_RECEIVED" => p = Syn
  BY <1>3, HandleStateRx
<1>. HIDE DEF h
<1>. DEFINE u == SendRepeated(h.s)
<1>5. IsSock(u) /\ RxGoes(u, h.s)
  BY <1>4, SendRepeatedRx
<1>. HIDE DEF u
<1>6. RxGood(u, q, t)
  BY <1>4, <1>5, RxGoesGood
<1>7. u.state \in Resting /\ u.state # "LISTEN" /\ (u.state = "SYN_RECEIVED" => h.s.state = "SYN_RECEIVED")
  BY <1>4, <1>5 DEF RxGoes, Resting
<1>. QED
  BY <1>2, <1>4, <1>5, <1>6, <1>7 DEF u

LEMMA TimerRx ==
    ASSUME NEW s, IsSock(s), NEW due, NEW willSleep, NEW r, r = TimerCheck(s, due, willSleep)
    PROVE  IsSock(r) /\ RxGoes(r, s)
<1>. DEFINE a == Filled(s)   b == Given(a)   u == SendRepeated(a)   v == SendRepeated(b)
            c == IF due THEN SocketCheck(s) ELSE s
            d == WakeUpUser(c)
<1>0. RxGoes(s, s)
  BY DEF RxGoes, SameRx
<1>1. r \in {c, d} /\ c \in {s, Ticks(a)} /\ Ticks(a) \in {a, b, u, v}
  BY SocketCheckIs DEF TimerCheck, Ticks
<1>2. IsSock(a) /\ RxGoes(a, s)
  <2>1. Changes(a, s, {"tx"}, OfAdd)
    BY FilledChanges
  <2>2. {"tx"} \cap OfView = {} /\ OfAdd \cap OfWinView = {}
    BY DEF OfView, OfWinView, OfAdd
  <2>. QED
    BY <2>1, <2>2, ViewOf, ViewGoes, ChangesSock
<1>. HIDE DEF a
<1>3. IsSock(b) /\ RxGoes(b, a)
  <2>1. Changes(b, a, {"winChange", "hiAllowed", "out", "ack", "held"}, {})
    BY <1>2, GivenChanges
  <2>2. {"winChange", "hiAllowed", "out", "ack", "held"} \cap OfView = {} /\ {} \cap OfWinView = {}
    BY DEF OfView, OfWinView
  <2>. QED
    BY <2>1, <2>2, ViewOf, ViewGoes, ChangesSock
<1>. HIDE DEF b
<1>4. IsSock(u) /\ RxGoes(u, a) /\ IsSock(v) /\ RxGoes(v, b)
  BY <1>2, <1>3, SendRepeatedRx
<1>. HIDE DEF u, v
<1>5. RxGoes(b, s)
  BY <1>2, <1>3, RxGoesThen
<1>6. RxGoes(u, s) /\ RxGoes(v, s)
  BY <1>2, <1>4, <1>5, RxGoesThen
<1>7. IsSock(c) /\ RxGoes(c, s)
  BY <1>0, <1>1, <1>2, <1>3, <1>4, <1>5, <1>6
<1>. HIDE DEF c
<1>8. IsSock(d) /\ RxGoes(d, c)
  <2>1. Changes(d, c, {"group", "bits"}, {})
    BY <1>7, WakeUpUserChanges
  <2>2. {"group", "bits"} \cap OfView = {} /\ {} \cap OfWinView = {}
    BY DEF OfView, OfWinView
  <2>. QED
    BY <2>1, <2>2, ViewOf, ViewGoes, ChangesSock
<1>9. RxGoes(d, s)
  BY <1>7, <1>8, RxGoesThen
<1>. QED
  BY <1>1, <1>7, <1>8, <1>9

-----------------------------------------------------------------------------
(* The packets that are sent: a SYN only in answer to a SYN, and with it only *)
(* acknowledgements of the SYN                                                *)

Fine(m, y) == /\ "SYN" \in m.flags => y
              /\ y => m.ack = AtPeer(1) \/ "RST" \in m.flags
Outs(s, y) == \E X : s.out \in Seq(X) /\ \A m \in X : Fine(m, y)

LEMMA OutsSame ==
    ASSUME NEW r, NEW s, NEW y, Outs(s, y), r.out = s.out
    PROVE  Outs(r, y)
BY DEF Outs

LEMMA OutsMore ==
    ASSUME NEW r, NEW s, NEW y, Outs(s, y), NEW m, Fine(m, y), r.out = Append(s.out, m)
    PROVE  Outs(r, y)
<1>1. PICK X : s.out \in Seq(X) /\ \A n \in X : Fine(n, y)
  BY DEF Outs
<1>. DEFINE Y == X \cup {m}
<1>2. s.out \in Seq(Y) /\ m \in Y
  <2>1. X \subseteq Y
    OBVIOUS
  <2>2. m \in Y
    OBVIOUS
  <2>. HIDE DEF Y
  <2>3. s.out \in Seq(Y)
    BY <1>1, <2>1
  <2>. QED
    BY <2>2, <2>3
<1>3. \A n \in Y : Fine(n, y)
  BY <1>1
<1>. HIDE DEF Y
<1>4. r.out \in Seq(Y)
  BY <1>2
<1>. QED
  BY <1>3, <1>4 DEF Outs

LEMMA ReturnOuts ==
    ASSUME NEW s, IsSock(s), NEW y, Outs(s, y), NEW owned, NEW flags, NEW data, NEW opt,
           "SYN" \in flags => y, y => s.win.rxCur = AtPeer(1) \/ "RST" \in flags,
           NEW r, r = ReturnPacket(s, owned, flags, data, opt)
    PROVE  Outs(r, y)
<1>1. r = s \/ \E m : /\ r.out = Append(s.out, m) /\ m.ack = s.win.rxCur
                      /\ m.flags = flags \/ m.flags = flags \ {"FIN"}
  <2>. DEFINE front == IF s.rx = NoStream THEN RxStream ELSE FrontSpace(s.rx)
              usual == IF s.lowWater THEN 0 ELSE Smaller(s.curWin, RxWinLen)
              space == IF usual < MSS /\ front >= MSS THEN MSS ELSE usual
              isFin == opt = <<>> /\ Plus(s.win.our, Len(data)) = s.win.txFin
              m == [flags |-> IF isFin THEN flags ELSE flags \ {"FIN"},
                    seq |-> s.win.our, ack |-> s.win.rxCur, win |-> space,
                    data |-> data, sack |-> opt]
              n == [s EXCEPT !.winChange = FALSE, !.hiAllowed = Plus(s.win.rxCur, space),
                             !.out = Append(@, m)]
  <2>1. r = s \/ r = n
    BY DEF ReturnPacket
  <2>2. m.ack = s.win.rxCur /\ (m.flags = flags \/ m.flags = flags \ {"FIN"})
    OBVIOUS
  <2>. HIDE DEF m, space
  <2>3. n.out = Append(s.out, m)
    BY DEF IsSock, Fields
  <2>. QED
    BY <2>1, <2>2, <2>3
<1>2. CASE r = s
  BY <1>2
<1>3. ASSUME NEW m, r.out = Append(s.out, m), m.ack = s.win.rxCur,
             m.flags = flags \/ m.flags = flags \ {"FIN"}
      PROVE  Outs(r, y)
  <2>1. Fine(m, y)
    BY <1>3 DEF Fine
  <2>. QED
    BY <1>3, <2>1, OutsMore
<1>. QED
  BY <1>1, <1>2, <1>3

LEMMA SendResetOuts ==
    ASSUME NEW s, IsSock(s), NEW y, Outs(s, y), NEW p, NEW r, r = SendReset(s, p)
    PROVE  Outs(r, y)
<1>. DEFINE m == [flags |-> {"ACK", "RST"}, seq |-> p.ack, ack |-> p.seq,
                  win |-> 0, data |-> <<>>, sack |-> <<>>]
<1>1. r = s \/ r.out = Append(s.out, m)
  BY DEF SendReset, IsSock, Fields
<1>2. Fine(m, y)
  BY DEF Fine
<1>. HIDE DEF m
<1>. QED
  BY <1>1, <1>2, OutsMore

LEMMA OutsChanges ==
    ASSUME NEW r, NEW s, NEW S, NEW W, Changes(r, s, S, W), "out" \notin S, NEW y, Outs(s, y)
    PROVE  Outs(r, y)
<1>1. r.out = s.out
  <2>1. "out" \in Fields \ (S \cup {"win"})
    BY DEF Fields
  <2>. QED
    BY <2>1 DEF Changes
<1>. QED
  BY <1>1, OutsSame

\* The packets of prvTCPSendRepeated acknowledge what was received.
Acks(s, y) == y => s.win.rxCur = AtPeer(1)

LEMMA RepeatedOuts ==
    ASSUME NEW s, IsSock(s), NEW y, Outs(s, y), Acks(s, y), NEW r, r = Repeated(PrepareSend(s, -1)).s
    PROVE  Outs(r, y)
<1>. DEFINE n == PrepareSend(s, -1)
            a == n.s
            last == [a EXCEPT !.lastFin = @ \/ (n.fin /\ n.data = <<>>)]
            base == IF a.lastFin THEN {"FIN"} ELSE {}
            flags == Flags(base, n)
            d == ReturnPacket(last, n.data # <<>>, flags, n.data, <<>>)
<1>1. r \in {a, d}
  BY DEF Repeated
<1>2. IsSock(a) /\ Outs(a, y) /\ a.win.rxCur = s.win.rxCur
  <2>1. Changes(a, s, OfSend, OfGet \cup {"txFin"})
    BY PrepareSendChanges
  <2>2. "out" \notin OfSend /\ IsSock(a)
    BY <2>1, ChangesSock DEF OfSend, OfState
  <2>3. RxGoes(a, s)
    BY PrepareRx
  <2>. HIDE DEF a
  <2>. QED
    BY <2>1, <2>2, <2>3, OutsChanges DEF RxGoes, SameRx
<1>3. "SYN" \notin flags
  <2>1. "SYN" \notin base
    OBVIOUS
  <2>. HIDE DEF base, n
  <2>. QED
    BY <2>1 DEF Flags
<1>. HIDE DEF a, flags, base
<1>4. IsSock(last) /\ Outs(last, y) /\ last.win.rxCur = s.win.rxCur
  <2>1. Changes(last, a, {"lastFin"}, {})
    BY <1>2 DEF Changes, WinChanges, IsSock, Fields
  <2>2. "out" \notin {"lastFin"}
    OBVIOUS
  <2>. HIDE DEF last
  <2>3. last.win.rxCur = a.win.rxCur
    BY <2>1 DEF Changes, WinChanges, WinFields
  <2>. QED
    BY <1>2, <2>1, <2>2, <2>3, OutsChanges, ChangesSock
<1>. HIDE DEF last, n
<1>5. Outs(d, y)
  BY <1>3, <1>4, ReturnOuts DEF Acks
<1>. QED
  BY <1>1, <1>2, <1>5

LEMMA SendRepeatedOuts ==
    ASSUME NEW s, IsSock(s), NEW y, Outs(s, y), Acks(s, y), NEW u, u = SendRepeated(s)
    PROVE  Outs(u, y)
<1>1. PICK f : /\ SendRepeated(s) = f[Repeats].s /\ DOMAIN f = 0..Repeats
               /\ \A i \in 0..Repeats : f[i] = IF i = 0 THEN [s |-> s, on |-> TRUE] ELSE SendAnother(f[i - 1])
  BY SentLoop
<1>2. Repeats \in Nat
  BY SocketAssumption
<1>. DEFINE T == {i \in Nat : i <= Repeats => Outs(f[i].s, y) /\ Acks(f[i].s, y) /\ IsSock(f[i].s)}
<1>3. 0 \in T
  <2>1. f[0].s = s
    BY <1>1, <1>2
  <2>. QED
    BY <2>1
<1>4. ASSUME NEW i \in T PROVE i + 1 \in T
  <2>. SUFFICES ASSUME i + 1 <= Repeats
                PROVE  Outs(f[i + 1].s, y) /\ Acks(f[i + 1].s, y) /\ IsSock(f[i + 1].s)
    OBVIOUS
  <2>1. i \in Nat /\ i + 1 \in 0..Repeats /\ i + 1 # 0 /\ (i + 1) - 1 = i /\ i <= Repeats
    BY <1>2, <1>4
  <2>2. f[i + 1] = SendAnother(f[i])
    <3>1. f[i + 1] = SendAnother(f[(i + 1) - 1])
      BY <1>1, <2>1
    <3>. QED
      BY <2>1, <3>1
  <2>. DEFINE a == f[i]
  <2>3. Outs(a.s, y) /\ Acks(a.s, y) /\ IsSock(a.s)
    BY <1>4, <2>1
  <2>. HIDE DEF a
  <2>. DEFINE r == Repeated(PrepareSend(a.s, -1)).s
  <2>4. RxGoes(r, a.s) /\ IsSock(r)
    BY <2>3, RepeatedRx
  <2>5. SendAnother(a).s \in {a.s, r}
    BY DEF SendAnother
  <2>6. Outs(r, y)
    BY <2>3, RepeatedOuts
  <2>. HIDE DEF r
  <2>7. Acks(r, y)
    BY <2>3, <2>4 DEF Acks, RxGoes, SameRx
  <2>. QED
    BY <2>2, <2>3, <2>4, <2>5, <2>6, <2>7 DEF a
<1>5. T = Nat
  <2>1. T \subseteq Nat
    OBVIOUS
  <2>. HIDE DEF T
  <2>. QED
    BY <1>3, <1>4, <2>1, Induction
<1>6. Repeats \in T
  BY <1>2, <1>5
<1>. QED
  BY <1>1, <1>6

-----------------------------------------------------------------------------
(* The answer to a packet *)

LEMMA HandleFinAnswer ==
    ASSUME NEW s, NEW p
    PROVE  "SYN" \notin HandleFin(s, p).answer.flags
<1>. DEFINE c == FinDone(s, p)
<1>1. HandleFin(s, p).answer \in {Answer({"ACK", "FIN"}, <<>>, c.win.opt), NoAnswer, Answer({"ACK"}, <<>>, c.win.opt)}
  <2>1. HandleFin(s, p) =
              IF ~c.finAcked
                  THEN To(StateChange(c, "LAST_ACK"), Answer({"ACK", "FIN"}, <<>>, c.win.opt))
                  ELSE IF ~c.finRecv THEN To(c, NoAnswer)
                  ELSE To(StateChange(c, "CLOSE_WAIT"),
                          IF c.finLast THEN NoAnswer ELSE Answer({"ACK"}, <<>>, c.win.opt))
    BY HandleFinIs
  <2>. HIDE DEF c
  <2>. QED
    BY <2>1 DEF To
<1>. HIDE DEF c
<1>. QED
  BY <1>1 DEF Answer, NoAnswer

LEMMA HandledAnswer ==
    ASSUME NEW s, NEW p, "SYN" \in p.flags => s.state = "SYN_FIRST"
    PROVE  "SYN" \in Handled(s, p).answer.flags => s.state = "SYN_FIRST"
<1>. DEFINE opt == s.win.opt   answer == Handled(s, p).answer
<1>. SUFFICES ASSUME s.state # "SYN_FIRST" PROVE "SYN" \notin answer.flags
  OBVIOUS
<1>1. CASE s.state = "SYN_RECEIVED"
  <2>1. answer \in {Answer(p.flags \cup {"RST"}, <<>>, opt), Answer({"ACK"}, <<>>, opt), NoAnswer}
    <3>1. Handled(s, p) = HandleSynReceived(s, p, opt)
      BY <1>1, HandledIs
    <3>2. HandleSynReceived(s, p, opt).answer \in {Answer(p.flags \cup {"RST"}, <<>>, opt), Answer({"ACK"}, <<>>, opt), NoAnswer}
      BY DEF HandleSynReceived, To
    <3>. QED
      BY <3>1, <3>2
  <2>. HIDE DEF answer
  <2>. QED
    BY <2>1 DEF Answer, NoAnswer
<1>2. CASE s.state = "ESTABLISHED"
  <2>. DEFINE b == EstNow(s, p)   c == EstKept(b, p)   d == [b EXCEPT !.finAccepted = TRUE]
              n == PrepareSend(c, p.len)
  <2>1. Handled(s, p) = HandleEstablished(s, p, opt)
    BY <1>2, HandledIs
  <2>2. HandleEstablished(s, p, opt) =
          IF MayClose(b, p) THEN HandleFin(d, p)
                  ELSE IF opt # <<>> THEN To(c, EstFirst(p, opt))
                  ELSE To(n.s, IF n.sends THEN Answer(Flags({}, n), n.data, <<>>) ELSE EstFirst(p, opt))
    BY HandleEstablishedIs
  <2>3. "SYN" \notin HandleFin(d, p).answer.flags
    BY HandleFinAnswer
  <2>4. "SYN" \notin EstFirst(p, opt).flags
    BY DEF EstFirst, Answer, NoAnswer
  <2>5. "SYN" \notin Answer(Flags({}, n), n.data, <<>>).flags
    <3>. HIDE DEF n
    <3>. QED
      BY DEF Answer, Flags
  <2>. HIDE DEF n, b, c, d, opt
  <2>6. answer \in {HandleFin(d, p).answer, EstFirst(p, opt), Answer(Flags({}, n), n.data, <<>>)}
    BY <2>1, <2>2 DEF To
  <2>. QED
    BY <2>3, <2>4, <2>5, <2>6
<1>3. CASE s.state \in {"LAST_ACK", "FIN_WAIT_1", "FIN_WAIT_2"}
  BY <1>3, HandledIs, HandleFinAnswer
<1>4. CASE s.state \notin {"SYN_FIRST", "SYN_RECEIVED", "ESTABLISHED", "LAST_ACK", "FIN_WAIT_1", "FIN_WAIT_2"}
  <2>1. Handled(s, p) = To(s, NoAnswer)
    BY <1>4, HandledIs
  <2>. QED
    BY <2>1 DEF To, NoAnswer
<1>. QED
  BY <1>1, <1>2, <1>3, <1>4

\* A SYN comes to a socket that listens or has not been acknowledged yet.
Answers(s, q, t, p) ==
    /\ Handles(s, q, t, p) /\ Outs(s, p = Syn)
    /\ p = Syn => s.state \in {"SYN_FIRST", "SYN_RECEIVED"}

LEMMA SendDataOuts ==
    ASSUME NEW s, IsSock(s), NEW p, NEW answer, NEW y, Outs(s, y), Acks(s, y), "SYN" \in answer.flags => y,
           NEW r, r = SendData(s, p, answer).s
    PROVE  /\ Outs(r, y)
           /\ s.state # "ESTABLISHED" => r.ack = FALSE
<1>. DEFINE a == SdKept(s)   f == SdFreed(s)
            b == ReturnPacket(f, TRUE, answer.flags, answer.data, answer.opt)
            d == Drop(b)
<1>0. a.ack = TRUE /\ r \in {a, d} /\ SdSent(s, answer) = d
  <2>1. r \in {a, d} /\ SdSent(s, answer) = d
    <3>1. SdSent(s, answer) = d
      BY DEF SdSent
    <3>. DEFINE z == SendData(s, p, answer)
    <3>2. z \in {[s |-> a, sent |-> FALSE], [s |-> SdSent(s, answer), sent |-> TRUE]}
      BY SendDataIs
    <3>. HIDE DEF a, d, z
    <3>3. z.s \in {a, d}
      BY <3>1, <3>2
    <3>. QED
      BY <3>1, <3>3 DEF z
  <2>2. IsSock(SdNoted(s))
    BY DEF SdNoted, IsSock, Fields
  <2>3. a.ack = TRUE
    BY <2>2 DEF SdKept, IsSock, Fields
  <2>. QED
    BY <2>1, <2>3
<1>1. /\ Changes(a, s, {"curWin", "held", "ack", "mine"}, {})
      /\ Changes(f, s, {"curWin", "held", "ack"}, {})
      /\ Changes(b, f, {"winChange", "hiAllowed", "out"}, {})
  BY SendDataChanges
<1>2. f.ack = FALSE
  <2>1. IsSock(SdNoted(s))
    BY DEF SdNoted, IsSock, Fields
  <2>. QED
    BY <2>1 DEF SdFreed, IsSock, Fields
<1>3. s.state # "ESTABLISHED" => r = d
  <2>1. s.state # "ESTABLISHED" => SendData(s, p, answer) = [s |-> SdSent(s, answer), sent |-> TRUE]
    BY DEF SendData, SdSent, SdFreed, SdNoted
  <2>. HIDE DEF d
  <2>. QED
    BY <1>0, <2>1
<1>. HIDE DEF a, f
<1>4. Outs(a, y) /\ Outs(f, y) /\ IsSock(f) /\ f.win.rxCur = s.win.rxCur
  <2>1. "out" \notin {"curWin", "held", "ack", "mine"} /\ "out" \notin {"curWin", "held", "ack"}
    OBVIOUS
  <2>2. f.win.rxCur = s.win.rxCur
    BY <1>1 DEF Changes, WinChanges, WinFields
  <2>. QED
    BY <1>1, <2>1, <2>2, OutsChanges, ChangesSock
<1>5. Outs(b, y) /\ IsSock(b) /\ b.ack = f.ack
  <2>1. Outs(b, y)
    BY <1>4, ReturnOuts DEF Acks
  <2>2. b.ack = f.ack
    <3>. HIDE DEF b
    <3>. QED
      BY <1>1 DEF Changes, Fields
  <2>. QED
    BY <1>1, <2>1, <2>2, ChangesSock
<1>. HIDE DEF b
<1>6. Outs(d, y) /\ d.ack = b.ack
  <2>1. Changes(d, b, {"mine", "held"}, {})
    BY <1>5, DropChanges
  <2>2. "out" \notin {"mine", "held"}
    OBVIOUS
  <2>. HIDE DEF d
  <2>3. d.ack = b.ack
    BY <2>1 DEF Changes, Fields
  <2>. QED
    BY <1>5, <2>1, <2>2, <2>3, OutsChanges
<1>. HIDE DEF d
<1>. QED
  BY <1>0, <1>2, <1>3, <1>4, <1>5, <1>6

\* The SYN is answered at once.
LEMMA HandleStateOuts ==
    ASSUME NEW s, NEW q, NEW t, NEW p, Answers(s, q, t, p), NEW r, r = HandleState(s, p).s
    PROVE  /\ Outs(r, p = Syn) /\ Acks(r, p = Syn)
           /\ p = Syn => r.ack = FALSE
<1>0. IsSock(s) /\ IsRequest(q) /\ IsPacket(p, q)
  BY DEF Answers, Handles
<1>. DEFINE y == (p = Syn)
            a == Arrived(s, p)   b == StoreRxData(a, p)   c == Again(b.s, p)   d == NoteFin(c, p)   e == Handled(d, p)
<1>1. IsSock(a) /\ RxMid(a, q, t, p) /\ a.state = s.state /\ Outs(a, y) /\ a.state # "CLOSE_WAIT"
  <2>1. Changes(a, s, {"winChange"}, {"rxHigh"}) /\ "out" \notin {"winChange"}
    BY <1>0, ArrivedChanges
  <2>2. a.state = s.state
    BY <2>1 DEF Changes, Fields
  <2>3. Outs(a, y)
    BY <2>1, OutsChanges DEF Answers
  <2>. QED
    BY <2>2, <2>3, ArrivedMid DEF Answers, Handles
<1>2. HandleState(s, p) =
              IF b.fails THEN [s |-> b.s, sent |-> FALSE]
              ELSE IF e.answer.sends
              THEN SendData(e.s, p, e.answer)
              ELSE [s |-> e.s, sent |-> FALSE]
  BY HandleStateIs DEF HsStored, HsNoted, HsHandled
<1>3. y => p.len = 0 /\ p.flags = {"SYN"} /\ p.seq = PeerISS
  BY DEF Syn
<1>4. "SYN" \in p.flags => y
  BY <1>0, PacketIs
<1>. HIDE DEF a
<1>5. /\ IsSock(b.s)
      /\ ~b.fails => RxMid(b.s, q, t, p)
  BY <1>0, <1>1, MidStored
<1>6. y => ~b.fails /\ b.s.state = a.state
  <2>. SUFFICES ASSUME y PROVE ~b.fails /\ b.s.state = a.state
    OBVIOUS
  <2>. DEFINE o == [a EXCEPT !.win.opt = <<>>]
  <2>1. b = [s |-> o, fails |-> FALSE]
    BY <1>3, StoreRxDataIs
  <2>2. o.state = a.state
    BY <1>1 DEF IsSock, Fields
  <2>. HIDE DEF o, b
  <2>. QED
    BY <2>1, <2>2
<1>7. Outs(b.s, y)
  <2>. DEFINE k == OnChecked(a, p)   l == OnAdded(a, p).s   o == [a EXCEPT !.win.opt = <<>>]
  <2>1. b.s \in {o, k, SendReset(l, p), OnMoved(l)}
    BY StoreRxDataIs DEF k, l
  <2>2. Changes(o, a, {}, {"opt"})
    BY <1>1 DEF Changes, WinChanges, IsSock, IsWin, Fields, WinFields
  <2>3. Changes(k, a, {}, OfCheck)
    BY <1>1, OnCheckedChanges
  <2>4. IsSock(k)
    BY <2>3, ChangesSock
  <2>5. Changes(l, k, OfRxdata, {})
    BY <2>4, AddRxdataChanges DEF OnAdded
  <2>6. IsSock(l)
    BY <2>5, ChangesSock
  <2>7. Changes(OnMoved(l), l, OfRxdata, {"userData"})
    BY <2>6, OnMovedChanges
  <2>8. "out" \notin OfRxdata /\ "out" \notin {}
    BY DEF OfRxdata, OfState
  <2>. HIDE DEF o, k, l, b
  <2>9. Outs(o, y) /\ Outs(k, y)
    BY <1>1, <2>2, <2>3, <2>8, OutsChanges
  <2>10. Outs(l, y)
    BY <2>5, <2>8, <2>9, OutsChanges
  <2>11. Outs(OnMoved(l), y)
    BY <2>7, <2>8, <2>10, OutsChanges
  <2>12. Outs(SendReset(l, p), y)
    BY <2>6, <2>10, SendResetOuts
  <2>. QED
    BY <2>1, <2>9, <2>11, <2>12
<1>. HIDE DEF b
<1>8. CASE b.fails
  <2>1. r = b.s /\ ~y
    BY <1>2, <1>6, <1>8
  <2>. QED
    BY <1>7, <2>1 DEF Acks
<1>9. CASE ~b.fails
  <2>1. IsSock(c) /\ RxMid(c, q, t, p) /\ Outs(c, y) /\ (y => c.state = "SYN_FIRST")
    <3>1. Changes(c, b.s, OfState, {}) /\ "out" \notin OfState
      BY <1>5, AgainChanges DEF OfState
    <3>2. y => c.state = "SYN_FIRST"
      <4>. SUFFICES ASSUME y PROVE c.state = "SYN_FIRST"
        OBVIOUS
      <4>1. b.s.state \in {"SYN_FIRST", "SYN_RECEIVED"}
        BY <1>1, <1>6 DEF Answers
      <4>2. b.s.state = "SYN_RECEIVED" => c = StateChange(b.s, "SYN_FIRST")
        BY <1>3 DEF Again
      <4>3. StateChange(b.s, "SYN_FIRST").state = "SYN_FIRST"
        BY <1>5, StateChangeChanges
      <4>4. b.s.state = "SYN_FIRST" => c = b.s
        BY DEF Again
      <4>. QED
        BY <4>1, <4>2, <4>3, <4>4
    <3>3. IsSock(c) /\ RxMid(c, q, t, p)
      BY <1>0, <1>5, <1>9, MidAgain
    <3>. HIDE DEF c
    <3>. QED
      BY <1>7, <3>1, <3>2, <3>3, OutsChanges
  <2>. HIDE DEF c
  <2>2. IsSock(d) /\ RxMid(d, q, t, p) /\ ("FIN" \in p.flags => d.finRecv) /\ Outs(d, y) /\ (y => d.state = "SYN_FIRST")
    <3>1. Changes(d, c, {"finRecv", "finLast"}, {"rxFin"}) /\ "out" \notin {"finRecv", "finLast"}
      BY <2>1, NoteFinChanges
    <3>2. IsSock(d) /\ RxMid(d, q, t, p) /\ ("FIN" \in p.flags => d.finRecv)
      BY <1>0, <2>1, MidNoted
    <3>. HIDE DEF d
    <3>3. d.state = c.state
      BY <3>1 DEF Changes, Fields
    <3>. QED
      BY <2>1, <3>1, <3>2, <3>3, OutsChanges
  <2>. HIDE DEF d
  <2>3. d.state = "SYN_FIRST" => y
    BY <2>2 DEF RxMid
  <2>4. "SYN" \in e.answer.flags => y
    BY <1>4, <2>2, <2>3, HandledAnswer
  <2>5. IsSock(e.s) /\ Outs(e.s, y)
    <3>1. Changes(e.s, d, OfHandled, OfHandledWin \cup {"rxHigh"}) /\ "out" \notin OfHandled
      BY <2>2, HandledChanges DEF OfHandled, OfSend, OfFin, OfState
    <3>. HIDE DEF e
    <3>. QED
      BY <2>2, <3>1, OutsChanges, ChangesSock
  <2>6. y => e.s.win.rxCur = AtPeer(1) /\ e.s.state = "SYN_RECEIVED" /\ e.answer.sends
    <3>. SUFFICES ASSUME y PROVE e.s.win.rxCur = AtPeer(1) /\ e.s.state = "SYN_RECEIVED" /\ e.answer.sends
      OBVIOUS
    <3>. DEFINE v == SynAcked(d, p)   u == StateChange(v, "SYN_RECEIVED")
    <3>1. e = To(u, Answer({"SYN", "ACK"}, <<>>, <<>>))
      BY <2>2, HandledIs
    <3>2. Changes(v, d, {}, {"rxCur", "rxHigh", "txCur", "next"}) /\ v.win.rxCur = Plus(p.seq, 1)
      <4>1. v.win.rxCur = Plus(p.seq, 1)
        BY <2>2 DEF SynAcked, IsSock, IsWin, Fields, WinFields
      <4>. QED
        BY <2>2, <4>1, SynAckedChanges
    <3>3. IsSock(v)
      BY <3>2, ChangesSock
    <3>4. Changes(u, v, OfState, {}) /\ u.state = "SYN_RECEIVED"
      BY <3>3, StateChangeChanges
    <3>5. u.win.rxCur = v.win.rxCur
      <4>. HIDE DEF u
      <4>. QED
        BY <3>4 DEF Changes, WinChanges, WinFields
    <3>. HIDE DEF u, v
    <3>. QED
      BY <1>3, <3>1, <3>2, <3>4, <3>5 DEF To, Answer, AtPeer
  <2>. HIDE DEF e
  <2>. DEFINE g == SendData(e.s, p, e.answer).s
  <2>7. r = (IF e.answer.sends THEN g ELSE e.s)
    BY <1>2, <1>9
  <2>8. Acks(e.s, y)
    BY <2>6 DEF Acks
  <2>9. Outs(g, y) /\ (e.s.state # "ESTABLISHED" => g.ack = FALSE)
    <3>. HIDE DEF y
    <3>. QED
      BY <2>4, <2>5, <2>8, SendDataOuts, ZenonT(40)
  <2>10. SameView(g, e.s)
    BY <2>5, SendDataView
  <2>. HIDE DEF g
  <2>11. Acks(g, y)
    BY <2>8, <2>10 DEF Acks, SameView, SameRx
  <2>12. y => g.ack = FALSE
    BY <2>6, <2>9
  <2>. QED
    BY <2>5, <2>6, <2>7, <2>8, <2>9, <2>11, <2>12
<1>. QED
  BY <1>8, <1>9

LEMMA ServedOuts ==
    ASSUME NEW s, NEW q, NEW t, NEW p, Answers(s, q, t, p), NEW r, r = Served(s, p)
    PROVE  /\ Outs(r, p = Syn)
           /\ p = Syn => r.ack = FALSE
<1>. DEFINE y == (p = Syn)   a == Looked(s, p)   h == HandleState(a, p)   u == SendRepeated(h.s)
<1>0. IsSock(s)
  BY DEF Answers, Handles
<1>1. IsSock(a) /\ SameView(a, s) /\ Outs(a, y)
  <2>1. Changes(a, s, {"tx", "bits", "peerWin"}, OfAck)
    BY <1>0, LookedChanges
  <2>2. {"tx", "bits", "peerWin"} \cap OfView = {} /\ OfAck \cap OfWinView = {} /\ "out" \notin {"tx", "bits", "peerWin"}
    BY DEF OfView, OfWinView, OfAck
  <2>. HIDE DEF a
  <2>. QED
    BY <2>1, <2>2, ViewOf, ChangesSock, OutsChanges DEF Answers
<1>2. r = IF h.sent THEN u ELSE h.s
  BY DEF Served, Looked
<1>. HIDE DEF a
<1>3. Answers(a, q, t, p)
  <2>1. RxGood(a, q, t)
    BY <1>1, GoodSame DEF Handles, Answers
  <2>2. Handles(a, q, t, p)
    BY <1>1, <2>1 DEF Answers, Handles, SameView
  <2>. QED
    BY <1>1, <2>2 DEF Answers, SameView
<1>4. /\ Outs(h.s, y) /\ Acks(h.s, y)
      /\ y => h.s.ack = FALSE
  BY <1>3, HandleStateOuts
<1>5. IsSock(h.s)
  BY <1>3, HandleStateRx DEF Answers
<1>. HIDE DEF h
<1>6. Outs(u, y)
  BY <1>4, <1>5, SendRepeatedOuts
<1>7. u.ack = h.s.ack
  <2>1. Changes(u, h.s, OfRepeat, OfGet \cup {"txFin"})
    BY <1>5, SendRepeatedChanges
  <2>2. "ack" \in Fields \ (OfRepeat \cup {"win"})
    BY DEF Fields, OfRepeat, OfSend, OfState
  <2>. HIDE DEF u
  <2>. QED
    BY <2>1, <2>2 DEF Changes
<1>. HIDE DEF u
<1>. QED
  BY <1>2, <1>4, <1>6, <1>7

-----------------------------------------------------------------------------
(* xProcessReceivedTCPPacket *)

Arrives(s, q, t, p) ==
    /\ IsSock(s) /\ IsRequest(q) /\ IsPacket(p, q) /\ RxGood(s, q, t) /\ s.state \in Resting
    /\ s.state = "SYN_RECEIVED" /\ p.flags = {"ACK"} => p.seq = AtPeer(1)
    /\ s.out = <<>>

Resets(r) == \E X : r.out \in Seq(X) /\ \A m \in X : "RST" \in m.flags

\* A listening socket answers anything but a SYN with a reset.
Leaves(r, s, q, t, p) ==
    /\ IsSock(r) /\ RxGood(r, q, t) /\ r.state \in Resting /\ Outs(r, p = Syn)
    /\ r.state = "SYN_RECEIVED" => p = Syn /\ s.state \in {"LISTEN", "SYN_RECEIVED"} /\ ~r.ack
    /\ r.state = "LISTEN" => s.state = "LISTEN" /\ p # Syn /\ Resets(r)

OutsFor(r, p) == Outs(r, p = Syn)

LEMMA ServedOutsFor ==
    ASSUME NEW s, NEW q, NEW t, NEW p, Answers(s, q, t, p), NEW r, r = Served(s, p)
    PROVE  /\ OutsFor(r, p)
           /\ p = Syn => ~r.ack
BY ServedOuts DEF OutsFor

LEMMA OutsNone ==
    ASSUME NEW s, s.out = <<>>, NEW y
    PROVE  Outs(s, y) /\ Resets(s)
<1>1. s.out \in Seq({}) /\ (\A m \in {} : Fine(m, y)) /\ (\A m \in {} : "RST" \in m.flags)
  OBVIOUS
<1>. QED
  BY <1>1 DEF Outs, Resets

LEMMA ResetResets ==
    ASSUME NEW s, IsSock(s), s.out = <<>>, NEW p, NEW r, r = SendReset(s, p)
    PROVE  Resets(r)
<1>. DEFINE m == [flags |-> {"ACK", "RST"}, seq |-> p.ack, ack |-> p.seq,
                  win |-> 0, data |-> <<>>, sack |-> <<>>]
<1>1. r = s \/ r.out = Append(s.out, m)
  BY DEF SendReset, IsSock, Fields
<1>2. "RST" \in m.flags
  OBVIOUS
<1>. HIDE DEF m
<1>3. CASE r.out = Append(s.out, m)
  <2>1. r.out \in Seq({m})
    BY <1>3
  <2>. QED
    BY <1>2, <2>1 DEF Resets
<1>. QED
  BY <1>1, <1>3, OutsNone

LEMMA ResetView ==
    ASSUME NEW s, IsSock(s), NEW p, NEW r, r = SendReset(s, p)
    PROVE  IsSock(r) /\ SameView(r, s)
<1>1. Changes(r, s, {"out"}, {})
  BY SendResetChanges
<1>2. {"out"} \cap OfView = {} /\ {} \cap OfWinView = {}
  BY DEF OfView
<1>. QED
  BY <1>1, <1>2, ViewOf, ChangesSock

\* The client connects.
LEMMA ListenRx ==
    ASSUME NEW s, NEW q, NEW t, NEW p, Arrives(s, q, t, p), s.state = "LISTEN", p = Syn,
           NEW r, r = HandleListen(s, p)
    PROVE  Answers(r, q, t, p)
<1>. DEFINE w == NewWindow(p.seq, OurISS)   a == [s EXCEPT !.passQueued = TRUE, !.win = w]
<1>0. IsSock(s)
  BY DEF Arrives
<1>1. r = StateChange(a, "SYN_FIRST") /\ IsSock(a)
  BY <1>0, HandleListenIs
<1>2. Changes(r, a, OfState, {}) /\ r.state = "SYN_FIRST" /\ IsSock(r)
  <2>. HIDE DEF a
  <2>1. Changes(r, a, OfState, {}) /\ r.state = "SYN_FIRST"
    BY <1>1, StateChangeChanges
  <2>. QED
    BY <2>1, ChangesSock
<1>3. w.stored = {}
  BY DEF NewWindow
<1>. HIDE DEF w
<1>4. /\ a.rx = s.rx /\ a.finSent = s.finSent /\ a.finAccepted = s.finAccepted /\ a.finRecv = s.finRecv
      /\ a.win = w /\ a.out = s.out
  BY <1>0 DEF IsSock, Fields
<1>. HIDE DEF a
<1>5. /\ r.rx = a.rx /\ r.finSent = a.finSent /\ r.finAccepted = a.finAccepted /\ r.finRecv = a.finRecv
      /\ r.win.stored = a.win.stored /\ r.out = a.out
  BY <1>2 DEF Changes, WinChanges, Fields, WinFields, OfState
<1>6. ~s.finSent /\ ~s.finAccepted /\ ~s.finRecv /\ s.rx = NoStream /\ t = 1 /\ s.out = <<>>
  BY DEF Arrives, RxGood
<1>7. RxGood(r, q, t)
  BY <1>2, <1>3, <1>4, <1>5, <1>6 DEF RxGood, Cares
<1>8. Outs(r, p = Syn)
  BY <1>4, <1>5, <1>6, OutsNone
<1>9. Handles(r, q, t, p)
  BY <1>2, <1>7 DEF Handles, Arrives
<1>. QED
  BY <1>2, <1>8, <1>9 DEF Answers

LEMMA ProcessedRx ==
    ASSUME NEW s, NEW q, NEW t, NEW p, Arrives(s, q, t, p), NEW r, r = Processed(s, p)
    PROVE  Leaves(r, s, q, t, p)
<1>. DEFINE y == (p = Syn)   c == Copied2(s, p)   l == HandleListen(s, p)   x == SendReset(s, p)
<1>0. IsSock(s) /\ IsRequest(q) /\ IsPacket(p, q) /\ RxGood(s, q, t) /\ s.state \in Resting /\ s.out = <<>>
  BY DEF Arrives
<1>1. Outs(s, y) /\ Resets(s)
  BY <1>0, OutsNone
<1>2. p.flags = {"SYN"} <=> p = Syn
  BY <1>0, PacketIs DEF Syn
<1>3. IsActive(s) <=> s.state \in {"LISTEN", "SYN_RECEIVED", "ESTABLISHED", "FIN_WAIT_1", "LAST_ACK"}
  BY <1>0 DEF IsActive, Resting
<1>4. From(s, "ESTABLISHED") <=> s.state \in {"ESTABLISHED", "FIN_WAIT_1", "CLOSE_WAIT", "LAST_ACK"}
  BY <1>0, RankIs DEF From, Resting
<1>5. IsSock(x) /\ RxGood(x, q, t) /\ x.state = s.state /\ Outs(x, y) /\ Resets(x)
  <2>1. IsSock(x) /\ SameView(x, s)
    BY <1>0, ResetView
  <2>. QED
    BY <1>0, <1>1, <2>1, GoodSame, SendResetOuts, ResetResets DEF SameView
<1>6. CASE ~IsActive(s)
  <2>1. r \in {s, x}
    BY <1>6 DEF Processed
  <2>2. s.state \notin {"LISTEN", "SYN_RECEIVED"}
    BY <1>3, <1>6
  <2>. HIDE DEF x
  <2>. QED
    BY <1>0, <1>1, <1>5, <2>1, <2>2 DEF Leaves
<1>7. CASE s.state = "LISTEN" /\ p = Syn
  <2>1. r = Served(l, p)
    BY <1>2, <1>3, <1>7 DEF Processed
  <2>2. Answers(l, q, t, p)
    BY <1>7, ListenRx
  <2>. HIDE DEF l
  <2>3. /\ IsSock(r) /\ RxGood(r, q, t) /\ r.state \in Resting /\ r.state # "LISTEN"
        /\ r.state = "SYN_RECEIVED" => p = Syn
    BY <2>1, <2>2, ServedRx DEF Answers
  <2>4. Outs(r, y)
    <3>1. OutsFor(r, p)
      BY <2>1, <2>2, ServedOutsFor
    <3>. QED
      BY <3>1 DEF OutsFor
  <2>14. y => ~r.ack
    BY <2>1, <2>2, ServedOutsFor
  <2>. QED
    BY <1>7, <2>3, <2>4, <2>14 DEF Leaves
<1>8. CASE s.state = "LISTEN" /\ p # Syn
  <2>1. r \in {s, x}
    BY <1>2, <1>3, <1>8 DEF Processed
  <2>. HIDE DEF x
  <2>. QED
    BY <1>0, <1>1, <1>5, <1>8, <2>1 DEF Leaves
<1>9. CASE s.state \in {"SYN_RECEIVED", "ESTABLISHED", "FIN_WAIT_1", "LAST_ACK"} /\ "RST" \in p.flags
  <2>1. r = StateChange(s, "CLOSED")
    BY <1>3, <1>9 DEF Processed
  <2>2. Changes(r, s, OfState, {}) /\ r.state = "CLOSED"
    BY <1>0, <2>1, StateChangeChanges
  <2>3. /\ SameRx(r, s) /\ r.finSent = s.finSent /\ r.finRecv = s.finRecv /\ r.win.rxFin = s.win.rxFin
        /\ r.out = s.out
    BY <2>2 DEF Changes, WinChanges, Fields, WinFields, OfState, SameRx
  <2>4. Cares(r) => Cares(s)
    BY <2>2, <2>3 DEF Cares, SameRx
  <2>5. \A e : RxAt(s, q, t, e) => RxAt(r, q, t, e)
    BY <2>3, RxSame
  <2>6. RxGood(r, q, t)
    BY <1>0, <2>2, <2>3, <2>4, <2>5 DEF RxGood, SameRx
  <2>7. Outs(r, y)
    BY <1>0, <2>3, OutsNone
  <2>8. IsSock(r)
    BY <2>2, ChangesSock
  <2>. QED
    BY <2>2, <2>6, <2>7, <2>8 DEF Leaves, Resting
<1>10. CASE /\ s.state \in {"SYN_RECEIVED", "ESTABLISHED", "FIN_WAIT_1", "LAST_ACK"} /\ "RST" \notin p.flags
            /\ p = Syn /\ s.state # "SYN_RECEIVED"
  <2>1. r = s
    BY <1>2, <1>3, <1>4, <1>10 DEF Processed
  <2>. QED
    BY <1>0, <1>1, <1>10, <2>1 DEF Leaves
<1>11. CASE /\ s.state \in {"SYN_RECEIVED", "ESTABLISHED", "FIN_WAIT_1", "LAST_ACK"} /\ "RST" \notin p.flags
            /\ p # Syn \/ s.state = "SYN_RECEIVED"
  <2>1. r = Served(c, p)
    BY <1>2, <1>3, <1>4, <1>11 DEF Processed
  <2>2. Changes(c, s, {"lastFin"}, {})
    BY <1>0, BegunChanges
  <2>3. {"lastFin"} \cap OfView = {} /\ {} \cap OfWinView = {} /\ "out" \notin {"lastFin"}
    BY DEF OfView
  <2>. HIDE DEF c
  <2>4. IsSock(c) /\ SameView(c, s) /\ Outs(c, y)
    BY <1>1, <2>2, <2>3, ViewOf, ChangesSock, OutsChanges
  <2>5. Handles(c, q, t, p)
    <3>1. RxGood(c, q, t)
      BY <1>0, <2>4, GoodSame
    <3>2. c.state = s.state
      BY <2>4 DEF SameView
    <3>. QED
      BY <1>11, <2>4, <3>1, <3>2 DEF Handles, Arrives
  <2>6. Answers(c, q, t, p)
    BY <1>11, <2>4, <2>5 DEF Answers, SameView
  <2>7. /\ IsSock(r) /\ RxGood(r, q, t) /\ r.state \in Resting /\ r.state # "LISTEN"
        /\ r.state = "SYN_RECEIVED" => p = Syn
    BY <2>1, <2>5, ServedRx
  <2>8. Outs(r, y)
    <3>1. OutsFor(r, p)
      BY <2>1, <2>6, ServedOutsFor
    <3>. QED
      BY <3>1 DEF OutsFor
  <2>18. y => ~r.ack
    BY <2>1, <2>6, ServedOutsFor
  <2>. QED
    BY <1>11, <2>7, <2>8, <2>18 DEF Leaves
<1>. QED
  BY <1>3, <1>6, <1>7, <1>8, <1>9, <1>10, <1>11

LEMMA LeavesSame ==
    ASSUME NEW u, NEW r, NEW s, NEW v, NEW q, NEW t, NEW p, Leaves(r, s, q, t, p), SameView(u, r), IsSock(u),
           u.out = r.out, u.ack = r.ack, s.state = v.state
    PROVE  Leaves(u, v, q, t, p)
<1>1. RxGood(u, q, t) /\ Outs(u, p = Syn)
  BY GoodSame, OutsSame DEF Leaves
<1>2. Resets(r) => Resets(u)
  BY DEF Resets
<1>. QED
  BY <1>1, <1>2 DEF Leaves, SameView

LEMMA ReceivedRx ==
    ASSUME NEW s, NEW q, NEW t, NEW p, Arrives(s, q, t, p), NEW u, u = ProcessReceived(s, p)
    PROVE  Leaves(u, s, q, t, p)
<1>. DEFINE b == Begun(s)   r == Processed(b, p)
<1>0. IsSock(s)
  BY DEF Arrives
<1>1. Changes(b, s, {"mine", "held"}, {})
  BY <1>0, BegunChanges
<1>2. {"mine", "held"} \cap OfView = {} /\ {} \cap OfWinView = {}
  BY DEF OfView
<1>. HIDE DEF b
<1>3. IsSock(b) /\ SameView(b, s) /\ b.out = s.out
  BY <1>1, <1>2, ViewOf, ChangesSock DEF Changes, Fields
<1>4. Arrives(b, q, t, p)
  <2>1. RxGood(b, q, t)
    BY <1>3, GoodSame DEF Arrives
  <2>. QED
    BY <1>3, <2>1 DEF Arrives, SameView
<1>5. Leaves(r, b, q, t, p)
  BY <1>4, ProcessedRx
<1>6. u = Drop(r)
  BY ProcessReceivedIs DEF b
<1>. HIDE DEF r
<1>7. IsSock(r)
  BY <1>5 DEF Leaves
<1>8. Changes(u, r, {"mine", "held"}, {})
  BY <1>6, <1>7, DropChanges
<1>9. IsSock(u) /\ SameView(u, r)
  BY <1>2, <1>8, ViewOf, ChangesSock
<1>10. u.out = r.out /\ u.ack = r.ack
  BY <1>8 DEF Changes, Fields
<1>11. b.state = s.state
  BY <1>3 DEF SameView
<1>. QED
  BY <1>5, <1>9, <1>10, <1>11, LeavesSame

-----------------------------------------------------------------------------
(* What the timer sends *)

\* A connection that is not acknowledged yet is left alone.
LEMMA TimerQuiet ==
    ASSUME NEW s, IsSock(s), s.state = "SYN_RECEIVED", ~s.ack, NEW due, NEW willSleep,
           NEW r, r = TimerCheck(s, due, willSleep)
    PROVE  r.out = s.out /\ ~r.ack
<1>. DEFINE c == IF due THEN SocketCheck(s) ELSE s   d == WakeUpUser(c)
<1>1. ~From(s, "ESTABLISHED")
  BY RankIs DEF From
<1>2. Filled(s) = s
  BY <1>1 DEF Filled
<1>3. ~Ripe(s)
  BY DEF Ripe
<1>4. Ticks(s) = s
  BY <1>1, <1>3 DEF Ticks
<1>5. SocketCheck(s) = s
  BY <1>2, <1>4, SocketCheckIs
<1>6. c = s /\ r \in {c, d}
  BY <1>5 DEF TimerCheck
<1>. HIDE DEF c
<1>7. Changes(d, c, {"group", "bits"}, {})
  BY <1>6, WakeUpUserChanges
<1>. HIDE DEF d
<1>8. d.out = c.out /\ d.ack = c.ack
  BY <1>7 DEF Changes, Fields
<1>. QED
  BY <1>6, <1>8

LEMMA TimerOuts ==
    ASSUME NEW s, IsSock(s), NEW y, y = FALSE, s.out = <<>>, NEW due, NEW willSleep,
           NEW r, r = TimerCheck(s, due, willSleep)
    PROVE  Outs(r, y)
<1>. DEFINE a == Filled(s)   k == AckSent(a)   b == Given(a)   u == SendRepeated(a)   v == SendRepeated(b)
            c == IF due THEN SocketCheck(s) ELSE s
            d == WakeUpUser(c)
<1>0. Outs(s, y)
  BY OutsNone
<1>1. r \in {c, d} /\ c \in {s, Ticks(a)} /\ Ticks(a) \in {a, b, u, v}
  BY SocketCheckIs DEF TimerCheck, Ticks
<1>2. IsSock(a) /\ Outs(a, y)
  <2>1. Changes(a, s, {"tx"}, OfAdd)
    BY FilledChanges
  <2>2. "out" \notin {"tx"}
    OBVIOUS
  <2>. HIDE DEF a
  <2>. QED
    BY <1>0, <2>1, <2>2, OutsChanges, ChangesSock
<1>. HIDE DEF a
<1>3. Outs(k, y) /\ IsSock(k)
  <2>1. CASE Ripe(a)
    <3>1. k = ReturnPacket(a, TRUE, {"ACK"}, <<>>, <<>>)
      BY <2>1 DEF AckSent
    <3>2. "SYN" \in {"ACK"} => y
      OBVIOUS
    <3>3. y => a.win.rxCur = AtPeer(1) \/ "RST" \in {"ACK"}
      OBVIOUS
    <3>. HIDE DEF k
    <3>4. Outs(k, y)
      BY <1>2, <3>1, <3>2, <3>3, ReturnOuts
    <3>5. Changes(k, a, {"winChange", "hiAllowed", "out"}, {})
      BY <1>2, GivenChanges DEF k
    <3>. QED
      BY <3>4, <3>5, ChangesSock
  <2>. QED
    BY <1>2, <2>1 DEF AckSent
<1>4. Outs(b, y) /\ IsSock(b)
  <2>1. Changes(b, k, {"ack", "held"}, {})
    BY <1>2, GivenChanges
  <2>2. "out" \notin {"ack", "held"}
    OBVIOUS
  <2>. HIDE DEF b, k
  <2>. QED
    BY <1>3, <2>1, <2>2, OutsChanges, ChangesSock
<1>. HIDE DEF b, k
<1>5. Acks(a, y) /\ Acks(b, y)
  BY DEF Acks
<1>6. Outs(u, y) /\ IsSock(u)
  BY <1>2, <1>5, SendRepeatedOuts, SendRepeatedRx
<1>7. Outs(v, y) /\ IsSock(v)
  BY <1>4, <1>5, SendRepeatedOuts, SendRepeatedRx
<1>. HIDE DEF u, v
<1>8. Outs(c, y) /\ IsSock(c)
  BY <1>0, <1>1, <1>2, <1>4, <1>6, <1>7
<1>. HIDE DEF c
<1>9. Outs(d, y)
  <2>1. Changes(d, c, {"group", "bits"}, {})
    BY <1>8, WakeUpUserChanges
  <2>2. "out" \notin {"group", "bits"}
    OBVIOUS
  <2>. HIDE DEF d
  <2>. QED
    BY <1>8, <2>1, <2>2, OutsChanges
<1>. QED
  BY <1>1, <1>8, <1>9
-----------------------------------------------------------------------------
(* The client hears the packets one after the other *)

PeerFields == {"state", "request", "next", "una", "edge", "rcv", "got", "fin", "eof", "sack", "owes"}
IsPeer(c) == DOMAIN c = PeerFields

\* The loop of HearsAll
HearsLoopOf(c, out, lost, i, x) == IF i \in lost THEN x ELSE Hears(x, out[i])
LEMMA HearsLoop ==
    ASSUME NEW c, NEW out, Len(out) \in Nat, NEW lost
    PROVE  \E f : /\ HearsAll(c, out, lost) = f[Len(out)] /\ DOMAIN f = 0..Len(out)
                  /\ \A i \in 0..Len(out) : f[i] = IF i = 0 THEN c ELSE HearsLoopOf(c, out, lost, i, f[i - 1])
<1>. DEFINE Turn(i, x) == HearsLoopOf(c, out, lost, i, x)
            Up(m, f) == f = [i \in 0..m |-> IF i = 0 THEN c ELSE Turn(i, f[i - 1])]
            T == {m \in Nat : \E f : Up(m, f)}
<1>2. 0 \in T
  <2>. DEFINE f == [i \in 0..0 |-> c]
  <2>. HIDE DEF Turn
  <2>1. Up(0, f)
    OBVIOUS
  <2>. HIDE DEF f, Up
  <2>. QED
    BY <2>1
<1>3. ASSUME NEW m \in T PROVE m + 1 \in T
  <2>1. PICK f : Up(m, f)
    BY <1>3
  <2>. DEFINE g == [i \in 0..(m + 1) |-> IF i = m + 1 THEN Turn(i, f[m]) ELSE f[i]]
  <2>. HIDE DEF Turn
  <2>2. m \in Nat /\ m + 1 \in Nat
    BY <1>3
  <2>3. ASSUME NEW i \in 0..(m + 1)
        PROVE  g[i] = IF i = 0 THEN c ELSE Turn(i, g[i - 1])
    <3>1. CASE i = m + 1
      <4>1. i # 0 /\ i - 1 = m /\ m # m + 1 /\ m \in 0..(m + 1)
        BY <2>2, <3>1
      <4>2. g[i] = Turn(i, f[m]) /\ g[i - 1] = f[m]
        BY <3>1, <4>1
      <4>. QED
        BY <4>1, <4>2
    <3>2. CASE i # m + 1
      <4>1. i \in 0..m /\ (i # 0 => i - 1 \in 0..(m + 1) /\ i - 1 # m + 1)
        BY <2>2, <3>2
      <4>2. g[i] = f[i] /\ (i # 0 => g[i - 1] = f[i - 1])
        BY <3>2, <4>1
      <4>3. f[i] = IF i = 0 THEN c ELSE Turn(i, f[i - 1])
        BY <2>1, <4>1
      <4>. QED
        BY <4>2, <4>3
    <3>. QED
      BY <3>1, <3>2
  <2>4. Up(m + 1, g)
    <3>1. g = [i \in 0..(m + 1) |-> g[i]]
      OBVIOUS
    <3>. HIDE DEF g
    <3>. QED
      BY <2>3, <3>1
  <2>. HIDE DEF g, Up
  <2>. QED
    BY <2>2, <2>4
<1>4. T = Nat
  <2>. HIDE DEF Up
  <2>1. T \subseteq Nat
    OBVIOUS
  <2>. HIDE DEF T
  <2>. QED
    BY <1>2, <1>3, <2>1, Induction
<1>5. \E f : Up(Len(out), f)
  <2>1. Len(out) \in T
    BY <1>4
  <2>. HIDE DEF Up
  <2>. QED
    BY <2>1
<1>. DEFINE heard[i \in 0..Len(out)] ==
               IF i = 0 THEN c
               ELSE IF i \in lost THEN heard[i - 1] ELSE Hears(heard[i - 1], out[i])
<1>6. heard = [i \in 0..Len(out) |->
                  IF i = 0 THEN c
                  ELSE IF i \in lost THEN heard[i - 1] ELSE Hears(heard[i - 1], out[i])]
  BY <1>5, Zenon DEF HearsLoopOf
<1>7. HearsAll(c, out, lost) = heard[Len(out)]
  BY DEF HearsAll
<1>. HIDE DEF heard
<1>8. DOMAIN heard = 0..Len(out) /\ \A i \in 0..Len(out) : heard[i] = IF i = 0 THEN c ELSE HearsLoopOf(c, out, lost, i, heard[i - 1])
  BY <1>6, Zenon DEF HearsLoopOf
<1>. QED
  BY <1>7, <1>8, Zenon

\* What the client may become, with y when it is answered on its SYN, with z
\* when all it hears are resets
Heard(r, c, y, z) ==
    /\ IsPeer(r)
    /\ r.request = c.request /\ r.next = c.next /\ r.fin = c.fin
    /\ r.state = c.state \/ r.state = "GONE" \/ (y /\ c.state = "SYN_SENT" /\ r.state = "OPEN")
    /\ r.state \in {"CLOSED", "SYN_SENT"} => r = c
    /\ c.state = "GONE" => r = c
    /\ y /\ c.una = AtPeer(1) => r.una = AtPeer(1)
    /\ z => r.una = c.una /\ r.owes = c.owes

LEMMA HeardThen ==
    ASSUME NEW u, NEW r, NEW c, NEW y, NEW z, Heard(r, c, y, z), Heard(u, r, y, z)
    PROVE  Heard(u, c, y, z)
BY DEF Heard

\* What Gets leaves alone
LEMMA GetsKeeps ==
    ASSUME NEW c, IsPeer(c), NEW q, NEW r, r = Gets(c, q)
    PROVE  /\ IsPeer(r) /\ r.state = c.state /\ r.request = c.request /\ r.next = c.next /\ r.fin = c.fin
           /\ r.una = IF Less(c.una, q.ack) THEN q.ack ELSE c.una
<1>. DEFINE got  == c.got \cup {<<Plus(q.seq, i - 1), q.data[i]>> : i \in DOMAIN q.data}
            ahead == {b[1] : b \in {b \in got : Diff(b[1], c.rcv) >= 0}}
            rcv  == Advance(c.rcv, ahead)
            eof  == c.eof \/ ("FIN" \in q.flags /\ Plus(q.seq, Len(q.data)) = rcv)
            edge == Plus(q.ack, q.win)
            newRcv == IF eof /\ ~c.eof THEN Plus(rcv, 1) ELSE rcv
            newUna == IF Less(c.una, q.ack) THEN q.ack ELSE c.una
            newEdge == IF Less(c.edge, edge) THEN edge ELSE c.edge
            newSack == IF q.data # <<>> /\ Diff(q.seq, rcv) > 0
                       THEN <<q.seq, Plus(q.seq, Len(q.data))>> ELSE <<>>
            newOwes == c.owes \/ q.data # <<>> \/ "FIN" \in q.flags
<1>1. r = [c EXCEPT !.got = got, !.eof = eof, !.rcv = newRcv, !.una = newUna, !.edge = newEdge,
                    !.sack = newSack, !.owes = newOwes]
  BY DEF Gets
<1>. HIDE DEF got, eof, newRcv, newUna, newEdge, newSack, newOwes
<1>2. /\ DOMAIN r = DOMAIN c /\ r.state = c.state /\ r.request = c.request /\ r.next = c.next /\ r.fin = c.fin
      /\ r.una = newUna
  BY <1>1 DEF IsPeer, PeerFields
<1>. QED
  BY <1>2 DEF IsPeer, newUna

LEMMA HearsOne ==
    ASSUME NEW c, IsPeer(c), NEW m, NEW y, NEW z, Fine(m, y), z => "RST" \in m.flags,
           NEW r, r = Hears(c, m)
    PROVE  Heard(r, c, y, z)
<1>. DEFINE g == Gets(c, m)
            gone == [c EXCEPT !.state = "GONE"]
            open == [c EXCEPT !.state = "OPEN", !.rcv = Plus(m.seq, 1), !.owes = TRUE,
                              !.edge = Plus(m.ack, m.win)]
            owes == [c EXCEPT !.owes = TRUE]
<1>1. CASE c.state \in {"CLOSED", "GONE"}
  <2>1. r = c
    BY <1>1 DEF Hears
  <2>. QED
    BY <2>1 DEF Heard
<1>2. CASE c.state \notin {"CLOSED", "GONE"} /\ "RST" \in m.flags
  <2>1. r = gone
    BY <1>2 DEF Hears
  <2>2. IsPeer(gone) /\ gone.state = "GONE" /\ gone.request = c.request /\ gone.next = c.next
        /\ gone.fin = c.fin /\ gone.una = c.una /\ gone.owes = c.owes
    BY DEF IsPeer, PeerFields
  <2>. HIDE DEF gone
  <2>. QED
    BY <1>2, <2>1, <2>2 DEF Heard
<1>3. CASE c.state \notin {"CLOSED", "GONE"} /\ "RST" \notin m.flags /\ "SYN" \in m.flags
  <2>0. y /\ ~z
    BY <1>3 DEF Fine
  <2>1. r = IF c.state = "SYN_SENT" THEN open ELSE owes
    BY <1>3 DEF Hears
  <2>2. IsPeer(open) /\ open.state = "OPEN" /\ open.request = c.request /\ open.next = c.next
        /\ open.fin = c.fin /\ open.una = c.una
    BY DEF IsPeer, PeerFields
  <2>3. IsPeer(owes) /\ owes.state = c.state /\ owes.request = c.request /\ owes.next = c.next
        /\ owes.fin = c.fin /\ owes.una = c.una
    BY DEF IsPeer, PeerFields
  <2>. HIDE DEF open, owes
  <2>4. CASE c.state = "SYN_SENT"
    BY <1>3, <2>0, <2>1, <2>2, <2>4 DEF Heard
  <2>5. CASE c.state # "SYN_SENT"
    BY <1>3, <2>0, <2>1, <2>3, <2>5 DEF Heard
  <2>. QED
    BY <2>4, <2>5
<1>4. CASE c.state = "SYN_SENT" /\ "RST" \notin m.flags /\ "SYN" \notin m.flags
  <2>1. r = c
    BY <1>4 DEF Hears
  <2>. QED
    BY <2>1 DEF Heard
<1>5. CASE c.state \notin {"CLOSED", "GONE", "SYN_SENT"} /\ "RST" \notin m.flags /\ "SYN" \notin m.flags
  <2>1. r = g
    BY <1>5 DEF Hears
  <2>2. /\ IsPeer(g) /\ g.state = c.state /\ g.request = c.request /\ g.next = c.next /\ g.fin = c.fin
        /\ g.una = IF Less(c.una, m.ack) THEN m.ack ELSE c.una
    BY GetsKeeps
  <2>. HIDE DEF g
  <2>3. ~z /\ (y => m.ack = AtPeer(1))
    BY <1>5 DEF Fine
  <2>. QED
    BY <1>5, <2>1, <2>2, <2>3 DEF Heard
<1>. QED
  BY <1>1, <1>2, <1>3, <1>4, <1>5

LEMMA HearsAllHeard ==
    ASSUME NEW c, IsPeer(c), NEW out, Len(out) \in Nat, NEW lost, NEW y, NEW z,
           \A i \in 1..Len(out) : Fine(out[i], y) /\ (z => "RST" \in out[i].flags)
    PROVE  Heard(HearsAll(c, out, lost), c, y, z)
<1>1. PICK f : /\ HearsAll(c, out, lost) = f[Len(out)] /\ DOMAIN f = 0..Len(out)
               /\ \A i \in 0..Len(out) : f[i] = IF i = 0 THEN c ELSE HearsLoopOf(c, out, lost, i, f[i - 1])
  BY HearsLoop
<1>. DEFINE T == {i \in Nat : i <= Len(out) => Heard(f[i], c, y, z)}
<1>2. 0 \in T
  <2>1. f[0] = c
    BY <1>1
  <2>2. Heard(c, c, y, z)
    BY DEF Heard
  <2>. QED
    BY <2>1, <2>2
<1>3. ASSUME NEW i \in T PROVE i + 1 \in T
  <2>. SUFFICES ASSUME i + 1 <= Len(out) PROVE Heard(f[i + 1], c, y, z)
    OBVIOUS
  <2>1. i \in Nat /\ i + 1 \in 1..Len(out) /\ i + 1 \in 0..Len(out) /\ i + 1 # 0 /\ (i + 1) - 1 = i /\ i <= Len(out)
    BY <1>3
  <2>2. Heard(f[i], c, y, z)
    BY <1>3, <2>1
  <2>3. f[i + 1] = HearsLoopOf(c, out, lost, i + 1, f[i])
    BY <1>1, <2>1
  <2>4. f[i + 1] = f[i] \/ f[i + 1] = Hears(f[i], out[i + 1])
    BY <2>3 DEF HearsLoopOf
  <2>5. Heard(Hears(f[i], out[i + 1]), f[i], y, z)
    <3>1. IsPeer(f[i])
      BY <2>2 DEF Heard
    <3>2. Fine(out[i + 1], y) /\ (z => "RST" \in out[i + 1].flags)
      BY <2>1
    <3>. QED
      BY <3>1, <3>2, HearsOne
  <2>. QED
    BY <2>2, <2>4, <2>5, HeardThen
<1>4. T = Nat
  <2>1. T \subseteq Nat
    OBVIOUS
  <2>. HIDE DEF T
  <2>. QED
    BY <1>2, <1>3, <2>1, Induction
<1>5. Len(out) \in T
  BY <1>4
<1>. QED
  BY <1>1, <1>5

\* The client hears what a handler has sent.
LEMMA OutsHeard ==
    ASSUME NEW c, IsPeer(c), NEW s, NEW y, Outs(s, y), NEW z, z => Resets(s), NEW lost
    PROVE  Heard(HearsAll(c, s.out, lost), c, y, z)
<1>1. PICK X : s.out \in Seq(X) /\ \A m \in X : Fine(m, y)
  BY DEF Outs
<1>2. Len(s.out) \in Nat /\ \A i \in 1..Len(s.out) : Fine(s.out[i], y)
  BY <1>1
<1>3. ASSUME z, NEW i \in 1..Len(s.out) PROVE "RST" \in s.out[i].flags
  <2>1. PICK Y : s.out \in Seq(Y) /\ \A m \in Y : "RST" \in m.flags
    BY <1>3 DEF Resets
  <2>. QED
    BY <1>3, <2>1
<1>. QED
  BY <1>2, <1>3, HearsAllHeard

-----------------------------------------------------------------------------
(* The client and what it has sent *)

\* What a client that the server task does not talk to yet has sent
Fresh(c, n) ==
    /\ c.una = AtPeer(1)
    /\ c.owes => c.next = 1 /\ ~c.fin
    /\ \A p \in n : p.flags = {"ACK"} => p.seq = AtPeer(1)

NetGood(c, n) ==
    LET q == c.request IN
    /\ IsPeer(c) /\ IsRequest(q)
    /\ c.next \in 1..(Len(q) + 1) /\ (c.fin => c.next = Len(q) + 1)
    /\ \A p \in n : IsPacket(p, q)
    /\ c.state \in {"CLOSED", "SYN_SENT", "OPEN", "GONE"}
    /\ c.state \in {"CLOSED", "SYN_SENT"} => c.next = 1 /\ ~c.fin /\ c.sack = <<>>
    /\ c.state = "CLOSED" => n = {} /\ c.rcv = 0
    /\ c.state = "SYN_SENT" => n \subseteq {Syn}
    /\ c.state = "OPEN" => Syn \notin n
NetInv ==
    /\ NetGood(peer, net)
    /\ sock.state \in {"LISTEN", "SYN_RECEIVED"} => Fresh(peer, net)

LEMMA StartIs ==
    ASSUME IsRequest(peer.request)
    PROVE  LET q == peer.request IN
           /\ \A i \in 1..(Len(q) + 1) : Start(i) = AtPeer(Place(q, i)) /\ Place(q, i) \in 1..(Total(q) + 1)
           /\ End = AtPeer(Total(q) + 1) /\ Count = Len(q)
           /\ Plus(End, 1) = AtPeer(Total(q) + 2)
<1>. DEFINE q == peer.request
<1>1. q \in Seq(1..MSS) /\ Len(q) \in Nat /\ Total(q) \in Nat /\ Total(q) = Place(q, Len(q) + 1) - 1
  BY RequestReach, PlaceIs
<1>2. \A i \in 1..(Len(q) + 1) : Start(i) = AtPeer(Place(q, i))
  BY DEF Start, AtPeer, Place
<1>3. \A i \in 1..(Len(q) + 1) : Place(q, i) \in 1..(Total(q) + 1)
  <2>. HIDE DEF q
  <2>1. 1 \in 1..(Len(q) + 1)
    BY <1>1
  <2>. QED
    BY <1>1, <2>1, PlaceGrows
<1>4. Count = Len(q) /\ End = Start(Len(q) + 1)
  BY DEF Count, End
<1>5. Place(q, Len(q) + 1) = Total(q) + 1
  <2>. HIDE DEF q
  <2>1. Len(q) + 1 \in 1..(Len(q) + 1)
    BY <1>1
  <2>. QED
    BY <1>1, <1>3, <2>1
<1>6. End = AtPeer(Total(q) + 1)
  BY <1>1, <1>2, <1>4, <1>5
<1>7. Plus(End, 1) = AtPeer(Total(q) + 2)
  <2>. HIDE DEF q
  <2>1. Total(q) + 1 \in Int /\ 1 \in Int /\ (Total(q) + 1) + 1 = Total(q) + 2
    BY <1>1
  <2>2. Plus(Plus(PeerISS, Total(q) + 1), 1) = Plus(PeerISS, (Total(q) + 1) + 1)
    BY <2>1, PlusPlus, PeerIs
  <2>. QED
    BY <1>6, <2>1, <2>2 DEF AtPeer
<1>. QED
  BY <1>2, <1>3, <1>4, <1>6, <1>7

LEMMA SegmentIs ==
    ASSUME NEW c, IsRequest(c.request), c.request = peer.request, NEW i \in 1..Len(c.request), NEW fin \in BOOLEAN,
           fin => i = Len(c.request), NEW p, p = Segment(c, i, fin)
    PROVE  IsPacket(p, c.request) /\ p # Syn /\ p.flags # {"ACK"}
<1>1. p.seq = AtPeer(Place(c.request, i))
  <2>1. i \in 1..(Len(c.request) + 1)
    BY RequestReach
  <2>. QED
    BY <2>1, StartIs DEF Segment
<1>2. p.len = c.request[i]
  BY DEF Segment
<1>3. p.flags = {"ACK", "PSH"} \/ (p.flags = {"ACK", "PSH", "FIN"} /\ i = Len(c.request))
  BY DEF Segment
<1>4. "PSH" \in p.flags
  BY <1>3
<1>. QED
  BY <1>1, <1>2, <1>3, <1>4 DEF IsPacket, IsData, Syn

LEMMA BareIs ==
    ASSUME NEW c, IsRequest(c.request), NEW y \in 0..(Total(c.request) + 2), NEW flags,
           flags \in {{"ACK"}, {"ACK", "RST"}} \/ (flags = {"ACK", "FIN"} /\ y = Total(c.request) + 1),
           NEW p, p = Bare(c, flags, AtPeer(y))
    PROVE  IsPacket(p, c.request) /\ p # Syn
<1>1. p.seq = AtPeer(y) /\ p.len = 0 /\ p.flags = flags
  BY DEF Bare
<1>2. "ACK" \in p.flags
  BY <1>1
<1>. QED
  BY <1>1, <1>2 DEF IsPacket, IsBare, Syn

\* What holds of the next client and network holds in the next state
LEMMA NetPrime ==
    ASSUME NetGood(peer', net'), sock'.state \in {"LISTEN", "SYN_RECEIVED"} => Fresh(peer', net')
    PROVE  NetInv'
<1>1. IsPeer(peer)'
  <2>1. IsPeer(peer')
    BY DEF NetGood
  <2>. QED
    BY <2>1 DEF IsPeer
<1>2. IsRequest(peer.request)'
  <2>1. IsRequest(peer'.request)
    BY DEF NetGood
  <2>. QED
    BY <2>1 DEF IsRequest
<1>3. (\A p \in net : IsPacket(p, peer.request))'
  <2>1. \A p \in net' : IsPacket(p, peer'.request)
    BY DEF NetGood
  <2>. QED
    BY <2>1 DEF IsPacket, IsData, IsBare, Syn
<1>4. NetGood(peer, net)'
  BY <1>1, <1>2, <1>3 DEF NetGood, Syn
<1>5. (sock.state \in {"LISTEN", "SYN_RECEIVED"} => Fresh(peer, net))'
  BY DEF Fresh
<1>. QED
  BY <1>4, <1>5 DEF NetInv

\* An open client sends a packet.
LEMMA OpenPuts ==
    ASSUME NetInv, peer.state = "OPEN", sock' = sock, NEW p, net' = net \cup {p},
           IsPacket(p, peer.request), p # Syn, Fresh(peer, net) /\ p.flags = {"ACK"} => p.seq = AtPeer(1),
           NEW c, c = peer', IsPeer(c), c.request = peer.request, c.una = peer.una,
           c.state \in {"OPEN", "GONE"}, c.next \in 1..(Len(c.request) + 1), c.fin => c.next = Len(c.request) + 1,
           c.owes => peer.owes /\ c.next = peer.next /\ c.fin = peer.fin
    PROVE  NetInv'
<1>1. NetGood(c, net')
  BY DEF NetInv, NetGood
<1>2. sock.state \in {"LISTEN", "SYN_RECEIVED"} => Fresh(c, net')
  BY DEF NetInv, Fresh
<1>. QED
  BY <1>1, <1>2, NetPrime

-----------------------------------------------------------------------------
(* The steps of the client *)

LEMMA SynIs ==
    ASSUME NEW c, c.sack = <<>>
    PROVE  [Bare(c, {"SYN"}, PeerISS) EXCEPT !.ack = 0] = Syn
<1>. DEFINE b == Bare(c, {"SYN"}, PeerISS)   d == [b EXCEPT !.ack = 0]
<1>1. b \in {[flags |-> {"SYN"}, seq |-> PeerISS, len |-> 0, ack |-> c.rcv, win |-> PeerWin, sack |-> c.sack]}
  BY DEF Bare
<1>. HIDE DEF b
<1>2. /\ DOMAIN d = {"flags", "seq", "len", "ack", "win", "sack"} /\ d = [x \in DOMAIN d |-> d[x]]
      /\ d.flags = {"SYN"} /\ d.seq = PeerISS /\ d.len = 0 /\ d.ack = 0 /\ d.win = PeerWin /\ d.sack = <<>>
  BY <1>1
<1>. HIDE DEF d
<1>3. d = Syn
  BY <1>2 DEF Syn
<1>. QED
  BY <1>3 DEF b, d

LEMMA SndNextIs ==
    ASSUME NetInv
    PROVE  LET q == peer.request IN
           \E y \in 0..(Total(q) + 2) : SndNext(peer) = AtPeer(y) /\ (peer.next = 1 /\ ~peer.fin => y = 1)
<1>. DEFINE q == peer.request
<1>1. IsRequest(q) /\ peer.next \in 1..(Len(q) + 1)
  BY DEF NetInv, NetGood
<1>2. /\ \A i \in 1..(Len(q) + 1) : Start(i) = AtPeer(Place(q, i)) /\ Place(q, i) \in 1..(Total(q) + 1)
      /\ Plus(End, 1) = AtPeer(Total(q) + 2)
  BY <1>1, StartIs
<1>3. Total(q) \in Nat /\ Place(q, 1) = 1
  BY <1>1, RequestReach, PlaceIs
<1>. HIDE DEF q
<1>4. CASE peer.fin
  <2>1. SndNext(peer) = AtPeer(Total(q) + 2)
    BY <1>2, <1>4 DEF SndNext
  <2>2. Total(q) + 2 \in 0..(Total(q) + 2)
    BY <1>3
  <2>. QED
    BY <1>4, <2>1, <2>2 DEF q
<1>5. CASE ~peer.fin
  <2>1. SndNext(peer) = AtPeer(Place(q, peer.next))
    BY <1>1, <1>2, <1>5 DEF SndNext
  <2>2. Place(q, peer.next) \in 0..(Total(q) + 2)
    BY <1>1, <1>2, <1>3
  <2>. QED
    BY <1>3, <2>1, <2>2 DEF q
<1>. QED
  BY <1>4, <1>5

LEMMA ConnectNet ==
    ASSUME NetInv, sock' = sock, Connect \/ ConnectAgain
    PROVE  NetInv'
<1>. DEFINE c == peer'   n == net'
<1>0. IsPeer(peer) /\ peer.sack = <<>> /\ peer.state \in {"CLOSED", "SYN_SENT"}
  BY DEF NetInv, NetGood, Connect, ConnectAgain
<1>1. n = net \cup {Syn}
  BY <1>0, SynIs DEF Connect, ConnectAgain, Put
<1>2. n \subseteq {Syn}
  BY <1>0, <1>1 DEF NetInv, NetGood
<1>3. /\ IsPeer(c) /\ c.state = "SYN_SENT" /\ c.request = peer.request /\ c.next = peer.next /\ c.fin = peer.fin
      /\ c.sack = peer.sack /\ c.una = peer.una /\ c.owes = peer.owes
  <2>1. c \in {peer, [peer EXCEPT !.state = "SYN_SENT"]}
    BY DEF Connect, ConnectAgain
  <2>2. c = peer => peer.state = "SYN_SENT"
    BY <1>0 DEF IsPeer, PeerFields, Connect, ConnectAgain
  <2>. QED
    BY <1>0, <2>1, <2>2 DEF IsPeer, PeerFields
<1>. HIDE DEF c, n
<1>4. NetGood(c, n)
  <2>1. \A p \in n : IsPacket(p, c.request)
    BY <1>2 DEF IsPacket
  <2>2. c.next = 1 /\ ~c.fin /\ c.sack = <<>>
    BY <1>0, <1>3 DEF NetInv, NetGood
  <2>. QED
    BY <1>2, <1>3, <2>1, <2>2 DEF NetInv, NetGood
<1>5. sock.state \in {"LISTEN", "SYN_RECEIVED"} => Fresh(c, n)
  BY <1>2, <1>3 DEF NetInv, Fresh, Syn
<1>. QED
  BY <1>4, <1>5, NetPrime DEF c, n

LEMMA SendSegmentNet ==
    ASSUME NetInv, sock' = sock, NEW fin \in BOOLEAN, SendSegment(fin)
    PROVE  NetInv'
<1>. DEFINE q == peer.request   p == Segment(peer, peer.next, fin)
            c == [peer EXCEPT !.next = @ + 1, !.fin = fin, !.owes = FALSE, !.sack = <<>>]
<1>0. IsPeer(peer) /\ IsRequest(q) /\ Len(q) \in Nat /\ Count = Len(q) /\ peer.state = "OPEN"
  BY RequestReach, StartIs DEF NetInv, NetGood, SendSegment
<1>1. peer.next \in 1..Len(q) /\ (fin => peer.next = Len(q))
  BY <1>0 DEF NetInv, NetGood, SendSegment
<1>2. IsPacket(p, q) /\ p # Syn /\ p.flags # {"ACK"}
  BY <1>0, <1>1, SegmentIs
<1>3. net' = net \cup {p} /\ peer' = c
  BY DEF SendSegment, Put
<1>4. /\ IsPeer(c) /\ c.request = q /\ c.una = peer.una /\ c.state = "OPEN" /\ c.next = peer.next + 1
      /\ c.fin = fin /\ ~c.owes
  BY <1>0 DEF IsPeer, PeerFields
<1>. HIDE DEF c, p
<1>5. c.next \in 1..(Len(q) + 1) /\ (c.fin => c.next = Len(q) + 1)
  <2>. HIDE DEF q
  <2>. QED
    BY <1>0, <1>1, <1>4
<1>. QED
  BY <1>0, <1>2, <1>3, <1>4, <1>5, OpenPuts

LEMMA BarePuts ==
    ASSUME NetInv, sock' = sock, peer.state = "OPEN", NEW flags, NEW y \in 0..(Total(peer.request) + 2),
           flags \in {{"ACK"}, {"ACK", "RST"}} \/ (flags = {"ACK", "FIN"} /\ y = Total(peer.request) + 1),
           Put(Bare(peer, flags, AtPeer(y))), Fresh(peer, net) /\ flags = {"ACK"} => y = 1,
           NEW c, c = peer', IsPeer(c), c.request = peer.request, c.una = peer.una,
           c.state \in {"OPEN", "GONE"}, c.next = peer.next, c.fin => c.next = Len(c.request) + 1,
           c.owes => peer.owes /\ c.fin = peer.fin
    PROVE  NetInv'
<1>. DEFINE p == Bare(peer, flags, AtPeer(y))
<1>0. IsRequest(peer.request) /\ peer.next \in 1..(Len(peer.request) + 1)
  BY DEF NetInv, NetGood
<1>1. IsPacket(p, peer.request) /\ p # Syn
  BY <1>0, BareIs
<1>2. net' = net \cup {p} /\ p.flags = flags /\ p.seq = AtPeer(y)
  BY DEF Put, Bare
<1>. HIDE DEF p
<1>. QED
  BY <1>0, <1>1, <1>2, OpenPuts

-----------------------------------------------------------------------------
LEMMA SendFinNet ==
    ASSUME NetInv, sock' = sock, SendFin
    PROVE  NetInv'
<1>. DEFINE q == peer.request   y == Total(q) + 1   c == [peer EXCEPT !.fin = TRUE, !.owes = FALSE, !.sack = <<>>]
<1>0. /\ IsPeer(peer) /\ IsRequest(q) /\ Total(q) \in Nat /\ Len(q) \in Nat /\ Count = Len(q)
      /\ End = AtPeer(y) /\ peer.next \in 1..(Len(q) + 1)
  BY RequestReach, StartIs DEF NetInv, NetGood
<1>1. peer.state = "OPEN" /\ peer.next = Len(q) + 1 /\ peer' = c /\ Put(Bare(peer, {"ACK", "FIN"}, AtPeer(y)))
  <2>. HIDE DEF q, y, c
  <2>1. peer.state = "OPEN" /\ peer.next > Count /\ Put(Bare(peer, {"ACK", "FIN"}, End))
    BY DEF SendFin
  <2>2. peer' = c
    BY DEF SendFin, c
  <2>. QED
    BY <1>0, <2>1, <2>2
<1>2. IsPeer(c) /\ c.request = q /\ c.una = peer.una /\ c.state = peer.state /\ c.next = peer.next /\ ~c.owes
  BY <1>0 DEF IsPeer, PeerFields
<1>3. y \in 0..(Total(q) + 2) /\ {"ACK", "FIN"} # {"ACK"}
  BY <1>0, SMTT(20)
<1>. HIDE DEF c
<1>. QED
  BY <1>0, <1>1, <1>2, <1>3, BarePuts

LEMMA SendAckNet ==
    ASSUME NetInv, sock' = sock, SendAck
    PROVE  NetInv'
<1>. DEFINE q == peer.request   c == [peer EXCEPT !.owes = FALSE, !.sack = <<>>]
<1>0. IsPeer(peer) /\ (peer.fin => peer.next = Len(q) + 1)
  BY DEF NetInv, NetGood
<1>1. PICK y \in 0..(Total(q) + 2) : SndNext(peer) = AtPeer(y) /\ (peer.next = 1 /\ ~peer.fin => y = 1)
  BY SndNextIs
<1>2. peer.state = "OPEN" /\ peer.owes /\ peer' = c /\ Put(Bare(peer, {"ACK"}, AtPeer(y)))
  BY <1>1 DEF SendAck
<1>3. Fresh(peer, net) => y = 1
  BY <1>1, <1>2 DEF Fresh
<1>4. /\ IsPeer(c) /\ c.request = q /\ c.una = peer.una /\ c.state = peer.state /\ c.next = peer.next
      /\ c.fin = peer.fin /\ ~c.owes
  BY <1>0 DEF IsPeer, PeerFields
<1>. HIDE DEF c
<1>. QED
  BY <1>0, <1>2, <1>3, <1>4, BarePuts

LEMMA SendAgainNet ==
    ASSUME NetInv, sock' = sock, SendAgain
    PROVE  NetInv'
<1>. DEFINE q == peer.request   y == Total(q) + 1
<1>0. /\ IsPeer(peer) /\ IsRequest(q) /\ Len(q) \in Nat /\ Total(q) \in Nat /\ End = AtPeer(y)
      /\ peer.next \in 1..(Len(q) + 1) /\ (peer.fin => peer.next = Len(q) + 1)
  BY RequestReach, StartIs DEF NetInv, NetGood
<1>1. peer.state = "OPEN" /\ peer' = peer
  BY DEF SendAgain
<1>2. CASE \E i \in 1..(peer.next - 1) : Segments(i) /\ Put(Segment(peer, i, FALSE))
  <2>1. PICK i \in 1..(peer.next - 1) : Put(Segment(peer, i, FALSE))
    BY <1>2
  <2>. DEFINE p == Segment(peer, i, FALSE)
  <2>2. i \in 1..Len(q)
    <3>. HIDE DEF q
    <3>. QED
      BY <1>0, <2>1
  <2>3. IsPacket(p, q) /\ p # Syn /\ p.flags # {"ACK"}
    BY <1>0, <2>2, SegmentIs
  <2>4. net' = net \cup {p}
    BY <2>1 DEF Put
  <2>. HIDE DEF p
  <2>. QED
    BY <1>0, <1>1, <2>3, <2>4, OpenPuts
<1>3. CASE peer.fin /\ Put(Bare(peer, {"ACK", "FIN"}, End))
  <2>1. Put(Bare(peer, {"ACK", "FIN"}, AtPeer(y)))
    BY <1>0, <1>3
  <2>2. y \in 0..(Total(q) + 2) /\ {"ACK", "FIN"} # {"ACK"}
    BY <1>0, SMTT(20)
  <2>. QED
    BY <1>0, <1>1, <2>1, <2>2, BarePuts
<1>. QED
  BY <1>2, <1>3 DEF SendAgain

LEMMA ProbeNet ==
    ASSUME NetInv, sock' = sock, Probe
    PROVE  NetInv'
<1>. DEFINE q == peer.request   x == Place(q, peer.next)   y == x - 1
<1>0. /\ IsPeer(peer) /\ IsRequest(q) /\ Len(q) \in Nat /\ Total(q) \in Nat /\ Count = Len(q)
      /\ peer.next \in 1..(Len(q) + 1) /\ (peer.fin => peer.next = Len(q) + 1)
  BY RequestReach, StartIs DEF NetInv, NetGood
<1>1. /\ peer.state = "OPEN" /\ peer' = peer /\ peer.next \in 2..Len(q) /\ peer.una = Start(peer.next)
      /\ Put(Bare(peer, {"ACK"}, Plus(peer.una, -1)))
  BY <1>0 DEF Probe
<1>2. peer.una = AtPeer(x) /\ x \in 1..(Total(q) + 1)
  BY <1>0, <1>1, StartIs
<1>3. x > 1
  <2>. HIDE DEF q
  <2>1. 1 \in 1..(Len(q) + 1) /\ 1 < peer.next /\ q \in Seq(1..MSS) /\ Place(q, 1) = 1
    BY <1>0, <1>1, PlaceIs, RequestReach
  <2>. QED
    BY <1>0, <2>1, PlaceGrows
<1>. HIDE DEF x
<1>4. Plus(peer.una, -1) = AtPeer(y)
  <2>1. x \in Int /\ -1 \in Int /\ x + (-1) = y
    BY <1>2, <1>0
  <2>2. Plus(Plus(PeerISS, x), -1) = Plus(PeerISS, x + (-1))
    BY <2>1, PlusPlus, PeerIs
  <2>. QED
    BY <1>2, <2>1, <2>2 DEF AtPeer
<1>5. y \in 0..(Total(q) + 2)
  BY <1>0, <1>2
<1>6. peer.una # AtPeer(1)
  <2>. HIDE DEF q
  <2>1. x \in 0..(Total(q) + 2) /\ 1 \in 0..(Total(q) + 2)
    BY <1>0, <1>2
  <2>2. AtPeer(x) = AtPeer(1) <=> x = 1
    BY <1>0, <2>1, PeerOrder
  <2>. QED
    BY <1>2, <1>3, <2>2
<1>7. ~Fresh(peer, net)
  BY <1>6 DEF Fresh
<1>. HIDE DEF y
<1>. QED
  BY <1>0, <1>1, <1>4, <1>5, <1>7, BarePuts

LEMMA AbortNet ==
    ASSUME NetInv, sock' = sock, Abort
    PROVE  NetInv'
<1>. DEFINE q == peer.request   c == [peer EXCEPT !.state = "GONE"]
<1>0. IsPeer(peer) /\ (peer.fin => peer.next = Len(q) + 1)
  BY DEF NetInv, NetGood
<1>1. PICK y \in 0..(Total(q) + 2) : SndNext(peer) = AtPeer(y)
  BY SndNextIs
<1>2. peer.state = "OPEN" /\ peer' = c /\ Put(Bare(peer, {"ACK", "RST"}, AtPeer(y)))
  BY <1>1 DEF Abort
<1>3. /\ IsPeer(c) /\ c.request = q /\ c.una = peer.una /\ c.state = "GONE" /\ c.next = peer.next
      /\ c.fin = peer.fin /\ c.owes = peer.owes
  BY <1>0 DEF IsPeer, PeerFields
<1>4. {"ACK", "RST"} # {"ACK"}
  OBVIOUS
<1>. HIDE DEF c
<1>. QED
  BY <1>0, <1>2, <1>3, <1>4, BarePuts

LEMMA LessNet ==
    ASSUME NetInv, sock' = sock, peer' = peer, net' \subseteq net
    PROVE  NetInv'
<1>1. NetGood(peer, net') /\ (sock.state \in {"LISTEN", "SYN_RECEIVED"} => Fresh(peer, net'))
  BY DEF NetInv, NetGood, Fresh
<1>. QED
  BY <1>1, NetPrime

LEMMA ClientNet ==
    ASSUME NetInv, sock' = sock, ClientNext
    PROVE  NetInv' /\ peer'.request = peer.request
<1>0. IsPeer(peer)
  BY DEF NetInv, NetGood
<1>1. NetInv'
  <2>1. CASE Lose
    BY <2>1, LessNet DEF Lose
  <2>. QED
    BY <2>1, ConnectNet, SendSegmentNet, SendFinNet, SendAckNet, SendAgainNet, ProbeNet, AbortNet DEF ClientNext
<1>2. peer'.request = peer.request
  BY <1>0 DEF ClientNext, Connect, ConnectAgain, SendSegment, SendFin, SendAck, SendAgain, Probe, Abort, Lose, IsPeer, PeerFields
<1>. QED
  BY <1>1, <1>2

-----------------------------------------------------------------------------
(* The receive buffer is in order *)

\* The socket between the calls of the IP task
RxState(s, q, next) ==
    /\ IsSock(s) /\ s.state \in Resting /\ s.out = <<>>
    /\ s.state = "SYN_RECEIVED" => ~s.ack
    /\ \E t \in Nat : (t = 0 \/ next = AtPeer(t)) /\ RxGood(s, q, t)
RxInv ==
    /\ NetInv /\ RxState(sock, peer.request, taken)
    /\ pc \in {"get", "drainGet"} => sock.rx # NoStream

LEMMA RxPrime ==
    ASSUME NetInv', RxState(sock', peer'.request, taken'), pc' \in {"get", "drainGet"} => sock'.rx # NoStream
    PROVE  RxInv'
<1>1. RxState(sock, peer.request, taken)'
  BY DEF RxState, RxGood, High, Cares, IsSock
<1>. QED
  BY <1>1 DEF RxInv

LEMMA NetAfter ==
    ASSUME NEW c, NEW n, NetGood(c, n), NEW y, NEW z, NEW r, Heard(r, c, y, z),
           NEW m, m \subseteq n, y => Syn \notin m
    PROVE  NetGood(r, m)
<1>1. IsPeer(r) /\ r.request = c.request /\ r.next = c.next /\ r.fin = c.fin
  BY DEF Heard
<1>2. r.state \in {"CLOSED", "SYN_SENT"} => r = c
  BY DEF Heard
<1>3. r.state \in {"CLOSED", "SYN_SENT", "OPEN", "GONE"}
  BY DEF Heard, NetGood
<1>4. \A p \in m : IsPacket(p, r.request)
  BY <1>1 DEF NetGood
<1>5. r.state = "OPEN" => Syn \notin m
  BY DEF Heard, NetGood
<1>. QED
  BY <1>1, <1>2, <1>3, <1>4, <1>5 DEF NetGood

LEMMA FreshAfter ==
    ASSUME NEW c, NEW n, NetGood(c, n), Fresh(c, n), NEW y, NEW z, NEW r, Heard(r, c, y, z),
           NEW m, m \subseteq n, z \/ (y /\ Syn \in n)
    PROVE  Fresh(r, m)
<1>1. \A p \in m : p.flags = {"ACK"} => p.seq = AtPeer(1)
  BY DEF Fresh
<1>2. r.next = c.next /\ r.fin = c.fin
  BY DEF Heard
<1>3. CASE z
  BY <1>1, <1>2, <1>3 DEF Heard, Fresh
<1>4. CASE y /\ Syn \in n
  <2>1. r.una = AtPeer(1)
    BY <1>4 DEF Heard, Fresh
  <2>2. c.state \in {"SYN_SENT", "GONE"}
    BY <1>4 DEF NetGood
  <2>3. c.state = "SYN_SENT" => r.next = 1 /\ ~r.fin
    BY <1>2 DEF NetGood
  <2>4. c.state = "GONE" => r = c
    BY DEF Heard
  <2>. QED
    BY <1>1, <2>1, <2>2, <2>3, <2>4 DEF Fresh
<1>. QED
  BY <1>3, <1>4

\* The fields for the handler that is running
LEMMA HandlerView ==
    ASSUME NEW s, IsSock(s), NEW poor, NEW late
    PROVE  /\ SameView([s EXCEPT !.poor = poor], s) /\ IsSock([s EXCEPT !.poor = poor])
           /\ SameView([s EXCEPT !.poor = poor, !.late = late], s) /\ IsSock([s EXCEPT !.poor = poor, !.late = late])
           /\ SameView([s EXCEPT !.out = <<>>, !.late = 0, !.poor = FALSE], s)
           /\ IsSock([s EXCEPT !.out = <<>>, !.late = 0, !.poor = FALSE])
BY DEF IsSock, Fields, SameView, SameRx

-----------------------------------------------------------------------------
LEMMA HandlerFields ==
    ASSUME NEW s, IsSock(s), NEW poor, NEW r, r = [s EXCEPT !.poor = poor]
    PROVE  r.out = s.out /\ (r.ack <=> s.ack)
BY DEF IsSock, Fields

LEMMA DoneFields ==
    ASSUME NEW s, IsSock(s), NEW r, r = [s EXCEPT !.out = <<>>, !.late = 0, !.poor = FALSE]
    PROVE  r.out = <<>> /\ (r.ack <=> s.ack) /\ r.state = s.state /\ r.rx = s.rx
BY DEF IsSock, Fields

\* After a handler
LEMMA DoneState ==
    ASSUME NEW u, IsSock(u), NEW q, NEW t \in Nat, RxGood(u, q, t), u.state \in Resting,
           u.state = "SYN_RECEIVED" => ~u.ack,
           NEW e, e = [u EXCEPT !.out = <<>>, !.late = 0, !.poor = FALSE], NEW next, t = 0 \/ next = AtPeer(t)
    PROVE  RxState(e, q, next)
<1>1. SameView(e, u) /\ IsSock(e)
  BY HandlerView
<1>2. e.out = <<>> /\ (e.ack <=> u.ack) /\ e.state = u.state
  BY DoneFields
<1>3. RxGood(e, q, t)
  BY <1>1, GoodSame
<1>. QED
  BY <1>1, <1>2, <1>3 DEF RxState

LEMMA ReceiveRx ==
    ASSUME RxInv, Receive
    PROVE  RxInv'
<1>. DEFINE q == peer.request
<1>1. PICK p \in net, poor \in BOOLEAN :
         /\ Blocked /\ net' = net \ {p}
         /\ Handler(ProcessReceived([sock EXCEPT !.poor = poor], p), One(poor))
  BY DEF Receive
<1>. DEFINE s == [sock EXCEPT !.poor = poor]   u == ProcessReceived(s, p)
<1>2. PICK t \in Nat : (t = 0 \/ taken = AtPeer(t)) /\ RxGood(sock, q, t)
  BY DEF RxInv, RxState
<1>3. IsSock(sock) /\ sock.state \in Resting /\ sock.out = <<>> /\ NetGood(peer, net)
  BY DEF RxInv, RxState, NetInv
<1>4. IsSock(s) /\ SameView(s, sock) /\ s.out = <<>>
  BY <1>3, HandlerView, HandlerFields
<1>5. /\ sock' = [u EXCEPT !.out = <<>>, !.late = 0, !.poor = FALSE] /\ server' = server
      /\ \E lost : peer' = HearsAll(peer, u.out, lost)
  BY <1>1 DEF Handler, Transmit
<1>. HIDE DEF s
<1>6. Arrives(s, q, t, p)
  <2>1. RxGood(s, q, t)
    BY <1>2, <1>4, GoodSame
  <2>2. IsRequest(q) /\ IsPacket(p, q)
    BY <1>3 DEF NetGood
  <2>3. s.state = sock.state
    BY <1>4 DEF SameView
  <2>4. s.state = "SYN_RECEIVED" /\ p.flags = {"ACK"} => p.seq = AtPeer(1)
    BY <2>3 DEF RxInv, NetInv, Fresh
  <2>. QED
    BY <1>3, <1>4, <2>1, <2>2, <2>3, <2>4 DEF Arrives
<1>7. Leaves(u, s, q, t, p)
  BY <1>6, ReceivedRx
<1>. HIDE DEF u
<1>. DEFINE y == (p = Syn)   z == (u.state = "LISTEN")
<1>8. /\ IsSock(u) /\ RxGood(u, q, t) /\ u.state \in Resting /\ Outs(u, y) /\ (z => Resets(u))
      /\ u.state = "SYN_RECEIVED" => p = Syn /\ s.state \in {"LISTEN", "SYN_RECEIVED"} /\ ~u.ack
      /\ z => s.state = "LISTEN"
  <2>1. u.state = "SYN_RECEIVED" => ~u.ack
    BY <1>7 DEF Leaves
  <2>2. u.state = "SYN_RECEIVED" => ~u.ack
    BY <1>7, <2>1 DEF Leaves
  <2>. QED
    BY <1>7, <2>2 DEF Leaves
<1>9. (y <=> p = Syn) /\ (z <=> u.state = "LISTEN")
  OBVIOUS
<1>. HIDE DEF y, z
<1>10. Heard(peer', peer, y, z)
  <2>1. IsPeer(peer)
    BY <1>3 DEF NetGood
  <2>. QED
    BY <1>5, <1>8, <2>1, OutsHeard
<1>11. peer'.request = q
  BY <1>10 DEF Heard
<1>12. NetGood(peer', net')
  <2>1. net' \subseteq net /\ (y => Syn \notin net')
    BY <1>1, <1>9
  <2>. QED
    BY <1>3, <1>10, <2>1, NetAfter
<1>. DEFINE e == [u EXCEPT !.out = <<>>, !.late = 0, !.poor = FALSE]
<1>13. e.state = u.state /\ e.rx = u.rx
  BY <1>8, DoneFields
<1>14. sock' = e
  BY <1>5
<1>15. RxState(e, q, taken)
  BY <1>2, <1>8, DoneState
<1>. HIDE DEF e, q
<1>16. sock'.state \in {"LISTEN", "SYN_RECEIVED"} => Fresh(peer', net')
  <2>. SUFFICES ASSUME e.state \in {"LISTEN", "SYN_RECEIVED"} PROVE Fresh(peer', net')
    BY <1>14
  <2>1. s.state \in {"LISTEN", "SYN_RECEIVED"} /\ (z \/ (y /\ Syn \in net))
    BY <1>1, <1>8, <1>9, <1>13
  <2>2. s.state = sock.state
    BY <1>4 DEF SameView
  <2>3. Fresh(peer, net)
    BY <2>1, <2>2 DEF RxInv, NetInv
  <2>4. net' \subseteq net
    BY <1>1
  <2>. QED
    BY <1>3, <1>10, <2>1, <2>3, <2>4, FreshAfter
<1>17. NetInv'
  BY <1>12, <1>16, NetPrime
<1>18. pc \notin {"get", "drainGet"}
  BY <1>1 DEF Blocked
<1>19. taken' = taken /\ pc' = pc
  BY <1>5 DEF server
<1>20. RxState(sock', peer'.request, taken')
  BY <1>11, <1>14, <1>15, <1>19
<1>. QED
  BY <1>11, <1>17, <1>18, <1>19, <1>20, RxPrime DEF q

LEMMA TimerRxStep ==
    ASSUME RxInv, Timer
    PROVE  RxInv' /\ RxGoes(sock', sock)
<1>. DEFINE q == peer.request
<1>1. PICK due \in BOOLEAN, willSleep \in BOOLEAN, poor \in BOOLEAN, late \in 0..Len(sock.win.wait) :
         /\ sock.state # "LISTEN" /\ net' = net
         /\ Handler(TimerCheck([sock EXCEPT !.poor = poor, !.late = late], due, willSleep),
                    One(poor) + One(late > 0))
  BY DEF Timer
<1>. DEFINE s == [sock EXCEPT !.poor = poor, !.late = late]   u == TimerCheck(s, due, willSleep)
<1>2. PICK t \in Nat : (t = 0 \/ taken = AtPeer(t)) /\ RxGood(sock, q, t)
  BY DEF RxInv, RxState
<1>3. /\ IsSock(sock) /\ sock.state \in Resting /\ sock.out = <<>> /\ NetGood(peer, net)
      /\ sock.state = "SYN_RECEIVED" => ~sock.ack
  BY DEF RxInv, RxState, NetInv
<1>4. IsSock(s) /\ SameView(s, sock) /\ s.out = <<>> /\ (s.ack <=> sock.ack) /\ s.state = sock.state
  <2>1. IsSock(s) /\ SameView(s, sock)
    BY <1>3, HandlerView
  <2>2. s.out = sock.out /\ (s.ack <=> sock.ack)
    BY <1>3 DEF IsSock, Fields
  <2>. HIDE DEF s
  <2>. QED
    BY <1>3, <2>1, <2>2 DEF SameView
<1>5. /\ sock' = [u EXCEPT !.out = <<>>, !.late = 0, !.poor = FALSE] /\ server' = server
      /\ \E lost : peer' = HearsAll(peer, u.out, lost)
  BY <1>1 DEF Handler, Transmit
<1>. HIDE DEF s
<1>. DEFINE y == FALSE   z == (u.state = "SYN_RECEIVED")
<1>6. IsSock(u) /\ RxGoes(u, s)
  BY <1>4, TimerRx
<1>7. RxGoes(u, sock)
  BY <1>4, <1>6, ViewGoes, RxGoesThen
<1>8. RxGood(u, q, t)
  BY <1>2, <1>7, RxGoesGood
<1>9. u.state = sock.state \/ (sock.state = "ESTABLISHED" /\ u.state = "FIN_WAIT_1")
  BY <1>7 DEF RxGoes
<1>10. sock.state = "SYN_RECEIVED" => u.out = <<>> /\ ~u.ack
  <2>. SUFFICES ASSUME sock.state = "SYN_RECEIVED" PROVE u.out = <<>> /\ ~u.ack
    OBVIOUS
  <2>1. s.state = "SYN_RECEIVED" /\ ~s.ack
    BY <1>3, <1>4
  <2>2. u.out = s.out /\ ~u.ack
    <3>1. u = TimerCheck(s, due, willSleep) /\ IsSock(s)
      BY <1>4
    <3>. HIDE DEF u
    <3>. QED
      BY <2>1, <3>1, TimerQuiet
  <2>. QED
    BY <1>4, <2>2
<1>11. Outs(u, y)
  <2>1. y = FALSE
    OBVIOUS
  <2>. HIDE DEF u, y
  <2>. QED
    BY <1>4, <2>1, TimerOuts DEF u
<1>. HIDE DEF u
<1>12. (z => Resets(u)) /\ (y <=> FALSE) /\ (z <=> u.state = "SYN_RECEIVED")
  BY <1>9, <1>10, OutsNone
<1>. HIDE DEF y, z
<1>13. Heard(peer', peer, y, z)
  <2>1. IsPeer(peer)
    BY <1>3 DEF NetGood
  <2>. QED
    BY <1>5, <1>11, <1>12, <2>1, OutsHeard
<1>14. peer'.request = q
  BY <1>13 DEF Heard
<1>15. NetGood(peer', net')
  <2>1. net' \subseteq net /\ (y => Syn \notin net')
    BY <1>1, <1>12
  <2>. QED
    BY <1>3, <1>13, <2>1, NetAfter
<1>. DEFINE e == [u EXCEPT !.out = <<>>, !.late = 0, !.poor = FALSE]
<1>16. e.state = u.state /\ e.rx = u.rx
  BY <1>6, DoneFields
<1>17. sock' = e
  BY <1>5
<1>18. u.state \in Resting /\ (u.state = "SYN_RECEIVED" => ~u.ack)
  BY <1>3, <1>9, <1>10 DEF Resting
<1>19. RxState(e, q, taken)
  BY <1>2, <1>6, <1>8, <1>18, DoneState
<1>20. SameView(e, u)
  BY <1>6, HandlerView
<1>. HIDE DEF e
<1>21. RxGoes(sock', sock)
  BY <1>7, <1>17, <1>20, ViewGoes, RxGoesThen
<1>. HIDE DEF q
<1>22. sock'.state \in {"LISTEN", "SYN_RECEIVED"} => Fresh(peer', net')
  <2>. SUFFICES ASSUME e.state \in {"LISTEN", "SYN_RECEIVED"} PROVE Fresh(peer', net')
    BY <1>17
  <2>1. sock.state = "SYN_RECEIVED" /\ z
    BY <1>1, <1>9, <1>12, <1>16
  <2>2. Fresh(peer, net)
    BY <2>1 DEF RxInv, NetInv
  <2>. QED
    BY <1>1, <1>3, <1>13, <2>1, <2>2, FreshAfter
<1>23. NetInv'
  BY <1>15, <1>22, NetPrime
<1>24. taken' = taken /\ pc' = pc
  BY <1>5 DEF server
<1>25. RxState(sock', peer'.request, taken')
  BY <1>14, <1>17, <1>19, <1>24
<1>26. sock'.rx = sock.rx
  BY <1>21 DEF RxGoes, SameRx
<1>27. pc' \in {"get", "drainGet"} => sock'.rx # NoStream
  BY <1>24, <1>26 DEF RxInv
<1>. QED
  BY <1>21, <1>23, <1>25, <1>27, RxPrime

-----------------------------------------------------------------------------
(* FreeRTOS_recv takes bytes from the buffer *)

LEMMA TakenFields ==
    ASSUME NEW s, IsSock(s), NEW r, r = Taken(s)
    PROVE  /\ IsSock(r) /\ r.rx = Got(s.rx, MSS) /\ r.win = s.win /\ r.state = s.state /\ r.out = s.out
           /\ r.ack <=> s.ack
           /\ r.finSent = s.finSent /\ r.finAccepted = s.finAccepted /\ r.finRecv = s.finRecv
<1>. DEFINE a == [s EXCEPT !.rx = Got(@, MSS)]
            b == [a EXCEPT !.lowWater = FALSE, !.winChange = TRUE]
<1>1. r \in {a, b}
  BY DEF Taken
<1>2. /\ IsSock(a) /\ a.rx = Got(s.rx, MSS) /\ a.win = s.win /\ a.state = s.state /\ a.out = s.out
      /\ a.ack <=> s.ack
      /\ a.finSent = s.finSent /\ a.finAccepted = s.finAccepted /\ a.finRecv = s.finRecv
  BY DEF IsSock, Fields
<1>. HIDE DEF a
<1>3. /\ IsSock(b) /\ b.rx = a.rx /\ b.win = a.win /\ b.state = a.state /\ b.out = a.out
      /\ b.ack <=> a.ack
      /\ b.finSent = a.finSent /\ b.finAccepted = a.finAccepted /\ b.finRecv = a.finRecv
  BY <1>2 DEF IsSock, Fields
<1>. HIDE DEF b
<1>. QED
  BY <1>1, <1>2, <1>3

LEMMA TakenAt ==
    ASSUME NEW q, IsRequest(q), NEW s, s.rx # NoStream, NEW t \in Nat, NEW e \in Edges(q), RxAt(s, q, t, e),
           NEW n, n = Available(s.rx, 0, MSS), NEW r, r.rx = Got(s.rx, MSS), r.win = s.win, r.finAccepted = s.finAccepted
    PROVE  /\ n \in Nat /\ r.rx # NoStream /\ RxAt(r, q, t + n, e)
<1>. DEFINE b == s.rx   c == Got(b, MSS)   L == RxLength
<1>1. L \in Nat \ {0} /\ L \in Nat /\ MSS \in Nat /\ e \in Nat /\ t \in 1..e
  BY SocketAssumption, WindowAssumption, RequestReach DEF RxAt
<1>2. IsRing(b, L) /\ GetSize(b) = e - t /\ InPlace(b, t, t, e) /\ \A g \in s.win.stored : Ahead(b, g, t, e)
  BY DEF RxAt
<1>. HIDE DEF L
<1>3. /\ n \in 0..GetSize(b) /\ IsRing(c, L) /\ GetSize(c) = GetSize(b) - n
      /\ \A k \in 0..(L - 1) : k + n <= L - 1 => Cell(c, k) = Cell(b, k + n)
  BY <1>1, <1>2, GotIs
<1>4. GetSize(b) \in 0..(L - 1)
  BY <1>1, <1>2, RingIs
<1>5. n \in Nat /\ t + n \in 1..e /\ GetSize(c) = e - (t + n)
  BY <1>1, <1>2, <1>3
<1>6. c # NoStream
  <2>1. DOMAIN c = BufferFields /\ DOMAIN NoStream = {"length"}
    BY <1>3 DEF IsRing, NoStream
  <2>. QED
    BY <2>1 DEF BufferFields
<1>. HIDE DEF b, c
<1>7. InPlace(c, t + n, t + n, e)
  <2>1. ASSUME NEW x \in (t + n)..(e - 1) PROVE Cell(c, x - (t + n)) = AtPeer(x)
    <3>. DEFINE k == x - (t + n)
    <3>1. k \in 0..(L - 1) /\ k + n <= L - 1 /\ k + n = x - t /\ x \in t..(e - 1)
      BY <1>1, <1>2, <1>4, <1>5
    <3>2. Cell(c, k) = Cell(b, x - t)
      BY <1>3, <3>1
    <3>3. Cell(b, x - t) = AtPeer(x)
      BY <1>2, <3>1 DEF InPlace
    <3>. QED
      BY <3>2, <3>3
  <2>. QED
    BY <2>1 DEF InPlace
<1>8. ASSUME NEW g \in s.win.stored PROVE Ahead(c, g, t + n, e)
  <2>1. Ahead(b, g, t, e)
    BY <1>2
  <2>2. g \in Pieces(q)
    BY DEF RxAt
  <2>. DEFINE o == Off(g.seq)   m == g.len
  <2>3. o \in Nat /\ m \in Nat
    <3>1. PICK i \in 1..Len(q) : g = Piece(q, i)
      BY <2>2, RequestReach
    <3>. QED
      BY <3>1, PieceIs, SMTT(20)
  <2>4. o > e /\ o + m - t <= L - 1
    BY <2>1 DEF Ahead, L
  <2>5. InPlace(b, t, o, o + m)
    BY <2>1 DEF Ahead
  <2>. HIDE DEF o, m
  <2>6. o + m - (t + n) <= L - 1
    BY <1>1, <1>5, <2>3, <2>4
  <2>7. ASSUME NEW x \in o..((o + m) - 1) PROVE Cell(c, x - (t + n)) = AtPeer(x)
    <3>. DEFINE k == x - (t + n)
    <3>1. k \in 0..(L - 1) /\ k + n <= L - 1 /\ k + n = x - t
      BY <1>1, <1>5, <2>3, <2>4
    <3>2. Cell(c, k) = Cell(b, x - t)
      BY <1>3, <3>1
    <3>. QED
      BY <2>5, <3>2 DEF InPlace
  <2>8. InPlace(c, t + n, o, o + m)
    BY <2>7 DEF InPlace
  <2>. QED
    BY <2>4, <2>6, <2>8 DEF Ahead, o, m, L
<1>9. r.rx = c
  BY DEF c, b
<1>10. RxAt(r, q, t + n, e)
  <2>1. /\ r.win.rxCur = AtPeer(e + FinTook(r)) /\ r.win.stored \subseteq Pieces(q)
        /\ r.finAccepted => e = Total(q) + 1 /\ r.win.stored = {}
    BY DEF RxAt, FinTook
  <2>. QED
    BY <1>3, <1>5, <1>6, <1>7, <1>8, <1>9, <2>1 DEF RxAt, L
<1>. QED
  BY <1>5, <1>6, <1>9, <1>10

-----------------------------------------------------------------------------
LEMMA TakenState ==
    ASSUME NEW q, IsRequest(q), NEW s, NEW next, RxState(s, q, next), s.rx # NoStream,
           NEW r, r = Taken(s), NEW then, then = Plus(next, Available(s.rx, 0, MSS))
    PROVE  RxState(r, q, then)
<1>. DEFINE n == Available(s.rx, 0, MSS)
<1>1. PICK t \in Nat : (t = 0 \/ next = AtPeer(t)) /\ RxGood(s, q, t)
  BY DEF RxState
<1>2. IsSock(s) /\ s.state \in Resting /\ s.out = <<>> /\ (s.state = "SYN_RECEIVED" => ~s.ack)
  BY DEF RxState
<1>3. /\ IsSock(r) /\ r.rx = Got(s.rx, MSS) /\ r.win = s.win /\ r.state = s.state /\ r.out = s.out
      /\ r.ack <=> s.ack
      /\ r.finSent = s.finSent /\ r.finAccepted = s.finAccepted /\ r.finRecv = s.finRecv
  BY <1>2, TakenFields
<1>4. s.state \notin {"LISTEN", "SYN_FIRST", "SYN_RECEIVED"}
  BY <1>1 DEF RxGood
<1>5. (High(s, q) => High(r, q)) /\ r.state \notin {"LISTEN", "SYN_FIRST", "SYN_RECEIVED"}
  BY <1>3, <1>4 DEF High
<1>. HIDE DEF n
<1>6. CASE Cares(s)
  <2>1. PICK e \in Edges(q) : RxAt(s, q, t, e)
    BY <1>1, <1>6 DEF RxGood
  <2>2. n \in Nat /\ r.rx # NoStream /\ RxAt(r, q, t + n, e)
    BY <1>3, <2>1, TakenAt DEF n
  <2>3. t # 0
    BY <2>1 DEF RxAt
  <2>4. then = AtPeer(t + n)
    <3>1. next = Plus(PeerISS, t) /\ then = Plus(next, n)
      BY <1>1, <2>3 DEF AtPeer, n
    <3>2. Plus(Plus(PeerISS, t), n) = Plus(PeerISS, t + n)
      BY <2>2, PlusPlus, PeerIs
    <3>. QED
      BY <3>1, <3>2 DEF AtPeer
  <2>5. RxGood(r, q, t + n)
    BY <1>1, <1>3, <1>5, <2>1, <2>2 DEF RxGood
  <2>6. t + n \in Nat
    BY <2>2
  <2>. DEFINE x == t + n
  <2>. HIDE DEF x
  <2>7. x \in Nat /\ then = AtPeer(x) /\ RxGood(r, q, x)
    BY <2>4, <2>5, <2>6 DEF x
  <2>. QED
    BY <1>2, <1>3, <1>5, <2>7 DEF RxState
<1>7. CASE ~Cares(s)
  <2>1. ~Cares(r)
    BY <1>3, <1>7 DEF Cares
  <2>2. RxGood(r, q, 0)
    BY <1>1, <1>3, <1>5, <2>1 DEF RxGood
  <2>. QED
    BY <1>2, <1>3, <1>5, <2>2 DEF RxState
<1>. QED
  BY <1>6, <1>7
-----------------------------------------------------------------------------
(* The steps of the server task and of the IP task that closes the socket *)

\* Nothing is sent.
LEMMA QuietRx ==
    ASSUME RxInv, UNCHANGED <<peer, net>>, RxState(sock', peer.request, taken'),
           sock'.state \in {"LISTEN", "SYN_RECEIVED"} => sock'.state = sock.state,
           pc' \in {"get", "drainGet"} => sock'.rx # NoStream
    PROVE  RxInv'
<1>1. NetGood(peer', net') /\ (sock'.state \in {"LISTEN", "SYN_RECEIVED"} => Fresh(peer', net'))
  BY DEF RxInv, NetInv
<1>2. NetInv'
  BY <1>1, NetPrime
<1>3. RxState(sock', peer'.request, taken')
  OBVIOUS
<1>. QED
  BY <1>2, <1>3, RxPrime

\* Nor is anything taken.
LEMMA ViewRx ==
    ASSUME RxInv, UNCHANGED <<peer, net, taken>>, IsSock(sock'), SameView(sock', sock), sock'.out = sock.out,
           sock'.ack <=> sock.ack, pc' \in {"get", "drainGet"} => sock.rx # NoStream
    PROVE  RxInv'
<1>1. PICK t \in Nat : (t = 0 \/ taken = AtPeer(t)) /\ RxGood(sock, peer.request, t)
  BY DEF RxInv, RxState
<1>2. RxGood(sock', peer.request, t)
  BY <1>1, GoodSame
<1>3. sock'.state = sock.state /\ sock'.rx = sock.rx
  BY DEF SameView, SameRx
<1>4. RxState(sock', peer.request, taken')
  BY <1>1, <1>2, <1>3 DEF RxInv, RxState
<1>. QED
  BY <1>3, <1>4, QuietRx

LEMMA SockFields ==
    ASSUME NEW s, IsSock(s), NEW x, NEW r,
           r \in {s, [s EXCEPT !.passAccept = FALSE], [s EXCEPT !.group = x], [s EXCEPT !.tx = x],
                  [s EXCEPT !.userShutdown = TRUE]}
    PROVE  IsSock(r) /\ SameView(r, s) /\ r.out = s.out /\ (r.ack <=> s.ack)
BY DEF IsSock, Fields, SameView, SameRx

-----------------------------------------------------------------------------
\* FreeRTOS_send finds no memory for its buffer.
LEMMA FailedRx ==
    ASSUME NEW s, NEW q, NEW next, RxState(s, q, next),
           NEW a, a = [s EXCEPT !.mallocError = TRUE], NEW r, r = StateChange(a, "CLOSE_WAIT")
    PROVE  RxState(r, q, next) /\ r.state = "CLOSE_WAIT" /\ r.rx = s.rx
<1>1. PICK t \in Nat : (t = 0 \/ next = AtPeer(t)) /\ RxGood(s, q, t)
  BY DEF RxState
<1>2. IsSock(s) /\ s.out = <<>>
  BY DEF RxState
<1>3. IsSock(a) /\ SameView(a, s) /\ a.out = s.out
  BY <1>2 DEF IsSock, Fields, SameView, SameRx
<1>4. Changes(r, a, OfState, {}) /\ r.state = "CLOSE_WAIT"
  BY <1>3, StateChangeChanges
<1>5. RxGood(a, q, t)
  BY <1>1, <1>3, GoodSame
<1>6. /\ SameRx(r, a) /\ r.finSent = a.finSent /\ r.finRecv = a.finRecv /\ r.win.rxFin = a.win.rxFin
      /\ r.out = a.out
  BY <1>4 DEF Changes, WinChanges, Fields, WinFields, OfState, SameRx
<1>7. Cares(r) => Cares(a)
  BY <1>4, <1>6 DEF Cares, SameRx
<1>8. \A e : RxAt(a, q, t, e) => RxAt(r, q, t, e)
  BY <1>6, RxSame
<1>9. RxGood(r, q, t)
  BY <1>4, <1>5, <1>6, <1>7, <1>8 DEF RxGood, SameRx
<1>10. IsSock(r)
  BY <1>4, ChangesSock
<1>11. r.rx = s.rx
  BY <1>3, <1>6 DEF SameView, SameRx
<1>. QED
  BY <1>1, <1>2, <1>3, <1>4, <1>6, <1>9, <1>10, <1>11 DEF RxState, Resting

LEMMA SendCheckRx ==
    ASSUME RxInv, SendCheck
    PROVE  RxInv'
<1>. DEFINE a == [sock EXCEPT !.mallocError = TRUE]   r == StateChange(a, "CLOSE_WAIT")
            made == [sock EXCEPT !.tx = EmptyBuffer(TxLength)]
<1>0. IsSock(sock) /\ RxState(sock, peer.request, taken)
  BY DEF RxInv, RxState
<1>1. UNCHANGED <<peer, net, taken>> /\ sock' \in {sock, made, r} /\ pc' \notin {"get", "drainGet"}
  BY DEF SendCheck, App, Goto
<1>2. CASE sock' \in {sock, made}
  <2>1. IsSock(sock') /\ SameView(sock', sock) /\ sock'.out = sock.out /\ (sock'.ack <=> sock.ack)
    BY <1>0, <1>2, SockFields
  <2>. QED
    BY <1>1, <2>1, ViewRx
<1>3. CASE sock' = r
  <2>. HIDE DEF r
  <2>1. RxState(r, peer.request, taken) /\ r.state = "CLOSE_WAIT"
    BY <1>0, FailedRx DEF r
  <2>2. RxState(sock', peer.request, taken')
    BY <1>1, <1>3, <2>1
  <2>. QED
    BY <1>1, <1>3, <2>1, <2>2, QuietRx
<1>. QED
  BY <1>1, <1>2, <1>3

LEMMA RecvGetRx ==
    ASSUME RxInv, pc \in {"get", "drainGet"}, UNCHANGED <<peer, net>>, sock' = Taken(sock),
           taken' = Plus(taken, Available(sock.rx, 0, MSS)), pc' \notin {"get", "drainGet"}
    PROVE  RxInv'
<1>1. RxState(sock, peer.request, taken) /\ sock.rx # NoStream /\ IsRequest(peer.request)
  BY DEF RxInv, NetInv, NetGood
<1>2. RxState(sock', peer.request, taken')
  BY <1>1, TakenState
<1>3. sock'.state = sock.state
  <2>1. IsSock(sock)
    BY <1>1 DEF RxState
  <2>. QED
    BY <2>1, TakenFields
<1>. QED
  BY <1>2, <1>3, QuietRx

LEMMA ServerRx ==
    ASSUME RxInv, Server
    PROVE  RxInv'
<1>0. IsSock(sock)
  BY DEF RxInv, RxState
<1>1. CASE SendCheck
  BY <1>1, SendCheckRx
<1>2. CASE RecvGet("get", "reading") \/ RecvGet("drainGet", "drain") \/ RecvGet("drainGet", "close")
  <2>1. /\ pc \in {"get", "drainGet"} /\ UNCHANGED <<peer, net>> /\ sock' = Taken(sock)
        /\ taken' = Plus(taken, Available(sock.rx, 0, MSS)) /\ pc' \in {"reading", "drain", "close"}
    BY <1>2 DEF RecvGet, App, Goto
  <2>. QED
    BY <2>1, RecvGetRx
<1>3. CASE SendAdd
  <2>1. UNCHANGED <<peer, net, taken>> /\ pc' \in {"recv", "addWait"}
    BY <1>3 DEF SendAdd, App, Goto
  <2>2. \E x : sock' = [sock EXCEPT !.tx = x]
    BY <1>3 DEF SendAdd, App
  <2>3. IsSock(sock') /\ SameView(sock', sock) /\ sock'.out = sock.out /\ (sock'.ack <=> sock.ack)
    BY <1>0, <2>2, SockFields
  <2>. QED
    BY <2>1, <2>3, ViewRx
<1>4. CASE Recv("recv", "recvWait", "get", "shutdown") \/ Recv("drain", "drainWait", "drainGet", "close")
  <2>1. UNCHANGED <<peer, net, taken>> /\ sock' = sock
    BY <1>4 DEF Recv, App, Only
  <2>2. pc' \in {"get", "drainGet"} => Size > 0
    BY <1>4 DEF Recv, Goto
  <2>3. pc' \in {"get", "drainGet"} => sock.rx # NoStream
    BY <2>2 DEF Size
  <2>4. IsSock(sock') /\ SameView(sock', sock) /\ sock'.out = sock.out /\ (sock'.ack <=> sock.ack)
    BY <1>0, <2>1 DEF SameView, SameRx
  <2>. QED
    BY <2>1, <2>3, <2>4, ViewRx
<1>5. CASE \/ Accept \/ AcceptWait \/ Reading \/ SendWait \/ Shutdown \/ Close
           \/ RecvWait("recvWait", "recv", "shutdown") \/ RecvWait("drainWait", "drain", "close")
  <2>1. UNCHANGED <<peer, net, taken>> /\ pc' \notin {"get", "drainGet"}
    BY <1>5 DEF Accept, AcceptWait, Reading, SendWait, Shutdown, Close, RecvWait, App, Goto, Only, Sleep
  <2>2. \/ sock' = sock \/ sock' = [sock EXCEPT !.passAccept = FALSE] \/ sock' = [sock EXCEPT !.userShutdown = TRUE]
        \/ \E x : sock' = [sock EXCEPT !.group = x]
    BY <1>5 DEF Accept, AcceptWait, Reading, SendWait, Shutdown, Close, RecvWait, App, Sleep
  <2>3. IsSock(sock') /\ SameView(sock', sock) /\ sock'.out = sock.out /\ (sock'.ack <=> sock.ack)
    BY <1>0, <2>2, SockFields
  <2>. QED
    BY <2>1, <2>3, ViewRx
<1>. QED
  BY <1>1, <1>2, <1>3, <1>4, <1>5 DEF Server

LEMMA CloseEventRx ==
    ASSUME RxInv, TaskInv, CloseEvent
    PROVE  RxInv'
<1>. DEFINE s == SocketClose(sock)
<1>1. UNCHANGED <<peer, net, taken, pc>> /\ sock' = s /\ pc = "done"
  BY DEF CloseEvent, TaskInv, client
<1>2. /\ s.state = "CLOSED" /\ s.out = <<>> /\ s.rx = NoStream /\ ~s.finSent /\ ~s.finAccepted /\ ~s.finRecv
      /\ IsSock(s)
  <2>1. IsSock(Listening)
    BY ListeningIsSock
  <2>. QED
    BY <2>1 DEF SocketClose, Listening, IsSock, Fields
<1>. HIDE DEF s
<1>3. \A q : RxGood(s, q, 0)
  BY <1>2 DEF RxGood, Cares
<1>4. RxState(s, peer.request, taken)
  BY <1>2, <1>3 DEF RxState, Resting
<1>5. RxState(sock', peer.request, taken')
  BY <1>1, <1>4
<1>. QED
  BY <1>1, <1>2, <1>5, QuietRx

LEMMA RxStep == RxInv /\ WokenInv /\ [Next]_vars => RxInv'
<1>. SUFFICES ASSUME RxInv, WokenInv, [Next]_vars PROVE RxInv'
  OBVIOUS
<1>0. RxState(sock, peer.request, taken) /\ IsSock(sock) /\ NetInv /\ TaskInv
  BY DEF RxInv, RxState, WokenInv
<1>1. CASE ClientNext /\ UNCHANGED <<sock, server>>
  <2>1. NetInv' /\ peer'.request = peer.request
    BY <1>0, <1>1, ClientNet
  <2>2. sock' = sock /\ taken' = taken /\ pc' = pc
    BY <1>1 DEF server
  <2>. QED
    BY <1>0, <2>1, <2>2, RxPrime DEF RxInv
<1>2. CASE UNCHANGED vars
  <2>1. UNCHANGED <<peer, net, taken, pc>> /\ sock' = sock
    BY <1>2 DEF vars, client, server
  <2>2. SameView(sock', sock)
    BY <2>1 DEF SameView, SameRx
  <2>. QED
    BY <1>0, <2>1, <2>2, ViewRx DEF RxInv
<1>. QED
  BY <1>0, <1>1, <1>2, ReceiveRx, TimerRxStep, CloseEventRx, ServerRx DEF Next

-----------------------------------------------------------------------------
(* What FreeRTOS_recv returns *)

\* A client sends fewer than 2^31 bytes in a connection: beyond that, the sequence
\* numbers in a request have no order.
RequestsFit == \A c \in Cases : 2 * (Total(c.request) + 4) < SeqSpace

LEMMA RxInit ==
    ASSUME RequestsFit, Init
    PROVE  RxInv
<1>1. PICK c \in Cases : peer = NewPeer(c.request)
  BY DEF Init
<1>2. net = {} /\ sock = Listening /\ pc = "accept" /\ taken = AtPeer(1)
  BY DEF Init, AtPeer
<1>3. IsRequest(c.request)
  <2>1. c.request \in Seq(1..MSS)
    BY ClientAssumption
  <2>. QED
    BY <2>1 DEF IsRequest, RequestsFit
<1>4. /\ IsPeer(peer) /\ peer.request = c.request /\ peer.state = "CLOSED" /\ peer.next = 1 /\ ~peer.fin
      /\ peer.sack = <<>> /\ peer.rcv = 0 /\ ~peer.owes /\ peer.una = AtPeer(1)
  BY <1>1 DEF NewPeer, IsPeer, PeerFields, AtPeer
<1>5. Len(peer.request) \in Nat
  BY <1>3, <1>4, RequestReach
<1>6. NetInv
  BY <1>2, <1>3, <1>4, <1>5 DEF NetInv, NetGood, Fresh
<1>7. /\ sock.state = "LISTEN" /\ sock.out = <<>> /\ sock.rx = NoStream /\ ~sock.finSent /\ ~sock.finAccepted
      /\ ~sock.finRecv
  BY <1>2 DEF Listening
<1>8. IsSock(sock)
  BY <1>2, ListeningIsSock
<1>9. RxGood(sock, peer.request, 1)
  BY <1>7 DEF RxGood, Cares
<1>10. RxState(sock, peer.request, taken)
  BY <1>2, <1>7, <1>8, <1>9 DEF RxState, Resting
<1>. QED
  BY <1>2, <1>6, <1>10 DEF RxInv

\* A place counted from the head and from the tail
LEMMA AtIs ==
    ASSUME NEW n \in Nat \ {0}, NEW b, IsRing(b, n), NEW k \in Int
    PROVE  At(b, k) = Cell(b, GetSize(b) + k)
<1>. DEFINE m == GetSize(b)   u == b.tail + m
<1>1. m \in 0..(n - 1) /\ b.head = Onward(b, b.tail, m) /\ b.length = n /\ b.tail \in 0..(n - 1)
  BY RingIs DEF IsRing
<1>. HIDE DEF m
<1>2. u \in Int /\ b.tail + (m + k) = u + k
  BY <1>1
<1>3. b.head = u % n
  BY <1>1 DEF Onward
<1>4. ((u % n) + k) % n = (u + k) % n
  BY <1>2, ModPlus
<1>5. Onward(b, b.head, k) = Onward(b, b.tail, m + k)
  BY <1>1, <1>2, <1>3, <1>4 DEF Onward
<1>. QED
  BY <1>5 DEF At, Cell, m

LEMMA PeerPlus ==
    ASSUME NEW x \in Int, NEW i \in Int
    PROVE  Plus(AtPeer(x), i) = AtPeer(x + i)
BY PlusPlus, PeerIs DEF AtPeer

\* Where the data ends
LEMMA EndIs ==
    ASSUME NEW q, IsRequest(q), NEW s, NEW t, NEW e, RxAt(s, q, t, e)
    PROVE  (IF s.finAccepted THEN Plus(s.win.rxCur, -1) ELSE s.win.rxCur) = AtPeer(e)
<1>1. e \in Nat /\ s.win.rxCur = AtPeer(e + FinTook(s))
  BY RequestReach DEF RxAt
<1>2. CASE s.finAccepted
  <2>1. e + 1 \in Int /\ -1 \in Int /\ (e + 1) + (-1) = e
    BY <1>1
  <2>2. Plus(AtPeer(e + 1), -1) = AtPeer((e + 1) + (-1))
    BY <2>1, PeerPlus
  <2>. QED
    BY <1>1, <1>2, <2>1, <2>2 DEF FinTook
<1>3. CASE ~s.finAccepted
  <2>1. e + 0 = e
    BY <1>1
  <2>. QED
    BY <1>1, <1>3, <2>1 DEF FinTook
<1>. QED
  BY <1>2, <1>3

LEMMA SizeIs ==
    ASSUME NEW q, IsRequest(q), NEW t, NEW e, RxAt(sock, q, t, e)
    PROVE  e \in Nat /\ t \in Nat /\ t # 0 /\ t <= e /\ Size = e - t
<1>1. e \in Nat /\ t \in 1..e
  BY RequestReach DEF RxAt
<1>2. CASE sock.rx = NoStream
  BY <1>1, <1>2 DEF RxAt, Size
<1>3. CASE sock.rx # NoStream
  BY <1>1, <1>3 DEF RxAt, Size
<1>. QED
  BY <1>1, <1>2, <1>3

LEMMA RxCares ==
    ASSUME RxInv, Cares(sock)
    PROVE  \E t, e : /\ RxAt(sock, peer.request, t, e) /\ IsRequest(peer.request)
                     /\ taken = AtPeer(t) /\ Plus(taken, Size) = AtPeer(e)
<1>1. PICK t \in Nat : (t = 0 \/ taken = AtPeer(t)) /\ RxGood(sock, peer.request, t)
  BY DEF RxInv, RxState
<1>2. PICK e : RxAt(sock, peer.request, t, e)
  BY <1>1 DEF RxGood
<1>3. IsRequest(peer.request)
  BY DEF RxInv, NetInv, NetGood
<1>4. e \in Nat /\ t \in Nat /\ t # 0 /\ t <= e /\ Size = e - t
  BY <1>2, <1>3, SizeIs
<1>5. e - t \in Int /\ t + (e - t) = e
  BY <1>4
<1>6. Plus(AtPeer(t), e - t) = AtPeer(t + (e - t))
  BY <1>4, <1>5, PeerPlus
<1>. QED
  BY <1>1, <1>2, <1>3, <1>4, <1>5, <1>6

-----------------------------------------------------------------------------
LEMMA RxInOrderHolds ==
    ASSUME RxInv
    PROVE  RxInOrder
<1>. SUFFICES ASSUME sock.rx # NoStream, sock.finSent => sock.finAccepted
              PROVE  /\ Plus(taken, Size) = DataEnd
                     /\ \A i \in 1..Size : At(sock.rx, -i) = Plus(DataEnd, -i)
                     /\ \A g \in sock.win.stored, i \in 0..(MSS - 1) :
                           i < g.len => At(sock.rx, Diff(g.seq, DataEnd) + i) = Plus(g.seq, i)
  BY DEF RxInOrder
<1>. DEFINE q == peer.request   b == sock.rx
<1>1. Cares(sock)
  BY DEF Cares
<1>2. PICK t, e : /\ RxAt(sock, q, t, e) /\ IsRequest(q)
                  /\ taken = AtPeer(t) /\ Plus(taken, Size) = AtPeer(e)
  BY <1>1, RxCares
<1>3. e \in Nat /\ t \in Nat /\ t # 0 /\ t <= e /\ Size = e - t
  BY <1>2, SizeIs
<1>4. DataEnd = AtPeer(e)
  BY <1>2, EndIs DEF DataEnd
<1>5. IsRing(b, RxLength) /\ GetSize(b) = e - t /\ InPlace(b, t, t, e) /\ \A g \in sock.win.stored : Ahead(b, g, t, e)
  BY <1>2 DEF RxAt
<1>6. RxLength \in Nat \ {0} /\ MSS \in Nat
  BY SocketAssumption, WindowAssumption
<1>7. \A k \in Int : At(b, k) = Cell(b, (e - t) + k)
  BY <1>5, <1>6, AtIs
<1>. HIDE DEF b
<1>8. ASSUME NEW i \in 1..Size PROVE At(b, -i) = Plus(DataEnd, -i)
  <2>1. i \in Int /\ -i \in Int /\ e + (-i) \in t..(e - 1) /\ (e - t) + (-i) = (e + (-i)) - t
    BY <1>3
  <2>2. At(b, -i) = Cell(b, (e + (-i)) - t)
    BY <1>7, <2>1
  <2>3. Cell(b, (e + (-i)) - t) = AtPeer(e + (-i))
    BY <1>5, <2>1 DEF InPlace
  <2>4. Plus(AtPeer(e), -i) = AtPeer(e + (-i))
    BY <1>3, <2>1, PeerPlus
  <2>. QED
    BY <1>4, <2>2, <2>3, <2>4
<1>9. ASSUME NEW g \in sock.win.stored, NEW i \in 0..(MSS - 1), i < g.len
      PROVE  At(b, Diff(g.seq, DataEnd) + i) = Plus(g.seq, i)
  <2>. DEFINE o == Off(g.seq)
  <2>1. Ahead(b, g, t, e) /\ g \in Pieces(q)
    BY <1>2, <1>5 DEF RxAt
  <2>2. PICK j \in 1..Len(q) : g = Piece(q, j)
    BY <1>2, <2>1, RequestReach
  <2>3. /\ o \in Nat /\ g.len \in Nat /\ g.seq = AtPeer(o) /\ o \in 0..(Total(q) + 2)
        /\ e \in 0..(Total(q) + 2)
    <3>. HIDE DEF q
    <3>1. Total(q) \in Nat /\ e \in 0..(Total(q) + 2)
      BY <1>2, RequestReach DEF RxAt
    <3>2. o = Place(q, j) /\ g.len \in Nat /\ Place(q, j) \in 1..Total(q) /\ g.seq = AtPeer(Place(q, j))
      BY <1>2, <2>2, PieceIs
    <3>. HIDE DEF o
    <3>. QED
      BY <3>1, <3>2
  <2>4. InPlace(b, t, o, o + g.len)
    BY <2>1 DEF Ahead
  <2>5. Diff(g.seq, DataEnd) = o - e
    <3>. HIDE DEF o, q
    <3>. QED
      BY <1>2, <1>4, <2>3, PeerOrder
  <2>. HIDE DEF o
  <2>6. /\ (o - e) + i \in Int /\ (e - t) + ((o - e) + i) = (o + i) - t /\ o + i \in o..((o + g.len) - 1)
        /\ o \in Int /\ i \in Int
    <3>. DEFINE l == g.len
    <3>1. l \in Nat /\ i < l /\ o \in Nat /\ i \in Nat
      BY <1>9, <1>6, <2>3
    <3>. HIDE DEF l
    <3>2. (o - e) + i \in Int /\ (e - t) + ((o - e) + i) = (o + i) - t
      BY <1>3, <3>1
    <3>3. o + i \in o..((o + l) - 1)
      BY <3>1
    <3>. QED
      BY <3>1, <3>2, <3>3 DEF l
  <2>7. At(b, (o - e) + i) = Cell(b, (o + i) - t)
    BY <1>7, <2>6
  <2>8. Cell(b, (o + i) - t) = AtPeer(o + i)
    BY <2>4, <2>6 DEF InPlace
  <2>9. Plus(AtPeer(o), i) = AtPeer(o + i)
    BY <2>6, PeerPlus
  <2>. QED
    BY <2>3, <2>5, <2>7, <2>8, <2>9
<1>. QED
  BY <1>2, <1>4, <1>8, <1>9 DEF b

LEMMA FinHolds ==
    ASSUME RxInv, sock.finAccepted
    PROVE  Plus(taken, Size) = End
<1>. DEFINE q == peer.request
<1>1. Cares(sock)
  BY DEF Cares
<1>2. PICK t, e : /\ RxAt(sock, q, t, e) /\ IsRequest(q)
                  /\ taken = AtPeer(t) /\ Plus(taken, Size) = AtPeer(e)
  BY <1>1, RxCares
<1>3. e = Total(q) + 1
  BY <1>2 DEF RxAt
<1>4. End = AtPeer(Total(q) + 1)
  BY <1>2, StartIs
<1>. QED
  BY <1>2, <1>3, <1>4

\* Whatever is lost, repeated or comes in another order, and whatever fails,
\* lTCPWindowRxCheck, prvStoreRxData and lTCPAddRxdata put the bytes of the
\* request in the receive buffer in order, and FreeRTOS_recv takes them from it
\* in order: as long as the server task has not shut the connection down, the
\* buffer holds what lies between the last byte taken and the next one
\* expected, and, at its place ahead of that, each segment that came too early.
THEOREM DataInOrder ==
    ASSUME RequestsFit
    PROVE  Spec => []RxInOrder
<1>1. Init => RxInv
  BY RxInit
<1>2. RxInv => RxInOrder
  BY RxInOrderHolds
<1>. QED
  BY <1>1, <1>2, RxStep, WokenInit, WokenStep, PTL DEF Spec

\* prvTCPHandleFin is reached for the FIN of the client when all of the request was
\* received: once bFinAccepted is set, what the server task has read and what is
\* still in the receive buffer is the whole request.
THEOREM FinAfterTheData ==
    ASSUME RequestsFit
    PROVE  Spec => []FinAfterRequest
<1>1. Init => RxInv
  BY RxInit
<1>2. RxInv => FinAfterRequest
  BY FinHolds DEF FinAfterRequest
<1>. QED
  BY <1>1, <1>2, RxStep, WokenInit, WokenStep, PTL DEF Spec
=============================================================================
