------------------------ MODULE WeatherServer_proofs ------------------------
(***************************************************************************)
(* The connection of the weather server, for every request, number of      *)
(* readings, size of the buffers and number of faults: the descriptors of  *)
(* the segments, and the calls that wake the tasks.                        *)
(***************************************************************************)
EXTENDS WeatherServer, SequenceTheorems, FiniteSetTheorems, WellFoundedInduction, TLAPS

-----------------------------------------------------------------------------
(* Remainders and sequence numbers *)

LEMMA ModIn ==
    ASSUME NEW m \in Nat \ {0}, NEW a \in Int
    PROVE  a % m \in 0..(m - 1)
  OBVIOUS

LEMMA ModOf ==
    ASSUME NEW m \in Nat \ {0}, NEW a \in Int
    PROVE  \E k \in Int : a = m * k + (a % m)
<1>1. a = m * (a \div m) + (a % m) /\ a \div m \in Int
  OBVIOUS
<1>. QED
  BY <1>1

LEMMA ModIs ==
    ASSUME NEW m \in Nat \ {0}, NEW k \in Int, NEW r \in 0..(m - 1)
    PROVE  (m * k + r) % m = r
<1>. DEFINE a == m * k + r
<1>1. a \in Int
  OBVIOUS
<1>2. PICK j \in Int : a = m * j + (a % m)
  BY <1>1, ModOf
<1>3. a % m \in 0..(m - 1)
  BY <1>1, ModIn
<1>4. m * (j - k) = r - (a % m)
  <2>1. m * (j - k) = m * j - m * k
    OBVIOUS
  <2>. DEFINE mk == m * k   mj == m * j   am == a % m
  <2>2. a = mk + r /\ a = mj + am /\ mk \in Int /\ mj \in Int /\ am \in Int
    BY <1>1, <1>2, <1>3
  <2>. HIDE DEF mk, mj, am, a
  <2>3. mj - mk = r - am
    BY <2>2
  <2>. QED
    BY <2>1, <2>3 DEF mk, mj, am
<1>5. j - k >= 1 => m * (j - k) >= m
  OBVIOUS
<1>6. j - k <= -1 => m * (j - k) <= -m
  OBVIOUS
<1>. HIDE DEF a
<1>7. j - k = 0
  BY <1>3, <1>4, <1>5, <1>6
<1>. QED
  BY <1>3, <1>4, <1>7 DEF a

LEMMA ModPlus ==
    ASSUME NEW m \in Nat \ {0}, NEW a \in Int, NEW b \in Int
    PROVE  ((a % m) + b) % m = (a + b) % m
<1>1. PICK k \in Int : a = m * k + (a % m)
  BY ModOf
<1>. DEFINE r == (a % m) + b
<1>2. r \in Int
  BY ModIn
<1>3. PICK j \in Int : r = m * j + (r % m)
  BY <1>2, ModOf
<1>4. r % m \in 0..(m - 1) /\ a % m \in Int
  BY <1>2, ModIn
<1>5. a + b = m * (k + j) + (r % m)
  <2>1. m * (k + j) = m * k + m * j
    OBVIOUS
  <2>. DEFINE mk == m * k   mj == m * j   am == a % m   rm == r % m
  <2>2. a = mk + am /\ r = am + b /\ r = mj + rm /\ mk \in Int /\ mj \in Int /\ am \in Int /\ rm \in Int
    BY <1>1, <1>3, <1>4
  <2>. HIDE DEF mk, mj, am, rm, r
  <2>3. a + b = mk + mj + rm
    BY <2>2
  <2>. QED
    BY <2>1, <2>3 DEF mk, mj, rm
<1>6. k + j \in Int
  OBVIOUS
<1>. HIDE DEF r
<1>. QED
  BY <1>4, <1>5, <1>6, ModIs DEF r

LEMMA ModMinus ==
    ASSUME NEW m \in Nat \ {0}, NEW a \in Int, NEW b \in Int
    PROVE  (b - (a % m)) % m = (b - a) % m
<1>1. PICK k \in Int : a = m * k + (a % m)
  BY ModOf
<1>. DEFINE r == b - (a % m)
<1>2. r \in Int
  BY ModIn
<1>3. PICK j \in Int : r = m * j + (r % m)
  BY <1>2, ModOf
<1>4. r % m \in 0..(m - 1) /\ a % m \in Int
  BY <1>2, ModIn
<1>5. b - a = m * (j - k) + (r % m)
  <2>1. m * (j - k) = m * j - m * k
    OBVIOUS
  <2>. DEFINE mk == m * k   mj == m * j   am == a % m   rm == r % m
  <2>2. a = mk + am /\ r = b - am /\ r = mj + rm /\ mk \in Int /\ mj \in Int /\ am \in Int /\ rm \in Int
    BY <1>1, <1>3, <1>4
  <2>. HIDE DEF mk, mj, am, rm, r
  <2>3. b - a = mj - mk + rm
    BY <2>2
  <2>. QED
    BY <2>1, <2>3 DEF mk, mj, rm
<1>6. j - k \in Int
  OBVIOUS
<1>. HIDE DEF r
<1>. QED
  BY <1>4, <1>5, <1>6, ModIs DEF r

LEMMA ModSmall ==
    ASSUME NEW m \in Nat \ {0}, NEW a \in Int
    PROVE  /\ a \in 0..(m - 1) => a % m = a
           /\ a \in m..(2 * m - 1) => a % m = a - m
           /\ a \in (-m)..(-1) => a % m = a + m
<1>1. ASSUME a \in 0..(m - 1) PROVE a % m = a
  BY <1>1, ModIs, a = m * 0 + a
<1>2. ASSUME a \in m..(2 * m - 1) PROVE a % m = a - m
  <2>1. a = m * 1 + (a - m) /\ a - m \in 0..(m - 1) /\ 1 \in Int
    BY <1>2
  <2> QED BY <2>1, ModIs
<1>3. ASSUME a \in (-m)..(-1) PROVE a % m = a + m
  <2>1. a = m * (-1) + (a + m) /\ a + m \in 0..(m - 1) /\ -1 \in Int
    BY <1>3
  <2> QED BY <2>1, ModIs
<1>. QED
  BY <1>1, <1>2, <1>3

LEMMA SpaceIs == SeqSpace \in Nat \ {0} /\ SeqSpace >= 2
  BY WindowAssumption

AtPeer(x) == Plus(PeerISS, x)
Off(a) == (a - PeerISS) % SeqSpace
Reach == {x \in Nat : 2 * (x + 1) < SeqSpace}

LEMMA PeerIs == PeerISS \in Int /\ PeerISS \in 0..(SeqSpace - 1)
  BY ClientAssumption, SpaceIs

LEMMA PlusIn ==
    ASSUME NEW a \in Int, NEW x \in Int
    PROVE  Plus(a, x) \in 0..(SeqSpace - 1)
<1>. DEFINE u == a + x
<1>1. u \in Int /\ Plus(a, x) = u % SeqSpace
  BY DEF Plus
<1>. HIDE DEF u
<1>. QED
  BY <1>1, SpaceIs, ModIn

LEMMA PlusPlus ==
    ASSUME NEW a \in Int, NEW x \in Int, NEW y \in Int
    PROVE  Plus(Plus(a, x), y) = Plus(a, x + y) /\ Plus(a, x) \in 0..(SeqSpace - 1)
<1>. DEFINE u == a + x
<1>1. u \in Int /\ a + (x + y) = u + y
  OBVIOUS
<1>2. Plus(a, x) = u % SeqSpace /\ Plus(a, x + y) = (u + y) % SeqSpace
  BY <1>1 DEF Plus
<1>. HIDE DEF u
<1>3. ((u % SeqSpace) + y) % SeqSpace = (u + y) % SeqSpace
  BY <1>1, SpaceIs, ModPlus
<1>4. u % SeqSpace \in 0..(SeqSpace - 1)
  BY <1>1, SpaceIs, ModIn
<1>. QED
  BY <1>2, <1>3, <1>4 DEF Plus

LEMMA PlusMinus ==
    ASSUME NEW a \in Int, NEW x \in Int, NEW y \in Int, NEW n \in Int
    PROVE  (Plus(a, x) - Plus(a, y) + n) % SeqSpace = (x - y + n) % SeqSpace
<1>. DEFINE u == a + x   v == a + y   p == Plus(a, y)
            c == n - p   d == u + n
<1>1. p \in 0..(SeqSpace - 1)
  BY PlusIn
<1>2. u \in Int /\ v \in Int /\ p \in Int /\ c \in Int /\ d \in Int
  BY <1>1, SpaceIs
<1>3. Plus(a, x) = u % SeqSpace /\ p = v % SeqSpace /\ u - v = x - y
  BY DEF Plus
<1>4. u % SeqSpace \in Int
  BY <1>2, SpaceIs, ModIn
<1>5. (u % SeqSpace) - p + n = (u % SeqSpace) + c /\ u + c = d - p /\ d - v = x - y + n
  BY <1>2, <1>4
<1>. HIDE DEF u, v, p, c, d
<1>6. ((u % SeqSpace) + c) % SeqSpace = (u + c) % SeqSpace
  BY <1>2, SpaceIs, ModPlus
<1>7. (d - (v % SeqSpace)) % SeqSpace = (d - v) % SeqSpace
  BY <1>2, SpaceIs, ModMinus
<1>8. ((u % SeqSpace) - p + n) % SeqSpace = (x - y + n) % SeqSpace
  BY <1>3, <1>5, <1>6, <1>7
<1>. QED
  BY <1>3, <1>8 DEF p

\* The order of sequence numbers is that of their distance from the first one,
\* as long as that is less than half the space.
LEMMA SeqOrder ==
    ASSUME NEW a \in Int, NEW x \in Reach, NEW y \in Reach
    PROVE  /\ Diff(Plus(a, x), Plus(a, y)) = x - y
           /\ AtMost(Plus(a, x), Plus(a, y)) <=> x <= y
           /\ Less(Plus(a, x), Plus(a, y)) <=> x < y
           /\ Plus(a, x) = Plus(a, y) <=> x = y
<1>1. x \in Nat /\ y \in Nat /\ 2 * (x + 1) < SeqSpace /\ 2 * (y + 1) < SeqSpace
  BY DEF Reach
<1>0. Plus(a, x) \in 0..(SeqSpace - 1) /\ Plus(a, y) \in 0..(SeqSpace - 1)
  <2>1. x \in Int /\ y \in Int
    BY <1>1
  <2>. QED
    BY <2>1, PlusIn
<1>2. (Plus(a, x) - Plus(a, y)) % SeqSpace = (x - y) % SeqSpace
  <2>1. Plus(a, x) \in Int /\ Plus(a, y) \in Int
    BY <1>0, SpaceIs
  <2>2. (Plus(a, x) - Plus(a, y) + 0) % SeqSpace = (x - y + 0) % SeqSpace
    BY <1>1, PlusMinus
  <2>. QED
    BY <1>1, <2>1, <2>2
<1>3. (Plus(a, y) - Plus(a, x)) % SeqSpace = (y - x) % SeqSpace
  <2>1. Plus(a, x) \in Int /\ Plus(a, y) \in Int
    BY <1>0, SpaceIs
  <2>2. (Plus(a, y) - Plus(a, x) + 0) % SeqSpace = (y - x + 0) % SeqSpace
    BY <1>1, PlusMinus
  <2>. QED
    BY <1>1, <2>1, <2>2
<1>4. (Plus(a, y) - Plus(a, x) - 1) % SeqSpace = (y - x - 1) % SeqSpace
  <2>1. Plus(a, x) \in Int /\ Plus(a, y) \in Int
    BY <1>0, SpaceIs
  <2>2. (Plus(a, y) - Plus(a, x) + (-1)) % SeqSpace = (y - x + (-1)) % SeqSpace
    BY <1>1, PlusMinus
  <2>. QED
    BY <1>1, <2>1, <2>2
<1>5. /\ (x - y) % SeqSpace = IF x >= y THEN x - y ELSE x - y + SeqSpace
      /\ (y - x) % SeqSpace = IF y >= x THEN y - x ELSE y - x + SeqSpace
      /\ (y - x - 1) % SeqSpace = IF y - 1 >= x THEN y - x - 1 ELSE y - x - 1 + SeqSpace
  <2>. DEFINE c == x - y   d == y - x   e == y - x - 1
  <2>1. /\ c \in Int /\ d \in Int /\ e \in Int
        /\ c >= 0 => c \in 0..(SeqSpace - 1)
        /\ c < 0 => c \in (-SeqSpace)..(-1)
        /\ d >= 0 => d \in 0..(SeqSpace - 1)
        /\ d < 0 => d \in (-SeqSpace)..(-1)
        /\ e >= 0 => e \in 0..(SeqSpace - 1)
        /\ e < 0 => e \in (-SeqSpace)..(-1)
    BY <1>1, SpaceIs
  <2>2. /\ (c >= 0 <=> x >= y) /\ (d >= 0 <=> y >= x) /\ (e >= 0 <=> y - 1 >= x)
    BY <1>1
  <2>. HIDE DEF c, d, e
  <2>3. c % SeqSpace = IF c >= 0 THEN c ELSE c + SeqSpace
    <3>1. CASE c >= 0
      BY <2>1, <3>1, SpaceIs, ModSmall
    <3>2. CASE c < 0
      BY <2>1, <3>2, SpaceIs, ModSmall
    <3>. QED
      BY <2>1, <3>1, <3>2
  <2>4. d % SeqSpace = IF d >= 0 THEN d ELSE d + SeqSpace
    <3>1. CASE d >= 0
      BY <2>1, <3>1, SpaceIs, ModSmall
    <3>2. CASE d < 0
      BY <2>1, <3>2, SpaceIs, ModSmall
    <3>. QED
      BY <2>1, <3>1, <3>2
  <2>5. e % SeqSpace = IF e >= 0 THEN e ELSE e + SeqSpace
    <3>1. CASE e >= 0
      BY <2>1, <3>1, SpaceIs, ModSmall
    <3>2. CASE e < 0
      BY <2>1, <3>2, SpaceIs, ModSmall
    <3>. QED
      BY <2>1, <3>1, <3>2
  <2>. QED
    BY <2>2, <2>3, <2>4, <2>5 DEF c, d, e
<1>6. Diff(Plus(a, x), Plus(a, y)) = x - y
  BY <1>1, <1>2, <1>5, SpaceIs DEF Diff
<1>7. AtMost(Plus(a, x), Plus(a, y)) <=> x <= y
  BY <1>1, <1>3, <1>5, SpaceIs DEF AtMost
<1>8. Less(Plus(a, x), Plus(a, y)) <=> x < y
  BY <1>1, <1>4, <1>5, SpaceIs DEF Less
<1>9. Plus(a, x) = Plus(a, y) <=> x = y
  <2>1. Diff(Plus(a, x), Plus(a, y)) = x - y /\ Diff(Plus(a, y), Plus(a, y)) = 0
    <3>1. Plus(a, y) - Plus(a, y) = 0 /\ 0 % SeqSpace = 0
      BY <1>0, SpaceIs
    <3>. QED
      BY <1>6, <3>1, SpaceIs DEF Diff
  <2>. QED
    BY <1>1, <2>1
<1>. QED
  BY <1>6, <1>7, <1>8, <1>9

LEMMA OffIs ==
    ASSUME NEW x \in 0..(SeqSpace - 1)
    PROVE  Off(AtPeer(x)) = x /\ AtPeer(x) \in 0..(SeqSpace - 1) /\ AtPeer(x) \in Int
<1>. DEFINE u == PeerISS + x   m == -PeerISS
<1>1. u \in Int /\ m \in Int /\ u + m = x
  BY SpaceIs, PeerIs
<1>2. AtPeer(x) = u % SeqSpace
  BY DEF AtPeer, Plus
<1>3. Off(AtPeer(x)) = (AtPeer(x) + m) % SeqSpace
  <2>1. u % SeqSpace \in Int
    BY <1>1, SpaceIs, ModIn
  <2>2. (u % SeqSpace) - PeerISS = (u % SeqSpace) + m
    BY <2>1, PeerIs
  <2>. QED
    BY <1>2, <2>2 DEF Off
<1>. HIDE DEF u, m
<1>4. ((u % SeqSpace) + m) % SeqSpace = (u + m) % SeqSpace /\ u % SeqSpace \in 0..(SeqSpace - 1)
  BY <1>1, SpaceIs, ModPlus, ModIn
<1>5. x % SeqSpace = x
  BY SpaceIs
<1>. QED
  BY <1>1, <1>2, <1>3, <1>4, <1>5, SpaceIs

LEMMA OffOff ==
    ASSUME NEW a \in 0..(SeqSpace - 1)
    PROVE  AtPeer(Off(a)) = a /\ Off(a) \in 0..(SeqSpace - 1)
<1>. DEFINE u == a - PeerISS
<1>1. u \in Int /\ u + PeerISS = a /\ PeerISS \in Int
  BY SpaceIs, PeerIs
<1>2. Off(a) = u % SeqSpace
  BY DEF Off
<1>. HIDE DEF u
<1>4. ((u % SeqSpace) + PeerISS) % SeqSpace = (u + PeerISS) % SeqSpace /\ u % SeqSpace \in 0..(SeqSpace - 1)
  BY <1>1, SpaceIs, ModPlus, ModIn
<1>5. a % SeqSpace = a
  BY SpaceIs
<1>6. PeerISS + (u % SeqSpace) = (u % SeqSpace) + PeerISS
  BY <1>4, PeerIs, SpaceIs
<1>. QED
  BY <1>1, <1>2, <1>4, <1>5, <1>6, SpaceIs DEF AtPeer, Plus

-----------------------------------------------------------------------------
(* The loops of recursive functions *)

LEMMA LeastOf ==
    ASSUME NEW T, T \subseteq Nat, T # {}
    PROVE  \E x \in T : \A y \in T : x <= y
<1>1. IsWellFoundedOn(OpToRel(<, Nat), Nat)
  BY NatLessThanWellFounded, Zenon
<1>2. PICK x \in T : \A y \in T : ~ (<<y, x>> \in OpToRel(<, Nat))
  BY <1>1, WFMin, Zenon
<1>3. \A y \in T : ~(y < x)
  BY <1>2 DEF OpToRel
<1>. QED
  BY <1>3

LEMMA Induction ==
    ASSUME NEW T, T \subseteq Nat, 0 \in T, \A n \in T : n + 1 \in T
    PROVE  T = Nat
<1>. SUFFICES ASSUME Nat \ T # {} PROVE FALSE
  OBVIOUS
<1>1. PICK x \in Nat \ T : \A y \in Nat \ T : x <= y
  BY LeastOf
<1>2. x # 0 /\ x - 1 \in Nat
  BY <1>1
<1>3. x - 1 \in T
  BY <1>1, <1>2
<1>. QED
  BY <1>1, <1>3


\* The loop of Before is defined.
LEMMA BeforeLoop ==
    ASSUME NEW q, Len(q) \in Nat
    PROVE  \E f : /\ Before(q) = f /\ DOMAIN f = 0..Len(q)
                 /\ \A i \in 0..Len(q) : f[i] = IF i = 0 THEN 0 ELSE f[i - 1] + q[i]
<1>. DEFINE Turn(i, x) == x + q[i]
            Up(m, f) == f = [i \in 0..m |-> IF i = 0 THEN 0 ELSE Turn(i, f[i - 1])]
            T == {m \in Nat : \E f : Up(m, f)}
<1>1. Len(q) \in Nat
  OBVIOUS
<1>2. 0 \in T
  <2>. DEFINE f == [i \in 0..0 |-> 0]
  <2>. HIDE DEF Turn
  <2>1. Up(0, f)
    OBVIOUS
  <2>. HIDE DEF f, Up
  <2>. QED
    BY <2>1
<1>3. ASSUME NEW m \in T PROVE m + 1 \in T
  <2>1. PICK f : Up(m, f)
    BY <1>3
  <2>. DEFINE g == [i \in 0..(m + 1) |-> IF i = m + 1 THEN Turn(i, f[m]) ELSE f[i]]
  <2>. HIDE DEF Turn
  <2>2. m \in Nat /\ m + 1 \in Nat
    BY <1>3
  <2>3. ASSUME NEW i \in 0..(m + 1)
        PROVE  g[i] = IF i = 0 THEN 0 ELSE Turn(i, g[i - 1])
    <3>1. CASE i = m + 1
      <4>1. i # 0 /\ i - 1 = m /\ m # m + 1 /\ m \in 0..(m + 1)
        BY <2>2, <3>1
      <4>2. g[i] = Turn(i, f[m]) /\ g[i - 1] = f[m]
        BY <3>1, <4>1
      <4>. QED
        BY <4>1, <4>2
    <3>2. CASE i # m + 1
      <4>1. i \in 0..m /\ (i # 0 => i - 1 \in 0..(m + 1) /\ i - 1 # m + 1)
        BY <2>2, <3>2
      <4>2. g[i] = f[i] /\ (i # 0 => g[i - 1] = f[i - 1])
        BY <3>2, <4>1
      <4>3. f[i] = IF i = 0 THEN 0 ELSE Turn(i, f[i - 1])
        BY <2>1, <4>1
      <4>. QED
        BY <4>2, <4>3
    <3>. QED
      BY <3>1, <3>2
  <2>4. Up(m + 1, g)
    <3>1. g = [i \in 0..(m + 1) |-> g[i]]
      OBVIOUS
    <3>. HIDE DEF g
    <3>. QED
      BY <2>3, <3>1
  <2>. HIDE DEF g, Up
  <2>. QED
    BY <2>2, <2>4
<1>4. T = Nat
  <2>. HIDE DEF Up
  <2>1. T \subseteq Nat
    OBVIOUS
  <2>. HIDE DEF T
  <2>. QED
    BY <1>2, <1>3, <2>1, Induction
<1>5. \E f : Up(Len(q), f)
  <2>1. Len(q) \in T
    BY <1>1, <1>4
  <2>. HIDE DEF Up
  <2>. QED
    BY <2>1
<1>. DEFINE after[i \in 0..Len(q)] == IF i = 0 THEN 0 ELSE after[i - 1] + q[i]
<1>6. after = [i \in 0..Len(q) |-> IF i = 0 THEN 0 ELSE after[i - 1] + q[i]]
  BY <1>5, Zenon
<1>7. Before(q) = after
  BY DEF Before
<1>. HIDE DEF after
<1>8. DOMAIN after = 0..Len(q) /\ \A i \in 0..Len(q) : after[i] = IF i = 0 THEN 0 ELSE after[i - 1] + q[i]
  BY <1>6, Zenon
<1>. QED
  BY <1>7, <1>8, Zenon

\* sent.
LEMMA SentLoop ==
    ASSUME NEW s
    PROVE  \E f : /\ SendRepeated(s) = f[Repeats].s /\ DOMAIN f = 0..Repeats
                 /\ \A i \in 0..Repeats : f[i] = IF i = 0 THEN [s |-> s, on |-> TRUE] ELSE SendAnother(f[i - 1])
<1>. DEFINE Turn(i, x) == SendAnother(x)
            Up(m, f) == f = [i \in 0..m |-> IF i = 0 THEN [s |-> s, on |-> TRUE] ELSE Turn(i, f[i - 1])]
            T == {m \in Nat : \E f : Up(m, f)}
<1>1. Repeats \in Nat
  BY SocketAssumption
<1>2. 0 \in T
  <2>. DEFINE f == [i \in 0..0 |-> [s |-> s, on |-> TRUE]]
  <2>. HIDE DEF Turn
  <2>1. Up(0, f)
    OBVIOUS
  <2>. HIDE DEF f, Up
  <2>. QED
    BY <2>1
<1>3. ASSUME NEW m \in T PROVE m + 1 \in T
  <2>1. PICK f : Up(m, f)
    BY <1>3
  <2>. DEFINE g == [i \in 0..(m + 1) |-> IF i = m + 1 THEN Turn(i, f[m]) ELSE f[i]]
  <2>. HIDE DEF Turn
  <2>2. m \in Nat /\ m + 1 \in Nat
    BY <1>3
  <2>3. ASSUME NEW i \in 0..(m + 1)
        PROVE  g[i] = IF i = 0 THEN [s |-> s, on |-> TRUE] ELSE Turn(i, g[i - 1])
    <3>1. CASE i = m + 1
      <4>1. i # 0 /\ i - 1 = m /\ m # m + 1 /\ m \in 0..(m + 1)
        BY <2>2, <3>1
      <4>2. g[i] = Turn(i, f[m]) /\ g[i - 1] = f[m]
        BY <3>1, <4>1
      <4>. QED
        BY <4>1, <4>2
    <3>2. CASE i # m + 1
      <4>1. i \in 0..m /\ (i # 0 => i - 1 \in 0..(m + 1) /\ i - 1 # m + 1)
        BY <2>2, <3>2
      <4>2. g[i] = f[i] /\ (i # 0 => g[i - 1] = f[i - 1])
        BY <3>2, <4>1
      <4>3. f[i] = IF i = 0 THEN [s |-> s, on |-> TRUE] ELSE Turn(i, f[i - 1])
        BY <2>1, <4>1
      <4>. QED
        BY <4>2, <4>3
    <3>. QED
      BY <3>1, <3>2
  <2>4. Up(m + 1, g)
    <3>1. g = [i \in 0..(m + 1) |-> g[i]]
      OBVIOUS
    <3>. HIDE DEF g
    <3>. QED
      BY <2>3, <3>1
  <2>. HIDE DEF g, Up
  <2>. QED
    BY <2>2, <2>4
<1>4. T = Nat
  <2>. HIDE DEF Up
  <2>1. T \subseteq Nat
    OBVIOUS
  <2>. HIDE DEF T
  <2>. QED
    BY <1>2, <1>3, <2>1, Induction
<1>5. \E f : Up(Repeats, f)
  <2>1. Repeats \in T
    BY <1>1, <1>4
  <2>. HIDE DEF Up
  <2>. QED
    BY <2>1
<1>. DEFINE after[i \in 0..Repeats] == IF i = 0 THEN [s |-> s, on |-> TRUE] ELSE SendAnother(after[i - 1])
<1>6. after = [i \in 0..Repeats |-> IF i = 0 THEN [s |-> s, on |-> TRUE] ELSE SendAnother(after[i - 1])]
  BY <1>5, Zenon
<1>7. SendRepeated(s) = after[Repeats].s
  BY DEF SendRepeated
<1>. HIDE DEF after
<1>8. DOMAIN after = 0..Repeats /\ \A i \in 0..Repeats : after[i] = IF i = 0 THEN [s |-> s, on |-> TRUE] ELSE SendAnother(after[i - 1])
  BY <1>6, Zenon
<1>. QED
  BY <1>7, <1>8, Zenon

-----------------------------------------------------------------------------
(* What each operator leaves alone *)

Fields == {"state", "win", "rx", "tx", "peerWin", "curWin", "hiAllowed", "finSent", "finAccepted",
           "finRecv", "finLast", "finAcked", "winChange", "lowWater", "userShutdown", "passQueued",
           "passAccept", "mallocError", "lastFin", "ack", "bits", "group", "held", "out", "mine",
           "late", "poor"}
WinFields == {"rxCur", "rxHigh", "rxFin", "stored", "userData", "opt", "txCur", "txHigh", "txFin",
              "our", "next", "segs", "prio", "txq", "wait", "head", "txWindow"}
IsWin(w) == DOMAIN w = WinFields
IsSock(s) == DOMAIN s = Fields /\ IsWin(s.win)

\* Only the fields in S differ.
WinChanges(v, w, S) == IsWin(v) /\ \A f \in WinFields \ S : v[f] = w[f]
Changes(r, s, S, W) == IsSock(r) /\ (\A f \in Fields \ (S \cup {"win"}) : r[f] = s[f])
                                 /\ WinChanges(r.win, s.win, W)

OfState == {"state", "bits", "group", "passQueued", "passAccept"}
OfGet == {"our", "prio", "segs", "wait", "txWindow", "txq", "head", "txHigh"}
OfAdd == {"segs", "txq", "next", "head"}
OfAck == {"segs", "txCur", "prio", "txq", "wait"}
OfCheck == {"rxCur", "stored", "userData", "opt"}
OfSend == OfState \cup {"late", "userShutdown", "finSent", "winChange"}
OfRepeat == OfSend \cup {"out", "hiAllowed", "lastFin"}
OfRxdata == OfState \cup {"mallocError", "rx", "lowWater", "winChange"}
OfFin == OfState \cup {"finSent", "finAcked"}

LEMMA WinChangesThen ==
    ASSUME NEW u, NEW v, NEW w, NEW S, NEW T, WinChanges(v, w, S), WinChanges(u, v, T)
    PROVE  WinChanges(u, w, S \cup T)
  BY DEF WinChanges

LEMMA ChangesThen ==
    ASSUME NEW q, NEW r, NEW s, NEW S, NEW T, NEW W, NEW X,
           Changes(r, s, S, W), Changes(q, r, T, X)
    PROVE  Changes(q, s, S \cup T, W \cup X)
  BY DEF Changes, WinChanges

LEMMA ChangesMore ==
    ASSUME NEW r, NEW s, NEW S, NEW T, NEW W, NEW X,
           Changes(r, s, S, W), S \subseteq T, W \subseteq X
    PROVE  Changes(r, s, T, X)
  BY DEF Changes, WinChanges

LEMMA ChangesNone ==
    ASSUME NEW s, IsSock(s), NEW S, NEW W
    PROVE  Changes(s, s, S, W)
  BY DEF Changes, WinChanges, IsSock

LEMMA SendingChanges ==
    ASSUME NEW w, IsWin(w), NEW seq
    PROVE  WinChanges(Sending(w, seq), w, {"segs", "wait", "our", "txWindow"})
<1>1. \E x, y, z, u : Sending(w, seq) = [w EXCEPT !.segs = u, !.wait = x, !.our = y, !.txWindow = z]
  BY DEF Sending
<1>. QED
  BY <1>1 DEF IsWin, WinFields, WinChanges

\* TxGet in its parts: the window before the segment is taken as sent, with the
\* segment taken off its queue
GetNow(w) == [w EXCEPT !.our = w.txHigh]
GetPrio(v) == [v EXCEPT !.prio = Tail(@)]
GetAgain(v) == [v EXCEPT !.wait = Tail(@),
                         !.segs = [i \in DOMAIN @ |-> Late(@[i], Head(v.wait))]]
GetNew(v) == [v EXCEPT !.txq = Tail(@),
                       !.head = IF @ = Seg(v, Head(v.txq)).seq THEN NoSeq ELSE @,
                       !.txHigh = Plus(Seg(v, Head(v.txq)).seq, Seg(v, Head(v.txq)).len)]

LEMMA TxGetIs ==
    ASSUME NEW w, NEW window, NEW late
    PROVE  LET v == GetNow(w)
           IN  TxGet(w, window, late).w \in
                  {Sending(GetPrio(v), Head(v.prio)), Sending(GetAgain(v), Head(v.wait)),
                   Sending(GetNew(v), Seg(v, Head(v.txq)).seq), v}
  BY DEF TxGet, GetNow, GetPrio, GetAgain, GetNew

LEMMA TxGetChanges ==
    ASSUME NEW w, IsWin(w), NEW window, NEW late
    PROVE  WinChanges(TxGet(w, window, late).w, w, OfGet)
<1>. DEFINE v == GetNow(w)
            a == GetPrio(v)
            b == GetAgain(v)
            d == GetNew(v)
            x == Head(v.prio)   y == Head(v.wait)   z == Seg(v, Head(v.txq)).seq
<1>1. WinChanges(v, w, {"our"})
  BY DEF GetNow, IsWin, WinFields, WinChanges
<1>2. WinChanges(a, v, {"prio"}) /\ WinChanges(b, v, {"wait", "segs"})
      /\ WinChanges(d, v, {"txq", "head", "txHigh"})
  <2>. HIDE DEF v
  <2>. QED
    BY <1>1 DEF GetPrio, GetAgain, GetNew, IsWin, WinFields, WinChanges
<1>3. TxGet(w, window, late).w \in {Sending(a, x), Sending(b, y), Sending(d, z), v}
  BY TxGetIs
<1>. HIDE DEF v, a, b, d, x, y, z
<1>4. /\ WinChanges(Sending(a, x), a, {"segs", "wait", "our", "txWindow"})
      /\ WinChanges(Sending(b, y), b, {"segs", "wait", "our", "txWindow"})
      /\ WinChanges(Sending(d, z), d, {"segs", "wait", "our", "txWindow"})
  BY <1>2, SendingChanges DEF WinChanges
<1>5. WinChanges(Sending(a, x), w, OfGet)
  BY <1>1, <1>2, <1>4 DEF WinChanges, OfGet
<1>6. WinChanges(Sending(b, y), w, OfGet)
  BY <1>1, <1>2, <1>4 DEF WinChanges, OfGet
<1>7. WinChanges(Sending(d, z), w, OfGet)
  BY <1>1, <1>2, <1>4 DEF WinChanges, OfGet
<1>8. WinChanges(v, w, OfGet)
  BY <1>1 DEF WinChanges, OfGet
<1>. QED
  BY <1>3, <1>5, <1>6, <1>7, <1>8

\* TxAdd in its parts: the segment at the end that is filled, and the new ones
AddEnds(w) == {i \in DOMAIN w.segs : LET g == w.segs[i] IN
                 g.seq = w.head /\ g.len < MSS /\ ~g.out /\ g.len # 0}
AddAt(w) == CHOOSE i \in AddEnds(w) : TRUE
AddFill(w, n) ==
    IF AddEnds(w) # {}
    THEN (IF n < MSS - w.segs[AddAt(w)].len THEN n ELSE MSS - w.segs[AddAt(w)].len) ELSE 0
AddFilled(w, n) ==
    IF AddEnds(w) # {} THEN [w EXCEPT !.segs[AddAt(w)].len = @ + AddFill(w, n)] ELSE w
AddWanted(w, n) == (n - AddFill(w, n) + MSS - 1) \div MSS
AddCount(w, n) == IF AddWanted(w, n) < FreeSegments(w) THEN AddWanted(w, n) ELSE FreeSegments(w)
AddRest(w, n, i) == n - AddFill(w, n) - (i - 1) * MSS
AddNew(w, n, position, length) ==
    [i \in 1..AddCount(w, n) |->
        [seq |-> Plus(w.next, AddFill(w, n) + (i - 1) * MSS),
         len |-> IF AddRest(w, n, i) < MSS THEN AddRest(w, n, i) ELSE MSS,
         pos |-> (position + AddFill(w, n) + (i - 1) * MSS) % length,
         sent |-> 0, dup |-> 0, acked |-> FALSE, out |-> FALSE]]
AddDone(w, n) == AddFill(w, n) + (IF AddCount(w, n) = AddWanted(w, n) THEN n - AddFill(w, n)
                                  ELSE AddCount(w, n) * MSS)
AddEnd(w, n, position, length) ==
    IF AddCount(w, n) > 0 THEN AddNew(w, n, position, length)[AddCount(w, n)]
    ELSE AddFilled(w, n).segs[AddAt(w)]

AddSegs(w, n, position, length) == AddFilled(w, n).segs \o AddNew(w, n, position, length)
AddTxq(w, n, position, length) ==
    AddFilled(w, n).txq \o [i \in 1..AddCount(w, n) |-> AddNew(w, n, position, length)[i].seq]
AddNext(w, n) == Plus(AddFilled(w, n).next, AddDone(w, n))
AddHead(w, n, position, length) ==
    IF AddCount(w, n) = 0 /\ ~(AddEnds(w) # {}) THEN AddFilled(w, n).head
    ELSE IF AddEnd(w, n, position, length).len < MSS
    THEN AddEnd(w, n, position, length).seq ELSE NoSeq

LEMMA TxAddIs ==
    ASSUME NEW w, IsWin(w), NEW n, NEW position, NEW length
    PROVE  /\ WinChanges(TxAdd(w, n, position, length).w, w, OfAdd)
           /\ TxAdd(w, n, position, length).done = AddDone(w, n)
           /\ TxAdd(w, n, position, length).w.segs = AddSegs(w, n, position, length)
           /\ TxAdd(w, n, position, length).w.next = AddNext(w, n)
<1>1. WinChanges(AddFilled(w, n), w, {"segs"})
  BY DEF AddFilled, IsWin, WinFields, WinChanges
<1>. DEFINE f == AddFilled(w, n)
            x == AddSegs(w, n, position, length)   y == AddTxq(w, n, position, length)
            z == AddNext(w, n)                     u == AddHead(w, n, position, length)
            v == TxAdd(w, n, position, length).w
<1>2. v = [f EXCEPT !.segs = x, !.txq = y, !.next = z, !.head = u]
  BY DEF TxAdd, AddEnds, AddAt, AddFill, AddFilled, AddWanted, AddCount, AddRest, AddNew, AddDone,
         AddEnd, AddSegs, AddTxq, AddNext, AddHead
<1>3. TxAdd(w, n, position, length).done = AddDone(w, n)
  BY DEF TxAdd, AddEnds, AddAt, AddFill, AddFilled, AddWanted, AddCount, AddRest, AddNew, AddDone
<1>. HIDE DEF f, x, y, z, u, v
<1>4. WinChanges(v, f, OfAdd) /\ v.segs = x /\ v.next = z
  BY <1>1, <1>2 DEF IsWin, WinFields, WinChanges, OfAdd, f
<1>5. WinChanges(v, w, OfAdd)
  BY <1>1, <1>4 DEF WinChanges, OfAdd, f
<1>. QED
  BY <1>3, <1>4, <1>5 DEF v, x, z

LEMMA TxAddChanges ==
    ASSUME NEW w, IsWin(w), NEW n, NEW position, NEW length
    PROVE  WinChanges(TxAdd(w, n, position, length).w, w, OfAdd)
  BY TxAddIs

LEMMA CheckAckChanges ==
    ASSUME NEW w, IsWin(w), NEW first, NEW last
    PROVE  WinChanges(CheckAck(w, first, last).w, w, OfAck)
<1>1. \E x, y, z, h, k : CheckAck(w, first, last).w
                         = [w EXCEPT !.segs = x, !.txCur = y, !.prio = z, !.txq = h, !.wait = k]
  BY DEF CheckAck
<1>. QED
  BY <1>1 DEF IsWin, WinFields, WinChanges, OfAck

LEMMA TxAckChanges ==
    ASSUME NEW w, IsWin(w), NEW ack
    PROVE  WinChanges(TxAck(w, ack).w, w, OfAck)
<1>1. TxAck(w, ack).w \in {w, CheckAck(w, w.txCur, ack).w}
  BY DEF TxAck
<1>2. WinChanges(CheckAck(w, w.txCur, ack).w, w, OfAck) /\ WinChanges(w, w, OfAck)
  BY CheckAckChanges DEF WinChanges
<1>. QED
  BY <1>1, <1>2

LEMMA TxSackChanges ==
    ASSUME NEW w, IsWin(w), NEW first, NEW last
    PROVE  WinChanges(TxSack(w, first, last).w, w, OfAck)
<1>. DEFINE a == CheckAck(w, first, last)
<1>1. WinChanges(a.w, w, OfAck)
  BY CheckAckChanges
<1>2. TxSack(w, first, last).w = FastRetransmit(a.w, first)
  <2>1. a = [n |-> a.n, w |-> a.w]
    BY DEF CheckAck
  <2>2. TxSack(w, first, last) = [a EXCEPT !.w = FastRetransmit(@, first)]
    BY DEF TxSack
  <2>. HIDE DEF a
  <2>3. "w" \in DOMAIN a
    BY <2>1
  <2>. QED
    BY <2>2, <2>3
<1>. HIDE DEF a
<1>3. \E x, y, z : FastRetransmit(a.w, first) = [a.w EXCEPT !.segs = x, !.wait = y, !.prio = z]
  BY DEF FastRetransmit
<1>. QED
  BY <1>1, <1>2, <1>3 DEF IsWin, WinFields, WinChanges, OfAck

LEMMA RxCheckChanges ==
    ASSUME NEW w, IsWin(w), NEW seq, NEW len, NEW space
    PROVE  WinChanges(RxCheck(w, seq, len, space).w, w, OfCheck)
<1>. DEFINE v == [w EXCEPT !.opt = <<>>, !.userData = 0]
<1>1. WinChanges(v, w, {"opt", "userData"})
  BY DEF IsWin, WinFields, WinChanges
<1>. HIDE DEF v
<1>2. WinChanges(InOrder(v, seq, len, space).w, v, OfCheck)
  BY <1>1 DEF IsWin, WinFields, WinChanges, OfCheck, InOrder, Refused
<1>3. WinChanges(TooEarly(v, seq, len, space).w, v, OfCheck)
  BY <1>1 DEF IsWin, WinFields, WinChanges, OfCheck, TooEarly, Refused
<1>4. WinChanges(Refused(v).w, v, OfCheck)
  BY <1>1 DEF WinChanges, Refused
<1>5. RxCheck(w, seq, len, space).w \in {InOrder(v, seq, len, space).w, TooEarly(v, seq, len, space).w, Refused(v).w}
  BY DEF RxCheck, v
<1>. QED
  BY <1>1, <1>2, <1>3, <1>4, <1>5 DEF WinChanges, OfCheck

-----------------------------------------------------------------------------
(* ...and those of the socket *)

LEMMA WakeUpUserChanges ==
    ASSUME NEW s, IsSock(s)
    PROVE  Changes(WakeUpUser(s), s, {"group", "bits"}, {})
  BY DEF WakeUpUser, IsSock, Fields, Changes, WinChanges

LEMMA StateChangeChanges ==
    ASSUME NEW s, IsSock(s), NEW state
    PROVE  Changes(StateChange(s, state), s, OfState, {}) /\ StateChange(s, state).state = state
  BY DEF StateChange, WakeUpUser, OfState, IsSock, Fields, Changes, WinChanges

LEMMA DropChanges ==
    ASSUME NEW s, IsSock(s)
    PROVE  Changes(Drop(s), s, {"mine", "held"}, {})
  BY DEF Drop, IsSock, Fields, Changes, WinChanges

LEMMA ReturnPacketChanges ==
    ASSUME NEW s, IsSock(s), NEW owned, NEW flags, NEW data, NEW opt
    PROVE  Changes(ReturnPacket(s, owned, flags, data, opt), s, {"winChange", "hiAllowed", "out"}, {})
  BY DEF ReturnPacket, IsSock, Fields, Changes, WinChanges

LEMMA SendResetChanges ==
    ASSUME NEW s, IsSock(s), NEW p
    PROVE  Changes(SendReset(s, p), s, {"out"}, {})
  BY DEF SendReset, IsSock, Fields, Changes, WinChanges

\* PrepareSend in its parts: the window after TxGet, and whether it closes
Chosen(s) == IF s.tx = NoStream THEN [w |-> s.win, seq |-> NoSeq, late |-> s.late]
             ELSE TxGet(s.win, s.peerWin, s.late)
Fails(s, room) == Chosen(s).seq # NoSeq /\ s.poor /\ room < Seg(Chosen(s).w, Chosen(s).seq).len
Closes(s, room) == ~Fails(s, room) /\ s.state = "ESTABLISHED" /\ s.userShutdown /\ TxDone(Chosen(s).w)
Took(s) == [s EXCEPT !.win = Chosen(s).w, !.late = Chosen(s).late]
ShutDown(s) == [Took(s) EXCEPT !.userShutdown = FALSE, !.finSent = TRUE, !.winChange = TRUE,
                               !.win.txFin = Chosen(s).w.txCur]
Said(s) == IF Chosen(s).seq = NoSeq THEN <<>>
           ELSE Peeked(s.tx, Distance(s.tx, s.tx.tail, Seg(Chosen(s).w, Chosen(s).seq).pos),
                       Seg(Chosen(s).w, Chosen(s).seq).len)

LEMMA PrepareSendIs ==
    ASSUME NEW s, NEW room
    PROVE  /\ PrepareSend(s, room).s = IF Closes(s, room) THEN StateChange(ShutDown(s), "FIN_WAIT_1")
                                       ELSE Took(s)
           /\ PrepareSend(s, room).data = Said(s)
           /\ PrepareSend(s, room).fin = Closes(s, room)
           /\ PrepareSend(s, room).sends =
                 (~Fails(s, room) /\ (Chosen(s).seq # NoSeq \/ Closes(s, room) \/ s.winChange))
<1>1. PrepareSend(s, room).s = IF Closes(s, room) THEN StateChange(ShutDown(s), "FIN_WAIT_1")
                                       ELSE Took(s)
  <2>1. CASE Closes(s, room)
    BY <2>1, SMTT(20) DEF PrepareSend, Chosen, Fails, Closes, Took, ShutDown
  <2>2. CASE ~Closes(s, room)
    BY <2>2 DEF PrepareSend, Chosen, Fails, Closes, Took
  <2>. QED
    BY <2>1, <2>2
<1>2. PrepareSend(s, room).data = Said(s)
  BY Zenon DEF PrepareSend, Chosen, Said
<1>3. PrepareSend(s, room).fin = Closes(s, room)
  BY ZenonT(30) DEF PrepareSend, Chosen, Fails, Closes
<1>4. PrepareSend(s, room).sends =
                 (~Fails(s, room) /\ (Chosen(s).seq # NoSeq \/ Closes(s, room) \/ s.winChange))
  BY ZenonT(30) DEF PrepareSend, Chosen, Fails, Closes
<1>. QED
  BY <1>1, <1>2, <1>3, <1>4

LEMMA ChosenChanges ==
    ASSUME NEW s, IsSock(s)
    PROVE  WinChanges(Chosen(s).w, s.win, OfGet)
<1>1. WinChanges(TxGet(s.win, s.peerWin, s.late).w, s.win, OfGet)
  BY TxGetChanges DEF IsSock
<1>2. WinChanges(s.win, s.win, OfGet)
  BY DEF IsSock, WinChanges
<1>. QED
  BY <1>1, <1>2 DEF Chosen

LEMMA TookChanges ==
    ASSUME NEW s, IsSock(s)
    PROVE  Changes(Took(s), s, {"late"}, OfGet)
<1>1. WinChanges(Chosen(s).w, s.win, OfGet)
  BY ChosenChanges
<1>2. Took(s).win = Chosen(s).w /\ DOMAIN Took(s) = Fields
  BY DEF Took, IsSock, Fields
<1>3. \A f \in Fields \ {"late", "win"} : Took(s)[f] = s[f]
  BY DEF Took, IsSock, Fields
<1>. QED
  BY <1>1, <1>2, <1>3 DEF Changes, IsSock, WinChanges

LEMMA ShutDownChanges ==
    ASSUME NEW s, IsSock(s)
    PROVE  Changes(ShutDown(s), s, {"late", "userShutdown", "finSent", "winChange"}, OfGet \cup {"txFin"})
<1>1. Changes(Took(s), s, {"late"}, OfGet) /\ IsSock(Took(s))
  BY TookChanges DEF Changes
<1>2. Changes(ShutDown(s), Took(s), {"userShutdown", "finSent", "winChange"}, {"txFin"})
  BY <1>1 DEF ShutDown, IsSock, IsWin, Fields, WinFields, Changes, WinChanges
<1>3. Changes(ShutDown(s), s, {"late"} \cup {"userShutdown", "finSent", "winChange"}, OfGet \cup {"txFin"})
  BY <1>1, <1>2, ChangesThen
<1>. QED
  BY <1>3, ChangesMore

LEMMA PrepareSendChanges ==
    ASSUME NEW s, IsSock(s), NEW room
    PROVE  Changes(PrepareSend(s, room).s, s, OfSend, OfGet \cup {"txFin"})
<1>1. Changes(Took(s), s, {"late"}, OfGet)
  BY TookChanges
<1>2. Changes(ShutDown(s), s, {"late", "userShutdown", "finSent", "winChange"}, OfGet \cup {"txFin"})
  BY ShutDownChanges
<1>3. Changes(StateChange(ShutDown(s), "FIN_WAIT_1"), ShutDown(s), OfState, {})
  BY <1>2, StateChangeChanges DEF Changes
<1>4. Changes(StateChange(ShutDown(s), "FIN_WAIT_1"), s,
              {"late", "userShutdown", "finSent", "winChange"} \cup OfState, (OfGet \cup {"txFin"}) \cup {})
  BY <1>2, <1>3, ChangesThen
<1>5. Changes(StateChange(ShutDown(s), "FIN_WAIT_1"), s, OfSend, OfGet \cup {"txFin"})
  BY <1>4, ChangesMore DEF OfSend
<1>6. Changes(Took(s), s, OfSend, OfGet \cup {"txFin"})
  BY <1>1, ChangesMore DEF OfSend
<1>. QED
  BY <1>5, <1>6, PrepareSendIs

\* Repeated, with the packet it returns
LEMMA RepeatedChanges ==
    ASSUME NEW s, IsSock(s)
    PROVE  Changes(Repeated(PrepareSend(s, -1)).s, s, OfRepeat, OfGet \cup {"txFin"})
<1>. DEFINE q == PrepareSend(s, -1)
            last == [q.s EXCEPT !.lastFin = @ \/ (q.fin /\ q.data = <<>>)]
            base == IF q.s.lastFin THEN {"FIN"} ELSE {}
            r == ReturnPacket(last, q.data # <<>>, Flags(base, q), q.data, <<>>)
<1>1. Changes(q.s, s, OfSend, OfGet \cup {"txFin"})
  BY PrepareSendChanges
<1>2. Repeated(q).s = IF q.sends THEN r ELSE q.s
  BY DEF Repeated
<1>. HIDE DEF q, base
<1>3. Changes(last, q.s, {"lastFin"}, {})
  BY <1>1 DEF IsSock, Fields, Changes, WinChanges
<1>. HIDE DEF last
<1>4. Changes(r, last, {"winChange", "hiAllowed", "out"}, {})
  BY <1>3, ReturnPacketChanges DEF Changes
<1>5. Changes(r, q.s, {"lastFin"} \cup {"winChange", "hiAllowed", "out"}, {} \cup {})
  BY <1>3, <1>4, ChangesThen
<1>6. Changes(r, s, OfSend \cup ({"lastFin"} \cup {"winChange", "hiAllowed", "out"}), (OfGet \cup {"txFin"}) \cup ({} \cup {}))
  BY <1>1, <1>5, ChangesThen
<1>7. Changes(r, s, OfRepeat, OfGet \cup {"txFin"})
  <2>1. /\ OfSend \cup ({"lastFin"} \cup {"winChange", "hiAllowed", "out"}) \subseteq OfRepeat
        /\ (OfGet \cup {"txFin"}) \cup ({} \cup {}) \subseteq OfGet \cup {"txFin"}
    BY DEF OfRepeat, OfSend
  <2>. QED
    BY <1>6, <2>1, ChangesMore
<1>8. Changes(q.s, s, OfRepeat, OfGet \cup {"txFin"})
  BY <1>1, ChangesMore DEF OfRepeat
<1>. QED
  BY <1>2, <1>7, <1>8 DEF q

LEMMA SendRepeatedChanges ==
    ASSUME NEW s, IsSock(s)
    PROVE  Changes(SendRepeated(s), s, OfRepeat, OfGet \cup {"txFin"})
<1>1. PICK f : /\ SendRepeated(s) = f[Repeats].s /\ DOMAIN f = 0..Repeats
               /\ \A i \in 0..Repeats : f[i] = IF i = 0 THEN [s |-> s, on |-> TRUE] ELSE SendAnother(f[i - 1])
  BY SentLoop
<1>. DEFINE T == {i \in Nat : i <= Repeats => Changes(f[i].s, s, OfRepeat, OfGet \cup {"txFin"})}
<1>2. Repeats \in Nat
  BY SocketAssumption
<1>3. 0 \in T
  <2>1. f[0] = [s |-> s, on |-> TRUE]
    BY <1>1, <1>2
  <2>. QED
    BY <2>1, ChangesNone
<1>4. ASSUME NEW i \in T PROVE i + 1 \in T
  <2>. SUFFICES ASSUME i + 1 <= Repeats
                PROVE  Changes(f[i + 1].s, s, OfRepeat, OfGet \cup {"txFin"})
    OBVIOUS
  <2>1. i \in Nat /\ i + 1 \in 0..Repeats /\ i + 1 # 0 /\ (i + 1) - 1 = i /\ i <= Repeats
    BY <1>2, <1>4
  <2>2. f[i + 1] = SendAnother(f[i])
    <3>1. f[i + 1] = SendAnother(f[(i + 1) - 1])
      BY <1>1, <2>1
    <3>. QED
      BY <2>1, <3>1
  <2>. DEFINE a == f[i]
  <2>3. Changes(a.s, s, OfRepeat, OfGet \cup {"txFin"})
    BY <1>4, <2>1
  <2>. HIDE DEF a
  <2>4. Changes(Repeated(PrepareSend(a.s, -1)).s, a.s, OfRepeat, OfGet \cup {"txFin"})
    BY <2>3, RepeatedChanges DEF Changes
  <2>5. Changes(Repeated(PrepareSend(a.s, -1)).s, s, OfRepeat \cup OfRepeat,
                (OfGet \cup {"txFin"}) \cup (OfGet \cup {"txFin"}))
    BY <2>3, <2>4, ChangesThen
  <2>6. Changes(Repeated(PrepareSend(a.s, -1)).s, s, OfRepeat, OfGet \cup {"txFin"})
    BY <2>5, ChangesMore
  <2>7. SendAnother(a).s \in {a.s, Repeated(PrepareSend(a.s, -1)).s}
    BY DEF SendAnother
  <2>. QED
    BY <2>2, <2>3, <2>6, <2>7 DEF a
<1>5. T = Nat
  <2>1. T \subseteq Nat
    OBVIOUS
  <2>. HIDE DEF T
  <2>. QED
    BY <1>3, <1>4, <2>1, Induction
<1>6. Repeats \in T
  BY <1>2, <1>5
<1>. QED
  BY <1>1, <1>6

LEMMA AddTxDataChanges ==
    ASSUME NEW s, IsSock(s)
    PROVE  Changes(AddTxData(s), s, {"tx"}, OfAdd)
<1>. DEFINE a == TxAdd(s.win, MidSpace(s.tx), s.tx.mid, s.tx.length)
            r == [s EXCEPT !.win = a.w, !.tx = MoveMid(@, a.done)]
<1>1. WinChanges(a.w, s.win, OfAdd)
  BY TxAddChanges DEF IsSock
<1>2. AddTxData(s) \in {s, r}
  BY DEF AddTxData
<1>. HIDE DEF a
<1>3. r.win = a.w /\ DOMAIN r = Fields /\ \A f \in Fields \ {"tx", "win"} : r[f] = s[f]
  BY DEF IsSock, Fields
<1>. HIDE DEF r
<1>4. Changes(r, s, {"tx"}, OfAdd)
  BY <1>1, <1>3 DEF Changes, WinChanges, IsSock
<1>5. Changes(s, s, {"tx"}, OfAdd)
  BY ChangesNone
<1>. QED
  BY <1>2, <1>4, <1>5

LEMMA AcknowledgedChanges ==
    ASSUME NEW s, IsSock(s), NEW n
    PROVE  Changes(Acknowledged(s, n), s, {"tx", "bits"}, {})
  BY DEF Acknowledged, IsSock, Fields, Changes, WinChanges

LEMMA AddRxdataChanges ==
    ASSUME NEW s, IsSock(s), NEW offset, NEW data, NEW n
    PROVE  Changes(AddRxdata(s, offset, data, n).s, s, OfRxdata, {})
<1>. DEFINE a == [s EXCEPT !.mallocError = TRUE]
<1>1. Changes(a, s, {"mallocError"}, {})
  BY DEF IsSock, Fields, Changes, WinChanges
<1>2. Changes(StateChange(a, "CLOSE_WAIT"), a, OfState, {})
  BY <1>1, StateChangeChanges DEF Changes
<1>3. Changes(StateChange(a, "CLOSE_WAIT"), s, {"mallocError"} \cup OfState, {} \cup {})
  BY <1>1, <1>2, ChangesThen
<1>4. Changes(StateChange(a, "CLOSE_WAIT"), s, OfRxdata, {})
  BY <1>3, ChangesMore DEF OfRxdata
<1>5. CASE s.rx = NoStream /\ s.poor
  BY <1>4, <1>5 DEF AddRxdata
<1>6. CASE ~(s.rx = NoStream /\ s.poor)
  <2>. DEFINE stream == IF s.rx = NoStream THEN EmptyBuffer(RxLength) ELSE s.rx
              after == Add(stream, offset, data, n)
              low == offset = 0 /\ ~s.lowWater /\ FrontSpace(after) <= RxStream \div 5
              r == [s EXCEPT !.rx = after, !.lowWater = @ \/ low, !.winChange = @ \/ low,
                             !.bits = IF offset = 0 THEN @ \cup {"RECEIVE"} ELSE @]
  <2>1. AddRxdata(s, offset, data, n).s = r
    BY <1>6 DEF AddRxdata
  <2>. HIDE DEF after, low
  <2>2. Changes(r, s, {"rx", "lowWater", "winChange", "bits"}, {})
    BY DEF IsSock, Fields, Changes, WinChanges
  <2>. HIDE DEF r
  <2>3. Changes(r, s, OfRxdata, {})
    BY <2>2, ChangesMore DEF OfRxdata, OfState
  <2>. QED
    BY <2>1, <2>3
<1>. QED
  BY <1>5, <1>6

-----------------------------------------------------------------------------
(* Receiving and closing, in their parts *)

\* StoreRxData in its parts
RxSpace(s) == IF s.rx = NoStream THEN RxStream ELSE GetSpace(s.rx)
Check(s, p) == RxCheck(s.win, p.seq, p.len, RxSpace(s))
OnChecked(s, p) == [s EXCEPT !.win = Check(s, p).w]
OnAdded(s, p) == AddRxdata(OnChecked(s, p), Check(s, p).offset, PacketData(p), p.len)
OnMoved(a) == IF a.win.userData = 0 THEN a
              ELSE [AddRxdata(a, 0, <<>>, a.win.userData).s EXCEPT !.win.userData = 0]

LEMMA StoreRxDataIs ==
    ASSUME NEW s, NEW p
    PROVE  /\ ~(p.len > 0 /\ From(s, "SYN_RECEIVED")) =>
                 StoreRxData(s, p) = [s |-> [s EXCEPT !.win.opt = <<>>], fails |-> FALSE]
           /\ p.len > 0 /\ From(s, "SYN_RECEIVED") =>
                 StoreRxData(s, p) =
                    IF Check(s, p).offset < 0 THEN [s |-> OnChecked(s, p), fails |-> FALSE]
                    ELSE IF OnAdded(s, p).stored # p.len
                    THEN [s |-> SendReset(OnAdded(s, p).s, p), fails |-> TRUE]
                    ELSE [s |-> OnMoved(OnAdded(s, p).s), fails |-> FALSE]
<1>1. ASSUME ~(p.len > 0 /\ From(s, "SYN_RECEIVED"))
      PROVE  StoreRxData(s, p) = [s |-> [s EXCEPT !.win.opt = <<>>], fails |-> FALSE]
  BY <1>1, Zenon DEF StoreRxData
<1>2. ASSUME p.len > 0 /\ From(s, "SYN_RECEIVED")
      PROVE  StoreRxData(s, p) =
                    IF Check(s, p).offset < 0 THEN [s |-> OnChecked(s, p), fails |-> FALSE]
                    ELSE IF OnAdded(s, p).stored # p.len
                    THEN [s |-> SendReset(OnAdded(s, p).s, p), fails |-> TRUE]
                    ELSE [s |-> OnMoved(OnAdded(s, p).s), fails |-> FALSE]
  BY <1>2 DEF StoreRxData, Check, OnChecked, OnAdded, OnMoved, RxSpace
<1>. QED
  BY <1>1, <1>2, Zenon

LEMMA OnMovedChanges ==
    ASSUME NEW a, IsSock(a)
    PROVE  Changes(OnMoved(a), a, OfRxdata, {"userData"})
<1>. DEFINE r == AddRxdata(a, 0, <<>>, a.win.userData).s
            u == [r EXCEPT !.win.userData = 0]
<1>1. Changes(r, a, OfRxdata, {})
  BY AddRxdataChanges
<1>. HIDE DEF r
<1>2. Changes(u, r, {}, {"userData"})
  BY <1>1 DEF Changes, WinChanges, IsSock, IsWin, Fields, WinFields
<1>. HIDE DEF u
<1>3. Changes(u, a, OfRxdata \cup {}, {} \cup {"userData"})
  BY <1>1, <1>2, ChangesThen
<1>4. Changes(u, a, OfRxdata, {"userData"})
  BY <1>3, ChangesMore
<1>5. Changes(a, a, OfRxdata, {"userData"})
  BY ChangesNone
<1>6. OnMoved(a) \in {a, u}
  BY DEF OnMoved, u, r
<1>. QED
  BY <1>4, <1>5, <1>6

LEMMA OnCheckedChanges ==
    ASSUME NEW s, IsSock(s), NEW p
    PROVE  Changes(OnChecked(s, p), s, {}, OfCheck) /\ OnChecked(s, p).win = Check(s, p).w
<1>1. WinChanges(Check(s, p).w, s.win, OfCheck)
  BY RxCheckChanges DEF Check, IsSock
<1>2. OnChecked(s, p).win = Check(s, p).w /\ DOMAIN OnChecked(s, p) = Fields
      /\ \A f \in Fields \ {"win"} : OnChecked(s, p)[f] = s[f]
  BY DEF OnChecked, IsSock, Fields
<1>. QED
  BY <1>1, <1>2 DEF Changes, WinChanges, IsSock

LEMMA StoreRxDataChanges ==
    ASSUME NEW s, IsSock(s), NEW p
    PROVE  Changes(StoreRxData(s, p).s, s, OfRxdata \cup {"out"}, OfCheck)
<1>. DEFINE c == OnChecked(s, p)   a == OnAdded(s, p).s
<1>1. Changes(c, s, {}, OfCheck)
  BY OnCheckedChanges
<1>2. Changes(a, c, OfRxdata, {})
  BY <1>1, AddRxdataChanges DEF Changes, OnAdded
<1>. HIDE DEF c, a
<1>3. Changes(SendReset(a, p), a, {"out"}, {}) /\ Changes(OnMoved(a), a, OfRxdata, {"userData"})
  BY <1>2, SendResetChanges, OnMovedChanges DEF Changes
<1>4. Changes(a, s, {} \cup OfRxdata, OfCheck \cup {})
  BY <1>1, <1>2, ChangesThen
<1>5. /\ Changes(SendReset(a, p), s, ({} \cup OfRxdata) \cup {"out"}, (OfCheck \cup {}) \cup {})
      /\ Changes(OnMoved(a), s, ({} \cup OfRxdata) \cup OfRxdata, (OfCheck \cup {}) \cup {"userData"})
  BY <1>3, <1>4, ChangesThen
<1>6. Changes(SendReset(a, p), s, OfRxdata \cup {"out"}, OfCheck)
  BY <1>5, ChangesMore
<1>7. Changes(OnMoved(a), s, OfRxdata \cup {"out"}, OfCheck)
  BY <1>5, ChangesMore DEF OfCheck
<1>8. Changes(c, s, OfRxdata \cup {"out"}, OfCheck)
  BY <1>1, ChangesMore
<1>9. Changes([s EXCEPT !.win.opt = <<>>], s, OfRxdata \cup {"out"}, OfCheck)
  BY DEF Changes, WinChanges, IsSock, IsWin, Fields, WinFields, OfCheck
<1>10. StoreRxData(s, p).s \in {[s EXCEPT !.win.opt = <<>>], c, SendReset(a, p), OnMoved(a)}
  BY StoreRxDataIs DEF c, a
<1>. QED
  BY <1>6, <1>7, <1>8, <1>9, <1>10

-----------------------------------------------------------------------------
(* The states *)

\* HandleFin in its parts
FinTaken(s, p) == IF "FIN" \in p.flags THEN [s EXCEPT !.win.rxCur = Plus(s.win.rxFin, 1)] ELSE s
FinGiven(s, p) ==
    LET a == FinTaken(s, p)
    IN  IF ~a.finSent THEN [a EXCEPT !.finSent = TRUE, !.win.txFin = a.win.txCur]
        ELSE [a EXCEPT !.finAcked = @ \/ p.ack = Plus(a.win.txFin, 1)]
FinCur(b) == IF b.finAcked THEN Plus(b.win.txFin, 1) ELSE b.win.txFin
FinDone(s, p) ==
    [FinGiven(s, p) EXCEPT !.win.txCur = FinCur(FinGiven(s, p)), !.win.our = FinCur(FinGiven(s, p))]

LEMMA HandleFinIs ==
    ASSUME NEW s, NEW p
    PROVE  HandleFin(s, p) =
              LET c == FinDone(s, p)
              IN  IF ~c.finAcked
                  THEN To(StateChange(c, "LAST_ACK"), Answer({"ACK", "FIN"}, <<>>, c.win.opt))
                  ELSE IF ~c.finRecv THEN To(c, NoAnswer)
                  ELSE To(StateChange(c, "CLOSE_WAIT"),
                          IF c.finLast THEN NoAnswer ELSE Answer({"ACK"}, <<>>, c.win.opt))
  BY Zenon DEF HandleFin, FinTaken, FinGiven, FinCur, FinDone

OfFinWin == {"rxCur", "txFin", "txCur", "our"}

LEMMA FinDoneChanges ==
    ASSUME NEW s, IsSock(s), NEW p
    PROVE  /\ Changes(FinTaken(s, p), s, {}, {"rxCur"})
           /\ Changes(FinGiven(s, p), FinTaken(s, p), {"finSent", "finAcked"}, {"txFin"})
           /\ Changes(FinDone(s, p), FinGiven(s, p), {}, {"txCur", "our"})
           /\ Changes(FinDone(s, p), s, {"finSent", "finAcked"}, OfFinWin)
<1>. DEFINE a == FinTaken(s, p)   b == FinGiven(s, p)   c == FinDone(s, p)
<1>1. Changes(a, s, {}, {"rxCur"})
  BY DEF FinTaken, Changes, WinChanges, IsSock, IsWin, Fields, WinFields
<1>. HIDE DEF a
<1>2. b = IF ~a.finSent THEN [a EXCEPT !.finSent = TRUE, !.win.txFin = a.win.txCur]
          ELSE [a EXCEPT !.finAcked = @ \/ p.ack = Plus(a.win.txFin, 1)]
  BY DEF FinGiven, a
<1>. HIDE DEF b
<1>3. Changes(b, a, {"finSent", "finAcked"}, {"txFin"})
  BY <1>1, <1>2 DEF Changes, WinChanges, IsSock, IsWin, Fields, WinFields
<1>4. c = [b EXCEPT !.win.txCur = FinCur(b), !.win.our = FinCur(b)]
  BY DEF FinDone, b
<1>. HIDE DEF c
<1>5. Changes(c, b, {}, {"txCur", "our"})
  BY <1>3, <1>4 DEF Changes, WinChanges, IsSock, IsWin, Fields, WinFields
<1>6. Changes(b, s, {} \cup {"finSent", "finAcked"}, {"rxCur"} \cup {"txFin"})
  BY <1>1, <1>3, ChangesThen
<1>7. Changes(c, s, ({} \cup {"finSent", "finAcked"}) \cup {}, ({"rxCur"} \cup {"txFin"}) \cup {"txCur", "our"})
  BY <1>5, <1>6, ChangesThen
<1>8. Changes(c, s, {"finSent", "finAcked"}, OfFinWin)
  BY <1>7, ChangesMore DEF OfFinWin
<1>. QED
  BY <1>1, <1>3, <1>5, <1>8 DEF a, b, c

LEMMA HandleFinChanges ==
    ASSUME NEW s, IsSock(s), NEW p
    PROVE  Changes(HandleFin(s, p).s, s, OfFin, OfFinWin)
<1>. DEFINE c == FinDone(s, p)
<1>1. Changes(c, s, {"finSent", "finAcked"}, OfFinWin)
  BY FinDoneChanges
<1>. HIDE DEF c
<1>2. HandleFin(s, p).s \in {c, StateChange(c, "LAST_ACK"), StateChange(c, "CLOSE_WAIT")}
  BY HandleFinIs DEF c, To
<1>3. Changes(StateChange(c, "LAST_ACK"), c, OfState, {}) /\ Changes(StateChange(c, "CLOSE_WAIT"), c, OfState, {})
  BY <1>1, StateChangeChanges DEF Changes
<1>4. /\ Changes(StateChange(c, "LAST_ACK"), s, {"finSent", "finAcked"} \cup OfState, OfFinWin \cup {})
      /\ Changes(StateChange(c, "CLOSE_WAIT"), s, {"finSent", "finAcked"} \cup OfState, OfFinWin \cup {})
  BY <1>1, <1>3, ChangesThen
<1>5. {"finSent", "finAcked"} \cup OfState \subseteq OfFin /\ {"finSent", "finAcked"} \subseteq OfFin
  BY DEF OfFin
<1>6. /\ Changes(StateChange(c, "LAST_ACK"), s, OfFin, OfFinWin)
      /\ Changes(StateChange(c, "CLOSE_WAIT"), s, OfFin, OfFinWin)
      /\ Changes(c, s, OfFin, OfFinWin)
  BY <1>1, <1>4, <1>5, ChangesMore
<1>. QED
  BY <1>2, <1>6

LEMMA HandleSynReceivedChanges ==
    ASSUME NEW s, IsSock(s), NEW p, NEW opt
    PROVE  Changes(HandleSynReceived(s, p, opt).s, s, OfState, {"rxCur", "our"})
<1>. DEFINE a == IF p.len = 0 THEN [s EXCEPT !.win.rxCur = p.seq] ELSE s
            b == [a EXCEPT !.win.our = Plus(OurISS, 1)]
<1>1. Changes(a, s, {}, {"rxCur"})
  BY DEF Changes, WinChanges, IsSock, IsWin, Fields, WinFields
<1>. HIDE DEF a
<1>2. Changes(b, a, {}, {"our"})
  BY <1>1 DEF Changes, WinChanges, IsSock, IsWin, Fields, WinFields
<1>3. HandleSynReceived(s, p, opt).s \in {StateChange(s, "CLOSE_WAIT"), StateChange(b, "ESTABLISHED")}
  BY DEF HandleSynReceived, To, a
<1>. HIDE DEF b
<1>4. Changes(b, s, {} \cup {}, {"rxCur"} \cup {"our"})
  BY <1>1, <1>2, ChangesThen
<1>5. Changes(StateChange(b, "ESTABLISHED"), b, OfState, {}) /\ Changes(StateChange(s, "CLOSE_WAIT"), s, OfState, {})
  BY <1>2, StateChangeChanges DEF Changes
<1>6. Changes(StateChange(b, "ESTABLISHED"), s, ({} \cup {}) \cup OfState, ({"rxCur"} \cup {"our"}) \cup {})
  BY <1>4, <1>5, ChangesThen
<1>7. Changes(StateChange(b, "ESTABLISHED"), s, OfState, {"rxCur", "our"})
  BY <1>6, ChangesMore
<1>8. Changes(StateChange(s, "CLOSE_WAIT"), s, OfState, {"rxCur", "our"})
  BY <1>5, ChangesMore
<1>. QED
  BY <1>3, <1>7, <1>8

-----------------------------------------------------------------------------
(* The established connection and the states, in their parts *)

\* HandleEstablished in its parts
EstAcked(s, p) == IF "ACK" \in p.flags THEN TxAck(s.win, p.ack) ELSE [n |-> 0, w |-> s.win]
EstNoted(s, p) == [s EXCEPT !.peerWin = p.win, !.win = EstAcked(s, p).w]
EstHeard(s, p) == Acknowledged(EstNoted(s, p), EstAcked(s, p).n)
EstAdded(s, p) == AddTxData(EstHeard(s, p))
EstNow(s, p) == [EstAdded(s, p) EXCEPT !.win.our = EstAdded(s, p).win.txCur]
EstKept(b, p) == IF p.len # 0 /\ b.finSent THEN [b EXCEPT !.win.txCur = b.win.txFin] ELSE b
EstFirst(p, opt) == IF p.len # 0 THEN Answer({"ACK"}, <<>>, opt) ELSE NoAnswer

LEMMA HandleEstablishedIs ==
    ASSUME NEW s, NEW p, NEW opt
    PROVE  HandleEstablished(s, p, opt) =
              LET b == EstNow(s, p)
                  c == EstKept(b, p)
                  q == PrepareSend(c, p.len)
              IN  IF MayClose(b, p) THEN HandleFin([b EXCEPT !.finAccepted = TRUE], p)
                  ELSE IF opt # <<>> THEN To(c, EstFirst(p, opt))
                  ELSE To(q.s, IF q.sends THEN Answer(Flags({}, q), q.data, <<>>) ELSE EstFirst(p, opt))
  BY DEF HandleEstablished, EstAcked, EstNoted, EstHeard, EstAdded, EstNow, EstKept, EstFirst

LEMMA EstChanges ==
    ASSUME NEW s, IsSock(s), NEW p
    PROVE  /\ Changes(EstNoted(s, p), s, {"peerWin"}, OfAck)
           /\ Changes(EstHeard(s, p), EstNoted(s, p), {"tx", "bits"}, {})
           /\ Changes(EstAdded(s, p), EstHeard(s, p), {"tx"}, OfAdd)
           /\ Changes(EstNow(s, p), EstAdded(s, p), {}, {"our"})
           /\ Changes(EstNow(s, p), s, {"peerWin", "tx", "bits"}, OfAck \cup OfAdd \cup {"our"})
<1>1. Changes(EstNoted(s, p), s, {"peerWin"}, OfAck)
  <2>1. WinChanges(EstAcked(s, p).w, s.win, OfAck)
    <3>1. WinChanges(TxAck(s.win, p.ack).w, s.win, OfAck)
      BY TxAckChanges DEF IsSock
    <3>2. WinChanges(s.win, s.win, OfAck)
      BY DEF WinChanges, IsSock
    <3>. QED
      BY <3>1, <3>2 DEF EstAcked
  <2>2. EstNoted(s, p).win = EstAcked(s, p).w /\ DOMAIN EstNoted(s, p) = Fields
        /\ \A f \in Fields \ {"win", "peerWin"} : EstNoted(s, p)[f] = s[f]
    BY DEF EstNoted, IsSock, Fields
  <2>. QED
    BY <2>1, <2>2 DEF Changes, WinChanges, IsSock
<1>2. Changes(EstHeard(s, p), EstNoted(s, p), {"tx", "bits"}, {})
  BY <1>1, AcknowledgedChanges DEF EstHeard, Changes
<1>3. Changes(EstAdded(s, p), EstHeard(s, p), {"tx"}, OfAdd)
  BY <1>2, AddTxDataChanges DEF EstAdded, Changes
<1>4. Changes(EstNow(s, p), EstAdded(s, p), {}, {"our"})
  BY <1>3 DEF EstNow, Changes, WinChanges, IsSock, IsWin, Fields, WinFields
<1>5. Changes(EstHeard(s, p), s, {"peerWin"} \cup {"tx", "bits"}, OfAck \cup {})
  BY <1>1, <1>2, ChangesThen
<1>6. Changes(EstNow(s, p), EstHeard(s, p), {"tx"} \cup {}, OfAdd \cup {"our"})
  BY <1>3, <1>4, ChangesThen
<1>7. Changes(EstNow(s, p), s, ({"peerWin"} \cup {"tx", "bits"}) \cup ({"tx"} \cup {}),
              (OfAck \cup {}) \cup (OfAdd \cup {"our"}))
  BY <1>5, <1>6, ChangesThen
<1>8. Changes(EstNow(s, p), s, {"peerWin", "tx", "bits"}, OfAck \cup OfAdd \cup {"our"})
  BY <1>7, ChangesMore
<1>. QED
  BY <1>1, <1>2, <1>3, <1>4, <1>8

LEMMA EstKeptChanges ==
    ASSUME NEW b, IsSock(b), NEW p
    PROVE  Changes(EstKept(b, p), b, {}, {"txCur"})
  BY DEF EstKept, Changes, WinChanges, IsSock, IsWin, Fields, WinFields

OfHandled == OfSend \cup OfFin \cup {"peerWin", "tx", "finAccepted"}
OfHandledWin == OfAck \cup OfAdd \cup OfGet \cup OfFinWin

LEMMA HandleEstablishedChanges ==
    ASSUME NEW s, IsSock(s), NEW p, NEW opt
    PROVE  Changes(HandleEstablished(s, p, opt).s, s, OfHandled, OfHandledWin)
<1>. DEFINE b == EstNow(s, p)
            c == EstKept(b, p)
            q == PrepareSend(c, p.len)
            d == [b EXCEPT !.finAccepted = TRUE]
            e == HandleFin(d, p).s
<1>1. Changes(b, s, {"peerWin", "tx", "bits"}, OfAck \cup OfAdd \cup {"our"})
  BY EstChanges
<1>2. HandleEstablished(s, p, opt).s \in {e, c, q.s}
  BY HandleEstablishedIs DEF To
<1>. HIDE DEF b
<1>3. Changes(c, b, {}, {"txCur"})
  BY <1>1, EstKeptChanges DEF Changes
<1>. HIDE DEF c
<1>4. Changes(q.s, c, OfSend, OfGet \cup {"txFin"})
  BY <1>3, PrepareSendChanges DEF Changes
<1>5. Changes(d, b, {"finAccepted"}, {})
  BY <1>1 DEF Changes, WinChanges, IsSock, Fields
<1>. HIDE DEF d
<1>6. Changes(e, d, OfFin, OfFinWin)
  BY <1>5, HandleFinChanges DEF Changes
<1>. HIDE DEF e, q
<1>7. Changes(c, s, {"peerWin", "tx", "bits"} \cup {}, (OfAck \cup OfAdd \cup {"our"}) \cup {"txCur"})
  BY <1>1, <1>3, ChangesThen
<1>8. Changes(q.s, s, ({"peerWin", "tx", "bits"} \cup {}) \cup OfSend,
              ((OfAck \cup OfAdd \cup {"our"}) \cup {"txCur"}) \cup (OfGet \cup {"txFin"}))
  BY <1>4, <1>7, ChangesThen
<1>9. Changes(e, b, {"finAccepted"} \cup OfFin, {} \cup OfFinWin)
  BY <1>5, <1>6, ChangesThen
<1>10. Changes(e, s, {"peerWin", "tx", "bits"} \cup ({"finAccepted"} \cup OfFin),
               (OfAck \cup OfAdd \cup {"our"}) \cup ({} \cup OfFinWin))
  BY <1>1, <1>9, ChangesThen
<1>11. {"peerWin", "tx", "bits"} \cup {} \subseteq OfHandled
       /\ ({"peerWin", "tx", "bits"} \cup {}) \cup OfSend \subseteq OfHandled
       /\ {"peerWin", "tx", "bits"} \cup ({"finAccepted"} \cup OfFin) \subseteq OfHandled
  BY DEF OfHandled, OfFin, OfState
<1>12. (OfAck \cup OfAdd \cup {"our"}) \cup {"txCur"} \subseteq OfHandledWin
       /\ ((OfAck \cup OfAdd \cup {"our"}) \cup {"txCur"}) \cup (OfGet \cup {"txFin"}) \subseteq OfHandledWin
       /\ (OfAck \cup OfAdd \cup {"our"}) \cup ({} \cup OfFinWin) \subseteq OfHandledWin
  BY DEF OfHandledWin, OfFinWin
<1>13. Changes(c, s, OfHandled, OfHandledWin)
  BY <1>7, <1>11, <1>12, ChangesMore
<1>14. Changes(q.s, s, OfHandled, OfHandledWin)
  BY <1>8, <1>11, <1>12, ChangesMore
<1>15. Changes(e, s, OfHandled, OfHandledWin)
  BY <1>10, <1>11, <1>12, ChangesMore
<1>. QED
  BY <1>2, <1>13, <1>14, <1>15

SynAcked(s, p) == [s EXCEPT !.win.rxCur = Plus(p.seq, 1), !.win.rxHigh = Plus(p.seq, 1),
                            !.win.txCur = Plus(OurISS, 1), !.win.next = Plus(OurISS, 1)]

LEMMA HandledIs ==
    ASSUME NEW s, NEW p
    PROVE  /\ s.state = "SYN_FIRST" =>
                 Handled(s, p) = To(StateChange(SynAcked(s, p), "SYN_RECEIVED"), Answer({"SYN", "ACK"}, <<>>, <<>>))
           /\ s.state = "SYN_RECEIVED" => Handled(s, p) = HandleSynReceived(s, p, s.win.opt)
           /\ s.state = "ESTABLISHED" => Handled(s, p) = HandleEstablished(s, p, s.win.opt)
           /\ s.state \in {"LAST_ACK", "FIN_WAIT_1", "FIN_WAIT_2"} => Handled(s, p) = HandleFin(s, p)
           /\ s.state \notin {"SYN_FIRST", "SYN_RECEIVED", "ESTABLISHED", "LAST_ACK", "FIN_WAIT_1", "FIN_WAIT_2"}
                => Handled(s, p) = To(s, NoAnswer)
  BY DEF Handled, SynAcked

LEMMA SynAckedChanges ==
    ASSUME NEW s, IsSock(s), NEW p
    PROVE  Changes(SynAcked(s, p), s, {}, {"rxCur", "rxHigh", "txCur", "next"})
  BY DEF SynAcked, Changes, WinChanges, IsSock, IsWin, Fields, WinFields

LEMMA HandledChanges ==
    ASSUME NEW s, IsSock(s), NEW p
    PROVE  Changes(Handled(s, p).s, s, OfHandled, OfHandledWin \cup {"rxHigh"})
<1>1. CASE s.state = "SYN_FIRST"
  <2>. DEFINE a == SynAcked(s, p)
  <2>1. Changes(a, s, {}, {"rxCur", "rxHigh", "txCur", "next"})
    BY SynAckedChanges
  <2>2. Handled(s, p).s = StateChange(a, "SYN_RECEIVED")
    BY <1>1, HandledIs DEF To
  <2>. HIDE DEF a
  <2>3. Changes(StateChange(a, "SYN_RECEIVED"), a, OfState, {})
    BY <2>1, StateChangeChanges DEF Changes
  <2>4. Changes(StateChange(a, "SYN_RECEIVED"), s, {} \cup OfState, {"rxCur", "rxHigh", "txCur", "next"} \cup {})
    BY <2>1, <2>3, ChangesThen
  <2>5. {} \cup OfState \subseteq OfHandled
        /\ {"rxCur", "rxHigh", "txCur", "next"} \cup {} \subseteq OfHandledWin \cup {"rxHigh"}
    BY DEF OfHandled, OfHandledWin, OfFin, OfFinWin, OfAdd
  <2>. QED
    BY <2>2, <2>4, <2>5, ChangesMore
<1>2. CASE s.state = "SYN_RECEIVED"
  <2>1. Changes(HandleSynReceived(s, p, s.win.opt).s, s, OfState, {"rxCur", "our"})
    BY HandleSynReceivedChanges
  <2>2. OfState \subseteq OfHandled /\ {"rxCur", "our"} \subseteq OfHandledWin \cup {"rxHigh"}
    BY DEF OfHandled, OfHandledWin, OfFin, OfFinWin
  <2>. QED
    BY <1>2, <2>1, <2>2, HandledIs, ChangesMore
<1>3. CASE s.state = "ESTABLISHED"
  <2>1. Changes(HandleEstablished(s, p, s.win.opt).s, s, OfHandled, OfHandledWin)
    BY HandleEstablishedChanges
  <2>. QED
    BY <1>3, <2>1, HandledIs, ChangesMore
<1>4. CASE s.state \in {"LAST_ACK", "FIN_WAIT_1", "FIN_WAIT_2"}
  <2>1. Changes(HandleFin(s, p).s, s, OfFin, OfFinWin)
    BY HandleFinChanges
  <2>2. OfFin \subseteq OfHandled /\ OfFinWin \subseteq OfHandledWin \cup {"rxHigh"}
    BY DEF OfHandled, OfHandledWin
  <2>. QED
    BY <1>4, <2>1, <2>2, HandledIs, ChangesMore
<1>5. CASE s.state \notin {"SYN_FIRST", "SYN_RECEIVED", "ESTABLISHED", "LAST_ACK", "FIN_WAIT_1", "FIN_WAIT_2"}
  <2>1. Handled(s, p).s = s
    BY <1>5, HandledIs DEF To
  <2>. QED
    BY <2>1, ChangesNone
<1>. QED
  BY <1>1, <1>2, <1>3, <1>4, <1>5

\* The parts of HandleState
Again(a, p) == IF a.state = "SYN_RECEIVED" /\ p.flags = {"SYN"} THEN StateChange(a, "SYN_FIRST") ELSE a
HsStored(s, p) == StoreRxData(Arrived(s, p), p)
HsNoted(s, p) == NoteFin(Again(HsStored(s, p).s, p), p)
HsHandled(s, p) == Handled(HsNoted(s, p), p)

LEMMA HandleStateIs ==
    ASSUME NEW s, NEW p
    PROVE  HandleState(s, p) =
              IF HsStored(s, p).fails THEN [s |-> HsStored(s, p).s, sent |-> FALSE]
              ELSE IF HsHandled(s, p).answer.sends
              THEN SendData(HsHandled(s, p).s, p, HsHandled(s, p).answer)
              ELSE [s |-> HsHandled(s, p).s, sent |-> FALSE]
  BY DEF HandleState, Again, HsStored, HsNoted, HsHandled

LEMMA ArrivedChanges ==
    ASSUME NEW s, IsSock(s), NEW p
    PROVE  Changes(Arrived(s, p), s, {"winChange"}, {"rxHigh"})
  BY DEF Arrived, Changes, WinChanges, IsSock, IsWin, Fields, WinFields

LEMMA NoteFinChanges ==
    ASSUME NEW s, IsSock(s), NEW p
    PROVE  Changes(NoteFin(s, p), s, {"finRecv", "finLast"}, {"rxFin"})
  BY DEF NoteFin, Changes, WinChanges, IsSock, IsWin, Fields, WinFields

LEMMA AgainChanges ==
    ASSUME NEW s, IsSock(s), NEW p
    PROVE  Changes(Again(s, p), s, OfState, {})
<1>1. Changes(StateChange(s, "SYN_FIRST"), s, OfState, {}) /\ Changes(s, s, OfState, {})
  BY StateChangeChanges, ChangesNone
<1>. QED
  BY <1>1 DEF Again

OfNoted == OfRxdata \cup {"out", "winChange", "finRecv", "finLast"}
OfNotedWin == OfCheck \cup {"rxHigh", "rxFin"}

LEMMA HsChanges ==
    ASSUME NEW s, IsSock(s), NEW p
    PROVE  /\ Changes(HsStored(s, p).s, s, OfNoted, OfNotedWin)
           /\ Changes(HsNoted(s, p), s, OfNoted, OfNotedWin)
           /\ Changes(HsHandled(s, p).s, HsNoted(s, p), OfHandled, OfHandledWin \cup {"rxHigh"})
<1>. DEFINE a == Arrived(s, p)   b == HsStored(s, p).s   c == Again(b, p)   d == HsNoted(s, p)
<1>1. Changes(a, s, {"winChange"}, {"rxHigh"})
  BY ArrivedChanges
<1>2. Changes(b, a, OfRxdata \cup {"out"}, OfCheck)
  BY <1>1, StoreRxDataChanges DEF HsStored, Changes
<1>3. d = NoteFin(c, p)
  BY DEF HsNoted
<1>. HIDE DEF a, b
<1>4. Changes(c, b, OfState, {})
  BY <1>2, AgainChanges DEF Changes
<1>. HIDE DEF c, d
<1>5. Changes(d, c, {"finRecv", "finLast"}, {"rxFin"})
  BY <1>3, <1>4, NoteFinChanges DEF Changes
<1>6. Changes(b, s, {"winChange"} \cup (OfRxdata \cup {"out"}), {"rxHigh"} \cup OfCheck)
  BY <1>1, <1>2, ChangesThen
<1>7. Changes(d, b, OfState \cup {"finRecv", "finLast"}, {} \cup {"rxFin"})
  BY <1>4, <1>5, ChangesThen
<1>8. Changes(d, s, ({"winChange"} \cup (OfRxdata \cup {"out"})) \cup (OfState \cup {"finRecv", "finLast"}),
              ({"rxHigh"} \cup OfCheck) \cup ({} \cup {"rxFin"}))
  BY <1>6, <1>7, ChangesThen
<1>9. /\ {"winChange"} \cup (OfRxdata \cup {"out"}) \subseteq OfNoted
      /\ ({"winChange"} \cup (OfRxdata \cup {"out"})) \cup (OfState \cup {"finRecv", "finLast"}) \subseteq OfNoted
      /\ {"rxHigh"} \cup OfCheck \subseteq OfNotedWin
      /\ ({"rxHigh"} \cup OfCheck) \cup ({} \cup {"rxFin"}) \subseteq OfNotedWin
  BY DEF OfNoted, OfNotedWin, OfRxdata
<1>10. Changes(b, s, OfNoted, OfNotedWin) /\ Changes(d, s, OfNoted, OfNotedWin)
  BY <1>6, <1>8, <1>9, ChangesMore
<1>11. Changes(HsHandled(s, p).s, d, OfHandled, OfHandledWin \cup {"rxHigh"})
  BY <1>5, HandledChanges DEF Changes, HsHandled, d
<1>. QED
  BY <1>10, <1>11 DEF b, d

LEMMA CheckOptionsChanges ==
    ASSUME NEW s, IsSock(s), NEW p
    PROVE  Changes(CheckOptions(s, p), s, {"tx", "bits"}, OfAck)
<1>. DEFINE a == TxSack(s.win, p.sack[1], p.sack[2])
            b == [s EXCEPT !.win = a.w]
<1>1. WinChanges(a.w, s.win, OfAck)
  BY TxSackChanges DEF IsSock
<1>2. CheckOptions(s, p) \in {s, Acknowledged(b, a.n)}
  BY DEF CheckOptions
<1>. HIDE DEF a
<1>3. b.win = a.w /\ DOMAIN b = Fields /\ \A f \in Fields \ {"win"} : b[f] = s[f]
  BY DEF IsSock, Fields
<1>. HIDE DEF b
<1>4. Changes(b, s, {}, OfAck)
  BY <1>1, <1>3 DEF Changes, WinChanges, IsSock
<1>5. Changes(Acknowledged(b, a.n), b, {"tx", "bits"}, {})
  BY <1>4, AcknowledgedChanges DEF Changes
<1>6. Changes(Acknowledged(b, a.n), s, {} \cup {"tx", "bits"}, OfAck \cup {})
  BY <1>4, <1>5, ChangesThen
<1>7. Changes(Acknowledged(b, a.n), s, {"tx", "bits"}, OfAck) /\ Changes(s, s, {"tx", "bits"}, OfAck)
  BY <1>6, ChangesMore, ChangesNone
<1>. QED
  BY <1>2, <1>7

\* NewWindow(rx, tx) has the fields of a window.
LEMMA HandleListenIs ==
    ASSUME NEW s, IsSock(s), NEW p
    PROVE  /\ IsWin(NewWindow(p.seq, OurISS))
           /\ LET a == [s EXCEPT !.passQueued = TRUE, !.win = NewWindow(p.seq, OurISS)]
              IN  HandleListen(s, p) = StateChange(a, "SYN_FIRST") /\ IsSock(a)
                  /\ Changes(HandleListen(s, p), a, OfState, {})
<1>. DEFINE a == [s EXCEPT !.passQueued = TRUE, !.win = NewWindow(p.seq, OurISS)]
<1>1. IsWin(NewWindow(p.seq, OurISS))
  BY DEF NewWindow, IsWin, WinFields
<1>2. IsSock(a)
  BY <1>1 DEF IsSock, Fields
<1>3. HandleListen(s, p) = StateChange(a, "SYN_FIRST")
  BY DEF HandleListen
<1>. HIDE DEF a
<1>4. Changes(StateChange(a, "SYN_FIRST"), a, OfState, {})
  BY <1>2, StateChangeChanges
<1>. QED
  BY <1>1, <1>2, <1>3, <1>4 DEF a

-----------------------------------------------------------------------------
(* The descriptors of received packets *)

OfKeep == {"ack", "held", "mine"}
Balanced(s) ==
    /\ s.ack \in BOOLEAN /\ s.mine \in BOOLEAN
    /\ s.held = (IF s.ack THEN 1 ELSE 0) + (IF s.mine THEN 1 ELSE 0)

LEMMA ChangesSock ==
    ASSUME NEW r, NEW s, NEW S, NEW W, Changes(r, s, S, W)
    PROVE  IsSock(r)
  BY DEF Changes

LEMMA KeepsBalance ==
    ASSUME NEW r, NEW s, NEW S, NEW W, Changes(r, s, S, W), S \cap OfKeep = {}, Balanced(s)
    PROVE  IsSock(r) /\ Balanced(r) /\ r.mine = s.mine /\ r.ack = s.ack
<1>1. \A f \in OfKeep : r[f] = s[f]
  BY DEF Changes, OfKeep, Fields
<1>2. r.ack = s.ack /\ r.held = s.held /\ r.mine = s.mine
  BY <1>1 DEF OfKeep
<1>. QED
  BY <1>2, ChangesSock DEF Balanced

\* SendData in its parts
SdNoted(s) ==
    [s EXCEPT !.curWin = Smaller(IF s.rx = NoStream THEN RxStream ELSE FrontSpace(s.rx),
                                 (RxWinLen - s.win.rxHigh + s.win.rxCur) % SeqSpace),
              !.held = IF s.ack THEN @ - 1 ELSE @]
SdKept(s) == [SdNoted(s) EXCEPT !.ack = TRUE, !.mine = FALSE]
SdFreed(s) == [SdNoted(s) EXCEPT !.ack = FALSE]
SdSent(s, answer) == Drop(ReturnPacket(SdFreed(s), TRUE, answer.flags, answer.data, answer.opt))

LEMMA SendDataIs ==
    ASSUME NEW s, NEW p, NEW answer
    PROVE  SendData(s, p, answer) \in {[s |-> SdKept(s), sent |-> FALSE], [s |-> SdSent(s, answer), sent |-> TRUE]}
  BY DEF SendData, SdNoted, SdKept, SdFreed, SdSent

OfData == {"curWin", "held", "ack", "mine", "winChange", "hiAllowed", "out"}

LEMMA SendDataChanges ==
    ASSUME NEW s, IsSock(s), NEW answer
    PROVE  /\ Changes(SdKept(s), s, {"curWin", "held", "ack", "mine"}, {})
           /\ Changes(SdFreed(s), s, {"curWin", "held", "ack"}, {})
           /\ Changes(ReturnPacket(SdFreed(s), TRUE, answer.flags, answer.data, answer.opt), SdFreed(s),
                      {"winChange", "hiAllowed", "out"}, {})
           /\ Changes(SdSent(s, answer), s, OfData, {})
<1>1. Changes(SdKept(s), s, {"curWin", "held", "ack", "mine"}, {})
  BY DEF SdKept, SdNoted, Changes, WinChanges, IsSock, Fields
<1>2. Changes(SdFreed(s), s, {"curWin", "held", "ack"}, {})
  BY DEF SdFreed, SdNoted, Changes, WinChanges, IsSock, Fields
<1>. DEFINE r == ReturnPacket(SdFreed(s), TRUE, answer.flags, answer.data, answer.opt)
<1>3. Changes(r, SdFreed(s), {"winChange", "hiAllowed", "out"}, {})
  BY <1>2, ReturnPacketChanges DEF Changes
<1>4. SdSent(s, answer) = Drop(r)
  BY DEF SdSent
<1>. HIDE DEF r
<1>5. Changes(Drop(r), r, {"mine", "held"}, {})
  BY <1>3, DropChanges DEF Changes
<1>6. Changes(r, s, {"curWin", "held", "ack"} \cup {"winChange", "hiAllowed", "out"}, {} \cup {})
  BY <1>2, <1>3, ChangesThen
<1>7. Changes(Drop(r), s, ({"curWin", "held", "ack"} \cup {"winChange", "hiAllowed", "out"}) \cup {"mine", "held"},
              ({} \cup {}) \cup {})
  BY <1>5, <1>6, ChangesThen
<1>8. Changes(Drop(r), s, OfData, {})
  BY <1>7, ChangesMore DEF OfData
<1>. QED
  BY <1>1, <1>2, <1>3, <1>4, <1>8 DEF r

\* Whoever drops the packet it owns gives it back.
LEMMA DropBalances ==
    ASSUME NEW s, IsSock(s), Balanced(s)
    PROVE  Balanced(Drop(s)) /\ ~Drop(s).mine
<1>1. s.held \in Int
  BY DEF Balanced
<1>2. CASE s.mine
  <2>1. Drop(s).held = s.held - 1
    BY <1>1, <1>2 DEF Drop, IsSock, Fields
  <2>2. Drop(s).mine = FALSE
    BY <1>1, <1>2 DEF Drop, IsSock, Fields
  <2>3. Drop(s).ack = s.ack
    BY <1>1, <1>2 DEF Drop, IsSock, Fields
  <2>. QED
    <3>1. s.held = (IF s.ack THEN 1 ELSE 0) + 1 /\ s.ack \in BOOLEAN
      BY <1>2 DEF Balanced
    <3>2. Drop(s).held = (IF Drop(s).ack THEN 1 ELSE 0) + (IF Drop(s).mine THEN 1 ELSE 0)
      BY <2>1, <2>2, <2>3, <3>1
    <3>3. Drop(s).ack \in BOOLEAN /\ Drop(s).mine \in BOOLEAN /\ ~Drop(s).mine
      BY <2>2, <2>3, <3>1
    <3>. QED
      BY <3>2, <3>3 DEF Balanced
<1>3. CASE ~s.mine
  BY <1>3 DEF Drop
<1>. QED
  BY <1>2, <1>3

LEMMA SendDataBalances ==
    ASSUME NEW s, IsSock(s), Balanced(s), s.mine, NEW p, NEW answer
    PROVE  IsSock(SendData(s, p, answer).s) /\ Balanced(SendData(s, p, answer).s)
<1>0. s.held = (IF s.ack THEN 1 ELSE 0) + 1 /\ s.ack \in BOOLEAN /\ s.mine = TRUE /\ s.held \in Int
  BY DEF Balanced
<1>01. /\ "ack" \in DOMAIN SdNoted(s) /\ "mine" \in DOMAIN SdNoted(s)
       /\ SdNoted(s).held = (IF s.ack THEN s.held - 1 ELSE s.held) /\ SdNoted(s).mine = TRUE
  BY <1>0 DEF SdNoted, IsSock, Fields
<1>1. Balanced(SdKept(s))
  <2>1. SdKept(s).ack = TRUE /\ SdKept(s).mine = FALSE
    BY <1>01 DEF SdKept
  <2>2. SdKept(s).held = IF s.ack THEN s.held - 1 ELSE s.held
    BY <1>01 DEF SdKept
  <2>. QED
    <3>2. SdKept(s).held = (IF SdKept(s).ack THEN 1 ELSE 0) + (IF SdKept(s).mine THEN 1 ELSE 0)
      BY <1>0, <2>1, <2>2
    <3>3. SdKept(s).ack \in BOOLEAN /\ SdKept(s).mine \in BOOLEAN
      BY <2>1
    <3>. QED
      BY <3>2, <3>3 DEF Balanced
<1>2. Balanced(SdFreed(s))
  <2>1. SdFreed(s).ack = FALSE /\ SdFreed(s).mine = TRUE
    BY <1>01 DEF SdFreed
  <2>2. SdFreed(s).held = IF s.ack THEN s.held - 1 ELSE s.held
    BY <1>01 DEF SdFreed
  <2>. QED
    <3>2. SdFreed(s).held = (IF SdFreed(s).ack THEN 1 ELSE 0) + (IF SdFreed(s).mine THEN 1 ELSE 0)
      BY <1>0, <2>1, <2>2
    <3>3. SdFreed(s).ack \in BOOLEAN /\ SdFreed(s).mine \in BOOLEAN
      BY <2>1
    <3>. QED
      BY <3>2, <3>3 DEF Balanced
<1>. DEFINE r == ReturnPacket(SdFreed(s), TRUE, answer.flags, answer.data, answer.opt)
<1>3. Changes(r, SdFreed(s), {"winChange", "hiAllowed", "out"}, {})
  BY SendDataChanges
<1>4. {"winChange", "hiAllowed", "out"} \cap OfKeep = {}
  BY DEF OfKeep
<1>5. Balanced(r) /\ IsSock(r)
  BY <1>2, <1>3, <1>4, KeepsBalance
<1>6. Balanced(SdSent(s, answer))
  BY <1>5, DropBalances DEF SdSent
<1>7. IsSock(SdKept(s)) /\ IsSock(SdSent(s, answer))
  BY SendDataChanges DEF Changes
<1>. QED
  BY <1>1, <1>6, <1>7, SendDataIs

LEMMA HandleStateBalances ==
    ASSUME NEW s, IsSock(s), Balanced(s), s.mine, NEW p
    PROVE  IsSock(HandleState(s, p).s) /\ Balanced(HandleState(s, p).s)
<1>. DEFINE b == HsStored(s, p).s   d == HsNoted(s, p)   e == HsHandled(s, p).s
<1>1. Changes(b, s, OfNoted, OfNotedWin) /\ Changes(d, s, OfNoted, OfNotedWin)
      /\ Changes(e, d, OfHandled, OfHandledWin \cup {"rxHigh"})
  BY HsChanges
<1>2. OfNoted \cap OfKeep = {} /\ OfHandled \cap OfKeep = {}
  BY DEF OfNoted, OfRxdata, OfState, OfHandled, OfSend, OfFin, OfKeep
<1>. HIDE DEF b, d, e
<1>3. Balanced(b) /\ Balanced(d) /\ d.mine = s.mine
  BY <1>1, <1>2, KeepsBalance
<1>4. Balanced(e) /\ e.mine = d.mine
  BY <1>1, <1>2, <1>3, KeepsBalance
<1>5. IsSock(b) /\ IsSock(e)
  BY <1>1 DEF Changes
<1>6. IsSock(SendData(e, p, HsHandled(s, p).answer).s) /\ Balanced(SendData(e, p, HsHandled(s, p).answer).s)
  BY <1>3, <1>4, <1>5, SendDataBalances
<1>7. HandleState(s, p).s \in {b, SendData(e, p, HsHandled(s, p).answer).s, e}
  BY HandleStateIs DEF b, e
<1>. QED
  BY <1>3, <1>4, <1>5, <1>6, <1>7

\* Served in its parts
Looked(s, p) == [CheckOptions(s, p) EXCEPT !.peerWin = p.win]

LEMMA LookedChanges ==
    ASSUME NEW s, IsSock(s), NEW p
    PROVE  Changes(Looked(s, p), s, {"tx", "bits", "peerWin"}, OfAck)
<1>. DEFINE a == CheckOptions(s, p)   b == Looked(s, p)
<1>1. Changes(a, s, {"tx", "bits"}, OfAck) /\ b = [a EXCEPT !.peerWin = p.win]
  BY CheckOptionsChanges DEF Looked
<1>. HIDE DEF a, b
<1>2. Changes(b, a, {"peerWin"}, {})
  BY <1>1 DEF Changes, WinChanges, IsSock, Fields
<1>3. Changes(b, s, {"tx", "bits"} \cup {"peerWin"}, OfAck \cup {})
  BY <1>1, <1>2, ChangesThen
<1>4. Changes(b, s, {"tx", "bits", "peerWin"}, OfAck)
  BY <1>3, ChangesMore
<1>. QED
  BY <1>4 DEF b

LEMMA ServedBalances ==
    ASSUME NEW s, IsSock(s), Balanced(s), s.mine, NEW p
    PROVE  IsSock(Served(s, p)) /\ Balanced(Served(s, p))
<1>. DEFINE b == Looked(s, p)   h == HandleState(b, p)
<1>1. Changes(b, s, {"tx", "bits", "peerWin"}, OfAck)
  BY LookedChanges
<1>2. {"tx", "bits", "peerWin"} \cap OfKeep = {}
  BY DEF OfKeep
<1>. HIDE DEF b
<1>3. IsSock(b) /\ Balanced(b) /\ b.mine
  BY <1>1, <1>2, KeepsBalance
<1>4. IsSock(h.s) /\ Balanced(h.s)
  BY <1>3, HandleStateBalances
<1>5. Served(s, p) \in {h.s, SendRepeated(h.s)}
  BY DEF Served, b, Looked
<1>. HIDE DEF h
<1>6. Changes(SendRepeated(h.s), h.s, OfRepeat, OfGet \cup {"txFin"})
  BY <1>4, SendRepeatedChanges
<1>7. OfRepeat \cap OfKeep = {}
  BY DEF OfRepeat, OfSend, OfState, OfKeep
<1>8. IsSock(SendRepeated(h.s)) /\ Balanced(SendRepeated(h.s))
  BY <1>4, <1>6, <1>7, KeepsBalance
<1>. QED
  BY <1>4, <1>5, <1>8

\* What ProcessReceived does to the socket before it drops the packet
Copied2(s, p) == [s EXCEPT !.lastFin = "FIN" \in p.flags]
Begun(s) == [s EXCEPT !.mine = TRUE, !.held = @ + 1]
Processed(s, p) ==
    IF ~IsActive(s) THEN (IF p.flags = {"ACK"} \/ "RST" \in p.flags THEN s ELSE SendReset(s, p))
    ELSE IF s.state = "LISTEN"
    THEN (IF p.flags = {"SYN"} THEN Served(HandleListen(s, p), p)
          ELSE IF "RST" \in p.flags THEN s ELSE SendReset(s, p))
    ELSE IF "RST" \in p.flags THEN StateChange(s, "CLOSED")
    ELSE IF p.flags = {"SYN"} /\ From(s, "ESTABLISHED") THEN s
    ELSE Served(Copied2(s, p), p)

LEMMA ProcessReceivedIs ==
    ASSUME NEW s, NEW p
    PROVE  ProcessReceived(s, p) = Drop(Processed(Begun(s), p))
  BY Zenon DEF ProcessReceived, Processed, Begun, Copied2

LEMMA BegunChanges ==
    ASSUME NEW s, IsSock(s), NEW p
    PROVE  /\ Changes(Begun(s), s, {"mine", "held"}, {})
           /\ Changes(Copied2(s, p), s, {"lastFin"}, {})
  BY DEF Begun, Copied2, Changes, WinChanges, IsSock, Fields

LEMMA ProcessedBalances ==
    ASSUME NEW s, IsSock(s), Balanced(s), s.mine, NEW p
    PROVE  IsSock(Processed(s, p)) /\ Balanced(Processed(s, p))
<1>1. {"out"} \cap OfKeep = {} /\ {"lastFin"} \cap OfKeep = {} /\ OfState \cap OfKeep = {}
  BY DEF OfKeep, OfState
<1>2. IsSock(SendReset(s, p)) /\ Balanced(SendReset(s, p))
  BY <1>1, SendResetChanges, KeepsBalance
<1>3. IsSock(StateChange(s, "CLOSED")) /\ Balanced(StateChange(s, "CLOSED"))
  BY <1>1, StateChangeChanges, KeepsBalance
<1>4. IsSock(Copied2(s, p)) /\ Balanced(Copied2(s, p)) /\ Copied2(s, p).mine
  BY <1>1, BegunChanges, KeepsBalance
<1>5. IsSock(Served(Copied2(s, p), p)) /\ Balanced(Served(Copied2(s, p), p))
  BY <1>4, ServedBalances
<1>6. IsSock(HandleListen(s, p)) /\ Balanced(HandleListen(s, p)) /\ HandleListen(s, p).mine
  <2>. DEFINE a == [s EXCEPT !.passQueued = TRUE, !.win = NewWindow(p.seq, OurISS)]
  <2>1. Changes(HandleListen(s, p), a, OfState, {})
    BY HandleListenIs
  <2>2. Balanced(a) /\ a.mine
    BY DEF Balanced, IsSock, Fields
  <2>. HIDE DEF a
  <2>. QED
    BY <1>1, <2>1, <2>2, KeepsBalance
<1>7. IsSock(Served(HandleListen(s, p), p)) /\ Balanced(Served(HandleListen(s, p), p))
  BY <1>6, ServedBalances
<1>. QED
  BY <1>2, <1>3, <1>5, <1>7 DEF Processed

\* A packet leaves the balance as it was, and owns no descriptor any more.
LEMMA ReceivedBalances ==
    ASSUME NEW s, IsSock(s), Balanced(s), ~s.mine, NEW p
    PROVE  IsSock(ProcessReceived(s, p)) /\ Balanced(ProcessReceived(s, p)) /\ ~ProcessReceived(s, p).mine
<1>. DEFINE b == Begun(s)   r == Processed(b, p)
<1>1. IsSock(b)
  BY BegunChanges DEF Changes
<1>2. Balanced(b) /\ b.mine
  BY DEF Begun, Balanced, IsSock, Fields
<1>. HIDE DEF b
<1>3. IsSock(r) /\ Balanced(r)
  BY <1>1, <1>2, ProcessedBalances
<1>4. ProcessReceived(s, p) = Drop(r)
  BY ProcessReceivedIs DEF b
<1>. HIDE DEF r
<1>. QED
  BY <1>3, <1>4, DropBalances, DropChanges DEF Changes

\* SocketCheck in its parts
Ripe(a) == a.ack /\ ~a.userShutdown /\ a.state # "CLOSED"
AckSent(a) == IF Ripe(a) THEN ReturnPacket(a, TRUE, {"ACK"}, <<>>, <<>>) ELSE a
Given(a) == [AckSent(a) EXCEPT !.ack = FALSE, !.held = @ - 1]
Waits(a) == a.ack /\ ~a.userShutdown /\ ~TxHasData(a.win, a.peerWin, a.late)
Filled(s) == IF From(s, "ESTABLISHED") THEN AddTxData(s) ELSE s
Ticks(a) ==
    IF Ripe(a) \/ (a.ack /\ a.userShutdown)
    THEN (IF Waits(a) \/ ~From(a, "ESTABLISHED") THEN Given(a) ELSE SendRepeated(Given(a)))
    ELSE IF From(a, "ESTABLISHED") THEN SendRepeated(a) ELSE a

LEMMA SocketCheckIs ==
    ASSUME NEW s
    PROVE  SocketCheck(s) = Ticks(Filled(s))
  BY Zenon DEF SocketCheck, Ticks, Filled, Ripe, AckSent, Given, Waits

LEMMA FilledChanges ==
    ASSUME NEW s, IsSock(s)
    PROVE  Changes(Filled(s), s, {"tx"}, OfAdd)
<1>1. Changes(AddTxData(s), s, {"tx"}, OfAdd) /\ Changes(s, s, {"tx"}, OfAdd)
  BY AddTxDataChanges, ChangesNone
<1>. QED
  BY <1>1 DEF Filled

LEMMA GivenChanges ==
    ASSUME NEW a, IsSock(a)
    PROVE  /\ Changes(AckSent(a), a, {"winChange", "hiAllowed", "out"}, {})
           /\ Changes(Given(a), AckSent(a), {"ack", "held"}, {})
           /\ Changes(Given(a), a, {"winChange", "hiAllowed", "out", "ack", "held"}, {})
<1>1. Changes(AckSent(a), a, {"winChange", "hiAllowed", "out"}, {})
  <2>1. Changes(ReturnPacket(a, TRUE, {"ACK"}, <<>>, <<>>), a, {"winChange", "hiAllowed", "out"}, {})
        /\ Changes(a, a, {"winChange", "hiAllowed", "out"}, {})
    BY ReturnPacketChanges, ChangesNone
  <2>. QED
    BY <2>1 DEF AckSent
<1>2. Changes(Given(a), AckSent(a), {"ack", "held"}, {})
  BY <1>1 DEF Given, Changes, WinChanges, IsSock, Fields
<1>3. Changes(Given(a), a, {"winChange", "hiAllowed", "out"} \cup {"ack", "held"}, {} \cup {})
  BY <1>1, <1>2, ChangesThen
<1>4. Changes(Given(a), a, {"winChange", "hiAllowed", "out", "ack", "held"}, {})
  BY <1>3, ChangesMore
<1>. QED
  BY <1>1, <1>2, <1>4

LEMMA TicksBalances ==
    ASSUME NEW a, IsSock(a), Balanced(a), ~a.mine
    PROVE  IsSock(Ticks(a)) /\ Balanced(Ticks(a)) /\ ~Ticks(a).mine
<1>1. {"winChange", "hiAllowed", "out"} \cap OfKeep = {} /\ OfRepeat \cap OfKeep = {}
  BY DEF OfRepeat, OfSend, OfState, OfKeep
<1>2. Balanced(AckSent(a)) /\ ~AckSent(a).mine /\ AckSent(a).ack = a.ack /\ IsSock(AckSent(a))
  BY <1>1, GivenChanges, KeepsBalance
<1>3. ASSUME a.ack PROVE Balanced(Given(a)) /\ ~Given(a).mine
  BY <1>2, <1>3 DEF Given, Balanced, IsSock, Fields
<1>4. IsSock(Given(a))
  BY GivenChanges DEF Changes
<1>5. Changes(SendRepeated(a), a, OfRepeat, OfGet \cup {"txFin"})
      /\ Changes(SendRepeated(Given(a)), Given(a), OfRepeat, OfGet \cup {"txFin"})
  BY <1>4, SendRepeatedChanges
<1>6. IsSock(SendRepeated(a)) /\ Balanced(SendRepeated(a)) /\ ~SendRepeated(a).mine
  BY <1>1, <1>5, KeepsBalance
<1>7. ASSUME a.ack PROVE IsSock(SendRepeated(Given(a))) /\ Balanced(SendRepeated(Given(a))) /\ ~SendRepeated(Given(a)).mine
  BY <1>1, <1>3, <1>5, <1>7, KeepsBalance
<1>. QED
  BY <1>3, <1>4, <1>6, <1>7 DEF Ticks, Ripe

LEMMA TimerBalances ==
    ASSUME NEW s, IsSock(s), Balanced(s), ~s.mine, NEW due, NEW willSleep
    PROVE  /\ IsSock(TimerCheck(s, due, willSleep)) /\ Balanced(TimerCheck(s, due, willSleep))
           /\ ~TimerCheck(s, due, willSleep).mine
<1>1. {"tx"} \cap OfKeep = {} /\ {"group", "bits"} \cap OfKeep = {}
  BY DEF OfKeep
<1>2. IsSock(Filled(s)) /\ Balanced(Filled(s)) /\ ~Filled(s).mine
  BY <1>1, FilledChanges, KeepsBalance
<1>. DEFINE a == IF due THEN SocketCheck(s) ELSE s
<1>3. IsSock(a) /\ Balanced(a) /\ ~a.mine
  BY <1>2, TicksBalances, SocketCheckIs
<1>4. TimerCheck(s, due, willSleep) = IF willSleep THEN WakeUpUser(a) ELSE a
  BY DEF TimerCheck
<1>. HIDE DEF a
<1>5. IsSock(WakeUpUser(a)) /\ Balanced(WakeUpUser(a)) /\ ~WakeUpUser(a).mine
  BY <1>1, <1>3, WakeUpUserChanges, KeepsBalance
<1>. QED
  BY <1>3, <1>4, <1>5

-----------------------------------------------------------------------------
KeepInv == IsSock(sock) /\ Balanced(sock) /\ ~sock.mine

LEMMA ListeningIsSock == IsSock(Listening) /\ Balanced(Listening) /\ ~Listening.mine
  BY DEF Listening, NewWindow, IsSock, IsWin, Fields, WinFields, Balanced

LEMMA KeepStep == KeepInv /\ [Next]_vars => KeepInv'
<1>. SUFFICES ASSUME KeepInv, [Next]_vars PROVE KeepInv'
  OBVIOUS
<1>1. CASE Receive
  <2>1. PICK p \in net, poor \in BOOLEAN :
           Handler(ProcessReceived([sock EXCEPT !.poor = poor], p), One(poor))
    BY <1>1 DEF Receive
  <2>. DEFINE s == [sock EXCEPT !.poor = poor]   r == ProcessReceived(s, p)
  <2>2. IsSock(s) /\ Balanced(s) /\ ~s.mine
    BY DEF KeepInv, IsSock, Balanced, Fields
  <2>. HIDE DEF s
  <2>3. IsSock(r) /\ Balanced(r) /\ ~r.mine
    BY <2>2, ReceivedBalances
  <2>4. sock' = [r EXCEPT !.out = <<>>, !.late = 0, !.poor = FALSE]
    BY <2>1 DEF Handler, s
  <2>. HIDE DEF r
  <2>. QED
    BY <2>3, <2>4 DEF KeepInv, IsSock, Balanced, Fields
<1>2. CASE Timer
  <2>1. PICK due \in BOOLEAN, willSleep \in BOOLEAN, poor \in BOOLEAN, late \in 0..Len(sock.win.wait) :
           Handler(TimerCheck([sock EXCEPT !.poor = poor, !.late = late], due, willSleep),
                   One(poor) + One(late > 0))
    BY <1>2 DEF Timer
  <2>. DEFINE s == [sock EXCEPT !.poor = poor, !.late = late]   r == TimerCheck(s, due, willSleep)
  <2>2. IsSock(s) /\ Balanced(s) /\ ~s.mine
    BY DEF KeepInv, IsSock, Balanced, Fields
  <2>. HIDE DEF s
  <2>3. IsSock(r) /\ Balanced(r) /\ ~r.mine
    BY <2>2, TimerBalances
  <2>4. sock' = [r EXCEPT !.out = <<>>, !.late = 0, !.poor = FALSE]
    BY <2>1 DEF Handler, s
  <2>. HIDE DEF r
  <2>. QED
    BY <2>3, <2>4 DEF KeepInv, IsSock, Balanced, Fields
<1>3. CASE CloseEvent
  <2>1. sock' = SocketClose(sock)
    BY <1>3 DEF CloseEvent
  <2>2. IsSock(Listening) /\ Balanced(Listening) /\ ~Listening.mine
    BY ListeningIsSock
  <2>3. Listening.ack = FALSE
    BY DEF Listening
  <2>. QED
    BY <2>1, <2>2, <2>3 DEF SocketClose, KeepInv, IsSock, Balanced, Fields
<1>4. CASE UNCHANGED sock
  BY <1>4 DEF KeepInv
<1>5. CASE Server
  <2>1. \/ sock' = sock
        \/ sock' = [sock EXCEPT !.passAccept = FALSE]
        \/ \E bits : sock' = [sock EXCEPT !.group = @ \ bits]
        \/ sock' = Taken(sock)
        \/ sock' = StateChange([sock EXCEPT !.mallocError = TRUE], "CLOSE_WAIT")
        \/ \E tx : sock' = [sock EXCEPT !.tx = tx]
        \/ sock' = [sock EXCEPT !.userShutdown = TRUE]
    BY <1>5 DEF Server, Accept, AcceptWait, Recv, RecvWait, RecvGet, Reading, SendCheck, SendAdd, SendWait,
                Shutdown, Close, App, Sleep
  <2>2. CASE sock' = StateChange([sock EXCEPT !.mallocError = TRUE], "CLOSE_WAIT")
    <3>. DEFINE s == [sock EXCEPT !.mallocError = TRUE]
    <3>1. IsSock(s) /\ Balanced(s) /\ ~s.mine
      BY DEF KeepInv, IsSock, Balanced, Fields
    <3>. HIDE DEF s
    <3>2. OfState \cap OfKeep = {}
      BY DEF OfState, OfKeep
    <3>3. IsSock(StateChange(s, "CLOSE_WAIT")) /\ Balanced(StateChange(s, "CLOSE_WAIT"))
          /\ ~StateChange(s, "CLOSE_WAIT").mine
      BY <3>1, <3>2, StateChangeChanges, KeepsBalance
    <3>. QED
      BY <2>2, <3>3 DEF s, KeepInv
  <2>3. CASE sock' = Taken(sock)
    BY <2>3 DEF Taken, KeepInv, IsSock, Balanced, Fields
  <2>. QED
    BY <2>1, <2>2, <2>3 DEF KeepInv, IsSock, Balanced, Fields
<1>. QED
  BY <1>1, <1>2, <1>3, <1>4, <1>5 DEF Next, vars, server

\* Between the calls of the IP task a network buffer descriptor is given back or
\* kept, once: prvTCPSendPacket, prvTCPReturnPacket, prvTCPHandleState and the
\* timer of the delayed acknowledgement hand it to one another, and what is
\* kept is pxAckMessage.
THEOREM DescriptorsKeptOnce == Spec => []KeptOnce
<1>1. Init => KeepInv
  BY ListeningIsSock DEF Init, KeepInv
<1>2. KeepInv => KeptOnce
  BY DEF KeepInv, KeptOnce, Balanced
<1>. QED
  BY <1>1, <1>2, KeepStep, PTL DEF Spec

-----------------------------------------------------------------------------
(* The request, and the segments it comes in *)

Total(q) == Before(q)[Len(q)]
Place(q, i) == 1 + Before(q)[i - 1]
Piece(q, i) == [seq |-> AtPeer(Place(q, i)), len |-> q[i]]
Pieces(q) == {Piece(q, i) : i \in 1..Len(q)}
Edges(q) == {Place(q, i) : i \in 1..(Len(q) + 1)}
IsRequest(q) == q \in Seq(1..MSS) /\ 2 * (Total(q) + 4) < SeqSpace

LEMMA PlaceIs ==
    ASSUME NEW q \in Seq(1..MSS)
    PROVE  /\ Len(q) \in Nat /\ Place(q, 1) = 1
           /\ \A i \in 1..Len(q) : q[i] \in 1..MSS /\ Place(q, i + 1) = Place(q, i) + q[i]
           /\ \A i \in 1..(Len(q) + 1) : Place(q, i) \in Nat
           /\ Total(q) = Place(q, Len(q) + 1) - 1 /\ Total(q) \in Nat
<1>1. Len(q) \in Nat /\ MSS \in Nat /\ \A i \in 1..Len(q) : q[i] \in 1..MSS
  BY WindowAssumption
<1>2. /\ DOMAIN Before(q) = 0..Len(q)
      /\ \A i \in 0..Len(q) : Before(q)[i] = IF i = 0 THEN 0 ELSE Before(q)[i - 1] + q[i]
  BY <1>1, BeforeLoop
<1>. DEFINE T == {i \in Nat : i <= Len(q) => Before(q)[i] \in Nat}
<1>3. 0 \in T
  BY <1>1, <1>2
<1>4. ASSUME NEW i \in T PROVE i + 1 \in T
  <2>. SUFFICES ASSUME i + 1 <= Len(q) PROVE Before(q)[i + 1] \in Nat
    OBVIOUS
  <2>1. i \in Nat /\ i + 1 \in 0..Len(q) /\ i + 1 # 0 /\ (i + 1) - 1 = i /\ i + 1 \in 1..Len(q)
        /\ Before(q)[i] \in Nat
    BY <1>1, <1>4
  <2>2. Before(q)[i + 1] = Before(q)[i] + q[i + 1]
    <3>1. Before(q)[i + 1] = Before(q)[(i + 1) - 1] + q[i + 1]
      BY <1>2, <2>1
    <3>. QED
      BY <2>1, <3>1
  <2>3. q[i + 1] \in Nat
    BY <1>1, <2>1
  <2>. QED
    BY <2>1, <2>2, <2>3
<1>5. T = Nat
  <2>1. T \subseteq Nat
    OBVIOUS
  <2>. HIDE DEF T
  <2>. QED
    BY <1>3, <1>4, <2>1, Induction
<1>6. \A i \in 0..Len(q) : Before(q)[i] \in Nat
  <2>. SUFFICES ASSUME NEW i \in 0..Len(q) PROVE Before(q)[i] \in Nat
    OBVIOUS
  <2>1. i \in Nat /\ i <= Len(q)
    BY <1>1
  <2>2. i \in T
    <3>. HIDE DEF T
    <3>. QED
      BY <1>5, <2>1
  <2>. QED
    BY <2>1, <2>2
<1>7. Place(q, 1) = 1
  <2>1. 1 - 1 = 0 /\ 0 \in 0..Len(q)
    BY <1>1
  <2>. QED
    BY <1>2, <2>1 DEF Place
<1>8. ASSUME NEW i \in 1..Len(q) PROVE Place(q, i + 1) = Place(q, i) + q[i]
  <2>1. (i + 1) - 1 = i /\ i \in 0..Len(q) /\ i # 0 /\ i - 1 \in 0..Len(q)
    BY <1>1
  <2>2. Before(q)[i] = Before(q)[i - 1] + q[i] /\ Before(q)[i] \in Nat /\ Before(q)[i - 1] \in Nat
    BY <1>2, <1>6, <2>1
  <2>3. Place(q, i + 1) = 1 + Before(q)[i] /\ Place(q, i) = 1 + Before(q)[i - 1]
    BY <2>1 DEF Place
  <2>4. q[i] \in Nat
    BY <1>1
  <2>. QED
    BY <2>2, <2>3, <2>4
<1>9. ASSUME NEW i \in 1..(Len(q) + 1) PROVE Place(q, i) \in Nat
  <2>1. i - 1 \in 0..Len(q)
    BY <1>1
  <2>. QED
    BY <1>6, <2>1 DEF Place
<1>10. Total(q) = Place(q, Len(q) + 1) - 1 /\ Total(q) \in Nat
  <2>1. (Len(q) + 1) - 1 = Len(q) /\ Len(q) \in 0..Len(q)
    BY <1>1
  <2>2. Before(q)[Len(q)] \in Nat
    BY <1>6, <2>1
  <2>. QED
    BY <2>1, <2>2 DEF Total, Place
<1>. QED
  BY <1>1, <1>7, <1>8, <1>9, <1>10

\* The segments follow one another.
LEMMA PlaceGrows ==
    ASSUME NEW q \in Seq(1..MSS), NEW i \in 1..(Len(q) + 1), NEW j \in 1..(Len(q) + 1)
    PROVE  /\ i < j => Place(q, i) + q[i] <= Place(q, j)
           /\ i < j => Place(q, i) < Place(q, j)
           /\ Place(q, i) = Place(q, j) => i = j
           /\ Place(q, i) \in 1..(Total(q) + 1)
<1>1. /\ Len(q) \in Nat /\ Place(q, 1) = 1 /\ MSS \in Nat
      /\ \A k \in 1..Len(q) : q[k] \in 1..MSS /\ Place(q, k + 1) = Place(q, k) + q[k]
      /\ \A k \in 1..(Len(q) + 1) : Place(q, k) \in Nat
      /\ Total(q) = Place(q, Len(q) + 1) - 1 /\ Total(q) \in Nat
  BY PlaceIs, WindowAssumption
<1>. DEFINE T == {n \in Nat : n <= Len(q) => \A k \in 1..n : Place(q, k) + q[k] <= Place(q, n + 1)}
<1>2. 0 \in T
  OBVIOUS
<1>3. ASSUME NEW n \in T PROVE n + 1 \in T
  <2>. SUFFICES ASSUME n + 1 <= Len(q), NEW k \in 1..(n + 1)
                PROVE  Place(q, k) + q[k] <= Place(q, (n + 1) + 1)
    BY <1>3
  <2>1. n \in Nat /\ n <= Len(q) /\ n + 1 \in 1..Len(q) /\ n + 1 \in 1..(Len(q) + 1)
    BY <1>1, <1>3
  <2>2. Place(q, (n + 1) + 1) = Place(q, n + 1) + q[n + 1] /\ q[n + 1] \in Nat /\ Place(q, n + 1) \in Nat
    BY <1>1, <2>1, SMTT(20)
  <2>3. CASE k = n + 1
    BY <2>2, <2>3
  <2>4. CASE k # n + 1
    <3>1. k \in 1..n /\ k \in 1..Len(q) /\ k \in 1..(Len(q) + 1)
      BY <1>1, <2>1, <2>4
    <3>2. Place(q, k) + q[k] <= Place(q, n + 1)
      BY <1>3, <2>1, <3>1
    <3>3. q[k] \in Nat
      BY <1>1, <3>1, SMTT(20)
    <3>4. Place(q, k) \in Nat
      BY <1>1, <3>1
    <3>. QED
      BY <2>2, <3>2, <3>3, <3>4
  <2>. QED
    BY <2>3, <2>4
<1>4. T = Nat
  <2>1. T \subseteq Nat
    OBVIOUS
  <2>. HIDE DEF T
  <2>. QED
    BY <1>2, <1>3, <2>1, Induction
<1>5. ASSUME NEW k \in 1..(Len(q) + 1), NEW l \in 1..(Len(q) + 1), k < l
      PROVE  Place(q, k) + q[k] <= Place(q, l) /\ Place(q, k) < Place(q, l)
  <2>1. l - 1 \in Nat /\ l - 1 <= Len(q) /\ k \in 1..(l - 1) /\ (l - 1) + 1 = l /\ k \in 1..Len(q)
    BY <1>1, <1>5
  <2>2. l - 1 \in T
    <3>. HIDE DEF T
    <3>. QED
      BY <1>4, <2>1
  <2>3. Place(q, k) + q[k] <= Place(q, (l - 1) + 1)
    BY <2>1, <2>2
  <2>4. q[k] \in Nat /\ q[k] > 0
    <3>1. q[k] \in 1..MSS
      BY <1>1, <2>1
    <3>. QED
      BY <1>1, <3>1, SMTT(20)
  <2>5. Place(q, k) \in Nat /\ Place(q, l) \in Nat
    BY <1>1
  <2>. QED
    BY <2>1, <2>3, <2>4, <2>5
<1>6. Place(q, i) \in 1..(Total(q) + 1)
  <2>1. Len(q) + 1 \in 1..(Len(q) + 1) /\ 1 \in 1..(Len(q) + 1)
    BY <1>1
  <2>2. (1 < i => Place(q, 1) < Place(q, i)) /\ (i < Len(q) + 1 => Place(q, i) < Place(q, Len(q) + 1))
    BY <1>5, <2>1
  <2>3. (i = 1 \/ 1 < i) /\ (i = Len(q) + 1 \/ i < Len(q) + 1)
    BY <1>1
  <2>4. Place(q, i) \in Nat /\ Place(q, Len(q) + 1) \in Nat
    BY <1>1, <2>1
  <2>5. Place(q, i) >= 1
    BY <1>1, <2>2, <2>3, <2>4
  <2>6. Place(q, i) <= Place(q, Len(q) + 1)
    BY <2>2, <2>3, <2>4
  <2>7. Place(q, Len(q) + 1) = Total(q) + 1
    BY <1>1, <2>4
  <2>. QED
    BY <1>1, <2>4, <2>5, <2>6, <2>7
<1>7. Place(q, i) = Place(q, j) => i = j
  <2>1. i < j \/ j < i \/ i = j
    OBVIOUS
  <2>2. (i < j => Place(q, i) < Place(q, j)) /\ (j < i => Place(q, j) < Place(q, i))
    BY <1>5
  <2>3. Place(q, i) \in Nat /\ Place(q, j) \in Nat
    BY <1>1
  <2>. QED
    BY <2>1, <2>2, <2>3
<1>. QED
  BY <1>5, <1>6, <1>7

\* The numbers in and next to a request keep their order.
LEMMA RequestReach ==
    ASSUME NEW q, IsRequest(q)
    PROVE  /\ q \in Seq(1..MSS) /\ Len(q) \in Nat /\ Total(q) \in Nat
           /\ \A x \in 0..(Total(q) + 2) : x \in Reach /\ x \in 0..(SeqSpace - 1) /\ Off(AtPeer(x)) = x
           /\ \A e \in Edges(q) : e \in 1..(Total(q) + 1) /\ e \in 0..(Total(q) + 2) /\ e \in Nat
           /\ \A g \in Pieces(q) : \E i \in 1..Len(q) : g = Piece(q, i)
<1>1. q \in Seq(1..MSS) /\ Len(q) \in Nat /\ Total(q) \in Nat /\ 2 * (Total(q) + 4) < SeqSpace
  BY PlaceIs DEF IsRequest
<1>2. ASSUME NEW x \in 0..(Total(q) + 2) PROVE x \in Reach /\ x \in 0..(SeqSpace - 1)
  BY <1>1, SpaceIs DEF Reach
<1>3. ASSUME NEW x \in 0..(Total(q) + 2) PROVE Off(AtPeer(x)) = x
  BY <1>2, OffIs
<1>4. \A i \in 1..(Len(q) + 1) : Place(q, i) \in 1..(Total(q) + 1)
  BY <1>1, PlaceGrows
<1>5. ASSUME NEW e \in Edges(q) PROVE e \in 1..(Total(q) + 1)
  BY <1>4 DEF Edges
<1>6. ASSUME NEW e \in Edges(q) PROVE e \in 0..(Total(q) + 2) /\ e \in Nat
  <2>1. e \in 1..(Total(q) + 1)
    BY <1>5
  <2>. QED
    BY <1>1, <2>1
<1>. QED
  BY <1>1, <1>2, <1>3, <1>5, <1>6 DEF Pieces

LEMMA PieceIs ==
    ASSUME NEW q, IsRequest(q), NEW i \in 1..Len(q)
    PROVE  /\ Place(q, i) \in Edges(q) /\ Place(q, i + 1) \in Edges(q) /\ i + 1 \in 1..(Len(q) + 1)
           /\ i \in 1..(Len(q) + 1)
           /\ Place(q, i) \in 1..Total(q) /\ q[i] \in 1..MSS /\ q[i] \in Nat
           /\ Place(q, i + 1) = Place(q, i) + q[i] /\ Place(q, i + 1) \in 1..(Total(q) + 1)
           /\ Off(Piece(q, i).seq) = Place(q, i) /\ Piece(q, i).len = q[i]
           /\ Piece(q, i).seq = AtPeer(Place(q, i))
           /\ Plus(Piece(q, i).seq, q[i]) = AtPeer(Place(q, i + 1))
<1>1. q \in Seq(1..MSS) /\ Len(q) \in Nat /\ Total(q) \in Nat /\ MSS \in Nat
  BY RequestReach, WindowAssumption
<1>2. q[i] \in 1..MSS /\ Place(q, i + 1) = Place(q, i) + q[i] /\ Place(q, i) \in Nat /\ q[i] \in Nat
      /\ i + 1 \in 1..(Len(q) + 1) /\ i \in 1..(Len(q) + 1)
  BY <1>1, PlaceIs
<1>3. Place(q, i) \in 1..(Total(q) + 1) /\ Place(q, i + 1) \in 1..(Total(q) + 1)
  BY <1>1, <1>2, PlaceGrows
<1>4. Place(q, i) \in 1..Total(q) /\ Place(q, i) \in 0..(Total(q) + 2)
  BY <1>1, <1>2, <1>3, SMTT(20)
<1>5. Off(AtPeer(Place(q, i))) = Place(q, i)
  BY <1>4, RequestReach
<1>6. Plus(AtPeer(Place(q, i)), q[i]) = AtPeer(Place(q, i) + q[i])
  <2>. DEFINE x == Place(q, i)   y == q[i]
  <2>1. x \in Int /\ y \in Int
    BY <1>2
  <2>. HIDE DEF x, y
  <2>2. Plus(AtPeer(x), y) = AtPeer(x + y)
    BY <2>1, PeerIs, PlusPlus DEF AtPeer
  <2>. QED
    BY <2>2 DEF x, y
<1>. QED
  BY <1>2, <1>3, <1>4, <1>5, <1>6 DEF Piece, Edges

LEMMA PiecesFinite ==
    ASSUME NEW q, IsRequest(q), NEW S, S \subseteq Pieces(q)
    PROVE  IsFiniteSet(S) /\ Cardinality(S) \in Nat
<1>1. Len(q) \in Nat
  BY RequestReach
<1>2. IsFiniteSet(1..Len(q))
  BY <1>1, FS_Interval
<1>. DEFINE f == [i \in 1..Len(q) |-> Piece(q, i)]
<1>3. f \in Surjection(1..Len(q), Pieces(q))
  BY DEF Pieces, Surjection
<1>. HIDE DEF f
<1>4. IsFiniteSet(Pieces(q))
  BY <1>2, <1>3, FS_Surjection
<1>. QED
  BY <1>4, FS_Subset, FS_CardinalityType

-----------------------------------------------------------------------------
(* Going on with what was stored *)

\* The loop of RunFrom
LEMMA RunLoop ==
    ASSUME NEW start, NEW S, Cardinality(S) \in Nat
    PROVE  \E f : /\ RunFrom(start, S) = f[Cardinality(S)] /\ DOMAIN f = 0..Cardinality(S)
                 /\ \A i \in 0..Cardinality(S) : f[i] = IF i = 0 THEN [end |-> start, left |-> S] ELSE Joined(f[i - 1])
<1>. DEFINE Turn(i, x) == Joined(x)
            Up(m, f) == f = [i \in 0..m |-> IF i = 0 THEN [end |-> start, left |-> S] ELSE Turn(i, f[i - 1])]
            T == {m \in Nat : \E f : Up(m, f)}
<1>1. Cardinality(S) \in Nat
  OBVIOUS
<1>2. 0 \in T
  <2>. DEFINE f == [i \in 0..0 |-> [end |-> start, left |-> S]]
  <2>. HIDE DEF Turn
  <2>1. Up(0, f)
    OBVIOUS
  <2>. HIDE DEF f, Up
  <2>. QED
    BY <2>1
<1>3. ASSUME NEW m \in T PROVE m + 1 \in T
  <2>1. PICK f : Up(m, f)
    BY <1>3
  <2>. DEFINE g == [i \in 0..(m + 1) |-> IF i = m + 1 THEN Turn(i, f[m]) ELSE f[i]]
  <2>. HIDE DEF Turn
  <2>2. m \in Nat /\ m + 1 \in Nat
    BY <1>3
  <2>3. ASSUME NEW i \in 0..(m + 1)
        PROVE  g[i] = IF i = 0 THEN [end |-> start, left |-> S] ELSE Turn(i, g[i - 1])
    <3>1. CASE i = m + 1
      <4>1. i # 0 /\ i - 1 = m /\ m # m + 1 /\ m \in 0..(m + 1)
        BY <2>2, <3>1
      <4>2. g[i] = Turn(i, f[m]) /\ g[i - 1] = f[m]
        BY <3>1, <4>1
      <4>. QED
        BY <4>1, <4>2
    <3>2. CASE i # m + 1
      <4>1. i \in 0..m /\ (i # 0 => i - 1 \in 0..(m + 1) /\ i - 1 # m + 1)
        BY <2>2, <3>2
      <4>2. g[i] = f[i] /\ (i # 0 => g[i - 1] = f[i - 1])
        BY <3>2, <4>1
      <4>3. f[i] = IF i = 0 THEN [end |-> start, left |-> S] ELSE Turn(i, f[i - 1])
        BY <2>1, <4>1
      <4>. QED
        BY <4>2, <4>3
    <3>. QED
      BY <3>1, <3>2
  <2>4. Up(m + 1, g)
    <3>1. g = [i \in 0..(m + 1) |-> g[i]]
      OBVIOUS
    <3>. HIDE DEF g
    <3>. QED
      BY <2>3, <3>1
  <2>. HIDE DEF g, Up
  <2>. QED
    BY <2>2, <2>4
<1>4. T = Nat
  <2>. HIDE DEF Up
  <2>1. T \subseteq Nat
    OBVIOUS
  <2>. HIDE DEF T
  <2>. QED
    BY <1>2, <1>3, <2>1, Induction
<1>5. \E f : Up(Cardinality(S), f)
  <2>1. Cardinality(S) \in T
    BY <1>1, <1>4
  <2>. HIDE DEF Up
  <2>. QED
    BY <2>1
<1>. DEFINE after[i \in 0..Cardinality(S)] == IF i = 0 THEN [end |-> start, left |-> S] ELSE Joined(after[i - 1])
<1>6. after = [i \in 0..Cardinality(S) |-> IF i = 0 THEN [end |-> start, left |-> S] ELSE Joined(after[i - 1])]
  BY <1>5, Zenon
<1>7. RunFrom(start, S) = after[Cardinality(S)]
  BY DEF RunFrom
<1>. HIDE DEF after
<1>8. DOMAIN after = 0..Cardinality(S) /\ \A i \in 0..Cardinality(S) : after[i] = IF i = 0 THEN [end |-> start, left |-> S] ELSE Joined(after[i - 1])
  BY <1>6, Zenon
<1>. QED
  BY <1>7, <1>8, Zenon

\* How far a run has come that began at e with the segments S
Ran(a, q, e, S, x) ==
    /\ x \in Edges(q) /\ x >= e /\ a.end = AtPeer(x) /\ a.left \subseteq S
    /\ \A g \in a.left : Off(g.seq) >= x
    /\ \A y \in e..(x - 1) : \E g \in S : Off(g.seq) <= y /\ y < Off(g.seq) + g.len

LEMMA JoinedRan ==
    ASSUME NEW q, IsRequest(q), NEW S, S \subseteq Pieces(q), NEW e \in Edges(q), NEW a, NEW x,
           Ran(a, q, e, S, x), Followers(a) # {}
    PROVE  /\ \E g \in a.left : Joined(a).left = a.left \ {g}
           /\ \E z : Ran(Joined(a), q, e, S, z)
<1>. DEFINE g == CHOOSE g \in Followers(a) : TRUE
<1>1. g \in a.left /\ g.seq = a.end /\ g \in S
  <2>1. g \in Followers(a)
    OBVIOUS
  <2>. HIDE DEF g
  <2>. QED
    BY <2>1 DEF Followers, Ran
<1>2. Joined(a) = [end |-> Plus(a.end, g.len), left |-> a.left \ {g}]
  BY DEF Joined
<1>. HIDE DEF g
<1>3. PICK i \in 1..Len(q) : g = Piece(q, i)
  BY <1>1, RequestReach
<1>. DEFINE z == Place(q, i + 1)
<1>4. x \in Edges(q) /\ x \in Nat /\ e \in Nat /\ x >= e /\ Off(AtPeer(x)) = x /\ a.end = AtPeer(x)
  <2>1. x \in Edges(q) /\ x >= e /\ a.end = AtPeer(x)
    BY DEF Ran
  <2>. QED
    BY <2>1, RequestReach
<1>5. /\ z \in Edges(q) /\ z = x + g.len /\ g.len \in Nat /\ Place(q, i) = x /\ Off(g.seq) = x
      /\ Plus(a.end, g.len) = AtPeer(z) /\ z \in Nat /\ q[i] = g.len /\ i \in 1..(Len(q) + 1)
  BY <1>1, <1>3, <1>4, PieceIs
<1>6. ASSUME NEW h \in a.left \ {g} PROVE Off(h.seq) >= z
  <2>1. PICK j \in 1..Len(q) : h = Piece(q, j)
    BY RequestReach DEF Ran
  <2>2. Off(h.seq) = Place(q, j) /\ Place(q, j) >= x /\ j # i /\ j \in 1..(Len(q) + 1) /\ Place(q, j) \in Nat
    <3>1. Off(h.seq) >= x
      BY DEF Ran
    <3>2. Place(q, j) \in 1..Total(q) /\ Total(q) \in Nat
      BY PieceIs, RequestReach
    <3>3. Place(q, j) \in Nat
      BY <3>2
    <3>. QED
      BY <1>3, <2>1, <3>1, <3>3, PieceIs
  <2>3. ~(j < i)
    <3>1. j < i => Place(q, j) < Place(q, i)
      BY <1>5, <2>2, RequestReach, PlaceGrows
    <3>. QED
      BY <1>4, <1>5, <2>2, <3>1
  <2>4. i < j
    BY <1>5, <2>2, <2>3
  <2>5. Place(q, i) + q[i] <= Place(q, j)
    BY <1>5, <2>2, <2>4, RequestReach, PlaceGrows
  <2>. QED
    BY <1>5, <2>2, <2>5
<1>7. ASSUME NEW y \in e..(z - 1) PROVE \E h \in S : Off(h.seq) <= y /\ y < Off(h.seq) + h.len
  <2>1. CASE y < x
    <3>1. y \in e..(x - 1)
      BY <1>4, <2>1
    <3>. QED
      BY <3>1 DEF Ran
  <2>2. CASE y >= x
    <3>1. Off(g.seq) <= y /\ y < Off(g.seq) + g.len
      BY <1>4, <1>5, <2>2
    <3>. QED
      BY <1>1, <3>1
  <2>. QED
    BY <1>4, <2>1, <2>2
<1>8. z >= e
  BY <1>4, <1>5
<1>. HIDE DEF z
<1>9. Ran(Joined(a), q, e, S, z)
  <2>1. a.left \subseteq S
    BY DEF Ran
  <2>2. Joined(a).end = AtPeer(z) /\ Joined(a).left = a.left \ {g}
    BY <1>2, <1>5
  <2>. QED
    BY <1>5, <1>6, <1>7, <1>8, <2>1, <2>2 DEF Ran
<1>. QED
  BY <1>1, <1>2, <1>9

\* A run ends where no stored segment begins.
LEMMA RunFromIs ==
    ASSUME NEW q, IsRequest(q), NEW S, S \subseteq Pieces(q), NEW e \in Edges(q),
           \A g \in S : Off(g.seq) >= e
    PROVE  \E x : Ran(RunFrom(AtPeer(e), S), q, e, S, x)
                  /\ \A g \in RunFrom(AtPeer(e), S).left : Off(g.seq) > x
<1>. DEFINE n == Cardinality(S)
<1>1. IsFiniteSet(S) /\ n \in Nat
  BY PiecesFinite
<1>2. PICK f : /\ RunFrom(AtPeer(e), S) = f[n]
               /\ \A i \in 0..n : f[i] = IF i = 0 THEN [end |-> AtPeer(e), left |-> S] ELSE Joined(f[i - 1])
  BY <1>1, RunLoop
<1>. DEFINE Reached(i, x) == Ran(f[i], q, e, S, x) /\ (Followers(f[i]) = {} \/ Cardinality(f[i].left) = n - i)
            T == {i \in Nat : i <= n => \E x : Reached(i, x)}
<1>3. 0 \in T
  <2>1. f[0] = [end |-> AtPeer(e), left |-> S]
    BY <1>1, <1>2
  <2>2. e \in Nat
    BY RequestReach
  <2>3. Ran(f[0], q, e, S, e)
    BY <2>1, <2>2 DEF Ran
  <2>4. Cardinality(f[0].left) = n - 0
    BY <1>1, <2>1
  <2>. HIDE DEF n
  <2>. QED
    BY <2>3, <2>4
<1>4. ASSUME NEW i \in T PROVE i + 1 \in T
  <2>. SUFFICES ASSUME i + 1 <= n
                PROVE  \E x : Ran(f[i + 1], q, e, S, x)
                              /\ (Followers(f[i + 1]) = {} \/ Cardinality(f[i + 1].left) = n - (i + 1))
    OBVIOUS
  <2>1. i \in Nat /\ i <= n /\ i + 1 \in 0..n /\ i + 1 # 0 /\ (i + 1) - 1 = i
    BY <1>1, <1>4
  <2>. HIDE DEF n
  <2>2. PICK x : Ran(f[i], q, e, S, x) /\ (Followers(f[i]) = {} \/ Cardinality(f[i].left) = n - i)
    BY <1>4, <2>1
  <2>3. f[i + 1] = Joined(f[i])
    <3>1. f[i + 1] = Joined(f[(i + 1) - 1])
      BY <1>2, <2>1
    <3>. QED
      BY <2>1, <3>1
  <2>. HIDE DEF T
  <2>4. CASE Followers(f[i]) = {}
    <3>1. Joined(f[i]) = f[i]
      BY <2>4 DEF Joined
    <3>. QED
      BY <2>2, <2>3, <2>4, <3>1
  <2>5. CASE Followers(f[i]) # {}
    <3>. DEFINE c == f[i]
    <3>0. Ran(c, q, e, S, x) /\ Followers(c) # {}
      BY <2>2, <2>5
    <3>. HIDE DEF c
    <3>9. /\ \E g \in c.left : Joined(c).left = c.left \ {g}
          /\ \E z : Ran(Joined(c), q, e, S, z)
      BY <3>0, JoinedRan, Zenon
    <3>1. PICK g \in c.left : Joined(c).left = c.left \ {g}
      BY <3>9
    <3>2. PICK z : Ran(Joined(c), q, e, S, z)
      BY <3>9
    <3>. USE DEF c
    <3>3. IsFiniteSet(f[i].left)
      BY <1>1, <2>2, FS_Subset DEF Ran
    <3>4. Cardinality(f[i].left \ {g}) = Cardinality(f[i].left) - 1
      BY <3>3, FS_RemoveElement
    <3>5. Cardinality(Joined(f[i]).left) = n - (i + 1)
      BY <1>1, <2>1, <2>2, <2>5, <3>1, <3>4
    <3>. QED
      BY <2>3, <3>2, <3>5
  <2>. QED
    BY <2>4, <2>5
<1>5. T = Nat
  <2>1. T \subseteq Nat
    OBVIOUS
  <2>. HIDE DEF T
  <2>. QED
    BY <1>3, <1>4, <2>1, Induction
<1>6. PICK x : Ran(f[n], q, e, S, x) /\ (Followers(f[n]) = {} \/ Cardinality(f[n].left) = n - n)
  <2>. HIDE DEF n
  <2>1. n <= n
    BY <1>1
  <2>2. n \in T
    <3>. HIDE DEF T
    <3>. QED
      BY <1>1, <1>5
  <2>. QED
    BY <2>1, <2>2
<1>7. Followers(f[n]) = {}
  <2>1. IsFiniteSet(f[n].left)
    BY <1>1, <1>6, FS_Subset DEF Ran
  <2>2. Cardinality(f[n].left) = 0 => f[n].left = {}
    BY <2>1, FS_EmptySet
  <2>3. n - n = 0
    BY <1>1
  <2>. QED
    BY <1>6, <2>2, <2>3 DEF Followers
<1>8. ASSUME NEW g \in f[n].left PROVE Off(g.seq) > x
  <2>1. Off(g.seq) >= x /\ g.seq # AtPeer(x) /\ g \in S /\ x \in Edges(q)
    BY <1>6, <1>7 DEF Ran, Followers
  <2>2. PICK j \in 1..Len(q) : g = Piece(q, j)
    BY <2>1, RequestReach
  <2>3. Off(g.seq) = Place(q, j) /\ g.seq = AtPeer(Place(q, j)) /\ Place(q, j) \in 1..Total(q) /\ Total(q) \in Nat
    BY <2>2, PieceIs, RequestReach
  <2>4. x \in Nat
    BY <2>1, RequestReach
  <2>. QED
    BY <2>1, <2>3, <2>4
<1>. QED
  BY <1>2, <1>6, <1>8

-----------------------------------------------------------------------------
(* Stream buffers *)

BufferFields == {"length", "tail", "mid", "head", "front", "cells"}
IsRing(b, n) ==
    /\ DOMAIN b = BufferFields /\ b.length = n
    /\ b.tail \in 0..(n - 1) /\ b.head \in 0..(n - 1) /\ DOMAIN b.cells = 0..(n - 1)

\* The cell so many places after the tail
Cell(b, k) == b.cells[Onward(b, b.tail, k)]

LEMMA OnwardIs ==
    ASSUME NEW n \in Nat \ {0}, NEW b, b.length = n, NEW a \in 0..(n - 1), NEW k \in 0..n
    PROVE  Onward(b, a, k) = (IF a + k < n THEN a + k ELSE a + k - n)
<1>. DEFINE c == a + k
<1>1. c \in Int /\ (c < n => c \in 0..(n - 1)) /\ (c >= n => c \in n..(2 * n - 1))
  OBVIOUS
<1>2. Onward(b, a, k) = c % n
  BY DEF Onward
<1>. HIDE DEF c
<1>3. (c < n => c % n = c) /\ (c >= n => c % n = c - n)
  BY <1>1, ModSmall
<1>. QED
  BY <1>1, <1>2, <1>3 DEF c

LEMMA DistanceIs ==
    ASSUME NEW n \in Nat \ {0}, NEW b, b.length = n, NEW a \in 0..(n - 1), NEW c \in 0..(n - 1)
    PROVE  Distance(b, a, c) = (IF c >= a THEN c - a ELSE n + c - a)
<1>. DEFINE d == n + c - a
<1>1. d \in Int /\ (c < a => d \in 0..(n - 1)) /\ (c >= a => d \in n..(2 * n - 1))
  OBVIOUS
<1>2. Distance(b, a, c) = d % n
  BY DEF Distance
<1>. HIDE DEF d
<1>3. (c < a => d % n = d) /\ (c >= a => d % n = d - n)
  BY <1>1, ModSmall
<1>. QED
  BY <1>1, <1>2, <1>3 DEF d

LEMMA RoomIs ==
    ASSUME NEW n \in Nat \ {0}, NEW b, b.length = n, NEW a \in 0..(n - 1), NEW c \in 0..(n - 1)
    PROVE  Space(b, a, c) = (IF c > a THEN c - a - 1 ELSE n + c - a - 1)
<1>. DEFINE e == n + c - a - 1
<1>1. e \in Int /\ (c <= a => e \in 0..(n - 1)) /\ (c > a => e \in n..(2 * n - 1))
  OBVIOUS
<1>2. Space(b, a, c) = e % n
  BY DEF Space
<1>. HIDE DEF e
<1>3. (c <= a => e % n = e) /\ (c > a => e % n = e - n)
  BY <1>1, ModSmall
<1>. QED
  BY <1>1, <1>2, <1>3 DEF e

\* A buffer of n cells holds n - 1 bytes.
LEMMA RingIs ==
    ASSUME NEW n \in Nat \ {0}, NEW b, IsRing(b, n)
    PROVE  /\ GetSize(b) \in 0..(n - 1) /\ GetSpace(b) = n - 1 - GetSize(b)
           /\ b.head = Onward(b, b.tail, GetSize(b))
<1>1. b.length = n /\ b.tail \in 0..(n - 1) /\ b.head \in 0..(n - 1)
  BY DEF IsRing
<1>. DEFINE z == GetSize(b)
<1>2. z = (IF b.head >= b.tail THEN b.head - b.tail ELSE n + b.head - b.tail) /\ z \in 0..(n - 1)
  BY <1>1, DistanceIs DEF GetSize
<1>3. GetSpace(b) = (IF b.tail > b.head THEN b.tail - b.head - 1 ELSE n + b.tail - b.head - 1)
  BY <1>1, RoomIs DEF GetSpace
<1>. HIDE DEF z
<1>4. z \in 0..n
  BY <1>2
<1>5. Onward(b, b.tail, z) = (IF b.tail + z < n THEN b.tail + z ELSE b.tail + z - n)
  BY <1>1, <1>4, OnwardIs
<1>6. b.head = Onward(b, b.tail, z)
  BY <1>1, <1>2, <1>5
<1>7. GetSpace(b) = n - 1 - z
  BY <1>1, <1>2, <1>3
<1>. QED
  BY <1>2, <1>6, <1>7 DEF z

\* Data copied to a place u cells after the tail
LEMMA CopiedIs ==
    ASSUME NEW n \in Nat \ {0}, NEW b, IsRing(b, n), NEW u \in 0..(n - 1), NEW m \in Nat, u + m <= n,
           NEW data, Len(data) \in Nat, NEW at, at = Onward(b, b.tail, u), NEW k \in 0..(n - 1)
    PROVE  /\ DOMAIN Copied(b, at, data, m) = 0..(n - 1)
           /\ Copied(b, at, data, m)[Onward(b, b.tail, k)] =
                 IF u <= k /\ k < u + m /\ k - u < Len(data) THEN data[k - u + 1] ELSE Cell(b, k)
<1>1. b.length = n /\ b.tail \in 0..(n - 1) /\ DOMAIN b.cells = 0..(n - 1) /\ k \in 0..n /\ u \in 0..n
  BY DEF IsRing
<1>. DEFINE j == Onward(b, b.tail, k)   d == Distance(b, at, j)
<1>20. j = IF b.tail + k < n THEN b.tail + k ELSE b.tail + k - n
  BY <1>1, OnwardIs
<1>30. at = IF b.tail + u < n THEN b.tail + u ELSE b.tail + u - n
  BY <1>1, OnwardIs
<1>2. j = (IF b.tail + k < n THEN b.tail + k ELSE b.tail + k - n) /\ j \in 0..(n - 1)
  <2>. HIDE DEF j
  <2>. QED
    BY <1>1, <1>20
<1>3. at \in 0..(n - 1)
  BY <1>1, <1>30
<1>4. /\ DOMAIN Copied(b, at, data, m) = 0..(n - 1)
      /\ Copied(b, at, data, m)[j] = IF d < m /\ d < Len(data) THEN data[d + 1] ELSE b.cells[j]
  BY <1>1, <1>2 DEF Copied
<1>. HIDE DEF j
<1>50. b.length = n /\ j \in 0..(n - 1) /\ at \in 0..(n - 1)
  BY <1>1, <1>2, <1>3
<1>5. d = (IF j >= at THEN j - at ELSE n + j - at)
  BY <1>50, DistanceIs
<1>. HIDE DEF d
<1>6. d = IF k >= u THEN k - u ELSE n + k - u
  <2>. DEFINE t == b.tail
  <2>1. t \in Int /\ 0 <= t /\ t < n /\ j = (IF t + k < n THEN t + k ELSE t + k - n)
        /\ at = (IF t + u < n THEN t + u ELSE t + u - n)
    BY <1>1, <1>2, <1>30
  <2>. HIDE DEF t
  <2>. QED
    BY <1>5, <2>1
<1>7. CASE u <= k
  <2>1. d = k - u /\ (d < m <=> k < u + m)
    BY <1>6, <1>7
  <2>. QED
    BY <1>4, <1>7, <2>1 DEF j, Cell
<1>8. CASE ~(u <= k)
  <2>1. ~(d < m)
    BY <1>6, <1>8
  <2>. QED
    BY <1>4, <1>8, <2>1 DEF j, Cell
<1>. QED
  BY <1>7, <1>8

\* uxStreamBufferAdd, of what there is space for
LEMMA AddIs ==
    ASSUME NEW n \in Nat \ {0}, NEW b, IsRing(b, n), NEW offset \in Nat, NEW m \in Nat,
           offset + m <= GetSpace(b), NEW data, Len(data) \in Nat
    PROVE  /\ Fits(b, offset, m) = m
           /\ IsRing(Add(b, offset, data, m), n)
           /\ GetSize(Add(b, offset, data, m)) = IF offset = 0 THEN GetSize(b) + m ELSE GetSize(b)
           /\ \A k \in 0..(n - 1) :
                 Cell(Add(b, offset, data, m), k) =
                    IF GetSize(b) + offset <= k /\ k < GetSize(b) + offset + m /\ k - (GetSize(b) + offset) < Len(data)
                    THEN data[k - (GetSize(b) + offset) + 1] ELSE Cell(b, k)
<1>. DEFINE z == GetSize(b)   u == z + offset   c == Add(b, offset, data, m)
            at == Onward(b, b.head, offset)   next == IF offset = 0 THEN Onward(b, at, m) ELSE at
<1>1. b.length = n /\ b.tail \in 0..(n - 1) /\ b.head \in 0..(n - 1) /\ DOMAIN b.cells = 0..(n - 1) /\ DOMAIN b = BufferFields
  BY DEF IsRing
<1>2. z \in 0..(n - 1) /\ GetSpace(b) = n - 1 - z /\ b.head = Onward(b, b.tail, z)
  BY RingIs
<1>3. Fits(b, offset, m) = m
  <2>1. GetSpace(b) - offset >= m /\ GetSpace(b) - offset \in Int
    BY <1>2
  <2>. QED
    BY <2>1 DEF Fits, Smaller, Positive
<1>. HIDE DEF z
<1>4. u \in 0..(n - 1) /\ u + m <= n - 1 /\ z \in 0..n /\ u \in 0..n /\ offset \in 0..n
  BY <1>2
<1>5. at = Onward(b, b.tail, u)
  <2>1. b.head = (IF b.tail + z < n THEN b.tail + z ELSE b.tail + z - n)
    BY <1>1, <1>2, <1>4, OnwardIs
  <2>2. at = (IF b.head + offset < n THEN b.head + offset ELSE b.head + offset - n)
    BY <1>1, <1>4, OnwardIs, SMTT(20)
  <2>3. Onward(b, b.tail, u) = (IF b.tail + u < n THEN b.tail + u ELSE b.tail + u - n)
    BY <1>1, <1>4, OnwardIs
  <2>. DEFINE t == b.tail   h == b.head   x == Onward(b, b.tail, u)
  <2>4. /\ t \in Int /\ 0 <= t /\ t < n /\ z \in Int /\ 0 <= z /\ offset \in Int /\ 0 <= offset
        /\ z + offset < n /\ u = z + offset
    BY <1>1, <1>4
  <2>5. /\ h = (IF t + z < n THEN t + z ELSE t + z - n)
        /\ at = (IF h + offset < n THEN h + offset ELSE h + offset - n)
        /\ x = (IF t + u < n THEN t + u ELSE t + u - n)
    BY <2>1, <2>2, <2>3
  <2>. HIDE DEF t, h, x, at, u
  <2>6. at = x
    BY <2>4, <2>5
  <2>. QED
    BY <2>6 DEF x
<1>6. at \in 0..(n - 1)
  <2>1. at = IF b.tail + u < n THEN b.tail + u ELSE b.tail + u - n
    BY <1>1, <1>4, <1>5, OnwardIs
  <2>. HIDE DEF at, u
  <2>. QED
    BY <1>1, <1>4, <2>1
<1>7. CASE m = 0
  <2>1. c = b
    BY <1>3, <1>7 DEF Add
  <2>. QED
    BY <1>2, <1>3, <1>7, <2>1 DEF z
<1>8. CASE m # 0
  <2>1. c = [b EXCEPT !.cells = Copied(b, at, data, m),
                      !.head = IF offset = 0 THEN next ELSE @,
                      !.front = IF LessThenEqual(b, @, next) THEN next ELSE @]
    BY <1>3, <1>8 DEF Add
  <2>2. /\ DOMAIN c = BufferFields /\ c.length = n /\ c.tail = b.tail /\ c.cells = Copied(b, at, data, m)
        /\ c.head = IF offset = 0 THEN next ELSE b.head
    BY <1>1, <2>1 DEF BufferFields
  <2>. HIDE DEF c
  <2>3. m \in 0..n
    BY <1>4
  <2>4. offset = 0 => next = Onward(b, b.tail, z + m) /\ next \in 0..(n - 1)
    <3>. SUFFICES ASSUME offset = 0 PROVE next = Onward(b, b.tail, z + m) /\ next \in 0..(n - 1)
      OBVIOUS
    <3>0. z + m \in 0..n
      BY <1>2, <1>4
    <3>1. at = (IF b.tail + z < n THEN b.tail + z ELSE b.tail + z - n)
      BY <1>1, <1>2, <1>4, <1>5, OnwardIs
    <3>2. next = IF at + m < n THEN at + m ELSE at + m - n
      BY <1>1, <1>6, <2>3, OnwardIs
    <3>3. Onward(b, b.tail, z + m) = (IF b.tail + (z + m) < n THEN b.tail + (z + m) ELSE b.tail + (z + m) - n)
      BY <1>1, <3>0, OnwardIs
    <3>4. z + m < n
      BY <1>2, <1>4
    <3>. HIDE DEF at, next
    <3>. DEFINE t == b.tail   x == Onward(b, b.tail, z + m)
    <3>5. t \in Int /\ 0 <= t /\ t < n /\ z \in Nat /\ z + m < n
          /\ x = (IF t + (z + m) < n THEN t + (z + m) ELSE t + (z + m) - n)
          /\ at = (IF t + z < n THEN t + z ELSE t + z - n)
      BY <1>1, <1>2, <3>1, <3>3, <3>4
    <3>. HIDE DEF t, x
    <3>6. next = x /\ next \in 0..(n - 1)
      BY <3>2, <3>5
    <3>. QED
      BY <3>6 DEF x
  <2>5. c.head \in 0..(n - 1)
    BY <1>1, <2>2, <2>4
  <2>6. 0 \in 0..(n - 1)
    OBVIOUS
  <2>7. DOMAIN Copied(b, at, data, m) = 0..(n - 1)
    BY <1>4, <1>5, <2>6, CopiedIs
  <2>8. IsRing(c, n)
    BY <1>1, <2>2, <2>5, <2>7 DEF IsRing
  <2>9. GetSize(c) = IF offset = 0 THEN z + m ELSE z
    <3>0. c.length = n /\ c.head \in 0..(n - 1) /\ c.tail \in 0..(n - 1)
      BY <1>1, <2>2, <2>5
    <3>1. GetSize(c) = (IF c.head >= c.tail THEN c.head - c.tail ELSE n + c.head - c.tail)
      BY <3>0, DistanceIs DEF GetSize
    <3>2. CASE offset = 0
      <4>1. z + m \in 0..n /\ z + m < n
        BY <1>4, <3>2
      <4>2. c.head = (IF b.tail + (z + m) < n THEN b.tail + (z + m) ELSE b.tail + (z + m) - n)
        BY <1>1, <2>2, <2>4, <3>2, <4>1, OnwardIs
      <4>. QED
        BY <1>1, <2>2, <3>1, <3>2, <4>1, <4>2
    <3>3. CASE offset # 0
      <4>1. b.head = (IF b.tail + z < n THEN b.tail + z ELSE b.tail + z - n)
        BY <1>1, <1>2, <1>4, OnwardIs
      <4>. QED
        BY <1>1, <1>2, <2>2, <3>1, <3>3, <4>1, SMTT(20)
    <3>. QED
      BY <3>2, <3>3
  <2>10. ASSUME NEW k \in 0..(n - 1)
         PROVE  Cell(c, k) = IF u <= k /\ k < u + m /\ k - u < Len(data) THEN data[k - u + 1] ELSE Cell(b, k)
    <3>1. u + m <= n
      BY <1>4
    <3>2. Copied(b, at, data, m)[Onward(b, b.tail, k)] =
             IF u <= k /\ k < u + m /\ k - u < Len(data) THEN data[k - u + 1] ELSE Cell(b, k)
      BY <1>4, <1>5, <3>1, CopiedIs
    <3>3. Onward(c, c.tail, k) = Onward(b, b.tail, k)
      BY <1>1, <2>2 DEF Onward
    <3>. QED
      BY <2>2, <3>2, <3>3 DEF Cell
  <2>. QED
    BY <1>3, <2>8, <2>9, <2>10 DEF z, c
<1>. QED
  BY <1>7, <1>8

\* uxStreamBufferGet
LEMMA GotIs ==
    ASSUME NEW n \in Nat \ {0}, NEW b, IsRing(b, n), NEW m \in Nat
    PROVE  /\ GetSize(b) > 0 /\ m > 0 => Available(b, 0, m) > 0
           /\ Available(b, 0, m) \in 0..GetSize(b) /\ Available(b, 0, m) = Smaller(GetSize(b), m)
           /\ IsRing(Got(b, m), n)
           /\ GetSize(Got(b, m)) = GetSize(b) - Available(b, 0, m)
           /\ \A k \in 0..(n - 1) : k + Available(b, 0, m) <= n - 1 =>
                 Cell(Got(b, m), k) = Cell(b, k + Available(b, 0, m))
<1>. DEFINE z == GetSize(b)   a == Available(b, 0, m)   c == Got(b, m)
<1>1. b.length = n /\ b.tail \in 0..(n - 1) /\ b.head \in 0..(n - 1) /\ DOMAIN b.cells = 0..(n - 1) /\ DOMAIN b = BufferFields
  BY DEF IsRing
<1>2. z \in 0..(n - 1) /\ b.head = Onward(b, b.tail, z)
  BY RingIs
<1>3. a = Smaller(z, m) /\ a \in 0..z /\ (z > 0 /\ m > 0 => a > 0)
  BY <1>2 DEF Available, Smaller, Positive
<1>4. c = [b EXCEPT !.tail = Onward(b, b.tail, a)]
  BY DEF Got
<1>5. /\ DOMAIN c = BufferFields /\ c.length = n /\ c.tail = Onward(b, b.tail, a) /\ c.cells = b.cells
      /\ c.head = b.head
  BY <1>1, <1>4 DEF BufferFields
<1>. HIDE DEF z, a, c
<1>6. a \in 0..n /\ z \in 0..n
  BY <1>2, <1>3
<1>70. c.tail = IF b.tail + a < n THEN b.tail + a ELSE b.tail + a - n
  BY <1>1, <1>5, <1>6, OnwardIs
<1>71. b.head = IF b.tail + z < n THEN b.tail + z ELSE b.tail + z - n
  BY <1>1, <1>2, <1>6, OnwardIs
<1>7. c.tail \in 0..(n - 1)
  BY <1>1, <1>6, <1>70
<1>8. IsRing(c, n)
  BY <1>1, <1>5, <1>7 DEF IsRing
<1>9. GetSize(c) = z - a
  <2>0. c.length = n /\ c.head \in 0..(n - 1) /\ c.tail \in 0..(n - 1)
    BY <1>1, <1>5, <1>7
  <2>1. GetSize(c) = (IF c.head >= c.tail THEN c.head - c.tail ELSE n + c.head - c.tail)
    BY <2>0, DistanceIs DEF GetSize
  <2>. DEFINE t == b.tail   v == c.tail   h == b.head
  <2>2. t \in Int /\ 0 <= t /\ t < n /\ a \in Int /\ 0 <= a /\ a <= z /\ z < n /\ z \in Int
    BY <1>1, <1>2, <1>3
  <2>3. v = (IF t + a < n THEN t + a ELSE t + a - n) /\ h = (IF t + z < n THEN t + z ELSE t + z - n)
    BY <1>70, <1>71
  <2>4. GetSize(c) = (IF h >= v THEN h - v ELSE n + h - v)
    BY <1>5, <2>1
  <2>. HIDE DEF t, v, h
  <2>5. v \in Int /\ h \in Int
    BY <2>2, <2>3
  <2>. QED
    BY <2>2, <2>3, <2>4, <2>5
<1>10. ASSUME NEW k \in 0..(n - 1), k + a <= n - 1 PROVE Cell(c, k) = Cell(b, k + a)
  <2>1. k \in 0..n /\ k + a \in 0..n
    BY <1>3, <1>10, <1>2
  <2>2. Onward(c, c.tail, k) = (IF c.tail + k < n THEN c.tail + k ELSE c.tail + k - n)
    BY <1>5, <1>7, <2>1, OnwardIs
  <2>3. Onward(b, b.tail, k + a) = (IF b.tail + (k + a) < n THEN b.tail + (k + a) ELSE b.tail + (k + a) - n)
    <3>. DEFINE l == k + a
    <3>1. l \in 0..n /\ b.length = n /\ b.tail \in 0..(n - 1)
      BY <1>1, <2>1
    <3>. HIDE DEF l
    <3>2. Onward(b, b.tail, l) = IF b.tail + l < n THEN b.tail + l ELSE b.tail + l - n
      BY <3>1, OnwardIs
    <3>. QED
      BY <3>2 DEF l
  <2>4. Onward(c, c.tail, k) = Onward(b, b.tail, k + a)
    <3>. DEFINE t == b.tail   v == c.tail   x == Onward(c, c.tail, k)   y == Onward(b, b.tail, k + a)
    <3>1. t \in Int /\ 0 <= t /\ t < n /\ a \in Nat /\ k + a < n
          /\ v = (IF t + a < n THEN t + a ELSE t + a - n)
          /\ x = (IF v + k < n THEN v + k ELSE v + k - n)
          /\ y = (IF t + (k + a) < n THEN t + (k + a) ELSE t + (k + a) - n)
      BY <1>1, <1>3, <1>70, <1>10, <2>2, <2>3, <1>2
    <3>. HIDE DEF t, v, x, y
    <3>2. x = y
      BY <3>1
    <3>. QED
      BY <3>2 DEF x, y
  <2>. QED
    BY <1>5, <2>4 DEF Cell
<1>. QED
  BY <1>3, <1>8, <1>9, <1>10 DEF z, a, c

LEMMA EmptyBufferIs ==
    ASSUME NEW n \in Nat \ {0}
    PROVE  IsRing(EmptyBuffer(n), n) /\ GetSize(EmptyBuffer(n)) = 0
<1>. DEFINE b == EmptyBuffer(n)
<1>1. /\ DOMAIN b = BufferFields /\ b.length = n /\ b.tail = 0 /\ b.head = 0 /\ DOMAIN b.cells = 0..(n - 1)
  BY DEF EmptyBuffer, BufferFields
<1>. HIDE DEF b
<1>2. 0 \in 0..(n - 1)
  OBVIOUS
<1>3. IsRing(b, n)
  BY <1>1, <1>2 DEF IsRing
<1>4. GetSize(b) = 0
  <2>1. Distance(b, 0, 0) = (IF 0 >= 0 THEN 0 - 0 ELSE n + 0 - 0)
    BY <1>1, <1>2, DistanceIs
  <2>. QED
    BY <1>1, <2>1 DEF GetSize
<1>. QED
  BY <1>3, <1>4 DEF b

-----------------------------------------------------------------------------
(* What a handler tells the tasks *)

Running == {"ESTABLISHED", "FIN_WAIT_1", "LAST_ACK"}
Over == {"CLOSED", "CLOSE_WAIT"}
Opening == {"SYN_FIRST", "SYN_RECEIVED"}

LEMMA RankIs ==
    /\ Rank["CLOSED"] = 1 /\ Rank["LISTEN"] = 2 /\ Rank["SYN_FIRST"] = 4 /\ Rank["SYN_RECEIVED"] = 5
    /\ Rank["ESTABLISHED"] = 6 /\ Rank["FIN_WAIT_1"] = 7 /\ Rank["CLOSE_WAIT"] = 9 /\ Rank["LAST_ACK"] = 11
<1>. DEFINE S == States
<1>1. /\ S[1] = "CLOSED" /\ S[2] = "LISTEN" /\ S[3] = "CONNECT_SYN" /\ S[4] = "SYN_FIRST"
      /\ S[5] = "SYN_RECEIVED" /\ S[6] = "ESTABLISHED" /\ S[7] = "FIN_WAIT_1" /\ S[8] = "FIN_WAIT_2"
      /\ S[9] = "CLOSE_WAIT" /\ S[10] = "CLOSING" /\ S[11] = "LAST_ACK" /\ S[12] = "TIME_WAIT"
  BY DEF States
<1>2. DOMAIN S = 1..12
  BY DEF States
<1>. HIDE DEF S
<1>3. ASSUME NEW i \in 1..12 PROVE \A j \in 1..12 : S[j] = S[i] => j = i
  <2>1. i \in {1, 2, 3, 4, 5, 6, 7, 8, 9, 10, 11, 12}
    OBVIOUS
  <2>2. \A j \in 1..12 : j \in {1, 2, 3, 4, 5, 6, 7, 8, 9, 10, 11, 12}
    OBVIOUS
  <2>. QED
    BY <1>1, <2>1, <2>2
<1>4. ASSUME NEW i \in 1..12 PROVE Rank[S[i]] = i
  <2>1. S[i] \in {S[j] : j \in DOMAIN S} /\ i \in DOMAIN S
    BY <1>2
  <2>2. Rank[S[i]] = CHOOSE j \in DOMAIN S : S[j] = S[i]
    BY <2>1 DEF Rank, S
  <2>. DEFINE c == CHOOSE j \in DOMAIN S : S[j] = S[i]
  <2>3. c \in DOMAIN S /\ S[c] = S[i]
    BY <2>1
  <2>. HIDE DEF c
  <2>4. c = i
    BY <1>2, <1>3, <2>3
  <2>. QED
    BY <2>2, <2>4 DEF c
<1>5. /\ 1 \in 1..12 /\ 2 \in 1..12 /\ 4 \in 1..12 /\ 5 \in 1..12 /\ 6 \in 1..12 /\ 7 \in 1..12
      /\ 9 \in 1..12 /\ 11 \in 1..12
  OBVIOUS
<1>6. /\ Rank[S[1]] = 1 /\ Rank[S[2]] = 2 /\ Rank[S[4]] = 4 /\ Rank[S[5]] = 5 /\ Rank[S[6]] = 6
      /\ Rank[S[7]] = 7 /\ Rank[S[9]] = 9 /\ Rank[S[11]] = 11
  BY <1>4, <1>5
<1>. QED
  BY <1>1, <1>6

LEMMA ConnectedIs ==
    ASSUME NEW x
    PROVE  /\ x \in Running => Connected(x)
           /\ x \in Over \cup Opening => ~Connected(x)
  BY RankIs DEF Connected, Running, Over, Opening

\* The types that the arithmetic of the transmit buffer needs
SegSet == [seq : Int, len : Int, pos : Int, sent : Int, dup : Int, acked : BOOLEAN, out : BOOLEAN]
WinSound(w) == w.segs \in Seq(SegSet) /\ w.next \in Int /\ IsFiniteSet(w.stored)
TxRing(b) == b = NoStream \/ (IsRing(b, TxLength) /\ b.mid \in Int)
RxRing(b) == b = NoStream \/ DOMAIN b = BufferFields
Sound(s) == WinSound(s.win) /\ RxRing(s.rx) /\ TxRing(s.tx)

\* Whoever waits for what changed is told: no bit is taken back, and with the
\* size of the receive buffer, the space of the transmit buffer, the client that
\* is to be accepted and the end of the connection comes the bit for it.
Alerts(s) == s.group \cup s.bits
SizeOf(s) == IF s.rx = NoStream THEN 0 ELSE GetSize(s.rx)
Tells(r, s) ==
    /\ Alerts(s) \subseteq Alerts(r)
    /\ r.passAccept => s.passAccept \/ ("ACCEPT" \in Alerts(r) /\ r.state \in Running \cup Over)
    /\ SizeOf(r) # SizeOf(s) => "RECEIVE" \in Alerts(r)
    /\ s.state \in Running => r.state \in Running \/ (r.state \in Over /\ "CLOSED" \in Alerts(r))
    /\ s.state \in Over => r.state \in Over
    /\ r.tx = NoStream <=> s.tx = NoStream
    /\ GetSpace(r.tx) # GetSpace(s.tx) => "SEND" \in Alerts(r)
Goes(r, s) == IsSock(s) /\ Sound(s) => IsSock(r) /\ Sound(r) /\ Tells(r, s)

LEMMA TellsThen ==
    ASSUME NEW q, NEW r, NEW s, Tells(r, s), Tells(q, r)
    PROVE  Tells(q, s)
  BY DEF Tells

LEMMA GoesThen ==
    ASSUME NEW q, NEW r, NEW s, Goes(r, s), Goes(q, r)
    PROVE  Goes(q, s)
  BY TellsThen DEF Goes

LEMMA GoesNone ==
    ASSUME NEW s
    PROVE  Goes(s, s)
  BY DEF Goes, Tells

OfTelling == {"state", "bits", "group", "passAccept", "rx", "tx"}
OfSound == {"segs", "next", "stored"}

LEMMA SameTells ==
    ASSUME NEW r, NEW s, r.state = s.state, r.bits = s.bits, r.group = s.group,
           r.passAccept = s.passAccept, r.rx = s.rx, r.tx = s.tx
    PROVE  Tells(r, s)
  BY DEF Tells, Alerts, SizeOf

LEMMA QuietGoes ==
    ASSUME NEW r, NEW s, NEW S, NEW W, Changes(r, s, S, W), S \cap OfTelling = {}, W \cap OfSound = {}
    PROVE  Goes(r, s)
<1>1. \A f \in OfTelling : r[f] = s[f]
  BY DEF Changes, OfTelling, Fields
<1>2. \A f \in OfSound : r.win[f] = s.win[f]
  BY DEF Changes, WinChanges, OfSound, WinFields
<1>3. IsSock(r)
  BY DEF Changes
<1>4. r.state = s.state /\ r.bits = s.bits /\ r.group = s.group /\ r.passAccept = s.passAccept
      /\ r.rx = s.rx /\ r.tx = s.tx
  BY <1>1 DEF OfTelling
<1>5. r.win.segs = s.win.segs /\ r.win.next = s.win.next /\ r.win.stored = s.win.stored
  BY <1>2 DEF OfSound
<1>6. Tells(r, s)
  BY <1>4, SameTells
<1>7. Sound(s) => Sound(r)
  BY <1>4, <1>5 DEF Sound, WinSound
<1>. QED
  BY <1>3, <1>6, <1>7 DEF Goes

LEMMA WakeUpUserGoes ==
    ASSUME NEW s
    PROVE  Goes(WakeUpUser(s), s)
<1>. SUFFICES ASSUME IsSock(s), Sound(s)
              PROVE  IsSock(WakeUpUser(s)) /\ Sound(WakeUpUser(s)) /\ Tells(WakeUpUser(s), s)
  BY DEF Goes
<1>. DEFINE r == WakeUpUser(s)
<1>1. Changes(r, s, {"group", "bits"}, {})
  BY WakeUpUserChanges
<1>2. r.group = s.group \cup s.bits /\ r.bits = {}
  BY DEF WakeUpUser, IsSock, Fields
<1>. HIDE DEF r
<1>3. IsSock(r) /\ r.win.segs = s.win.segs /\ r.win.next = s.win.next /\ r.win.stored = s.win.stored
      /\ r.state = s.state /\ r.passAccept = s.passAccept /\ r.rx = s.rx /\ r.tx = s.tx
  BY <1>1 DEF Changes, WinChanges, Fields, WinFields
<1>4. Sound(r)
  BY <1>3 DEF Sound, WinSound
<1>5. Alerts(r) = Alerts(s)
  BY <1>2 DEF Alerts
<1>6. Tells(r, s)
  BY <1>3, <1>5 DEF Tells, SizeOf
<1>. QED
  BY <1>3, <1>4, <1>6 DEF r

Entered == Running \cup Over \cup Opening
MayEnter(s, x) == /\ x \in Entered
                  /\ x \in Running => s.state \notin Over
                  /\ x \in Opening => s.state \notin Running \cup Over

LEMMA StateChangeGoes ==
    ASSUME NEW s, NEW x, MayEnter(s, x)
    PROVE  Goes(StateChange(s, x), s)
<1>. SUFFICES ASSUME IsSock(s), Sound(s)
              PROVE  IsSock(StateChange(s, x)) /\ Sound(StateChange(s, x)) /\ Tells(StateChange(s, x), s)
  BY DEF Goes
<1>. DEFINE r == StateChange(s, x)
<1>1. Changes(r, s, OfState, {}) /\ r.state = x
  BY StateChangeChanges
<1>2. /\ Alerts(s) \subseteq Alerts(r)
      /\ Connected(s.state) /\ ~Connected(x) => "CLOSED" \in Alerts(r)
      /\ r.passAccept => s.passAccept \/ (Connected(x) /\ "ACCEPT" \in Alerts(r))
  <2>1. CASE Connected(s.state) = Connected(x)
    BY <2>1 DEF StateChange, IsSock, Fields, Alerts
  <2>2. CASE Connected(s.state) # Connected(x) /\ ~Connected(x)
    BY <2>2 DEF StateChange, IsSock, Fields, Alerts
  <2>3. CASE Connected(s.state) # Connected(x) /\ Connected(x)
    BY <2>3 DEF StateChange, WakeUpUser, IsSock, Fields, Alerts
  <2>. QED
    BY <2>1, <2>2, <2>3
<1>. HIDE DEF r
<1>3. IsSock(r) /\ r.win.segs = s.win.segs /\ r.win.next = s.win.next /\ r.win.stored = s.win.stored
      /\ r.rx = s.rx /\ r.tx = s.tx
  BY <1>1 DEF Changes, WinChanges, Fields, WinFields, OfState
<1>4. Sound(r)
  BY <1>3 DEF Sound, WinSound
<1>5. /\ Connected(x) => x \in Running
      /\ s.state \in Running => Connected(s.state)
      /\ x \in Over => ~Connected(x)
  BY ConnectedIs DEF MayEnter, Entered
<1>6. r.passAccept => s.passAccept \/ ("ACCEPT" \in Alerts(r) /\ r.state \in Running \cup Over)
  BY <1>1, <1>2, <1>5
<1>7. s.state \in Running => r.state \in Running \/ (r.state \in Over /\ "CLOSED" \in Alerts(r))
  BY <1>1, <1>2, <1>5 DEF MayEnter, Entered
<1>8. s.state \in Over => r.state \in Over
  BY <1>1 DEF MayEnter, Entered
<1>9. Tells(r, s)
  BY <1>2, <1>3, <1>6, <1>7, <1>8 DEF Tells, SizeOf
<1>. QED
  BY <1>3, <1>4, <1>9 DEF r

-----------------------------------------------------------------------------
(* The segments keep their types *)

LEMMA MapIsSeq ==
    ASSUME NEW X, NEW g \in Seq(X), NEW h, DOMAIN h = DOMAIN g, \A i \in DOMAIN g : h[i] \in X,
           h = [i \in DOMAIN h |-> h[i]]
    PROVE  h \in Seq(X) /\ Len(h) = Len(g)
  OBVIOUS

LEMMA MarkedIs ==
    ASSUME NEW g \in SegSet, NEW seq
    PROVE  Marked(g, seq) \in SegSet /\ Late(g, seq) \in SegSet
<1>. DEFINE h == [g EXCEPT !.out = TRUE, !.sent = @ + 1]   e == [g EXCEPT !.dup = 0]
<1>1. e \in SegSet
  BY DEF SegSet
<1>3. h \in SegSet
  <2>. DEFINE y == g.sent + 1
  <2>1. y \in Int /\ h = [g EXCEPT !.out = TRUE, !.sent = y]
    BY DEF SegSet
  <2>. HIDE DEF y, h
  <2>2. [g EXCEPT !.out = TRUE, !.sent = y] \in SegSet
    BY <2>1 DEF SegSet
  <2>. QED
    BY <2>1, <2>2
<1>2. Marked(g, seq) \in {h, g} /\ Late(g, seq) \in {e, g}
  BY DEF Marked, Late
<1>. QED
  BY <1>1, <1>2, <1>3

LEMMA SendingSound ==
    ASSUME NEW w, IsWin(w), WinSound(w), NEW seq
    PROVE  WinSound(Sending(w, seq))
<1>. DEFINE h == [i \in DOMAIN w.segs |-> Marked(w.segs[i], seq)]
            v == Sending(w, seq)
<1>1. WinChanges(v, w, {"segs", "wait", "our", "txWindow"}) /\ v.segs = h
  BY SendingChanges DEF Sending, IsWin, WinFields
<1>2. h \in Seq(SegSet)
  <2>1. \A i \in DOMAIN w.segs : h[i] \in SegSet
    BY MarkedIs DEF WinSound
  <2>2. DOMAIN h = DOMAIN w.segs /\ h = [i \in DOMAIN h |-> h[i]]
    OBVIOUS
  <2>. HIDE DEF h
  <2>. QED
    BY <2>1, <2>2, MapIsSeq DEF WinSound
<1>. HIDE DEF h, v
<1>3. v.next = w.next /\ v.stored = w.stored
  BY <1>1 DEF WinChanges, WinFields
<1>. QED
  BY <1>1, <1>2, <1>3 DEF WinSound, v

LEMMA TxGetSound ==
    ASSUME NEW w, IsWin(w), WinSound(w), NEW window, NEW late
    PROVE  WinSound(TxGet(w, window, late).w)
<1>. DEFINE v == GetNow(w)
            a == GetPrio(v)
            b == GetAgain(v)
            d == GetNew(v)
            x == Head(v.prio)   y == Head(v.wait)   z == Seg(v, Head(v.txq)).seq
<1>1. IsWin(v) /\ WinSound(v)
  BY DEF GetNow, IsWin, WinFields, WinSound
<1>2. IsWin(a) /\ WinSound(a) /\ IsWin(d) /\ WinSound(d) /\ IsWin(b)
  <2>. HIDE DEF v
  <2>. QED
    BY <1>1 DEF GetPrio, GetNew, GetAgain, IsWin, WinFields, WinSound
<1>3. WinSound(b)
  <2>. HIDE DEF v
  <2>. DEFINE h == [i \in DOMAIN v.segs |-> Late(v.segs[i], Head(v.wait))]
  <2>1. \A i \in DOMAIN v.segs : h[i] \in SegSet
    BY <1>1, MarkedIs DEF WinSound
  <2>2. DOMAIN h = DOMAIN v.segs /\ h = [i \in DOMAIN h |-> h[i]]
    OBVIOUS
  <2>3. b.segs = h /\ b.next = v.next /\ b.stored = v.stored
    BY <1>1 DEF GetAgain, IsWin, WinFields
  <2>. HIDE DEF h, b
  <2>4. h \in Seq(SegSet)
    BY <1>1, <2>1, <2>2, MapIsSeq DEF WinSound
  <2>. QED
    BY <1>1, <2>3, <2>4 DEF WinSound
<1>4. TxGet(w, window, late).w \in {Sending(a, x), Sending(b, y), Sending(d, z), v}
  BY TxGetIs
<1>. HIDE DEF v, a, b, d, x, y, z
<1>. QED
  BY <1>1, <1>2, <1>3, <1>4, SendingSound

LEMMA PlusInt ==
    ASSUME NEW a \in Int, NEW x \in Int
    PROVE  Plus(a, x) \in Int
  BY PlusIn, SpaceIs

\* A segment that is added has a number, a length and a place.
LEMMA AddNewSound ==
    ASSUME NEW w, NEW n, NEW position, NEW length \in Nat \ {0}, NEW i \in 1..AddCount(w, n),
           w.next \in Int, n \in Int, position \in Int, AddFill(w, n) \in Int, AddCount(w, n) \in Int
    PROVE  AddNew(w, n, position, length)[i] \in SegSet
<1>. DEFINE fill == AddFill(w, n)
            t == (i - 1) * MSS   u == fill + t   v == position + fill + t
            r == AddRest(w, n, i)   x == Plus(w.next, u)   y == IF r < MSS THEN r ELSE MSS
            z == v % length
<1>1. AddNew(w, n, position, length)[i] = [seq |-> x, len |-> y, pos |-> z,
                  sent |-> 0, dup |-> 0, acked |-> FALSE, out |-> FALSE]
  BY DEF AddNew
<1>2. r = n - fill - t
  BY DEF AddRest
<1>3. MSS \in Int /\ t \in Int
  BY WindowAssumption
<1>. HIDE DEF t, r, fill
<1>4. u \in Int /\ v \in Int /\ r \in Int
  BY <1>2, <1>3 DEF fill
<1>. HIDE DEF u, v
<1>5. x \in Int
  BY <1>4, PlusInt
<1>6. y \in Int
  BY <1>3, <1>4
<1>7. z \in Int
  BY <1>4, ModIn
<1>. HIDE DEF x, y, z
<1>. QED
  BY <1>1, <1>5, <1>6, <1>7 DEF SegSet

LEMMA AddSound ==
    ASSUME NEW w, IsWin(w), WinSound(w), NEW n \in Int, NEW position \in Int, NEW length \in Nat \ {0}
    PROVE  WinSound(TxAdd(w, n, position, length).w) /\ TxAdd(w, n, position, length).done \in Int
<1>. DEFINE at == AddAt(w)   fill == AddFill(w, n)   k == AddCount(w, n)   m == AddWanted(w, n)
            f == AddFilled(w, n)   new == AddNew(w, n, position, length)
<1>0. MSS \in Nat \ {0} /\ SegCount \in Nat
  BY WindowAssumption
<1>1. AddEnds(w) # {} => at \in DOMAIN w.segs /\ w.segs[at] \in SegSet
  <2>1. AddEnds(w) \subseteq DOMAIN w.segs /\ \A i \in DOMAIN w.segs : w.segs[i] \in SegSet
    BY DEF AddEnds, WinSound
  <2>2. AddEnds(w) # {} => at \in AddEnds(w)
    BY DEF AddAt
  <2>. HIDE DEF at
  <2>. QED
    BY <2>1, <2>2
<1>2. fill \in Int
  <2>. HIDE DEF at
  <2>1. AddEnds(w) # {} => w.segs[at].len \in Int
    BY <1>1 DEF SegSet
  <2>. QED
    BY <1>0, <2>1 DEF AddFill, at
<1>3. IsWin(f) /\ f.next \in Int /\ f.stored = w.stored /\ f.segs \in Seq(SegSet)
  <2>1. CASE AddEnds(w) # {}
    <3>. HIDE DEF at, fill
    <3>1. f = [w EXCEPT !.segs[at].len = @ + fill]
      BY <2>1 DEF AddFilled, at, fill
    <3>. HIDE DEF f
    <3>2. IsWin(f) /\ f.next = w.next /\ f.stored = w.stored /\ f.segs = [w.segs EXCEPT ![at].len = @ + fill]
      BY <3>1 DEF IsWin, WinFields
    <3>. DEFINE g == [w.segs[at] EXCEPT !.len = @ + fill]
    <3>3. g \in SegSet
      BY <1>1, <1>2, <2>1 DEF SegSet
    <3>4. f.segs = [w.segs EXCEPT ![at] = g]
      BY <3>2
    <3>. HIDE DEF g
    <3>5. [w.segs EXCEPT ![at] = g] \in Seq(SegSet)
      BY <1>1, <2>1, <3>3 DEF WinSound
    <3>. QED
      BY <3>2, <3>4, <3>5 DEF WinSound
  <2>2. CASE ~(AddEnds(w) # {})
    BY <2>2 DEF AddFilled, WinSound
  <2>. QED
    BY <2>1, <2>2
<1>4. m \in Int /\ k \in Int
  <2>1. m \in Int
    <3>. HIDE DEF fill
    <3>. DEFINE u == n - fill + MSS - 1
    <3>1. u \in Int
      BY <1>0, <1>2
    <3>2. m = u \div MSS
      BY DEF AddWanted, fill
    <3>. HIDE DEF u
    <3>. QED
      BY <1>0, <3>1, <3>2
  <2>2. FreeSegments(w) \in Int
    <3>1. Cardinality(w.stored) \in Nat /\ Len(w.segs) \in Nat
      BY FS_CardinalityType DEF WinSound
    <3>. QED
      BY <1>0, <3>1 DEF FreeSegments
  <2>. QED
    BY <2>1, <2>2 DEF AddCount
<1>5. ASSUME NEW i \in 1..k PROVE new[i] \in SegSet
  BY <1>2, <1>4, AddNewSound DEF WinSound
<1>6. AddSegs(w, n, position, length) \in Seq(SegSet)
  <2>1. new = [i \in 1..k |-> new[i]] /\ DOMAIN new = 1..k
    BY DEF AddNew
  <2>. HIDE DEF new, k, f
  <2>2. new \in Seq(SegSet)
    <3>1. CASE k >= 0
      BY <1>4, <1>5, <2>1, <3>1
    <3>2. CASE k < 0
      <4>1. 1..k = {}
        BY <1>4, <3>2
      <4>2. new = <<>>
        BY <2>1, <4>1
      <4>. QED
        BY <4>2
    <3>. QED
      BY <1>4, <3>1, <3>2
  <2>3. f.segs \o new \in Seq(SegSet)
    BY <1>3, <2>2
  <2>. QED
    BY <2>3 DEF AddSegs, f, new
<1>7. AddDone(w, n) \in Int
  <2>. DEFINE t == k * MSS
  <2>1. t \in Int
    BY <1>0, <1>4
  <2>2. AddDone(w, n) = fill + (IF k = m THEN n - fill ELSE t)
    BY Zenon DEF AddDone
  <2>. HIDE DEF t, k, fill, m
  <2>3. CASE k = m
    BY <1>2, <2>2, <2>3
  <2>4. CASE k # m
    BY <1>2, <2>1, <2>2, <2>4
  <2>. QED
    BY <2>3, <2>4
<1>8. AddNext(w, n) \in Int
  <2>. HIDE DEF f
  <2>1. Plus(f.next, AddDone(w, n)) \in Int
    BY <1>3, <1>7, PlusInt
  <2>. QED
    BY <2>1 DEF AddNext, f
<1>9. WinChanges(TxAdd(w, n, position, length).w, w, OfAdd)
      /\ TxAdd(w, n, position, length).done = AddDone(w, n)
      /\ TxAdd(w, n, position, length).w.segs = AddSegs(w, n, position, length)
      /\ TxAdd(w, n, position, length).w.next = AddNext(w, n)
  BY TxAddIs
<1>10. TxAdd(w, n, position, length).w.stored = w.stored
  BY <1>9 DEF WinChanges, WinFields, OfAdd
<1>. QED
  BY <1>6, <1>7, <1>8, <1>9, <1>10 DEF WinSound

-----------------------------------------------------------------------------
(* Acknowledgements keep the types of the segments *)

CheckBegun(w, first) == [at |-> first, on |-> TRUE, cur |-> w.txCur, n |-> 0,
                         segs |-> <<>>, gone |-> {}]
CheckedAll(w, a) ==
    [w EXCEPT !.segs = a.segs, !.txCur = a.cur, !.prio = Without(@, a.gone),
              !.txq = Without(@, a.gone), !.wait = Without(@, a.gone)]

\* The loop of CheckAck
LEMMA CheckLoop ==
    ASSUME NEW w, Len(w.segs) \in Nat, NEW first, NEW last
    PROVE  \E f : /\ CheckAck(w, first, last).n = f[Len(w.segs)].n
                 /\ CheckAck(w, first, last).w = CheckedAll(w, f[Len(w.segs)])
                 /\ DOMAIN f = 0..Len(w.segs)
                 /\ \A i \in 0..Len(w.segs) :
                       f[i] = IF i = 0 THEN CheckBegun(w, first) ELSE Checked(f[i - 1], w.segs[i], last)
<1>. DEFINE Turn(i, x) == Checked(x, w.segs[i], last)
            Up(m, f) == f = [i \in 0..m |-> IF i = 0 THEN CheckBegun(w, first) ELSE Turn(i, f[i - 1])]
            T == {m \in Nat : \E f : Up(m, f)}
<1>1. Len(w.segs) \in Nat
  OBVIOUS
<1>2. 0 \in T
  <2>. DEFINE f == [i \in 0..0 |-> CheckBegun(w, first)]
  <2>. HIDE DEF Turn
  <2>1. Up(0, f)
    OBVIOUS
  <2>. HIDE DEF f, Up
  <2>. QED
    BY <2>1
<1>3. ASSUME NEW m \in T PROVE m + 1 \in T
  <2>1. PICK f : Up(m, f)
    BY <1>3
  <2>. DEFINE g == [i \in 0..(m + 1) |-> IF i = m + 1 THEN Turn(i, f[m]) ELSE f[i]]
  <2>. HIDE DEF Turn
  <2>2. m \in Nat /\ m + 1 \in Nat
    BY <1>3
  <2>3. ASSUME NEW i \in 0..(m + 1)
        PROVE  g[i] = IF i = 0 THEN CheckBegun(w, first) ELSE Turn(i, g[i - 1])
    <3>1. CASE i = m + 1
      <4>1. i # 0 /\ i - 1 = m /\ m # m + 1 /\ m \in 0..(m + 1)
        BY <2>2, <3>1
      <4>2. g[i] = Turn(i, f[m]) /\ g[i - 1] = f[m]
        BY <3>1, <4>1
      <4>. QED
        BY <4>1, <4>2
    <3>2. CASE i # m + 1
      <4>1. i \in 0..m /\ (i # 0 => i - 1 \in 0..(m + 1) /\ i - 1 # m + 1)
        BY <2>2, <3>2
      <4>2. g[i] = f[i] /\ (i # 0 => g[i - 1] = f[i - 1])
        BY <3>2, <4>1
      <4>3. f[i] = IF i = 0 THEN CheckBegun(w, first) ELSE Turn(i, f[i - 1])
        BY <2>1, <4>1
      <4>. QED
        BY <4>2, <4>3
    <3>. QED
      BY <3>1, <3>2
  <2>4. Up(m + 1, g)
    <3>1. g = [i \in 0..(m + 1) |-> g[i]]
      OBVIOUS
    <3>. HIDE DEF g
    <3>. QED
      BY <2>3, <3>1
  <2>. HIDE DEF g, Up
  <2>. QED
    BY <2>2, <2>4
<1>4. T = Nat
  <2>. HIDE DEF Up
  <2>1. T \subseteq Nat
    OBVIOUS
  <2>. HIDE DEF T
  <2>. QED
    BY <1>2, <1>3, <2>1, Induction
<1>5. \E f : Up(Len(w.segs), f)
  <2>1. Len(w.segs) \in T
    BY <1>1, <1>4
  <2>. HIDE DEF Up
  <2>. QED
    BY <2>1
<1>. DEFINE after[i \in 0..Len(w.segs)] == IF i = 0 THEN CheckBegun(w, first) ELSE Checked(after[i - 1], w.segs[i], last)
<1>6. after = [i \in 0..Len(w.segs) |-> IF i = 0 THEN CheckBegun(w, first) ELSE Checked(after[i - 1], w.segs[i], last)]
  BY <1>5, Zenon
<1>. DEFINE a == after[Len(w.segs)]
<1>7. CheckAck(w, first, last).n = a.n /\ CheckAck(w, first, last).w = CheckedAll(w, a)
  BY DEF CheckAck, CheckBegun, CheckedAll
<1>. HIDE DEF after
<1>8. DOMAIN after = 0..Len(w.segs) /\ \A i \in 0..Len(w.segs) : after[i] = IF i = 0 THEN CheckBegun(w, first) ELSE Checked(after[i - 1], w.segs[i], last)
  BY <1>6, Zenon
<1>. QED
  BY <1>7, <1>8, Zenon DEF a

IsCheck(a) == /\ DOMAIN a = {"at", "on", "cur", "n", "segs", "gone"}
              /\ a.segs \in Seq(SegSet) /\ a.n \in Int

LEMMA CheckedSound ==
    ASSUME NEW a, IsCheck(a), NEW g \in SegSet, NEW last
    PROVE  IsCheck(Checked(a, g, last))
<1>. DEFINE kept  == [a EXCEPT !.segs = Append(@, g)]
            after == [a EXCEPT !.at = Plus(@, g.len), !.gone = @ \cup {g.seq}]
            over  == [kept EXCEPT !.on = FALSE]
            first == [after EXCEPT !.cur = Plus(@, g.len), !.n = @ + g.len]
            h == [g EXCEPT !.acked = TRUE]
            then  == [after EXCEPT !.segs = Append(@, h)]
<1>1. IsCheck(kept)
  BY DEF IsCheck
<1>2. IsCheck(over)
  <2>. HIDE DEF kept
  <2>. QED
    BY <1>1 DEF IsCheck
<1>3. IsCheck(after)
  BY DEF IsCheck
<1>4. IsCheck(first)
  <2>1. g.len \in Int
    BY DEF SegSet
  <2>. HIDE DEF after
  <2>. QED
    BY <1>3, <2>1 DEF IsCheck
<1>5. IsCheck(then)
  <2>1. h \in SegSet
    BY DEF SegSet
  <2>. HIDE DEF after, h
  <2>. QED
    BY <1>3, <2>1 DEF IsCheck
<1>6. Checked(a, g, last) \in {kept, over, first, then}
  BY DEF Checked
<1>. HIDE DEF kept, over, first, then
<1>. QED
  BY <1>1, <1>2, <1>4, <1>5, <1>6

LEMMA CheckAckSound ==
    ASSUME NEW w, IsWin(w), WinSound(w), NEW first, NEW last
    PROVE  WinSound(CheckAck(w, first, last).w) /\ CheckAck(w, first, last).n \in Int
<1>. DEFINE n == Len(w.segs)
<1>1. n \in Nat /\ \A i \in 1..n : w.segs[i] \in SegSet
  BY DEF WinSound
<1>2. PICK f : /\ CheckAck(w, first, last).n = f[n].n
               /\ CheckAck(w, first, last).w = CheckedAll(w, f[n])
               /\ DOMAIN f = 0..n
               /\ \A i \in 0..n :
                     f[i] = IF i = 0 THEN CheckBegun(w, first) ELSE Checked(f[i - 1], w.segs[i], last)
  BY <1>1, CheckLoop
<1>. DEFINE T == {i \in Nat : i <= n => IsCheck(f[i])}
<1>3. 0 \in T
  <2>1. f[0] = CheckBegun(w, first)
    BY <1>1, <1>2
  <2>2. IsCheck(CheckBegun(w, first))
    BY DEF CheckBegun, IsCheck
  <2>. QED
    BY <2>1, <2>2
<1>. HIDE DEF n
<1>4. ASSUME NEW i \in T PROVE i + 1 \in T
  <2>. SUFFICES ASSUME i + 1 <= n
                PROVE  IsCheck(f[i + 1])
    OBVIOUS
  <2>1. i \in Nat /\ i + 1 \in 0..n /\ i + 1 \in 1..n /\ i + 1 # 0 /\ (i + 1) - 1 = i /\ i <= n
    BY <1>1, <1>4
  <2>2. f[i + 1] = Checked(f[i], w.segs[i + 1], last)
    <3>1. f[i + 1] = Checked(f[(i + 1) - 1], w.segs[i + 1], last)
      BY <1>2, <2>1
    <3>. QED
      BY <2>1, <3>1
  <2>. DEFINE g == w.segs[i + 1]
  <2>3. IsCheck(f[i]) /\ g \in SegSet
    BY <1>1, <1>4, <2>1
  <2>. HIDE DEF g
  <2>4. IsCheck(Checked(f[i], g, last))
    BY <2>3, CheckedSound
  <2>. QED
    BY <2>2, <2>4 DEF g
<1>5. T = Nat
  <2>1. T \subseteq Nat
    OBVIOUS
  <2>. HIDE DEF T
  <2>. QED
    BY <1>3, <1>4, <2>1, Induction
<1>6. IsCheck(f[n])
  <2>1. n \in T
    BY <1>1, <1>5
  <2>. QED
    BY <1>1, <2>1
<1>. DEFINE a == f[n]   v == CheckedAll(w, a)
<1>. HIDE DEF a
<1>7. v.segs = a.segs /\ v.next = w.next /\ v.stored = w.stored
  BY DEF CheckedAll, IsWin, WinFields
<1>. HIDE DEF v
<1>8. WinSound(v)
  BY <1>6, <1>7 DEF WinSound, IsCheck, a
<1>. QED
  BY <1>2, <1>6, <1>8 DEF IsCheck, a, v

LEMMA TxAckSound ==
    ASSUME NEW w, IsWin(w), WinSound(w), NEW ack
    PROVE  WinSound(TxAck(w, ack).w) /\ TxAck(w, ack).n \in Int
<1>1. WinSound(CheckAck(w, w.txCur, ack).w) /\ CheckAck(w, w.txCur, ack).n \in Int
  BY CheckAckSound
<1>. QED
  BY <1>1 DEF TxAck

\* A segment that was passed over
Passed(w, g, first) == ~g.acked /\ Less(g.seq, first) /\ g.seq \in ToSet(w.wait)
Counted(w, g, first) ==
    IF ~Passed(w, g, first) THEN g
    ELSE [g EXCEPT !.dup = IF @ > DuplicateAcks THEN @ ELSE @ + 1,
                   !.sent = IF g.dup + 1 = DuplicateAcks THEN 0 ELSE @]

LEMMA CountedIs ==
    ASSUME NEW w, NEW g \in SegSet, NEW first
    PROVE  Counted(w, g, first) \in SegSet
<1>. DEFINE x == IF g.dup > DuplicateAcks THEN g.dup ELSE g.dup + 1
            y == IF g.dup + 1 = DuplicateAcks THEN 0 ELSE g.sent
            h == [g EXCEPT !.dup = x, !.sent = y]
<1>1. x \in Int /\ y \in Int
  BY DEF SegSet
<1>2. Counted(w, g, first) \in {g, h}
  BY Zenon DEF Counted
<1>. HIDE DEF x, y
<1>3. h \in SegSet
  BY <1>1 DEF SegSet
<1>. HIDE DEF h
<1>. QED
  BY <1>2, <1>3

LEMMA TxSackSound ==
    ASSUME NEW w, IsWin(w), WinSound(w), NEW first, NEW last
    PROVE  WinSound(TxSack(w, first, last).w) /\ TxSack(w, first, last).n \in Int
<1>. DEFINE a == CheckAck(w, first, last)   v == FastRetransmit(a.w, first)
            h == [i \in DOMAIN a.w.segs |-> Counted(a.w, a.w.segs[i], first)]
<1>1. WinChanges(a.w, w, OfAck) /\ WinSound(a.w) /\ a.n \in Int
  BY CheckAckChanges, CheckAckSound
<1>2. TxSack(w, first, last).w = v /\ TxSack(w, first, last).n = a.n
  <2>1. a = [n |-> a.n, w |-> a.w]
    BY DEF CheckAck
  <2>2. TxSack(w, first, last) = [a EXCEPT !.w = FastRetransmit(@, first)]
    BY DEF TxSack
  <2>. HIDE DEF a
  <2>. QED
    BY <2>1, <2>2
<1>. HIDE DEF a
<1>3. v.segs = h /\ v.next = a.w.next /\ v.stored = a.w.stored
  BY <1>1 DEF FastRetransmit, Counted, Passed, WinChanges, IsWin, WinFields
<1>. HIDE DEF v
<1>4. h \in Seq(SegSet)
  <2>1. \A i \in DOMAIN a.w.segs : h[i] \in SegSet
    BY <1>1, CountedIs DEF WinSound
  <2>2. DOMAIN h = DOMAIN a.w.segs /\ h = [i \in DOMAIN h |-> h[i]]
    OBVIOUS
  <2>. HIDE DEF h
  <2>. QED
    BY <1>1, <2>1, <2>2, MapIsSeq DEF WinSound
<1>. QED
  BY <1>1, <1>2, <1>3, <1>4 DEF WinSound

-----------------------------------------------------------------------------
(* ...and received segments stay finitely many *)

LEMMA RunLeft ==
    ASSUME NEW start, NEW S, IsFiniteSet(S)
    PROVE  RunFrom(start, S).left \subseteq S
<1>. DEFINE n == Cardinality(S)
<1>1. n \in Nat
  BY FS_CardinalityType
<1>2. PICK f : /\ RunFrom(start, S) = f[n] /\ DOMAIN f = 0..n
               /\ \A i \in 0..n : f[i] = IF i = 0 THEN [end |-> start, left |-> S] ELSE Joined(f[i - 1])
  BY <1>1, RunLoop
<1>. HIDE DEF n
<1>. DEFINE T == {i \in Nat : i <= n => f[i].left \subseteq S}
<1>3. 0 \in T
  BY <1>1, <1>2
<1>4. ASSUME NEW i \in T PROVE i + 1 \in T
  <2>. SUFFICES ASSUME i + 1 <= n
                PROVE  f[i + 1].left \subseteq S
    OBVIOUS
  <2>1. i \in Nat /\ i + 1 \in 0..n /\ i + 1 # 0 /\ (i + 1) - 1 = i /\ i <= n
    BY <1>1, <1>4
  <2>2. f[i + 1] = Joined(f[i])
    <3>1. f[i + 1] = Joined(f[(i + 1) - 1])
      BY <1>2, <2>1
    <3>. QED
      BY <2>1, <3>1
  <2>. DEFINE a == f[i]
  <2>3. a.left \subseteq S
    BY <1>4, <2>1
  <2>. HIDE DEF a
  <2>4. Joined(a).left \subseteq a.left
    BY DEF Joined
  <2>. QED
    BY <2>2, <2>3, <2>4 DEF a
<1>5. T = Nat
  <2>1. T \subseteq Nat
    OBVIOUS
  <2>. HIDE DEF T
  <2>. QED
    BY <1>3, <1>4, <2>1, Induction
<1>6. n \in T
  BY <1>1, <1>5
<1>. QED
  BY <1>1, <1>2, <1>6

LEMMA RxCheckSound ==
    ASSUME NEW w, IsWin(w), WinSound(w), NEW seq, NEW len, NEW space
    PROVE  WinSound(RxCheck(w, seq, len, space).w)
<1>. DEFINE v == [w EXCEPT !.opt = <<>>, !.userData = 0]   c == Confirm(v, seq, len)
            r == RxCheck(w, seq, len, space).w
<1>1. IsWin(v) /\ v.stored = w.stored /\ IsFiniteSet(v.stored)
  BY DEF IsWin, WinFields, WinSound
<1>2. r \in {InOrder(v, seq, len, space).w, TooEarly(v, seq, len, space).w, Refused(v).w}
  BY DEF RxCheck, v
<1>3. WinChanges(r, w, OfCheck)
  BY RxCheckChanges
<1>. HIDE DEF v, r
<1>4. c.left \subseteq v.stored
  BY DEF Confirm
<1>5. RunFrom(c.end, c.left).left \subseteq v.stored
  <2>1. IsFiniteSet(c.left)
    BY <1>1, <1>4, FS_Subset
  <2>. HIDE DEF c
  <2>. QED
    BY <1>4, <2>1, RunLeft
<1>6. InOrder(v, seq, len, space).w.stored \in {v.stored, RunFrom(c.end, c.left).left}
  BY <1>1 DEF InOrder, Refused, IsWin, WinFields
<1>7. TooEarly(v, seq, len, space).w.stored \in {v.stored, v.stored \cup {[seq |-> seq, len |-> len]}}
  BY <1>1 DEF TooEarly, Refused, IsWin, WinFields
<1>8. Refused(v).w.stored = v.stored
  BY DEF Refused
<1>9. IsFiniteSet(r.stored)
  <2>1. IsFiniteSet(RunFrom(c.end, c.left).left)
    BY <1>1, <1>5, FS_Subset
  <2>2. IsFiniteSet(v.stored \cup {[seq |-> seq, len |-> len]})
    BY <1>1, FS_AddElement
  <2>. HIDE DEF c
  <2>. QED
    BY <1>1, <1>2, <1>6, <1>7, <1>8, <2>1, <2>2
<1>10. r.segs = w.segs /\ r.next = w.next
  BY <1>3 DEF WinChanges, WinFields, OfCheck
<1>. QED
  BY <1>9, <1>10 DEF WinSound, r

-----------------------------------------------------------------------------
(* The buffers and what is told of them *)

LEMMA TxLengthIs == TxLength \in Nat \ {0} /\ RxLength \in Nat \ {0}
  BY SocketAssumption

LEMMA WinGoes ==
    ASSUME NEW r, NEW s, NEW S, NEW W, Changes(r, s, S, W), S \cap OfTelling = {},
           WinSound(s.win) => WinSound(r.win)
    PROVE  Goes(r, s)
<1>1. \A f \in OfTelling : r[f] = s[f]
  BY DEF Changes, OfTelling, Fields
<1>2. IsSock(r)
  BY DEF Changes
<1>3. r.state = s.state /\ r.bits = s.bits /\ r.group = s.group /\ r.passAccept = s.passAccept
      /\ r.rx = s.rx /\ r.tx = s.tx
  BY <1>1 DEF OfTelling
<1>4. Tells(r, s)
  BY <1>3, SameTells
<1>. QED
  BY <1>2, <1>3, <1>4 DEF Goes, Sound

LEMMA TookGoes ==
    ASSUME NEW s
    PROVE  Goes(Took(s), s)
<1>. SUFFICES ASSUME IsSock(s), Sound(s) PROVE Goes(Took(s), s)
  BY DEF Goes
<1>1. Changes(Took(s), s, {"late"}, OfGet)
  BY TookChanges
<1>2. {"late"} \cap OfTelling = {}
  BY DEF OfTelling
<1>3. WinSound(Took(s).win)
  <2>1. WinSound(TxGet(s.win, s.peerWin, s.late).w) /\ WinSound(s.win)
    BY TxGetSound DEF IsSock, Sound
  <2>2. Took(s).win = Chosen(s).w
    BY DEF Took, IsSock, Fields
  <2>. QED
    BY <2>1, <2>2 DEF Chosen
<1>. QED
  BY <1>1, <1>2, <1>3, WinGoes

\* MoveMid moves mid, and nothing that a task waits for.
LEMMA MoveMidRing ==
    ASSUME NEW b, b # NoStream, TxRing(b), NEW n \in Int
    PROVE  /\ TxRing(MoveMid(b, n)) /\ MoveMid(b, n) # NoStream
           /\ GetSpace(MoveMid(b, n)) = GetSpace(b) /\ MidSpace(b) \in Int
<1>. DEFINE x == Onward(b, b.mid, Smaller(n, MidSpace(b)))   c == MoveMid(b, n)
<1>1. IsRing(b, TxLength) /\ b.mid \in Int /\ b.length = TxLength
      /\ b.head \in Int /\ b.tail \in Int
  BY TxLengthIs DEF TxRing, IsRing
<1>2. MidSpace(b) \in Int
  <2>. DEFINE u == b.length + b.head - b.mid
  <2>1. u \in Int
    BY <1>1, TxLengthIs
  <2>2. MidSpace(b) = u % b.length
    BY DEF MidSpace, Distance
  <2>. HIDE DEF u
  <2>. QED
    BY <1>1, <2>1, <2>2, TxLengthIs, ModIn
<1>3. x \in Int
  <2>. DEFINE m == Smaller(n, MidSpace(b))   u == b.mid + m
  <2>1. m \in Int
    BY <1>2 DEF Smaller
  <2>. HIDE DEF m
  <2>2. u \in Int
    BY <1>1, <2>1
  <2>3. x = u % b.length
    BY DEF Onward, m
  <2>. HIDE DEF u
  <2>. QED
    BY <1>1, <2>2, <2>3, TxLengthIs, ModIn
<1>. HIDE DEF x
<1>4. c = [b EXCEPT !.mid = x]
  BY DEF MoveMid, x
<1>. HIDE DEF c
<1>5. DOMAIN c = BufferFields /\ c.length = b.length /\ c.tail = b.tail /\ c.head = b.head
      /\ c.cells = b.cells /\ c.mid = x
  BY <1>1, <1>4 DEF IsRing, BufferFields
<1>6. IsRing(c, TxLength)
  BY <1>1, <1>5 DEF IsRing
<1>7. c # NoStream
  <2>1. DOMAIN NoStream = {"length"}
    BY DEF NoStream
  <2>. QED
    BY <1>5, <2>1 DEF BufferFields
<1>8. GetSpace(c) = GetSpace(b)
  BY <1>5 DEF GetSpace, Space
<1>. QED
  BY <1>2, <1>3, <1>5, <1>6, <1>7, <1>8 DEF TxRing, c

LEMMA AddTxDataGoes ==
    ASSUME NEW s
    PROVE  Goes(AddTxData(s), s)
<1>. SUFFICES ASSUME IsSock(s), Sound(s), s.tx # NoStream, AddTxData(s) # s
              PROVE  Goes(AddTxData(s), s)
  <2>1. s.tx = NoStream => AddTxData(s) = s
    BY DEF AddTxData
  <2>. QED
    BY <2>1, GoesNone DEF Goes
<1>. DEFINE a == TxAdd(s.win, MidSpace(s.tx), s.tx.mid, s.tx.length)
            r == AddTxData(s)
<1>1. TxRing(s.tx) /\ s.tx.mid \in Int /\ s.tx.length = TxLength /\ MidSpace(s.tx) \in Int
  BY MoveMidRing DEF Sound, TxRing, IsRing
<1>2. WinSound(a.w) /\ a.done \in Int
  BY <1>1, AddSound, TxLengthIs DEF IsSock, Sound
<1>3. r = [s EXCEPT !.win = a.w, !.tx = MoveMid(@, a.done)]
  BY DEF AddTxData
<1>4. Changes(r, s, {"tx"}, OfAdd)
  BY AddTxDataChanges
<1>. HIDE DEF a
<1>5. r.tx = MoveMid(s.tx, a.done) /\ r.win = a.w
  BY <1>3 DEF IsSock, Fields
<1>. HIDE DEF r
<1>6. r.state = s.state /\ r.bits = s.bits /\ r.group = s.group /\ r.passAccept = s.passAccept
      /\ r.rx = s.rx /\ IsSock(r)
  BY <1>4 DEF Changes, Fields
<1>7. TxRing(r.tx) /\ r.tx # NoStream /\ GetSpace(r.tx) = GetSpace(s.tx)
  BY <1>1, <1>2, <1>5, MoveMidRing
<1>8. Tells(r, s)
  BY <1>6, <1>7 DEF Tells, Alerts, SizeOf
<1>9. Sound(r)
  BY <1>2, <1>5, <1>6, <1>7 DEF Sound
<1>. QED
  BY <1>6, <1>8, <1>9 DEF Goes, r

LEMMA GotRing ==
    ASSUME NEW b, b # NoStream, TxRing(b), NEW n \in Int
    PROVE  TxRing(Got(b, n)) /\ Got(b, n) # NoStream
<1>. DEFINE m == Available(b, 0, n)   x == Onward(b, b.tail, m)   c == Got(b, n)
<1>1. IsRing(b, TxLength) /\ b.mid \in Int /\ b.length = TxLength
      /\ b.head \in 0..(TxLength - 1) /\ b.tail \in 0..(TxLength - 1)
  BY DEF TxRing, IsRing
<1>2. m \in Int
  <2>1. GetSize(b) \in Int
    BY <1>1, RingIs, TxLengthIs
  <2>. QED
    BY <2>1 DEF Available, Smaller, Positive
<1>3. x \in 0..(TxLength - 1)
  <2>. DEFINE u == b.tail + m
  <2>. HIDE DEF m
  <2>1. u \in Int
    BY <1>1, <1>2, TxLengthIs
  <2>2. x = u % b.length
    BY DEF Onward
  <2>. HIDE DEF u
  <2>. QED
    BY <1>1, <2>1, <2>2, TxLengthIs, ModIn
<1>. HIDE DEF x
<1>4. c = [b EXCEPT !.tail = x]
  BY DEF Got, x
<1>. HIDE DEF c
<1>5. DOMAIN c = BufferFields /\ c.length = b.length /\ c.tail = x /\ c.head = b.head
      /\ c.cells = b.cells /\ c.mid = b.mid
  BY <1>1, <1>4 DEF IsRing, BufferFields
<1>6. IsRing(c, TxLength)
  BY <1>1, <1>3, <1>5 DEF IsRing
<1>7. c # NoStream
  <2>1. DOMAIN NoStream = {"length"}
    BY DEF NoStream
  <2>. QED
    BY <1>5, <2>1 DEF BufferFields
<1>. QED
  BY <1>1, <1>5, <1>6, <1>7 DEF TxRing, c

\* Space in the transmit buffer comes with the bit for it.
LEMMA AcknowledgedGoes ==
    ASSUME NEW s, NEW n, Sound(s) => n \in Int
    PROVE  Goes(Acknowledged(s, n), s)
<1>. SUFFICES ASSUME IsSock(s), Sound(s), ~(s.tx = NoStream \/ n = 0)
              PROVE  Goes(Acknowledged(s, n), s)
  <2>1. s.tx = NoStream \/ n = 0 => Acknowledged(s, n) = s
    BY DEF Acknowledged
  <2>. QED
    BY <2>1, GoesNone DEF Goes
<1>. DEFINE r == Acknowledged(s, n)
<1>1. r = [s EXCEPT !.tx = Got(@, n), !.bits = @ \cup {"SEND"}]
  BY DEF Acknowledged
<1>2. r.tx = Got(s.tx, n) /\ r.bits = s.bits \cup {"SEND"}
  BY <1>1 DEF IsSock, Fields
<1>3. Changes(r, s, {"tx", "bits"}, {})
  BY AcknowledgedChanges
<1>. HIDE DEF r
<1>4. r.state = s.state /\ r.group = s.group /\ r.passAccept = s.passAccept
      /\ r.rx = s.rx /\ IsSock(r) /\ r.win.segs = s.win.segs /\ r.win.next = s.win.next
      /\ r.win.stored = s.win.stored
  BY <1>3 DEF Changes, WinChanges, Fields, WinFields
<1>5. TxRing(r.tx) /\ r.tx # NoStream
  BY <1>2, GotRing DEF Sound
<1>6. Tells(r, s)
  BY <1>2, <1>4, <1>5 DEF Tells, Alerts, SizeOf
<1>7. Sound(r)
  BY <1>4, <1>5 DEF Sound, WinSound
<1>. QED
  BY <1>4, <1>6, <1>7 DEF Goes, r

\* Data ahead of the head does not change what FreeRTOS_recv can read.
LEMMA AddRing ==
    ASSUME NEW b, DOMAIN b = BufferFields, NEW offset, NEW data, NEW n
    PROVE  /\ DOMAIN Add(b, offset, data, n) = BufferFields
           /\ offset # 0 => GetSize(Add(b, offset, data, n)) = GetSize(b)
<1>. DEFINE c == Add(b, offset, data, n)
<1>1. \/ c = b
      \/ \E x, y : c = [b EXCEPT !.cells = x, !.head = IF offset = 0 THEN Onward(b, Onward(b, b.head, offset), Fits(b, offset, n)) ELSE @, !.front = y]
  BY DEF Add
<1>. HIDE DEF c
<1>2. DOMAIN c = BufferFields /\ c.length = b.length /\ c.tail = b.tail /\ (offset # 0 => c.head = b.head)
  BY <1>1 DEF BufferFields
<1>. QED
  BY <1>2 DEF GetSize, Distance, c

LEMMA AddRxdataGoes ==
    ASSUME NEW s, NEW offset, NEW data, NEW n
    PROVE  Goes(AddRxdata(s, offset, data, n).s, s)
<1>. SUFFICES ASSUME IsSock(s), Sound(s)
              PROVE  Goes(AddRxdata(s, offset, data, n).s, s)
  BY DEF Goes
<1>1. CASE s.rx = NoStream /\ s.poor
  <2>. DEFINE a == [s EXCEPT !.mallocError = TRUE]
  <2>1. Changes(a, s, {"mallocError"}, {})
    BY DEF IsSock, Fields, Changes, WinChanges
  <2>2. {"mallocError"} \cap OfTelling = {} /\ {} \cap OfSound = {}
    BY DEF OfTelling
  <2>3. AddRxdata(s, offset, data, n).s = StateChange(a, "CLOSE_WAIT")
    BY <1>1 DEF AddRxdata
  <2>. HIDE DEF a
  <2>4. Goes(a, s)
    BY <2>1, <2>2, QuietGoes
  <2>5. MayEnter(a, "CLOSE_WAIT")
    BY DEF MayEnter, Entered, Running, Over, Opening
  <2>. QED
    BY <2>3, <2>4, <2>5, StateChangeGoes, GoesThen
<1>2. CASE ~(s.rx = NoStream /\ s.poor)
  <2>. DEFINE stream == IF s.rx = NoStream THEN EmptyBuffer(RxLength) ELSE s.rx
              after == Add(stream, offset, data, n)
              low == offset = 0 /\ ~s.lowWater /\ FrontSpace(after) <= RxStream \div 5
              r == [s EXCEPT !.rx = after, !.lowWater = @ \/ low, !.winChange = @ \/ low,
                             !.bits = IF offset = 0 THEN @ \cup {"RECEIVE"} ELSE @]
  <2>1. AddRxdata(s, offset, data, n).s = r
    BY <1>2 DEF AddRxdata
  <2>2. DOMAIN stream = BufferFields /\ GetSize(stream) = SizeOf(s)
    BY EmptyBufferIs, TxLengthIs DEF Sound, RxRing, SizeOf, IsRing
  <2>. HIDE DEF stream
  <2>3. DOMAIN after = BufferFields /\ (offset # 0 => GetSize(after) = SizeOf(s))
    BY <2>2, AddRing
  <2>. HIDE DEF after, low
  <2>4. /\ IsSock(r) /\ r.rx = after /\ r.win = s.win /\ r.state = s.state /\ r.group = s.group
        /\ r.passAccept = s.passAccept /\ r.tx = s.tx
        /\ r.bits = IF offset = 0 THEN s.bits \cup {"RECEIVE"} ELSE s.bits
    BY DEF IsSock, Fields
  <2>. HIDE DEF r
  <2>5. after # NoStream
    <3>1. DOMAIN NoStream = {"length"}
      BY DEF NoStream
    <3>. QED
      BY <2>3, <3>1 DEF BufferFields
  <2>6. SizeOf(r) # SizeOf(s) => "RECEIVE" \in Alerts(r)
    BY <2>3, <2>4, <2>5 DEF SizeOf, Alerts
  <2>7. Tells(r, s)
    BY <2>4, <2>6 DEF Tells, Alerts
  <2>8. Sound(r)
    BY <2>3, <2>4 DEF Sound, RxRing
  <2>. QED
    BY <2>1, <2>4, <2>7, <2>8 DEF Goes
<1>. QED
  BY <1>1, <1>2

-----------------------------------------------------------------------------
(* The handlers tell the tasks *)

\* Steps that tell nothing, because there is nothing to tell
LEMMA QuietSteps ==
    ASSUME NEW s, IsSock(s)
    PROVE  /\ \A p : Goes(SendReset(s, p), s) /\ Goes(Arrived(s, p), s) /\ Goes(NoteFin(s, p), s)
                     /\ Goes(EstKept(s, p), s) /\ Goes(Copied2(s, p), s) /\ Goes(FinDone(s, p), s)
           /\ Goes(Drop(s), s) /\ Goes(Begun(s), s)
<1>1. /\ {"out"} \cap OfTelling = {} /\ {"winChange"} \cap OfTelling = {}
      /\ {"finRecv", "finLast"} \cap OfTelling = {} /\ {"lastFin"} \cap OfTelling = {}
      /\ {"mine", "held"} \cap OfTelling = {} /\ {} \cap OfTelling = {}
      /\ {"finSent", "finAcked"} \cap OfTelling = {}
  BY DEF OfTelling
<1>2. /\ {} \cap OfSound = {} /\ {"rxHigh"} \cap OfSound = {} /\ {"rxFin"} \cap OfSound = {}
      /\ {"txCur"} \cap OfSound = {} /\ OfFinWin \cap OfSound = {}
  BY DEF OfSound, OfFinWin
<1>3. ASSUME NEW p
      PROVE  Goes(SendReset(s, p), s) /\ Goes(Arrived(s, p), s) /\ Goes(NoteFin(s, p), s)
             /\ Goes(EstKept(s, p), s) /\ Goes(Copied2(s, p), s) /\ Goes(FinDone(s, p), s)
  <2>1. Goes(SendReset(s, p), s)
    BY <1>1, <1>2, SendResetChanges, QuietGoes
  <2>2. Goes(Arrived(s, p), s)
    BY <1>1, <1>2, ArrivedChanges, QuietGoes
  <2>3. Goes(NoteFin(s, p), s)
    BY <1>1, <1>2, NoteFinChanges, QuietGoes
  <2>4. Goes(EstKept(s, p), s)
    BY <1>1, <1>2, EstKeptChanges, QuietGoes
  <2>5. Goes(Copied2(s, p), s)
    BY <1>1, <1>2, BegunChanges, QuietGoes
  <2>6. Goes(FinDone(s, p), s)
    BY <1>1, <1>2, FinDoneChanges, QuietGoes
  <2>. QED
    BY <2>1, <2>2, <2>3, <2>4, <2>5, <2>6
<1>4. Goes(Drop(s), s)
  BY <1>1, <1>2, DropChanges, QuietGoes
<1>5. Goes(Begun(s), s)
  BY <1>1, <1>2, BegunChanges, QuietGoes
<1>. QED
  BY <1>3, <1>4, <1>5

LEMMA ReturnPacketGoes ==
    ASSUME NEW s, IsSock(s), NEW owned, NEW flags, NEW data, NEW opt
    PROVE  Goes(ReturnPacket(s, owned, flags, data, opt), s)
<1>1. {"winChange", "hiAllowed", "out"} \cap OfTelling = {} /\ {} \cap OfSound = {}
  BY DEF OfTelling
<1>. QED
  BY <1>1, ReturnPacketChanges, QuietGoes

LEMMA PrepareSendGoes ==
    ASSUME NEW s, IsSock(s), NEW room
    PROVE  Goes(PrepareSend(s, room).s, s)
<1>. DEFINE a == Took(s)   b == ShutDown(s)
<1>1. Goes(a, s) /\ IsSock(a)
  BY TookGoes, TookChanges, ChangesSock
<1>2. Goes(b, a)
  <2>1. Changes(b, a, {"userShutdown", "finSent", "winChange"}, {"txFin"})
    BY <1>1 DEF ShutDown, IsSock, IsWin, Fields, WinFields, Changes, WinChanges
  <2>2. {"userShutdown", "finSent", "winChange"} \cap OfTelling = {} /\ {"txFin"} \cap OfSound = {}
    BY DEF OfTelling, OfSound
  <2>. HIDE DEF a, b
  <2>. QED
    BY <2>1, <2>2, QuietGoes
<1>3. b.state = s.state
  BY ShutDownChanges DEF Changes, Fields
<1>4. PrepareSend(s, room).s = IF Closes(s, room) THEN StateChange(b, "FIN_WAIT_1") ELSE a
  BY PrepareSendIs
<1>. HIDE DEF a, b
<1>5. Closes(s, room) => MayEnter(b, "FIN_WAIT_1")
  BY <1>3 DEF Closes, MayEnter, Entered, Running, Over, Opening
<1>6. Goes(b, s)
  BY <1>1, <1>2, GoesThen
<1>7. Closes(s, room) => Goes(StateChange(b, "FIN_WAIT_1"), s)
  BY <1>5, <1>6, StateChangeGoes, GoesThen
<1>. QED
  BY <1>1, <1>4, <1>7

LEMMA RepeatedGoes ==
    ASSUME NEW s, IsSock(s)
    PROVE  Goes(Repeated(PrepareSend(s, -1)).s, s)
<1>. DEFINE q == PrepareSend(s, -1)
            last == [q.s EXCEPT !.lastFin = @ \/ (q.fin /\ q.data = <<>>)]
            base == IF q.s.lastFin THEN {"FIN"} ELSE {}
            r == ReturnPacket(last, q.data # <<>>, Flags(base, q), q.data, <<>>)
<1>1. Goes(q.s, s) /\ IsSock(q.s)
  BY PrepareSendGoes, PrepareSendChanges, ChangesSock
<1>2. Repeated(q).s = IF q.sends THEN r ELSE q.s
  BY DEF Repeated
<1>. HIDE DEF q, base
<1>3. Changes(last, q.s, {"lastFin"}, {})
  BY <1>1 DEF IsSock, Fields, Changes, WinChanges
<1>4. {"lastFin"} \cap OfTelling = {} /\ {} \cap OfSound = {}
  BY DEF OfTelling
<1>. HIDE DEF last
<1>5. Goes(last, q.s) /\ IsSock(last)
  BY <1>3, <1>4, QuietGoes, ChangesSock
<1>6. Goes(r, last)
  BY <1>5, ReturnPacketGoes
<1>. HIDE DEF r
<1>7. Goes(r, s)
  BY <1>1, <1>5, <1>6, GoesThen
<1>. QED
  BY <1>1, <1>2, <1>7 DEF q

LEMMA SendRepeatedGoes ==
    ASSUME NEW s, IsSock(s)
    PROVE  Goes(SendRepeated(s), s)
<1>1. PICK f : /\ SendRepeated(s) = f[Repeats].s /\ DOMAIN f = 0..Repeats
               /\ \A i \in 0..Repeats : f[i] = IF i = 0 THEN [s |-> s, on |-> TRUE] ELSE SendAnother(f[i - 1])
  BY SentLoop
<1>. DEFINE T == {i \in Nat : i <= Repeats => Goes(f[i].s, s) /\ IsSock(f[i].s)}
<1>2. Repeats \in Nat
  BY SocketAssumption
<1>3. 0 \in T
  <2>1. f[0] = [s |-> s, on |-> TRUE]
    BY <1>1, <1>2
  <2>. QED
    BY <2>1, GoesNone
<1>4. ASSUME NEW i \in T PROVE i + 1 \in T
  <2>. SUFFICES ASSUME i + 1 <= Repeats
                PROVE  Goes(f[i + 1].s, s) /\ IsSock(f[i + 1].s)
    OBVIOUS
  <2>1. i \in Nat /\ i + 1 \in 0..Repeats /\ i + 1 # 0 /\ (i + 1) - 1 = i /\ i <= Repeats
    BY <1>2, <1>4
  <2>2. f[i + 1] = SendAnother(f[i])
    <3>1. f[i + 1] = SendAnother(f[(i + 1) - 1])
      BY <1>1, <2>1
    <3>. QED
      BY <2>1, <3>1
  <2>. DEFINE a == f[i]
  <2>3. Goes(a.s, s) /\ IsSock(a.s)
    BY <1>4, <2>1
  <2>. HIDE DEF a
  <2>. DEFINE r == Repeated(PrepareSend(a.s, -1)).s
  <2>4. Goes(r, a.s) /\ IsSock(r)
    BY <2>3, RepeatedGoes, RepeatedChanges, ChangesSock
  <2>5. SendAnother(a).s \in {a.s, r}
    BY DEF SendAnother
  <2>. HIDE DEF r
  <2>6. Goes(r, s)
    BY <2>3, <2>4, GoesThen
  <2>. QED
    BY <2>2, <2>3, <2>4, <2>5, <2>6 DEF a
<1>5. T = Nat
  <2>1. T \subseteq Nat
    OBVIOUS
  <2>. HIDE DEF T
  <2>. QED
    BY <1>3, <1>4, <2>1, Induction
<1>6. Repeats \in T
  BY <1>2, <1>5
<1>. QED
  BY <1>1, <1>6

LEMMA OnMovedGoes ==
    ASSUME NEW a, IsSock(a)
    PROVE  Goes(OnMoved(a), a)
<1>. DEFINE r == AddRxdata(a, 0, <<>>, a.win.userData).s
            u == [r EXCEPT !.win.userData = 0]
<1>1. Goes(r, a) /\ IsSock(r)
  BY AddRxdataGoes, AddRxdataChanges, ChangesSock
<1>. HIDE DEF r
<1>2. Changes(u, r, {}, {"userData"})
  BY <1>1 DEF Changes, WinChanges, IsSock, IsWin, Fields, WinFields
<1>3. {} \cap OfTelling = {} /\ {"userData"} \cap OfSound = {}
  BY DEF OfSound
<1>. HIDE DEF u
<1>4. Goes(u, r)
  BY <1>2, <1>3, QuietGoes
<1>5. Goes(u, a)
  BY <1>1, <1>4, GoesThen
<1>6. OnMoved(a) \in {a, u}
  BY DEF OnMoved, u, r
<1>. QED
  BY <1>5, <1>6, GoesNone

LEMMA StoreRxDataGoes ==
    ASSUME NEW s, IsSock(s), NEW p
    PROVE  Goes(StoreRxData(s, p).s, s)
<1>. DEFINE c == OnChecked(s, p)   a == OnAdded(s, p).s   o == [s EXCEPT !.win.opt = <<>>]
<1>1. Goes(c, s) /\ IsSock(c)
  <2>1. Changes(c, s, {}, OfCheck) /\ c.win = Check(s, p).w
    BY OnCheckedChanges
  <2>2. WinSound(s.win) => WinSound(c.win)
    BY <2>1, RxCheckSound DEF Check, IsSock
  <2>3. {} \cap OfTelling = {}
    OBVIOUS
  <2>. HIDE DEF c
  <2>. QED
    BY <2>1, <2>2, <2>3, WinGoes, ChangesSock
<1>2. Goes(a, c) /\ IsSock(a)
  BY <1>1, AddRxdataGoes, AddRxdataChanges, ChangesSock DEF OnAdded
<1>3. StoreRxData(s, p).s \in {o, c, SendReset(a, p), OnMoved(a)}
  BY StoreRxDataIs DEF c, a
<1>4. Goes(o, s)
  <2>1. Changes(o, s, {}, {"opt"})
    BY DEF Changes, WinChanges, IsSock, IsWin, Fields, WinFields
  <2>2. {} \cap OfTelling = {} /\ {"opt"} \cap OfSound = {}
    BY DEF OfSound
  <2>. HIDE DEF o
  <2>. QED
    BY <2>1, <2>2, QuietGoes
<1>. HIDE DEF c, a, o
<1>5. Goes(SendReset(a, p), a) /\ Goes(OnMoved(a), a)
  BY <1>2, QuietSteps, OnMovedGoes
<1>6. Goes(a, s)
  BY <1>1, <1>2, GoesThen
<1>7. Goes(SendReset(a, p), s) /\ Goes(OnMoved(a), s)
  BY <1>5, <1>6, GoesThen
<1>. QED
  BY <1>1, <1>3, <1>4, <1>7

LEMMA HandleFinGoes ==
    ASSUME NEW s, IsSock(s), NEW p, s.state \notin Over
    PROVE  Goes(HandleFin(s, p).s, s)
<1>. DEFINE c == FinDone(s, p)
<1>1. Goes(c, s)
  BY QuietSteps
<1>2. c.state = s.state
  BY FinDoneChanges DEF Changes, Fields
<1>3. HandleFin(s, p).s \in {c, StateChange(c, "LAST_ACK"), StateChange(c, "CLOSE_WAIT")}
  BY HandleFinIs DEF c, To
<1>. HIDE DEF c
<1>4. MayEnter(c, "LAST_ACK") /\ MayEnter(c, "CLOSE_WAIT")
  BY <1>2 DEF MayEnter, Entered, Running, Over, Opening
<1>5. Goes(StateChange(c, "LAST_ACK"), s) /\ Goes(StateChange(c, "CLOSE_WAIT"), s)
  BY <1>1, <1>4, StateChangeGoes, GoesThen
<1>. QED
  BY <1>1, <1>3, <1>5

LEMMA HandleSynReceivedGoes ==
    ASSUME NEW s, IsSock(s), NEW p, NEW opt, s.state \notin Over
    PROVE  Goes(HandleSynReceived(s, p, opt).s, s)
<1>. DEFINE a == IF p.len = 0 THEN [s EXCEPT !.win.rxCur = p.seq] ELSE s
            b == [a EXCEPT !.win.our = Plus(OurISS, 1)]
<1>1. Changes(a, s, {}, {"rxCur"})
  BY DEF Changes, WinChanges, IsSock, IsWin, Fields, WinFields
<1>. HIDE DEF a
<1>2. Changes(b, a, {}, {"our"})
  BY <1>1 DEF Changes, WinChanges, IsSock, IsWin, Fields, WinFields
<1>3. HandleSynReceived(s, p, opt).s \in {StateChange(s, "CLOSE_WAIT"), StateChange(b, "ESTABLISHED")}
  BY DEF HandleSynReceived, To, a
<1>. HIDE DEF b
<1>4. {} \cap OfTelling = {} /\ {"our"} \cap OfSound = {} /\ {"rxCur"} \cap OfSound = {}
  BY DEF OfSound
<1>5. Goes(a, s) /\ Goes(b, a)
  BY <1>1, <1>2, <1>4, QuietGoes
<1>6. Goes(b, s)
  BY <1>5, GoesThen
<1>7. b.state = s.state
  BY <1>1, <1>2 DEF Changes, Fields
<1>8. MayEnter(b, "ESTABLISHED") /\ MayEnter(s, "CLOSE_WAIT")
  BY <1>7 DEF MayEnter, Entered, Running, Over, Opening
<1>9. Goes(StateChange(b, "ESTABLISHED"), s) /\ Goes(StateChange(s, "CLOSE_WAIT"), s)
  BY <1>6, <1>8, StateChangeGoes, GoesThen
<1>. QED
  BY <1>3, <1>9

LEMMA EstNowGoes ==
    ASSUME NEW s, IsSock(s), NEW p
    PROVE  Goes(EstNow(s, p), s)
<1>. DEFINE a == EstNoted(s, p)   b == EstHeard(s, p)   c == EstAdded(s, p)   d == EstNow(s, p)
<1>1. Changes(a, s, {"peerWin"}, OfAck) /\ Changes(d, c, {}, {"our"})
  BY EstChanges
<1>2. WinSound(s.win) => WinSound(a.win) /\ EstAcked(s, p).n \in Int
  <2>1. a.win = EstAcked(s, p).w
    BY DEF EstNoted, IsSock, Fields
  <2>2. WinSound(s.win) => WinSound(TxAck(s.win, p.ack).w) /\ TxAck(s.win, p.ack).n \in Int
    BY TxAckSound DEF IsSock
  <2>. QED
    BY <2>1, <2>2 DEF EstAcked
<1>3. {"peerWin"} \cap OfTelling = {} /\ {} \cap OfTelling = {} /\ {"our"} \cap OfSound = {}
  BY DEF OfTelling, OfSound
<1>4. b = Acknowledged(a, EstAcked(s, p).n) /\ c = AddTxData(b)
  BY DEF EstHeard, EstAdded
<1>. HIDE DEF a, b, c, d
<1>5. Goes(a, s)
  BY <1>1, <1>2, <1>3, WinGoes
<1>6. Goes(d, c)
  BY <1>1, <1>3, QuietGoes
<1>. SUFFICES ASSUME Sound(s) PROVE Goes(d, s)
  BY DEF Goes, d
<1>7. EstAcked(s, p).n \in Int
  BY <1>2 DEF Sound
<1>8. Goes(b, a) /\ Goes(c, b)
  BY <1>4, <1>7, AcknowledgedGoes, AddTxDataGoes
<1>9. Goes(b, s)
  BY <1>5, <1>8, GoesThen
<1>10. Goes(c, s)
  BY <1>8, <1>9, GoesThen
<1>. QED
  BY <1>6, <1>10, GoesThen

LEMMA HandleEstablishedGoes ==
    ASSUME NEW s, IsSock(s), NEW p, NEW opt, s.state \notin Over
    PROVE  Goes(HandleEstablished(s, p, opt).s, s)
<1>. DEFINE b == EstNow(s, p)
            c == EstKept(b, p)
            q == PrepareSend(c, p.len)
            d == [b EXCEPT !.finAccepted = TRUE]
            e == HandleFin(d, p).s
<1>1. Goes(b, s) /\ IsSock(b) /\ b.state = s.state
  <2>1. Changes(b, s, {"peerWin", "tx", "bits"}, OfAck \cup OfAdd \cup {"our"})
    BY EstChanges
  <2>2. IsSock(b)
    BY <2>1, ChangesSock
  <2>3. b.state = s.state
    BY <2>1 DEF Changes, Fields
  <2>. QED
    BY <2>2, <2>3, EstNowGoes
<1>2. HandleEstablished(s, p, opt).s \in {e, c, q.s}
  BY HandleEstablishedIs DEF To
<1>. HIDE DEF b
<1>3. Goes(c, b) /\ IsSock(c)
  BY <1>1, QuietSteps, EstKeptChanges, ChangesSock
<1>. HIDE DEF c
<1>4. Goes(q.s, c)
  BY <1>3, PrepareSendGoes
<1>5. Changes(d, b, {"finAccepted"}, {}) /\ d.state = s.state
  BY <1>1 DEF Changes, WinChanges, IsSock, Fields
<1>6. {"finAccepted"} \cap OfTelling = {} /\ {} \cap OfSound = {}
  BY DEF OfTelling
<1>. HIDE DEF d
<1>7. Goes(d, b) /\ IsSock(d)
  BY <1>5, <1>6, QuietGoes, ChangesSock
<1>8. Goes(e, d)
  BY <1>5, <1>7, HandleFinGoes
<1>. HIDE DEF e, q
<1>9. Goes(c, s) /\ Goes(d, s)
  BY <1>1, <1>3, <1>7, GoesThen
<1>10. Goes(q.s, s) /\ Goes(e, s)
  BY <1>4, <1>8, <1>9, GoesThen
<1>. QED
  BY <1>2, <1>9, <1>10

LEMMA HandledGoes ==
    ASSUME NEW s, IsSock(s), NEW p
    PROVE  Goes(Handled(s, p).s, s)
<1>1. CASE s.state = "SYN_FIRST"
  <2>. DEFINE a == SynAcked(s, p)
  <2>1. Changes(a, s, {}, {"rxCur", "rxHigh", "txCur", "next"})
    BY SynAckedChanges
  <2>2. Handled(s, p).s = StateChange(a, "SYN_RECEIVED")
    BY <1>1, HandledIs DEF To
  <2>3. a.win.next \in Int
    <3>1. Plus(OurISS, 1) \in Int
      BY SocketAssumption, PlusInt, SpaceIs
    <3>2. a.win.next = Plus(OurISS, 1)
      BY DEF SynAcked, IsSock, IsWin, Fields, WinFields
    <3>. QED
      BY <3>1, <3>2
  <2>. HIDE DEF a
  <2>4. WinSound(s.win) => WinSound(a.win)
    <3>1. a.win.segs = s.win.segs /\ a.win.stored = s.win.stored
      BY <2>1 DEF Changes, WinChanges, WinFields
    <3>. QED
      BY <2>3, <3>1 DEF WinSound
  <2>5. {} \cap OfTelling = {}
    OBVIOUS
  <2>6. Goes(a, s)
    BY <2>1, <2>4, <2>5, WinGoes
  <2>7. MayEnter(a, "SYN_RECEIVED")
    <3>1. a.state = s.state
      BY <2>1 DEF Changes, Fields
    <3>. QED
      BY <1>1, <3>1 DEF MayEnter, Entered, Running, Over, Opening
  <2>. QED
    BY <2>2, <2>6, <2>7, StateChangeGoes, GoesThen
<1>2. CASE s.state = "SYN_RECEIVED"
  <2>1. s.state \notin Over
    BY <1>2 DEF Over
  <2>. QED
    BY <1>2, <2>1, HandledIs, HandleSynReceivedGoes
<1>3. CASE s.state = "ESTABLISHED"
  <2>1. s.state \notin Over
    BY <1>3 DEF Over
  <2>. QED
    BY <1>3, <2>1, HandledIs, HandleEstablishedGoes
<1>4. CASE s.state \in {"LAST_ACK", "FIN_WAIT_1", "FIN_WAIT_2"}
  <2>1. s.state \notin Over
    BY <1>4 DEF Over
  <2>. QED
    BY <1>4, <2>1, HandledIs, HandleFinGoes
<1>5. CASE s.state \notin {"SYN_FIRST", "SYN_RECEIVED", "ESTABLISHED", "LAST_ACK", "FIN_WAIT_1", "FIN_WAIT_2"}
  <2>1. Handled(s, p).s = s
    BY <1>5, HandledIs DEF To
  <2>. QED
    BY <2>1, GoesNone
<1>. QED
  BY <1>1, <1>2, <1>3, <1>4, <1>5

LEMMA SendDataGoes ==
    ASSUME NEW s, IsSock(s), NEW p, NEW answer
    PROVE  Goes(SendData(s, p, answer).s, s)
<1>1. Changes(SdKept(s), s, {"curWin", "held", "ack", "mine"}, {}) /\ Changes(SdSent(s, answer), s, OfData, {})
  BY SendDataChanges
<1>2. {"curWin", "held", "ack", "mine"} \cap OfTelling = {} /\ OfData \cap OfTelling = {} /\ {} \cap OfSound = {}
  BY DEF OfTelling, OfData
<1>3. Goes(SdKept(s), s) /\ Goes(SdSent(s, answer), s)
  BY <1>1, <1>2, QuietGoes
<1>. QED
  BY <1>3, SendDataIs

LEMMA HandleStateGoes ==
    ASSUME NEW s, IsSock(s), NEW p
    PROVE  Goes(HandleState(s, p).s, s)
<1>. DEFINE a == Arrived(s, p)   b == HsStored(s, p).s   c == Again(b, p)   d == HsNoted(s, p)
            e == HsHandled(s, p).s   f == SendData(e, p, HsHandled(s, p).answer).s
<1>1. Goes(a, s) /\ IsSock(a)
  BY QuietSteps, ArrivedChanges, ChangesSock
<1>2. Goes(b, a) /\ IsSock(b)
  BY <1>1, StoreRxDataGoes, StoreRxDataChanges, ChangesSock DEF HsStored
<1>3. d = NoteFin(c, p) /\ e = Handled(d, p).s
  BY DEF HsNoted, HsHandled
<1>4. HandleState(s, p).s \in {b, f, e}
  BY HandleStateIs DEF b, e
<1>. HIDE DEF a, b
<1>5. Goes(c, b) /\ IsSock(c)
  <2>1. b.state = "SYN_RECEIVED" => MayEnter(b, "SYN_FIRST")
    BY DEF MayEnter, Entered, Running, Over, Opening
  <2>2. Goes(c, b)
    BY <2>1, StateChangeGoes, GoesNone DEF Again
  <2>3. IsSock(c)
    BY <1>2, AgainChanges, ChangesSock
  <2>. QED
    BY <2>2, <2>3
<1>. HIDE DEF c
<1>6. Goes(d, c) /\ IsSock(d)
  BY <1>3, <1>5, QuietSteps, NoteFinChanges, ChangesSock
<1>. HIDE DEF d
<1>7. Goes(e, d) /\ IsSock(e)
  BY <1>3, <1>6, HandledGoes, HandledChanges, ChangesSock
<1>. HIDE DEF e
<1>8. Goes(f, e)
  BY <1>7, SendDataGoes
<1>. HIDE DEF f
<1>9. Goes(b, s)
  BY <1>1, <1>2, GoesThen
<1>10. Goes(c, s)
  BY <1>5, <1>9, GoesThen
<1>11. Goes(d, s)
  BY <1>6, <1>10, GoesThen
<1>12. Goes(e, s)
  BY <1>7, <1>11, GoesThen
<1>13. Goes(f, s)
  BY <1>8, <1>12, GoesThen
<1>. QED
  BY <1>4, <1>9, <1>12, <1>13

LEMMA LookedGoes ==
    ASSUME NEW s, IsSock(s), NEW p
    PROVE  Goes(Looked(s, p), s)
<1>. SUFFICES ASSUME Sound(s) PROVE Goes(Looked(s, p), s)
  BY DEF Goes
<1>. DEFINE a == TxSack(s.win, p.sack[1], p.sack[2])
            b == [s EXCEPT !.win = a.w]   c == CheckOptions(s, p)   d == Looked(s, p)
<1>1. WinChanges(a.w, s.win, OfAck) /\ WinSound(a.w) /\ a.n \in Int
  BY TxSackChanges, TxSackSound DEF IsSock, Sound
<1>2. c \in {s, Acknowledged(b, a.n)} /\ d = [c EXCEPT !.peerWin = p.win]
  BY DEF CheckOptions, Looked
<1>. HIDE DEF a
<1>3. b.win = a.w /\ DOMAIN b = Fields /\ \A f \in Fields \ {"win"} : b[f] = s[f]
  BY DEF IsSock, Fields
<1>. HIDE DEF b
<1>4. Changes(b, s, {}, OfAck)
  BY <1>1, <1>3 DEF Changes, WinChanges, IsSock
<1>5. {} \cap OfTelling = {} /\ {"peerWin"} \cap OfTelling = {} /\ {} \cap OfSound = {}
  BY DEF OfTelling
<1>6. Goes(b, s)
  BY <1>1, <1>3, <1>4, <1>5, WinGoes
<1>7. Goes(Acknowledged(b, a.n), b)
  BY <1>1, AcknowledgedGoes
<1>8. Goes(Acknowledged(b, a.n), s)
  BY <1>6, <1>7, GoesThen
<1>9. Goes(c, s)
  BY <1>2, <1>8, GoesNone
<1>10. IsSock(c)
  BY CheckOptionsChanges, ChangesSock
<1>. HIDE DEF c, d
<1>11. Changes(d, c, {"peerWin"}, {})
  BY <1>2, <1>10 DEF Changes, WinChanges, IsSock, Fields
<1>12. Goes(d, c)
  BY <1>5, <1>11, QuietGoes
<1>13. Goes(d, s)
  BY <1>9, <1>12, GoesThen
<1>. QED
  BY <1>13 DEF d

LEMMA HandleStateSock ==
    ASSUME NEW s, IsSock(s), NEW p
    PROVE  IsSock(HandleState(s, p).s)
<1>. DEFINE b == HsStored(s, p).s   e == HsHandled(s, p).s
<1>1. IsSock(b) /\ IsSock(e)
  BY HsChanges, ChangesSock
<1>2. HandleState(s, p).s \in {b, SendData(e, p, HsHandled(s, p).answer).s, e}
  BY HandleStateIs DEF b, e
<1>. HIDE DEF b, e
<1>3. IsSock(SdKept(e)) /\ IsSock(SdSent(e, HsHandled(s, p).answer))
  BY <1>1, SendDataChanges, ChangesSock
<1>. QED
  BY <1>1, <1>2, <1>3, SendDataIs

LEMMA ServedGoes ==
    ASSUME NEW s, IsSock(s), NEW p
    PROVE  Goes(Served(s, p), s)
<1>. DEFINE b == Looked(s, p)   h == HandleState(b, p)
<1>1. Goes(b, s) /\ IsSock(b)
  BY LookedGoes, LookedChanges, ChangesSock
<1>2. Served(s, p) \in {h.s, SendRepeated(h.s)}
  BY DEF Served, b, Looked
<1>. HIDE DEF b
<1>3. Goes(h.s, b) /\ IsSock(h.s)
  BY <1>1, HandleStateGoes, HandleStateSock
<1>. HIDE DEF h
<1>4. Goes(SendRepeated(h.s), h.s)
  BY <1>3, SendRepeatedGoes
<1>5. Goes(h.s, s)
  BY <1>1, <1>3, GoesThen
<1>6. Goes(SendRepeated(h.s), s)
  BY <1>4, <1>5, GoesThen
<1>. QED
  BY <1>2, <1>5, <1>6

LEMMA HandleListenGoes ==
    ASSUME NEW s, IsSock(s), NEW p, s.state = "LISTEN"
    PROVE  Goes(HandleListen(s, p), s) /\ IsSock(HandleListen(s, p))
<1>. DEFINE a == [s EXCEPT !.passQueued = TRUE, !.win = NewWindow(p.seq, OurISS)]
<1>1. HandleListen(s, p) = StateChange(a, "SYN_FIRST") /\ IsSock(a)
      /\ Changes(HandleListen(s, p), a, OfState, {})
  BY HandleListenIs
<1>2. WinSound(NewWindow(p.seq, OurISS))
  <2>1. OurISS \in Int
    BY SocketAssumption, SpaceIs
  <2>. QED
    BY <2>1, FS_EmptySet DEF NewWindow, WinSound
<1>3. a.win = NewWindow(p.seq, OurISS) /\ a.state = s.state /\ a.bits = s.bits /\ a.group = s.group
      /\ a.passAccept = s.passAccept /\ a.rx = s.rx /\ a.tx = s.tx
  BY DEF IsSock, Fields
<1>. HIDE DEF a
<1>4. Tells(a, s)
  BY <1>3, SameTells
<1>5. Goes(a, s)
  BY <1>1, <1>2, <1>3, <1>4 DEF Goes, Sound
<1>6. MayEnter(a, "SYN_FIRST")
  BY <1>3 DEF MayEnter, Entered, Running, Over, Opening
<1>. QED
  BY <1>1, <1>5, <1>6, StateChangeGoes, GoesThen, ChangesSock

LEMMA ReceivedGoes ==
    ASSUME NEW s, IsSock(s), NEW p
    PROVE  Goes(ProcessReceived(s, p), s)
<1>. DEFINE b == Begun(s)   c == Copied2(b, p)   l == HandleListen(b, p)   r == Processed(b, p)
<1>1. Goes(b, s) /\ IsSock(b)
  BY QuietSteps, BegunChanges, ChangesSock
<1>2. ProcessReceived(s, p) = Drop(r)
  BY ProcessReceivedIs DEF b
<1>. HIDE DEF b
<1>3. Goes(c, b) /\ IsSock(c)
  BY <1>1, QuietSteps, BegunChanges, ChangesSock
<1>4. Goes(Served(c, p), c)
  BY <1>3, ServedGoes
<1>5. Goes(Served(c, p), b)
  BY <1>3, <1>4, GoesThen
<1>6. b.state = "LISTEN" => Goes(Served(l, p), b)
  <2>. SUFFICES ASSUME b.state = "LISTEN" PROVE Goes(Served(l, p), b)
    OBVIOUS
  <2>1. Goes(l, b) /\ IsSock(l)
    BY <1>1, HandleListenGoes
  <2>. HIDE DEF l
  <2>2. Goes(Served(l, p), l)
    BY <2>1, ServedGoes
  <2>. QED
    BY <2>1, <2>2, GoesThen
<1>7. Goes(StateChange(b, "CLOSED"), b)
  <2>1. MayEnter(b, "CLOSED")
    BY DEF MayEnter, Entered, Running, Over, Opening
  <2>. QED
    BY <2>1, StateChangeGoes
<1>8. Goes(SendReset(b, p), b) /\ Goes(b, b)
  BY <1>1, QuietSteps, GoesNone
<1>9. Goes(r, b)
  BY <1>5, <1>6, <1>7, <1>8 DEF Processed
<1>10. Goes(r, s)
  BY <1>1, <1>9, GoesThen
<1>. HIDE DEF r
<1>11. IsSock(r) => Goes(Drop(r), r)
  BY QuietSteps
<1>12. IsSock(r) => Goes(Drop(r), s)
  BY <1>10, <1>11, GoesThen
<1>. QED
  BY <1>2, <1>10, <1>12 DEF Goes

LEMMA TimerGoes ==
    ASSUME NEW s, IsSock(s), NEW due, NEW willSleep
    PROVE  Goes(TimerCheck(s, due, willSleep), s)
<1>. DEFINE f == Filled(s)   k == Ticks(f)   a == IF due THEN k ELSE s
<1>1. Goes(f, s) /\ IsSock(f)
  <2>1. Goes(f, s)
    BY AddTxDataGoes, GoesNone DEF Filled
  <2>. QED
    BY <2>1, FilledChanges, ChangesSock
<1>. HIDE DEF f
<1>2. Goes(k, f)
  <2>1. Goes(Given(f), f) /\ IsSock(Given(f))
    <3>1. {"winChange", "hiAllowed", "out", "ack", "held"} \cap OfTelling = {} /\ {} \cap OfSound = {}
      BY DEF OfTelling
    <3>. QED
      BY <1>1, <3>1, GivenChanges, QuietGoes, ChangesSock
  <2>2. Goes(SendRepeated(Given(f)), Given(f)) /\ Goes(SendRepeated(f), f)
    BY <1>1, <2>1, SendRepeatedGoes
  <2>3. Goes(SendRepeated(Given(f)), f)
    BY <2>1, <2>2, GoesThen
  <2>. QED
    BY <2>1, <2>2, <2>3, GoesNone DEF Ticks
<1>3. Goes(k, s)
  BY <1>1, <1>2, GoesThen
<1>4. TimerCheck(s, due, willSleep) = IF willSleep THEN WakeUpUser(a) ELSE a
  BY SocketCheckIs DEF TimerCheck, f
<1>. HIDE DEF k
<1>5. Goes(a, s)
  BY <1>3, GoesNone
<1>. HIDE DEF a
<1>6. Goes(WakeUpUser(a), s)
  BY <1>5, WakeUpUserGoes, GoesThen
<1>. QED
  BY <1>4, <1>5, <1>6

-----------------------------------------------------------------------------
(* No wake-up is lost *)

\* Who has accepted the client has a connection; only then does it close it.
TaskInv ==
    /\ pc \notin {"accept", "acceptWait"} \/ sock.passAccept => sock.state \in Running \cup Over
    /\ pc \in {"add", "addWait"} => sock.tx # NoStream
    /\ closing => pc = "done"
    /\ left \in Nat
WokenInv == IsSock(sock) /\ Sound(sock) /\ AppWoken /\ TaskInv

LEMMA StepWoken ==
    ASSUME WokenInv, Tells(sock', sock), server' = server
    PROVE  AppWoken' /\ TaskInv'
<1>. DEFINE r == sock'
<1>1. pc' = pc /\ closing' = closing /\ left' = left
  BY DEF server
<1>2. /\ Alerts(sock) \subseteq Alerts(r)
      /\ r.passAccept => sock.passAccept \/ ("ACCEPT" \in Alerts(r) /\ r.state \in Running \cup Over)
      /\ SizeOf(r) # SizeOf(sock) => "RECEIVE" \in Alerts(r)
      /\ sock.state \in Running => r.state \in Running \/ (r.state \in Over /\ "CLOSED" \in Alerts(r))
      /\ sock.state \in Over => r.state \in Over
      /\ r.tx = NoStream <=> sock.tx = NoStream
      /\ GetSpace(r.tx) # GetSpace(sock.tx) => "SEND" \in Alerts(r)
  BY DEF Tells
<1>3. /\ pc = "acceptWait" /\ sock.passAccept => "ACCEPT" \in Alerts(sock)
      /\ (pc \in {"recvWait", "drainWait"}) /\ (SizeOf(sock) > 0 \/ sock.state \in {"CLOSED", "CLOSE_WAIT", "CLOSING"})
         => Alerts(sock) \cap {"RECEIVE", "CLOSED"} # {}
      /\ pc = "addWait" /\ GetSpace(sock.tx) > 0 => Alerts(sock) \cap {"SEND", "CLOSED"} # {}
  BY DEF WokenInv, AppWoken, Alerts, SizeOf, Size
<1>. HIDE DEF r
<1>4. r.passAccept => r.state \in Running \cup Over
  BY <1>2 DEF WokenInv, TaskInv
<1>5. pc \notin {"accept", "acceptWait"} => sock.state \in Running \cup Over /\ r.state \in Running \cup Over
  BY <1>2 DEF WokenInv, TaskInv
<1>6. pc = "acceptWait" /\ r.passAccept => "ACCEPT" \in Alerts(r)
  BY <1>2, <1>3
<1>7. ASSUME pc \in {"recvWait", "drainWait"}, SizeOf(r) > 0 \/ r.state \in {"CLOSED", "CLOSE_WAIT", "CLOSING"}
      PROVE  Alerts(r) \cap {"RECEIVE", "CLOSED"} # {}
  <2>1. CASE SizeOf(r) # SizeOf(sock)
    BY <1>2, <2>1
  <2>2. CASE SizeOf(r) = SizeOf(sock) /\ SizeOf(r) > 0
    BY <1>2, <1>3, <1>7, <2>2
  <2>3. CASE ~(SizeOf(r) > 0)
    <3>1. r.state \in Over
      BY <1>5, <1>7, <2>3 DEF Running, Over
    <3>2. CASE sock.state \in Running
      BY <1>2, <3>1, <3>2 DEF Running, Over
    <3>3. CASE sock.state \in Over
      BY <1>2, <1>3, <1>7, <3>3 DEF Over
    <3>. QED
      BY <1>5, <1>7, <3>2, <3>3
  <2>. QED
    BY <2>1, <2>2, <2>3
<1>8. pc = "addWait" /\ GetSpace(r.tx) > 0 => Alerts(r) \cap {"SEND", "CLOSED"} # {}
  <2>1. CASE GetSpace(r.tx) # GetSpace(sock.tx)
    BY <1>2, <2>1
  <2>2. CASE GetSpace(r.tx) = GetSpace(sock.tx)
    BY <1>2, <1>3, <2>2
  <2>. QED
    BY <2>1, <2>2
<1>9. /\ pc' = "acceptWait" /\ r.passAccept => "ACCEPT" \in Alerts(r)
      /\ (pc' \in {"recvWait", "drainWait"}) /\ (SizeOf(r) > 0 \/ r.state \in {"CLOSED", "CLOSE_WAIT", "CLOSING"})
         => Alerts(r) \cap {"RECEIVE", "CLOSED"} # {}
      /\ pc' = "addWait" /\ GetSpace(r.tx) > 0 => Alerts(r) \cap {"SEND", "CLOSED"} # {}
  BY <1>1, <1>6, <1>7, <1>8
<1>10. AppWoken'
  BY <1>9 DEF AppWoken, Alerts, SizeOf, Size, r
<1>11. TaskInv'
  BY <1>1, <1>2, <1>4, <1>5 DEF TaskInv, WokenInv, r
<1>. QED
  BY <1>10, <1>11

LEMMA DoneGoes ==
    ASSUME NEW s, IsSock(s)
    PROVE  Goes([s EXCEPT !.out = <<>>, !.late = 0, !.poor = FALSE], s)
<1>1. Changes([s EXCEPT !.out = <<>>, !.late = 0, !.poor = FALSE], s, {"out", "late", "poor"}, {})
  BY DEF IsSock, Fields, Changes, WinChanges
<1>2. {"out", "late", "poor"} \cap OfTelling = {} /\ {} \cap OfSound = {}
  BY DEF OfTelling
<1>. QED
  BY <1>1, <1>2, QuietGoes

LEMMA BegunGoes ==
    ASSUME NEW s, IsSock(s), NEW poor, NEW late
    PROVE  /\ Goes([s EXCEPT !.poor = poor], s) /\ IsSock([s EXCEPT !.poor = poor])
           /\ Goes([s EXCEPT !.poor = poor, !.late = late], s) /\ IsSock([s EXCEPT !.poor = poor, !.late = late])
<1>1. /\ Changes([s EXCEPT !.poor = poor], s, {"late", "poor"}, {})
      /\ Changes([s EXCEPT !.poor = poor, !.late = late], s, {"late", "poor"}, {})
  BY DEF IsSock, Fields, Changes, WinChanges
<1>2. {"late", "poor"} \cap OfTelling = {} /\ {} \cap OfSound = {}
  BY DEF OfTelling
<1>. QED
  BY <1>1, <1>2, QuietGoes, ChangesSock

LEMMA HandlerWoken ==
    ASSUME WokenInv, [Next]_vars, Receive \/ Timer
    PROVE  WokenInv'
<1>0. IsSock(sock) /\ Sound(sock)
  BY DEF WokenInv
<1>1. Goes(sock', sock) /\ server' = server
  <2>1. CASE Receive
    <3>1. PICK p \in net, poor \in BOOLEAN :
             Handler(ProcessReceived([sock EXCEPT !.poor = poor], p), One(poor))
      BY <2>1 DEF Receive
    <3>. DEFINE s == [sock EXCEPT !.poor = poor]   r == ProcessReceived(s, p)
    <3>2. Goes(s, sock) /\ IsSock(s)
      BY <1>0, BegunGoes
    <3>. HIDE DEF s
    <3>3. Goes(r, s)
      BY <3>2, ReceivedGoes
    <3>4. sock' = [r EXCEPT !.out = <<>>, !.late = 0, !.poor = FALSE] /\ server' = server
      BY <3>1 DEF Handler, s, server
    <3>. HIDE DEF r
    <3>5. Goes(r, sock)
      BY <3>2, <3>3, GoesThen
    <3>6. IsSock(r)
      BY <1>0, <3>5 DEF Goes
    <3>. DEFINE e == [r EXCEPT !.out = <<>>, !.late = 0, !.poor = FALSE]
    <3>7. Goes(e, r)
      BY <3>6, DoneGoes
    <3>8. sock' = e
      BY <3>4
    <3>. HIDE DEF e
    <3>9. Goes(e, sock)
      BY <3>5, <3>7, GoesThen
    <3>. QED
      BY <3>4, <3>8, <3>9
  <2>2. CASE Timer
    <3>1. PICK due \in BOOLEAN, willSleep \in BOOLEAN, poor \in BOOLEAN, late \in 0..Len(sock.win.wait) :
             Handler(TimerCheck([sock EXCEPT !.poor = poor, !.late = late], due, willSleep),
                     One(poor) + One(late > 0))
      BY <2>2 DEF Timer
    <3>. DEFINE s == [sock EXCEPT !.poor = poor, !.late = late]   r == TimerCheck(s, due, willSleep)
    <3>2. Goes(s, sock) /\ IsSock(s)
      BY <1>0, BegunGoes
    <3>. HIDE DEF s
    <3>3. Goes(r, s)
      BY <3>2, TimerGoes
    <3>4. sock' = [r EXCEPT !.out = <<>>, !.late = 0, !.poor = FALSE] /\ server' = server
      BY <3>1 DEF Handler, s, server
    <3>. HIDE DEF r
    <3>5. Goes(r, sock)
      BY <3>2, <3>3, GoesThen
    <3>6. IsSock(r)
      BY <1>0, <3>5 DEF Goes
    <3>. DEFINE e == [r EXCEPT !.out = <<>>, !.late = 0, !.poor = FALSE]
    <3>7. Goes(e, r)
      BY <3>6, DoneGoes
    <3>8. sock' = e
      BY <3>4
    <3>. HIDE DEF e
    <3>9. Goes(e, sock)
      BY <3>5, <3>7, GoesThen
    <3>. QED
      BY <3>4, <3>8, <3>9
  <2>. QED
    BY <2>1, <2>2
<1>2. IsSock(sock') /\ Sound(sock') /\ Tells(sock', sock)
  BY <1>0, <1>1 DEF Goes
<1>3. AppWoken' /\ TaskInv'
  BY <1>1, <1>2, StepWoken
<1>4. (IsSock(sock) /\ Sound(sock))'
  BY <1>2 DEF IsSock, Sound, RxRing, TxRing, WinSound, IsWin, IsRing
<1>. QED
  BY <1>3, <1>4 DEF WokenInv

-----------------------------------------------------------------------------
(* The steps of the server task *)

LEMMA SameSound ==
    ASSUME NEW r, NEW s, IsSock(r), r.win = s.win, r.rx = s.rx, r.tx = s.tx, Sound(s)
    PROVE  Sound(r)
  BY DEF Sound

LEMMA GotDomain ==
    ASSUME NEW b, NEW n, RxRing(b)
    PROVE  RxRing(Got(b, n))
<1>1. CASE b = NoStream
  <2>1. DOMAIN b = {"length"} /\ b.length = 0
    BY <1>1 DEF NoStream
  <2>2. DOMAIN Got(b, n) = {"length"} /\ Got(b, n).length = 0
        /\ Got(b, n) = [f \in {"length"} |-> Got(b, n)[f]]
    BY <2>1 DEF Got
  <2>3. Got(b, n) = [f \in {"length"} |-> 0]
    BY <2>2
  <2>4. NoStream = [f \in {"length"} |-> 0]
    BY DEF NoStream
  <2>. QED
    BY <2>3, <2>4 DEF RxRing
<1>2. CASE DOMAIN b = BufferFields
  BY <1>2 DEF RxRing, Got
<1>. QED
  BY <1>1, <1>2 DEF RxRing

LEMMA TakenSound ==
    ASSUME NEW s, IsSock(s), Sound(s)
    PROVE  /\ IsSock(Taken(s)) /\ Sound(Taken(s)) /\ Taken(s).state = s.state
           /\ Taken(s).passAccept = s.passAccept /\ Taken(s).tx = s.tx
<1>. DEFINE b == Got(s.rx, MSS)   r == Taken(s)
<1>1. RxRing(b)
  BY GotDomain DEF Sound
<1>2. \/ r = [s EXCEPT !.rx = b]
      \/ r = [s EXCEPT !.rx = b, !.lowWater = FALSE, !.winChange = TRUE]
  BY DEF Taken
<1>. HIDE DEF r, b
<1>3. IsSock(r) /\ r.rx = b /\ r.win = s.win /\ r.tx = s.tx /\ r.state = s.state /\ r.passAccept = s.passAccept
  BY <1>2, ZenonT(40) DEF IsSock, Fields
<1>. QED
  BY <1>1, <1>3 DEF Sound, r

\* What FreeRTOS_send adds fills the buffer, or is all there is.
LEMMA SendAddIs ==
    ASSUME NEW b, IsRing(b, TxLength), b.mid \in Int, NEW m \in Nat
    PROVE  LET n == Smaller(GetSpace(b), m)
               c == Add(b, 0, [i \in 1..n |-> Plus(written, i - 1)], n)
           IN  /\ n \in Nat /\ n <= m
               /\ IsRing(c, TxLength) /\ c.mid \in Int
               /\ n # m => GetSpace(c) = 0
<1>. DEFINE n == Smaller(GetSpace(b), m)   data == [i \in 1..n |-> Plus(written, i - 1)]   c == Add(b, 0, data, n)
<1>0. TxLength \in Nat \ {0}
  BY TxLengthIs
<1>1. GetSize(b) \in 0..(TxLength - 1) /\ GetSpace(b) = TxLength - 1 - GetSize(b)
  BY <1>0, RingIs
<1>2. n \in Nat /\ n <= m /\ n <= GetSpace(b) /\ (n # m => n = GetSpace(b))
  BY <1>0, <1>1 DEF Smaller
<1>. HIDE DEF n
<1>3. Len(data) \in Nat
  <2>1. Len(data) = n
    BY <1>2
  <2>. QED
    BY <1>2, <2>1
<1>. HIDE DEF data
<1>4. 0 + n <= GetSpace(b) /\ 0 \in Nat
  BY <1>1, <1>2
<1>5. IsRing(c, TxLength) /\ GetSize(c) = GetSize(b) + n
  BY <1>0, <1>2, <1>3, <1>4, AddIs
<1>6. c.mid = b.mid
  BY DEF Add, IsRing, BufferFields
<1>. HIDE DEF c
<1>7. GetSpace(c) = TxLength - 1 - GetSize(c)
  BY <1>0, <1>5, RingIs
<1>8. n # m => GetSpace(c) = 0
  BY <1>0, <1>1, <1>2, <1>5, <1>7
<1>. QED
  BY <1>2, <1>5, <1>6, <1>8 DEF n, c, data

LEMMA AwakeWoken == pc' \notin {"acceptWait", "recvWait", "drainWait", "addWait"} => AppWoken'
  BY DEF AppWoken

LEMMA SoundStep ==
    ASSUME WokenInv, UNCHANGED <<left, closing>>, IsSock(sock'), Sound(sock'),
           sock'.state = sock.state, sock'.tx = sock.tx, sock'.passAccept => sock.passAccept,
           pc' \notin {"add", "addWait"} \/ pc \in {"add", "addWait"},
           pc' \in {"accept", "acceptWait"} \/ pc \notin {"accept", "acceptWait"} \/ sock.passAccept,
           closing => pc' = "done", AppWoken'
    PROVE  WokenInv'
<1>1. TaskInv'
  BY DEF TaskInv, WokenInv
<1>2. (IsSock(sock) /\ Sound(sock))'
  BY DEF IsSock, Sound, RxRing, TxRing, WinSound, IsWin, IsRing
<1>. QED
  BY <1>1, <1>2 DEF WokenInv

LEMMA ServerWoken ==
    ASSUME WokenInv, Server
    PROVE  WokenInv'
<1>0. /\ IsSock(sock) /\ Sound(sock) /\ left \in Nat
      /\ pc \in {"add", "addWait"} => sock.tx # NoStream
      /\ closing => pc = "done"
  BY DEF WokenInv, TaskInv
<1>1. CASE Accept
  <2>1. /\ pc = "accept" /\ UNCHANGED <<left, closing>>
        /\ \/ sock.passAccept /\ sock' = [sock EXCEPT !.passAccept = FALSE] /\ pc' = "recv"
           \/ ~sock.passAccept /\ sock' = sock /\ pc' = "acceptWait"
    BY <1>1 DEF Accept, Only, App, Goto
  <2>2. IsSock(sock') /\ sock'.win = sock.win /\ sock'.rx = sock.rx /\ sock'.tx = sock.tx
        /\ sock'.state = sock.state /\ (sock'.passAccept => sock.passAccept)
        /\ (pc' = "acceptWait" => ~sock'.passAccept)
    BY <1>0, <2>1 DEF IsSock, Fields
  <2>3. Sound(sock')
    BY <1>0, <2>2, SameSound
  <2>4. AppWoken'
    BY <2>1, <2>2 DEF AppWoken
  <2>. QED
    BY <1>0, <2>1, <2>2, <2>3, <2>4, SoundStep
<1>2. CASE AcceptWait
  <2>1. /\ pc = "acceptWait" /\ UNCHANGED <<left, closing>> /\ pc' = "accept"
        /\ sock' = [sock EXCEPT !.group = @ \ {"ACCEPT"}]
    BY <1>2 DEF AcceptWait, Only, Sleep, App, Goto
  <2>2. IsSock(sock') /\ sock'.win = sock.win /\ sock'.rx = sock.rx /\ sock'.tx = sock.tx
        /\ sock'.state = sock.state /\ (sock'.passAccept => sock.passAccept)
    BY <1>0, <2>1 DEF IsSock, Fields
  <2>3. Sound(sock')
    BY <1>0, <2>2, SameSound
  <2>. QED
    BY <1>0, <2>1, <2>2, <2>3, AwakeWoken, SoundStep
<1>3. ASSUME NEW here, NEW wait, NEW get, NEW error, Recv(here, wait, get, error),
             here \in {"recv", "drain"}, wait \in {"recvWait", "drainWait"}, get \in {"get", "drainGet"},
             error \in {"shutdown", "close"}
      PROVE  WokenInv'
  <2>1. /\ pc = here /\ UNCHANGED <<left, closing>> /\ sock' = sock
        /\ pc' \in {get, error, wait}
        /\ pc' = wait => ~(Size > 0) /\ sock.state \notin {"CLOSED", "CLOSE_WAIT", "CLOSING"}
    BY <1>3 DEF Recv, Only, App, Goto
  <2>2. Size' = Size
    BY <2>1 DEF Size
  <2>3. AppWoken'
    BY <1>3, <2>1, <2>2 DEF AppWoken
  <2>. QED
    BY <1>0, <1>3, <2>1, <2>3, SoundStep
<1>4. ASSUME NEW wait, NEW here, NEW timeout, RecvWait(wait, here, timeout),
             here \in {"recv", "drain"}, wait \in {"recvWait", "drainWait"}, timeout \in {"shutdown", "close"}
      PROVE  WokenInv'
  <2>1. /\ pc = wait /\ UNCHANGED <<left, closing>> /\ pc' \in {here, timeout}
        /\ sock' = sock \/ sock' = [sock EXCEPT !.group = @ \ {"RECEIVE", "CLOSED"}]
    BY <1>4 DEF RecvWait, Only, Sleep, App, Goto
  <2>2. IsSock(sock') /\ sock'.win = sock.win /\ sock'.rx = sock.rx /\ sock'.tx = sock.tx
        /\ sock'.state = sock.state /\ (sock'.passAccept => sock.passAccept)
    BY <1>0, <2>1 DEF IsSock, Fields
  <2>3. Sound(sock')
    BY <1>0, <2>2, SameSound
  <2>. QED
    BY <1>0, <1>4, <2>1, <2>2, <2>3, AwakeWoken, SoundStep
<1>5. ASSUME NEW get, NEW there, RecvGet(get, there), get \in {"get", "drainGet"},
             there \in {"reading", "drain", "close"}
      PROVE  WokenInv'
  <2>1. pc = get /\ UNCHANGED <<left, closing>> /\ pc' = there /\ sock' = Taken(sock)
    BY <1>5 DEF RecvGet, App, Goto
  <2>2. IsSock(sock') /\ Sound(sock') /\ sock'.tx = sock.tx
        /\ sock'.state = sock.state /\ (sock'.passAccept => sock.passAccept)
    BY <1>0, <2>1, TakenSound
  <2>. QED
    BY <1>0, <1>5, <2>1, <2>2, AwakeWoken, SoundStep
<1>6. CASE Reading
  <2>1. /\ pc = "reading" /\ sock' = sock /\ closing' = closing /\ pc' \in {"check", "recv"}
        /\ left' \in {left, ReplyLen}
    BY <1>6 DEF Reading, App, Goto
  <2>2. left' \in Nat
    BY <1>0, <2>1, ServerAssumption
  <2>3. TaskInv'
    BY <2>1, <2>2 DEF WokenInv, TaskInv
  <2>. QED
    BY <1>0, <2>1, <2>3, AwakeWoken DEF WokenInv, IsSock, Sound, RxRing, TxRing, WinSound, IsWin, IsRing
<1>7. CASE SendCheck
  <2>. DEFINE f == [sock EXCEPT !.mallocError = TRUE]
              made == [sock EXCEPT !.tx = EmptyBuffer(TxLength)]
  <2>1. /\ pc = "check" /\ UNCHANGED <<left, closing>>
        /\ \/ sock' = sock /\ pc' \in {"open", "check"}
           \/ sock' = StateChange(f, "CLOSE_WAIT") /\ pc' = "open"
           \/ sock.tx = NoStream /\ sock' = made /\ pc' = "add"
           \/ sock.tx # NoStream /\ sock' = sock /\ pc' = "add"
    BY <1>7 DEF SendCheck, App, Goto
  <2>2. pc' \notin {"acceptWait", "recvWait", "drainWait", "addWait"} /\ AppWoken'
    BY <2>1, AwakeWoken
  <2>3. CASE sock' = sock /\ (pc' \in {"open", "check"} \/ sock.tx # NoStream)
    <3>1. TaskInv'
      BY <2>1, <2>3 DEF WokenInv, TaskInv
    <3>2. IsSock(sock') /\ Sound(sock')
      BY <1>0, <2>3
    <3>. QED
      BY <2>2, <3>1, <3>2 DEF WokenInv, IsSock, Sound, RxRing, TxRing, WinSound, IsWin, IsRing
  <2>4. CASE sock' = StateChange(f, "CLOSE_WAIT") /\ pc' = "open"
    <3>1. Changes(f, sock, {"mallocError"}, {})
      BY <1>0 DEF IsSock, Fields, Changes, WinChanges
    <3>2. {"mallocError"} \cap OfTelling = {} /\ {} \cap OfSound = {}
      BY DEF OfTelling
    <3>3. IsSock(f)
      BY <1>0 DEF IsSock, Fields
    <3>. HIDE DEF f
    <3>4. Goes(f, sock)
      BY <3>1, <3>2, QuietGoes
    <3>5. MayEnter(f, "CLOSE_WAIT")
      BY DEF MayEnter, Entered, Running, Over, Opening
    <3>6. Goes(sock', sock)
      BY <2>4, <3>4, <3>5, StateChangeGoes, GoesThen
    <3>7. IsSock(sock') /\ Sound(sock')
      BY <1>0, <3>6 DEF Goes
    <3>8. sock'.state = "CLOSE_WAIT"
      BY <2>4, <3>3, StateChangeChanges
    <3>9. TaskInv'
      BY <1>0, <2>1, <2>4, <3>8 DEF TaskInv, Over
    <3>. QED
      BY <2>2, <3>7, <3>9 DEF WokenInv, IsSock, Sound, RxRing, TxRing, WinSound, IsWin, IsRing
  <2>5. CASE sock.tx = NoStream /\ sock' = made /\ pc' = "add"
    <3>. DEFINE e == EmptyBuffer(TxLength)
    <3>1. IsRing(e, TxLength) /\ e.mid \in Int
      <4>1. e.mid = 0
        BY DEF EmptyBuffer
      <4>. QED
        BY <4>1, EmptyBufferIs, TxLengthIs
    <3>2. e # NoStream
      <4>1. DOMAIN NoStream = {"length"} /\ DOMAIN e = BufferFields
        BY <3>1 DEF NoStream, IsRing
      <4>. QED
        BY <4>1 DEF BufferFields
    <3>3. sock' = [sock EXCEPT !.tx = e]
      BY <2>5
    <3>. HIDE DEF e
    <3>4. IsSock(sock') /\ sock'.tx = e /\ sock'.win = sock.win /\ sock'.rx = sock.rx
          /\ sock'.state = sock.state /\ sock'.passAccept = sock.passAccept
      BY <1>0, <3>3 DEF IsSock, Fields
    <3>5. Sound(sock')
      BY <1>0, <3>1, <3>4 DEF Sound, TxRing
    <3>6. TaskInv'
      BY <2>1, <2>5, <3>2, <3>4 DEF WokenInv, TaskInv
    <3>. QED
      BY <2>2, <3>4, <3>5, <3>6 DEF WokenInv, IsSock, Sound, RxRing, TxRing, WinSound, IsWin, IsRing
  <2>. QED
    BY <2>1, <2>3, <2>4, <2>5
<1>8. CASE SendAdd
  <2>. DEFINE b == sock.tx   n == Smaller(GetSpace(b), left)
              c == Add(b, 0, [i \in 1..n |-> Plus(written, i - 1)], n)
  <2>1. /\ pc = "add" /\ sock' = [sock EXCEPT !.tx = c] /\ left' = left - n /\ closing' = closing
        /\ pc' = IF n = left THEN "recv" ELSE "addWait"
    BY <1>8 DEF SendAdd, App, Goto
  <2>2. IsRing(b, TxLength) /\ b.mid \in Int
    BY <1>0, <2>1 DEF Sound, TxRing
  <2>3. /\ n \in Nat /\ n <= left /\ IsRing(c, TxLength) /\ c.mid \in Int
        /\ n # left => GetSpace(c) = 0
    BY <1>0, <2>2, SendAddIs
  <2>. HIDE DEF c, n
  <2>4. IsSock(sock') /\ sock'.tx = c /\ sock'.win = sock.win /\ sock'.rx = sock.rx
        /\ sock'.state = sock.state /\ sock'.passAccept = sock.passAccept
    BY <1>0, <2>1 DEF IsSock, Fields
  <2>5. Sound(sock')
    BY <1>0, <2>3, <2>4 DEF Sound, TxRing
  <2>6. c # NoStream
    <3>1. DOMAIN NoStream = {"length"} /\ DOMAIN c = BufferFields
      BY <2>3 DEF NoStream, IsRing
    <3>. QED
      BY <3>1 DEF BufferFields
  <2>7. left' \in Nat
    BY <1>0, <2>1, <2>3
  <2>8. TaskInv'
    BY <1>0, <2>1, <2>4, <2>6, <2>7 DEF WokenInv, TaskInv
  <2>9. AppWoken'
    <3>1. pc' = "addWait" => ~(GetSpace(sock'.tx) > 0)
      BY <2>1, <2>3, <2>4
    <3>2. pc' \in {"recv", "addWait"}
      BY <2>1
    <3>. QED
      BY <3>1, <3>2 DEF AppWoken
  <2>. QED
    BY <2>4, <2>5, <2>8, <2>9 DEF WokenInv, IsSock, Sound, RxRing, TxRing, WinSound, IsWin, IsRing
<1>9. CASE SendWait
  <2>1. /\ pc = "addWait" /\ UNCHANGED <<left, closing>> /\ pc' \in {"add", "check", "open"}
        /\ sock' = sock \/ sock' = [sock EXCEPT !.group = @ \ {"SEND", "CLOSED"}]
    BY <1>9 DEF SendWait, Only, Sleep, App, Goto
  <2>2. IsSock(sock') /\ sock'.win = sock.win /\ sock'.rx = sock.rx /\ sock'.tx = sock.tx
        /\ sock'.state = sock.state /\ (sock'.passAccept => sock.passAccept)
    BY <1>0, <2>1 DEF IsSock, Fields
  <2>3. Sound(sock')
    BY <1>0, <2>2, SameSound
  <2>. QED
    BY <1>0, <2>1, <2>2, <2>3, AwakeWoken, SoundStep
<1>10. CASE Shutdown
  <2>1. /\ pc = "shutdown" /\ UNCHANGED <<left, closing>> /\ pc' = "drain"
        /\ sock' = sock \/ sock' = [sock EXCEPT !.userShutdown = TRUE]
    BY <1>10 DEF Shutdown, Only, App, Goto
  <2>2. IsSock(sock') /\ sock'.win = sock.win /\ sock'.rx = sock.rx /\ sock'.tx = sock.tx
        /\ sock'.state = sock.state /\ (sock'.passAccept => sock.passAccept)
    BY <1>0, <2>1 DEF IsSock, Fields
  <2>3. Sound(sock')
    BY <1>0, <2>2, SameSound
  <2>. QED
    BY <1>0, <2>1, <2>2, <2>3, AwakeWoken, SoundStep
<1>11. CASE Close
  <2>1. pc = "close" /\ left' = left /\ pc' = "done" /\ sock' = sock /\ closing' = TRUE
    BY <1>11 DEF Close, App, Goto
  <2>2. TaskInv'
    BY <2>1 DEF WokenInv, TaskInv
  <2>. QED
    BY <1>0, <2>1, <2>2, AwakeWoken DEF WokenInv, IsSock, Sound, RxRing, TxRing, WinSound, IsWin, IsRing
<1>12. \/ Accept \/ AcceptWait \/ Reading \/ SendCheck \/ SendAdd \/ SendWait \/ Shutdown \/ Close
       \/ Recv("recv", "recvWait", "get", "shutdown") \/ Recv("drain", "drainWait", "drainGet", "close")
       \/ RecvWait("recvWait", "recv", "shutdown") \/ RecvWait("drainWait", "drain", "close")
       \/ RecvGet("get", "reading") \/ RecvGet("drainGet", "drain") \/ RecvGet("drainGet", "close")
  BY DEF Server
<1>13. /\ "recv" \in {"recv", "drain"} /\ "drain" \in {"recv", "drain"}
       /\ "recvWait" \in {"recvWait", "drainWait"} /\ "drainWait" \in {"recvWait", "drainWait"}
       /\ "get" \in {"get", "drainGet"} /\ "drainGet" \in {"get", "drainGet"}
       /\ "shutdown" \in {"shutdown", "close"} /\ "close" \in {"shutdown", "close"}
       /\ "reading" \in {"reading", "drain", "close"} /\ "drain" \in {"reading", "drain", "close"}
       /\ "close" \in {"reading", "drain", "close"}
  OBVIOUS
<1>14. Recv("recv", "recvWait", "get", "shutdown") \/ Recv("drain", "drainWait", "drainGet", "close") => WokenInv'
  BY <1>3, <1>13, Zenon
<1>15. RecvWait("recvWait", "recv", "shutdown") \/ RecvWait("drainWait", "drain", "close") => WokenInv'
  BY <1>4, <1>13, Zenon
<1>16. RecvGet("get", "reading") \/ RecvGet("drainGet", "drain") \/ RecvGet("drainGet", "close") => WokenInv'
  BY <1>5, <1>13, Zenon
<1>. QED
  BY <1>1, <1>2, <1>6, <1>7, <1>8, <1>9, <1>10, <1>11, <1>12, <1>14, <1>15, <1>16

LEMMA WokenStep == WokenInv /\ [Next]_vars => WokenInv'
<1>. SUFFICES ASSUME WokenInv, [Next]_vars PROVE WokenInv'
  OBVIOUS
<1>1. CASE Receive \/ Timer
  BY <1>1, HandlerWoken
<1>2. CASE CloseEvent
  <2>1. sock' = SocketClose(sock) /\ closing /\ closing' = FALSE /\ pc' = pc /\ left' = left
    BY <1>2 DEF CloseEvent
  <2>2. pc = "done" /\ left \in Nat
    BY <2>1 DEF WokenInv, TaskInv
  <2>3. IsSock(Listening)
    BY ListeningIsSock
  <2>4. /\ IsSock(sock') /\ sock'.win = NewWindow(0, 0) /\ sock'.rx = NoStream /\ sock'.tx = NoStream
        /\ sock'.state = "CLOSED"
    <3>1. Listening.win = NewWindow(0, 0) /\ Listening.rx = NoStream /\ Listening.tx = NoStream
      BY DEF Listening
    <3>. QED
      BY <2>1, <2>3, <3>1 DEF SocketClose, IsSock, Fields
  <2>5. WinSound(NewWindow(0, 0))
    BY FS_EmptySet, WindowAssumption DEF NewWindow, WinSound
  <2>6. Sound(sock')
    BY <2>4, <2>5 DEF Sound, RxRing, TxRing
  <2>7. TaskInv'
    BY <2>1, <2>2, <2>4 DEF TaskInv, Over
  <2>8. AppWoken'
    BY <2>1, <2>2, AwakeWoken
  <2>. QED
    BY <2>4, <2>6, <2>7, <2>8 DEF WokenInv, IsSock, Sound, RxRing, TxRing, WinSound, IsWin, IsRing
<1>3. CASE UNCHANGED <<sock, server>>
  BY <1>3 DEF WokenInv, AppWoken, TaskInv, Size, server, IsSock, Sound, RxRing, TxRing, WinSound, IsWin, IsRing
<1>4. CASE Server
  BY <1>4, ServerWoken
<1>. QED
  BY <1>1, <1>2, <1>3, <1>4 DEF Next, vars, server

LEMMA WokenInit == Init => WokenInv
<1>. SUFFICES ASSUME Init PROVE WokenInv
  OBVIOUS
<1>1. sock = Listening /\ pc = "accept" /\ left = 0 /\ closing = FALSE
  BY DEF Init
<1>2. IsSock(Listening)
  BY ListeningIsSock
<1>3. Listening.win = NewWindow(0, 0) /\ Listening.rx = NoStream /\ Listening.tx = NoStream
      /\ Listening.passAccept = FALSE
  BY DEF Listening
<1>4. WinSound(NewWindow(0, 0))
  BY FS_EmptySet, WindowAssumption DEF NewWindow, WinSound
<1>5. Sound(Listening)
  BY <1>3, <1>4 DEF Sound, RxRing, TxRing
<1>. QED
  BY <1>1, <1>2, <1>3, <1>5 DEF WokenInv, TaskInv, AppWoken

\* No wake-up of the weather server is lost: FreeRTOS_accept, FreeRTOS_recv and
\* FreeRTOS_send block on the event group, in which vSocketWakeUpUser sets what the
\* IP task has put in xEventBits.  Whenever one of them waits for what is there
\* already (a client, received bytes, space, the end of the connection), a bit it
\* waits for is set or will be by the next timer check.
THEOREM TasksAreWoken == Spec => []AppWoken
<1>1. WokenInv => AppWoken
  BY DEF WokenInv
<1>. QED
  BY <1>1, WokenInit, WokenStep, PTL DEF Spec
=============================================================================
