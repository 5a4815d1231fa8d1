-------------------------- MODULE TaskLists_proofs --------------------------
(***************************************************************************)
(* What the operators of TaskLists do to the lists: lemmas about           *)
(* sequences without repetition, about list.c, and about each function of  *)
(* tasks.c that moves a task, with the loops of the tick and of            *)
(* xTaskResumeAll.  Loops are recursive functions over 0..n; what they     *)
(* compute is proved by induction, which is stated here over a set of      *)
(* naturals, from the well-foundedness of < alone.                         *)
(***************************************************************************)
EXTENDS TaskLists, WellFoundedInduction, FiniteSetTheorems, TLAPS

-----------------------------------------------------------------------------
(* Induction, and iteration *)

LEMMA LeastOf ==
    ASSUME NEW T, T \subseteq Nat, T # {}
    PROVE  \E x \in T : \A y \in T : x <= y
<1>1. IsWellFoundedOn(OpToRel(<, Nat), Nat)
  BY NatLessThanWellFounded, Zenon
<1>2. PICK x \in T : \A y \in T : ~ (<<y, x>> \in OpToRel(<, Nat))
  BY <1>1, WFMin, Zenon
<1>3. \A y \in T : ~(y < x)
  BY <1>2 DEF OpToRel
<1>. QED
  BY <1>3

LEMMA MinIs ==
    ASSUME NEW T, T \subseteq Nat, T # {}
    PROVE  Min(T) \in T /\ \A y \in T : Min(T) <= y
  BY LeastOf DEF Min

LEMMA Induction ==
    ASSUME NEW T, T \subseteq Nat, 0 \in T, \A n \in T : n + 1 \in T
    PROVE  T = Nat
<1>. SUFFICES ASSUME Nat \ T # {} PROVE FALSE
  OBVIOUS
<1>1. PICK x \in Nat \ T : \A y \in Nat \ T : x <= y
  BY LeastOf
<1>2. x # 0 /\ x - 1 \in Nat
  BY <1>1
<1>3. x - 1 \in T
  BY <1>1, <1>2
<1>. QED
  BY <1>1, <1>3

\* A function that starts at k0 and goes on by step, within a set that step keeps.
Iterated(f, k0, step, n) ==
    \A i \in 0..n : f[i] = IF i = 0 THEN k0 ELSE step[i][f[i - 1]]

LEMMA Iterates ==
    ASSUME NEW K, NEW k0 \in K, NEW step \in [Nat -> [K -> K]], NEW n \in Nat
    PROVE  \E f \in [0..n -> K] : Iterated(f, k0, step, n)
<1>. DEFINE Up(m, f) == \A i \in 0..m : f[i] = IF i = 0 THEN k0 ELSE step[i][f[i - 1]]
            T == {m \in Nat : \E f \in [0..m -> K] : Up(m, f)}
<1>1. 0 \in T
  <2>. DEFINE f == [i \in 0..0 |-> k0]
  <2>1. f \in [0..0 -> K] /\ Up(0, f)
    OBVIOUS
  <2>. QED
    BY <2>1
<1>2. ASSUME NEW m \in T PROVE m + 1 \in T
  <2>1. PICK f \in [0..m -> K] : Up(m, f)
    BY <1>2
  <2>. DEFINE g == [i \in 0..(m + 1) |-> IF i = m + 1 THEN step[m + 1][f[m]] ELSE f[i]]
  <2>2. g \in [0..(m + 1) -> K]
    <3>1. f[m] \in K /\ step[m + 1] \in [K -> K]
      BY <2>1
    <3>2. step[m + 1][f[m]] \in K
      BY <3>1
    <3>. QED
      BY <2>1, <3>2
  <2>3. Up(m + 1, g)
    <3>. SUFFICES ASSUME NEW i \in 0..(m + 1)
                  PROVE  g[i] = IF i = 0 THEN k0 ELSE step[i][g[i - 1]]
      OBVIOUS
    <3>1. CASE i = m + 1
      <4>1. g[i] = step[i][f[m]] /\ i # 0 /\ i - 1 = m /\ m # m + 1 /\ m \in 0..(m + 1)
        BY <3>1
      <4>2. g[i - 1] = f[m]
        BY <4>1
      <4>. QED
        BY <4>1, <4>2
    <3>2. CASE i # m + 1
      <4>1. i \in 0..m /\ (i # 0 => i - 1 \in 0..(m + 1) /\ i - 1 # m + 1)
        BY <3>2
      <4>2. g[i] = f[i] /\ (i # 0 => g[i - 1] = f[i - 1])
        BY <4>1, <3>2
      <4>3. f[i] = IF i = 0 THEN k0 ELSE step[i][f[i - 1]]
        BY <2>1, <4>1
      <4>. QED
        BY <4>2, <4>3
    <3>. QED
      BY <3>1, <3>2
  <2>. HIDE DEF Up, g
  <2>. QED
    BY <2>2, <2>3
<1>3. T = Nat
  <2>. HIDE DEF T
  <2>1. T \subseteq Nat
    BY DEF T
  <2>. QED
    BY <1>1, <1>2, <2>1, Induction
<1>. QED
  BY <1>3 DEF Iterated

-----------------------------------------------------------------------------
(* The tick count *)

LEMMA ModIs ==
    ASSUME NEW m \in Nat \ {0}, NEW a \in Nat
    PROVE  a = m * (a \div m) + (a % m) /\ a % m \in 0..(m-1) /\ a \div m \in Nat
  OBVIOUS

LEMMA ModUnique ==
    ASSUME NEW m \in Nat \ {0}, NEW q \in Nat, NEW r \in 0..(m-1)
    PROVE  (m * q + r) % m = r
<1>. DEFINE a == m * q + r
<1>1. m * q \in Nat /\ a \in Nat
  OBVIOUS
<1>2. a = m * (a \div m) + (a % m) /\ a % m \in 0..(m-1) /\ a \div m \in Nat
  BY <1>1, ModIs
<1>. HIDE DEF a
<1>3. ASSUME NEW d \in Nat, NEW s \in 0..(m-1), m * d + s = m * q + r PROVE s = r
  <2>1. m * (d - q) = r - s
    BY <1>3
  <2>2. d - q >= 1 => m * (d - q) >= m
    OBVIOUS
  <2>3. d - q <= -1 => m * (d - q) <= -m
    OBVIOUS
  <2>4. d - q \in Int /\ r - s < m /\ r - s > -m
    OBVIOUS
  <2>5. d - q = 0
    BY <2>1, <2>2, <2>3, <2>4
  <2>. QED
    BY <2>1, <2>5
<1>. QED
  BY <1>2, <1>3 DEF a

LEMMA ModNext ==
    ASSUME NEW m \in Nat \ {0}, NEW a \in Nat
    PROVE  (a + 1) % m = ((a % m) + 1) % m
<1>. DEFINE q == a \div m   r == a % m
<1>1. a = m * q + r /\ r \in 0..(m-1) /\ q \in Nat
  BY ModIs
<1>. HIDE DEF q, r
<1>2. CASE r + 1 < m
  <2>1. r + 1 \in 0..(m-1) /\ a + 1 = m * q + (r + 1)
    BY <1>1, <1>2
  <2>2. (m * q + (r + 1)) % m = r + 1
    BY <1>1, <2>1, ModUnique
  <2>3. (r + 1) % m = r + 1
    BY <2>1
  <2>. QED
    BY <2>1, <2>2, <2>3 DEF r
<1>3. CASE r + 1 = m
  <2>1. 0 \in 0..(m-1) /\ a + 1 = m * (q + 1) + 0 /\ q + 1 \in Nat
    BY <1>1, <1>3
  <2>2. (m * (q + 1) + 0) % m = 0
    BY <2>1, ModUnique
  <2>3. (r + 1) % m = 0
    BY <1>3
  <2>. QED
    BY <2>1, <2>2, <2>3 DEF r
<1>. QED
  BY <1>1, <1>2, <1>3

LEMMA ModRound ==
    ASSUME NEW m \in Nat \ {0}, NEW a \in Nat
    PROVE  (m + a) % m = a % m
<1>. DEFINE q == a \div m   r == a % m
<1>1. a = m * q + r /\ r \in 0..(m-1) /\ q \in Nat
  BY ModIs
<1>. HIDE DEF q, r
<1>2. m + a = m * (q + 1) + r /\ q + 1 \in Nat
  BY <1>1
<1>3. (m * (q + 1) + r) % m = r
  BY <1>1, <1>2, ModUnique
<1>. QED
  BY <1>2, <1>3 DEF r

-----------------------------------------------------------------------------
(* Sequences without repetition *)

Sorted(s, w) == \A i, j \in DOMAIN s : i < j => w[s[i]] <= w[s[j]]

LEMMA ConcatIs ==
    ASSUME NEW S, NEW a \in Seq(S), NEW b \in Seq(S)
    PROVE  /\ a \o b \in Seq(S) /\ Len(a \o b) = Len(a) + Len(b)
           /\ \A i \in 1..(Len(a) + Len(b)) :
                 (a \o b)[i] = IF i <= Len(a) THEN a[i] ELSE b[i - Len(a)]
  OBVIOUS

LEMMA SubSeqIs ==
    ASSUME NEW S, NEW s \in Seq(S), NEW m \in 1..(Len(s) + 1), NEW n \in (m - 1)..Len(s)
    PROVE  /\ SubSeq(s, m, n) \in Seq(S) /\ Len(SubSeq(s, m, n)) = n - m + 1
           /\ \A i \in 1..(n - m + 1) : SubSeq(s, m, n)[i] = s[m + i - 1]
  OBVIOUS

LEMMA RemoveAtIs ==
    ASSUME NEW S, NEW s \in Seq(S), NEW p \in 1..Len(s)
    PROVE  /\ RemoveAt(s, p) \in Seq(S) /\ Len(RemoveAt(s, p)) = Len(s) - 1
           /\ \A i \in 1..(Len(s) - 1) : RemoveAt(s, p)[i] = IF i < p THEN s[i] ELSE s[i + 1]
<1>. DEFINE a == SubSeq(s, 1, p - 1)  b == SubSeq(s, p + 1, Len(s))
<1>1. Len(s) \in Nat /\ 1 \in 1..(Len(s) + 1) /\ p + 1 \in 1..(Len(s) + 1)
      /\ p - 1 \in 0..Len(s) /\ Len(s) \in p..Len(s)
  OBVIOUS
<1>2. a \in Seq(S) /\ Len(a) = p - 1 /\ \A i \in 1..(p - 1) : a[i] = s[i]
  BY <1>1, SubSeqIs
<1>3. b \in Seq(S) /\ Len(b) = Len(s) - p /\ \A i \in 1..(Len(s) - p) : b[i] = s[p + i]
  BY <1>1, SubSeqIs
<1>4. RemoveAt(s, p) = a \o b
  BY DEF RemoveAt
<1>. HIDE DEF a, b
<1>5. /\ a \o b \in Seq(S) /\ Len(a \o b) = Len(a) + Len(b)
      /\ \A i \in 1..(Len(a) + Len(b)) :
            (a \o b)[i] = IF i <= Len(a) THEN a[i] ELSE b[i - Len(a)]
  BY <1>2, <1>3, ConcatIs
<1>. QED
  BY <1>1, <1>2, <1>3, <1>4, <1>5

LEMMA InsertAtIs ==
    ASSUME NEW S, NEW s \in Seq(S), NEW x \in S, NEW p \in 1..(Len(s) + 1)
    PROVE  /\ InsertAt(s, p, x) \in Seq(S) /\ Len(InsertAt(s, p, x)) = Len(s) + 1
           /\ \A i \in 1..(Len(s) + 1) :
                 InsertAt(s, p, x)[i] = IF i < p THEN s[i] ELSE IF i = p THEN x ELSE s[i - 1]
<1>. DEFINE a == SubSeq(s, 1, p - 1)  b == SubSeq(s, p, Len(s))  c == a \o <<x>>
<1>1. Len(s) \in Nat /\ 1 \in 1..(Len(s) + 1) /\ p - 1 \in 0..Len(s) /\ Len(s) \in (p - 1)..Len(s)
  OBVIOUS
<1>2. a \in Seq(S) /\ Len(a) = p - 1 /\ \A i \in 1..(p - 1) : a[i] = s[i]
  BY <1>1, SubSeqIs
<1>3. b \in Seq(S) /\ Len(b) = Len(s) - p + 1 /\ \A i \in 1..(Len(s) - p + 1) : b[i] = s[p + i - 1]
  BY <1>1, SubSeqIs
<1>4. InsertAt(s, p, x) = c \o b
  BY DEF InsertAt
<1>. HIDE DEF a, b
<1>5. c \in Seq(S) /\ Len(c) = p /\ \A i \in 1..p : c[i] = IF i < p THEN a[i] ELSE x
  BY <1>2, SMTT(30)
<1>. HIDE DEF c
<1>6. /\ c \o b \in Seq(S) /\ Len(c \o b) = Len(c) + Len(b)
      /\ \A i \in 1..(Len(c) + Len(b)) :
            (c \o b)[i] = IF i <= Len(c) THEN c[i] ELSE b[i - Len(c)]
  BY <1>3, <1>5, ConcatIs
<1>7. Len(c \o b) = Len(s) + 1
  BY <1>1, <1>3, <1>5, <1>6
<1>8. ASSUME NEW i \in 1..(Len(s) + 1)
      PROVE  (c \o b)[i] = IF i < p THEN s[i] ELSE IF i = p THEN x ELSE s[i - 1]
  <2>1. CASE i <= p
    <3>1. (c \o b)[i] = c[i]
      BY <1>1, <1>3, <1>5, <1>6, <2>1
    <3>2. i \in 1..p /\ c[i] = IF i < p THEN a[i] ELSE x
      BY <1>5, <2>1
    <3>3. i < p => a[i] = s[i]
      BY <1>2, <3>2
    <3>. QED
      BY <2>1, <3>1, <3>2, <3>3
  <2>2. CASE i > p
    <3>1. (c \o b)[i] = b[i - p]
      BY <1>1, <1>3, <1>5, <1>6, <2>2
    <3>2. i - p \in 1..(Len(s) - p + 1) /\ p + (i - p) - 1 = i - 1
      BY <1>1, <2>2
    <3>3. b[i - p] = s[i - 1]
      BY <1>3, <3>2
    <3>. QED
      BY <2>2, <3>1, <3>3
  <2>3. i <= p \/ i > p
    BY <1>1
  <2>. QED
    BY <2>1, <2>2, <2>3, Zenon
<1>. QED
  BY <1>4, <1>6, <1>7, <1>8

\* What is left of a list when an item is unlinked
LEMMA WithoutIs ==
    ASSUME NEW S, NEW s \in Seq(S), IsInjective(s), NEW x
    PROVE  /\ Without(s, x) \in Seq(S) /\ IsInjective(Without(s, x))
           /\ ToSet(Without(s, x)) = ToSet(s) \ {x}
           /\ Len(Without(s, x)) = IF Contains(s, x) THEN Len(s) - 1 ELSE Len(s)
           /\ \A w : Sorted(s, w) => Sorted(Without(s, x), w)
<1>1. CASE ~Contains(s, x)
  BY <1>1 DEF Without, Contains, ToSet
<1>2. CASE Contains(s, x)
  <2>. DEFINE p == PlaceOf(s, x)
  <2>1. p \in 1..Len(s) /\ s[p] = x
    BY <1>2 DEF PlaceOf, Contains
  <2>. HIDE DEF p
  <2>2. Without(s, x) = RemoveAt(s, p)
    BY <1>2 DEF Without, p
  <2>. DEFINE r == RemoveAt(s, p)
  <2>3. /\ r \in Seq(S) /\ Len(r) = Len(s) - 1
        /\ \A i \in 1..(Len(s) - 1) : r[i] = IF i < p THEN s[i] ELSE s[i + 1]
    BY <2>1, RemoveAtIs
  <2>. HIDE DEF r
  <2>4. \A i, j \in 1..Len(s) : s[i] = s[j] => i = j
    BY DEF IsInjective
  <2>. DEFINE up(n) == IF n < p THEN n ELSE n + 1
  <2>9. /\ DOMAIN r = 1..(Len(s) - 1)
        /\ \A i \in 1..(Len(s) - 1) : up(i) \in 1..Len(s) /\ up(i) # p /\ r[i] = s[up(i)]
    BY <2>1, <2>3
  <2>5. IsInjective(r)
    <3>1. \A i, j \in 1..(Len(s) - 1) : up(i) = up(j) => i = j
      BY <2>1
    <3>. HIDE DEF up
    <3>. QED
      BY <2>4, <2>9, <3>1 DEF IsInjective
  <2>6. ToSet(r) \subseteq ToSet(s) \ {x}
    <3>. HIDE DEF up
    <3>1. ASSUME NEW i \in 1..(Len(s) - 1) PROVE r[i] \in ToSet(s) \ {x}
      BY <2>1, <2>4, <2>9, SMTT(30) DEF ToSet
    <3>. QED
      BY <2>9, <3>1 DEF ToSet
  <2>7. ASSUME NEW y \in ToSet(s) \ {x} PROVE y \in ToSet(r)
    <3>1. PICK i \in 1..Len(s) : s[i] = y
      BY DEF ToSet
    <3>2. i # p
      BY <2>1, <3>1
    <3>3. CASE i < p
      <4>1. i \in 1..(Len(s) - 1) /\ r[i] = y
        BY <3>1, <3>3, <2>1, <2>3
      <4>. QED
        BY <4>1, <2>3 DEF ToSet
    <3>4. CASE i > p
      <4>1. i - 1 \in 1..(Len(s) - 1) /\ r[i - 1] = y
        BY <3>1, <3>4, <2>1, <2>3
      <4>. QED
        BY <4>1, <2>3 DEF ToSet
    <3>. QED
      BY <3>2, <3>3, <3>4, <2>1
  <2>8. ASSUME NEW w, Sorted(s, w) PROVE Sorted(r, w)
    <3>. SUFFICES ASSUME NEW i \in 1..Len(r), NEW j \in 1..Len(r), i < j
                  PROVE  w[r[i]] <= w[r[j]]
      BY <2>3 DEF Sorted
    <3>1. up(i) \in 1..Len(s) /\ up(j) \in 1..Len(s) /\ up(i) < up(j)
      BY <2>1, <2>3
    <3>2. r[i] = s[up(i)] /\ r[j] = s[up(j)]
      BY <2>3, <2>9
    <3>. QED
      BY <3>1, <3>2, <2>8 DEF Sorted
  <2>. QED
    BY <1>2, <2>2, <2>3, <2>5, <2>6, <2>7, <2>8 DEF r
<1>. QED
  BY <1>1, <1>2

\* A list with one item more, wherever it goes
LEMMA InsertedAtIs ==
    ASSUME NEW S, NEW s \in Seq(S), IsInjective(s), NEW x \in S, x \notin ToSet(s),
           NEW p \in 1..(Len(s) + 1)
    PROVE  /\ InsertAt(s, p, x) \in Seq(S) /\ IsInjective(InsertAt(s, p, x))
           /\ ToSet(InsertAt(s, p, x)) = ToSet(s) \cup {x}
<1>. DEFINE r == InsertAt(s, p, x)  up(n) == IF n < p THEN n ELSE n + 1
<1>1. /\ r \in Seq(S) /\ Len(r) = Len(s) + 1
      /\ \A i \in 1..(Len(s) + 1) : r[i] = IF i < p THEN s[i] ELSE IF i = p THEN x ELSE s[i - 1]
  BY InsertAtIs
<1>. HIDE DEF r
<1>2. /\ r[p] = x /\ DOMAIN r = 1..(Len(s) + 1)
      /\ \A i \in 1..Len(s) : up(i) \in 1..(Len(s) + 1) /\ up(i) # p /\ r[up(i)] = s[i]
  BY <1>1
<1>3. \A j \in 1..(Len(s) + 1) : j = p \/ \E i \in 1..Len(s) : j = up(i)
  <2>. TAKE j \in 1..(Len(s) + 1)
  <2>1. CASE j < p
    BY <2>1
  <2>2. CASE j > p
    <3>1. j - 1 \in 1..Len(s) /\ j = up(j - 1)
      BY <2>2
    <3>. QED
      BY <3>1
  <2>. QED
    BY <2>1, <2>2
<1>. HIDE DEF up
<1>4. \A i \in 1..Len(s) : s[i] # x
  BY DEF ToSet
<1>5. \A i, j \in 1..Len(s) : s[i] = s[j] => i = j
  BY DEF IsInjective
<1>6. IsInjective(r)
  <2>. SUFFICES ASSUME NEW a \in 1..(Len(s) + 1), NEW b \in 1..(Len(s) + 1), r[a] = r[b]
                PROVE  a = b
    BY <1>2, Zenon DEF IsInjective
  <2>1. CASE a = p /\ b = p
    BY <2>1
  <2>2. CASE a = p /\ b # p
    BY <1>2, <1>3, <1>4, <2>2, Zenon
  <2>3. CASE a # p /\ b = p
    BY <1>2, <1>3, <1>4, <2>3, Zenon
  <2>4. CASE a # p /\ b # p
    <3>1. PICK i \in 1..Len(s) : a = up(i)
      BY <1>3, <2>4, Zenon
    <3>2. PICK j \in 1..Len(s) : b = up(j)
      BY <1>3, <2>4, Zenon
    <3>3. s[i] = s[j]
      BY <1>2, <3>1, <3>2, Zenon
    <3>. QED
      BY <1>5, <3>1, <3>2, <3>3, Zenon
  <2>. QED
    BY <2>1, <2>2, <2>3, <2>4, Zenon
<1>7. ToSet(r) = ToSet(s) \cup {x}
  <2>1. ASSUME NEW j \in 1..(Len(s) + 1) PROVE r[j] \in ToSet(s) \cup {x}
    BY <1>2, <1>3, SMTT(30) DEF ToSet
  <2>2. ASSUME NEW i \in 1..Len(s) PROVE s[i] \in ToSet(r)
    BY <1>2 DEF ToSet
  <2>3. x \in ToSet(r)
    BY <1>2 DEF ToSet
  <2>4. ToSet(r) \subseteq ToSet(s) \cup {x}
    BY <1>2, <2>1, Zenon DEF ToSet
  <2>5. ToSet(s) \subseteq ToSet(r)
    BY <2>2 DEF ToSet
  <2>. QED
    BY <2>3, <2>4, <2>5, Zenon
<1>. QED
  BY <1>1, <1>6, <1>7 DEF r

LEMMA AppendIs ==
    ASSUME NEW S, NEW s \in Seq(S), IsInjective(s), NEW x \in S, x \notin ToSet(s)
    PROVE  /\ Append(s, x) \in Seq(S) /\ IsInjective(Append(s, x))
           /\ ToSet(Append(s, x)) = ToSet(s) \cup {x}
<1>1. \A i \in 1..Len(s) : s[i] # x
  BY DEF ToSet
<1>2. \A i, j \in 1..Len(s) : s[i] = s[j] => i = j
  BY DEF IsInjective
<1>3. /\ Append(s, x) \in Seq(S) /\ Len(Append(s, x)) = Len(s) + 1
      /\ \A i \in 1..(Len(s) + 1) : Append(s, x)[i] = IF i <= Len(s) THEN s[i] ELSE x
  OBVIOUS
<1>. DEFINE r == Append(s, x)
<1>. HIDE DEF r
<1>4. IsInjective(r)
  BY <1>1, <1>2, <1>3 DEF IsInjective, r
<1>5. ToSet(r) = ToSet(s) \cup {x}
  <2>1. r[Len(s) + 1] = x /\ Len(s) + 1 \in 1..(Len(s) + 1)
    BY <1>3 DEF r
  <2>2. ASSUME NEW i \in 1..Len(s) PROVE s[i] \in ToSet(r)
    BY <1>3 DEF ToSet, r
  <2>3. ASSUME NEW j \in 1..(Len(s) + 1) PROVE r[j] \in ToSet(s) \cup {x}
    BY <1>3 DEF ToSet, r
  <2>. QED
    BY <1>3, <2>1, <2>2, <2>3, SMTT(30) DEF ToSet, r
<1>. QED
  BY <1>3, <1>4, <1>5 DEF r

\* vListInsert keeps a list in the order of its values.
LEMMA InsertSortedIs ==
    ASSUME NEW S, NEW s \in Seq(S), IsInjective(s), NEW x \in S, x \notin ToSet(s),
           NEW value \in [S -> Int]
    PROVE  /\ InsertSorted(s, x, value) \in Seq(S) /\ IsInjective(InsertSorted(s, x, value))
           /\ ToSet(InsertSorted(s, x, value)) = ToSet(s) \cup {x}
           /\ Sorted(s, value) => Sorted(InsertSorted(s, x, value), value)
<1>. DEFINE greater == {i \in DOMAIN s : value[s[i]] > value[x]}
            p == IF greater = {} THEN Len(s) + 1 ELSE Min(greater)
            r == InsertAt(s, p, x)
<1>1. greater \subseteq Nat
  OBVIOUS
<1>2. /\ p \in 1..(Len(s) + 1)
      /\ \A i \in 1..Len(s) : i < p => ~(value[s[i]] > value[x])
      /\ p \in 1..Len(s) => value[s[p]] > value[x]
  <2>1. CASE greater = {}
    BY <2>1
  <2>2. CASE greater # {}
    <3>1. p \in greater /\ \A i \in greater : p <= i
      BY <1>1, <2>2, MinIs
    <3>. HIDE DEF p
    <3>. QED
      BY <3>1
  <2>. QED
    BY <2>1, <2>2
<1>3. InsertSorted(s, x, value) = r
  BY DEF InsertSorted
<1>. HIDE DEF greater, p, r
<1>4. /\ r \in Seq(S) /\ Len(r) = Len(s) + 1
      /\ \A i \in 1..(Len(s) + 1) : r[i] = IF i < p THEN s[i] ELSE IF i = p THEN x ELSE s[i - 1]
  BY <1>2, InsertAtIs DEF r
<1>5. ASSUME Sorted(s, value) PROVE Sorted(r, value)
  <2>1. \A i, j \in 1..Len(s) : i < j => value[s[i]] <= value[s[j]]
    BY <1>5 DEF Sorted
  <2>2. \A i \in 1..Len(s) : s[i] \in S /\ value[s[i]] \in Int
    OBVIOUS
  <2>3. \A i \in 1..Len(s) : i < p => value[s[i]] <= value[x]
    BY <1>2, <2>2
  <2>4. \A i \in 1..Len(s) : i >= p => value[x] <= value[s[i]]
    <3>. TAKE i \in 1..Len(s)
    <3>. SUFFICES ASSUME i >= p PROVE value[x] <= value[s[i]]
      OBVIOUS
    <3>1. p \in 1..Len(s) /\ value[s[p]] > value[x]
      BY <1>2
    <3>2. value[s[p]] <= value[s[i]]
      BY <2>1, <2>2, <3>1
    <3>. QED
      BY <2>2, <3>1, <3>2
  <2>. SUFFICES ASSUME NEW i \in 1..(Len(s) + 1), NEW j \in 1..(Len(s) + 1), i < j
                PROVE  value[r[i]] <= value[r[j]]
    BY <1>4 DEF Sorted
  <2>5. CASE j < p
    <3>1. r[i] = s[i] /\ r[j] = s[j] /\ i \in 1..Len(s) /\ j \in 1..Len(s)
      BY <1>2, <1>4, <2>5, SMTT(30)
    <3>. QED
      BY <2>1, <3>1
  <2>6. CASE j = p
    <3>1. r[i] = s[i] /\ r[j] = x /\ i \in 1..Len(s) /\ i < p
      BY <1>2, <1>4, <2>6
    <3>. QED
      BY <2>3, <3>1
  <2>7. CASE j > p /\ i < p
    <3>1. r[i] = s[i] /\ r[j] = s[j - 1] /\ i \in 1..Len(s) /\ j - 1 \in 1..Len(s) /\ j - 1 >= p
      BY <1>2, <1>4, <2>7
    <3>2. value[s[i]] <= value[x] /\ value[x] <= value[s[j - 1]]
      BY <2>3, <2>4, <2>7, <3>1
    <3>. QED
      BY <2>2, <3>1, <3>2
  <2>8. CASE j > p /\ i = p
    <3>1. r[i] = x /\ r[j] = s[j - 1] /\ j - 1 \in 1..Len(s) /\ j - 1 >= p
      BY <1>2, <1>4, <2>8
    <3>. QED
      BY <2>4, <3>1
  <2>9. CASE i > p
    <3>1. /\ r[i] = s[i - 1] /\ r[j] = s[j - 1]
          /\ i - 1 \in 1..Len(s) /\ j - 1 \in 1..Len(s) /\ i - 1 < j - 1
      BY <1>2, <1>4, <2>9
    <3>. QED
      BY <2>1, <3>1
  <2>. QED
    BY <1>2, <2>5, <2>6, <2>7, <2>8, <2>9
<1>6. IsInjective(r) /\ ToSet(r) = ToSet(s) \cup {x}
  BY <1>2, InsertedAtIs DEF r
<1>. QED
  BY <1>3, <1>4, <1>5, <1>6

\* The head of a sorted list is the least.
LEMMA HeadIsLeast ==
    ASSUME NEW S, NEW s \in Seq(S), s # <<>>, NEW w \in [S -> Int], Sorted(s, w)
    PROVE  Head(s) \in ToSet(s) /\ \A x \in ToSet(s) : w[Head(s)] <= w[x]
<1>1. Len(s) \in Nat \ {0} /\ Head(s) = s[1] /\ \A i \in 1..Len(s) : s[i] \in S
  OBVIOUS
<1>2. ASSUME NEW i \in 1..Len(s) PROVE w[s[1]] <= w[s[i]]
  BY <1>1, <1>2 DEF Sorted
<1>. QED
  BY <1>1, <1>2 DEF ToSet

LEMMA ToSetIn ==
    ASSUME NEW S, NEW s \in Seq(S)
    PROVE  ToSet(s) \subseteq S
  BY DEF ToSet

LEMMA SortedSame ==
    ASSUME NEW s, NEW w, NEW v, Sorted(s, w), \A x \in ToSet(s) : v[x] = w[x]
    PROVE  Sorted(s, v)
  BY DEF Sorted, ToSet

LEMMA TailIs ==
    ASSUME NEW S, NEW s \in Seq(S), s # <<>>, IsInjective(s)
    PROVE  /\ Tail(s) \in Seq(S) /\ IsInjective(Tail(s)) /\ Head(s) \in ToSet(s)
           /\ ToSet(Tail(s)) = ToSet(s) \ {Head(s)}
<1>1. /\ Len(s) \in Nat \ {0} /\ Head(s) = s[1] /\ Tail(s) \in Seq(S) /\ Len(Tail(s)) = Len(s) - 1
      /\ \A i \in 1..(Len(s) - 1) : Tail(s)[i] = s[i + 1]
  OBVIOUS
<1>2. \A i, j \in 1..Len(s) : s[i] = s[j] => i = j
  BY DEF IsInjective
<1>. DEFINE r == Tail(s)
<1>. HIDE DEF r
<1>3. IsInjective(r)
  BY <1>1, <1>2 DEF IsInjective, r
<1>4. ASSUME NEW i \in 1..(Len(s) - 1) PROVE r[i] \in ToSet(s) \ {s[1]}
  BY <1>1, <1>2 DEF ToSet, r
<1>5. ASSUME NEW i \in 1..Len(s), s[i] # s[1] PROVE s[i] \in ToSet(r)
  <2>1. i - 1 \in 1..(Len(s) - 1) /\ r[i - 1] = s[i] /\ DOMAIN r = 1..(Len(s) - 1)
    BY <1>1, <1>5 DEF r
  <2>. QED
    BY <2>1, Zenon DEF ToSet
<1>6. ToSet(r) = ToSet(s) \ {s[1]}
  BY <1>1, <1>4, <1>5 DEF ToSet, r
<1>. QED
  BY <1>1, <1>3, <1>6 DEF ToSet, r

-----------------------------------------------------------------------------
(* list.c *)

ListOK(l) ==
    /\ l \in [items : Seq(Tasks), index : Nat]
    /\ IsInjective(l.items) /\ l.index <= Len(l.items)

LEMMA InsertEndIs ==
    ASSUME NEW l, ListOK(l), NEW x \in Tasks, x \notin ToSet(l.items)
    PROVE  ListOK(InsertEnd(l, x)) /\ ToSet(InsertEnd(l, x).items) = ToSet(l.items) \cup {x}
<1>. DEFINE s == l.items  n == l.index
<1>1. s \in Seq(Tasks) /\ n \in Nat /\ IsInjective(s) /\ n <= Len(s) /\ x \notin ToSet(s)
      /\ l = [items |-> s, index |-> n]
  BY DEF ListOK
<1>. HIDE DEF s, n
<1>2. CASE n = 0
  <2>1. InsertEnd(l, x) = [items |-> Append(s, x), index |-> 0]
    BY <1>1, <1>2 DEF InsertEnd
  <2>. QED
    BY <1>1, <2>1, AppendIs DEF ListOK, s
<1>3. CASE n # 0
  <2>1. InsertEnd(l, x) = [items |-> InsertAt(s, n, x), index |-> n + 1]
    BY <1>1, <1>3 DEF InsertEnd
  <2>2. n \in 1..(Len(s) + 1)
    BY <1>1, <1>3
  <2>3. /\ InsertAt(s, n, x) \in Seq(Tasks) /\ IsInjective(InsertAt(s, n, x))
        /\ ToSet(InsertAt(s, n, x)) = ToSet(s) \cup {x} /\ Len(InsertAt(s, n, x)) = Len(s) + 1
    BY <1>1, <2>2, InsertedAtIs, InsertAtIs
  <2>. HIDE DEF InsertAt
  <2>. QED
    BY <1>1, <2>1, <2>3 DEF ListOK, s
<1>. QED
  BY <1>2, <1>3

LEMMA ListRemoveIs ==
    ASSUME NEW l, ListOK(l), NEW x
    PROVE  ListOK(ListRemove(l, x)) /\ ToSet(ListRemove(l, x).items) = ToSet(l.items) \ {x}
<1>. DEFINE s == l.items  n == l.index
<1>1. s \in Seq(Tasks) /\ n \in Nat /\ IsInjective(s) /\ n <= Len(s)
  BY DEF ListOK
<1>2. Contains(s, x) => PlaceOf(s, x) \in 1..Len(s)
  BY <1>1 DEF Contains, PlaceOf
<1>3. /\ Without(s, x) \in Seq(Tasks) /\ IsInjective(Without(s, x))
      /\ ToSet(Without(s, x)) = ToSet(s) \ {x}
      /\ Len(Without(s, x)) = IF Contains(s, x) THEN Len(s) - 1 ELSE Len(s)
  BY <1>1, WithoutIs
<1>4. ListRemove(l, x) =
        [items |-> Without(s, x),
         index |-> IF Contains(s, x) /\ PlaceOf(s, x) <= n THEN n - 1 ELSE n]
  BY DEF ListRemove
<1>. HIDE DEF s, n
<1>. QED
  BY <1>1, <1>2, <1>3, <1>4 DEF ListOK, s

-----------------------------------------------------------------------------
(* The kernel's record, and the sets of tasks its lists hold *)

KState ==
    [ready : [Priorities -> [items : Seq(Tasks), index : Nat]],
     delayed : Seq(Tasks), overflow : Seq(Tasks), pending : Seq(Tasks),
     terminating : Seq(Tasks), events : [EventLists -> Seq(Tasks)],
     wake : [Tasks -> Ticks], evValue : [Tasks -> Int],
     prio : [Tasks -> Priorities], base : [Tasks -> Priorities], cur : Tasks,
     tick : Ticks, overflows : Nat, nextUnblock : Ticks,
     suspended : Nat, pendedTicks : Nat, yieldPending : BOOLEAN]

\* No list has an item twice.
WellFormed(k) ==
    /\ k \in KState
    /\ \A p \in Priorities : ListOK(k.ready[p])
    /\ IsInjective(k.delayed) /\ IsInjective(k.overflow)
    /\ IsInjective(k.pending) /\ IsInjective(k.terminating)
    /\ \A e \in EventLists : IsInjective(k.events[e])

\* What the moves from list to list leave alone
SameRest(k, r) ==
    /\ r.evValue = k.evValue /\ r.prio = k.prio /\ r.base = k.base /\ r.cur = k.cur
    /\ r.tick = k.tick /\ r.overflows = k.overflows /\ r.suspended = k.suspended
    /\ r.pendedTicks = k.pendedTicks /\ r.yieldPending = k.yieldPending

\* Event lists that are sorted by the values of their items stay so.
OrderKept(k, r) ==
    /\ r.evValue = k.evValue
    /\ \A e \in EventLists :
          Sorted(k.events[e], k.evValue) => Sorted(r.events[e], k.evValue)

LEMMA OrderSame ==
    ASSUME NEW k, NEW r, r.events = k.events, r.evValue = k.evValue
    PROVE  OrderKept(k, r)
  BY DEF OrderKept

LEMMA OrderBoth ==
    ASSUME NEW k, NEW a, OrderKept(k, a), NEW r, OrderKept(a, r)
    PROVE  OrderKept(k, r)
  BY DEF OrderKept

LEMMA RemoveStateFields ==
    ASSUME NEW k \in KState, NEW t \in Tasks, NEW r, r = RemoveState(k, t)
    PROVE  /\ r.ready = [p \in Priorities |-> ListRemove(k.ready[p], t)]
           /\ r.delayed = Without(k.delayed, t) /\ r.overflow = Without(k.overflow, t)
           /\ r.terminating = Without(k.terminating, t)
           /\ r.wake = [k.wake EXCEPT ![t] = 0]
           /\ r.pending = k.pending /\ r.events = k.events
           /\ SameRest(k, r) /\ r.nextUnblock = k.nextUnblock
  BY DEF RemoveState, KState, SameRest

\* Taken off its state list, a task is on none, and every other stays where it is.
StateRemoved(k, t, r) ==
    /\ WellFormed(r)
    /\ \A p \in Priorities : ToSet(r.ready[p].items) = ToSet(k.ready[p].items) \ {t}
    /\ ToSet(r.delayed) = ToSet(k.delayed) \ {t}
    /\ ToSet(r.overflow) = ToSet(k.overflow) \ {t}
    /\ ToSet(r.terminating) = ToSet(k.terminating) \ {t}
    /\ r.pending = k.pending /\ r.events = k.events
    /\ \A u \in Tasks \ {t} : r.wake[u] = k.wake[u]
    /\ SameRest(k, r) /\ r.nextUnblock = k.nextUnblock
    /\ Sorted(k.delayed, k.wake) => Sorted(r.delayed, r.wake)
    /\ Sorted(k.overflow, k.wake) => Sorted(r.overflow, r.wake)

LEMMA RemoveStateIs ==
    ASSUME NEW k, WellFormed(k), NEW t \in Tasks
    PROVE  StateRemoved(k, t, RemoveState(k, t))
<1>. DEFINE r == RemoveState(k, t)
<1>0. r = RemoveState(k, t)
  OBVIOUS
<1>. HIDE DEF r
<1>. k \in KState
  BY DEF WellFormed
<1>1. /\ r.ready = [p \in Priorities |-> ListRemove(k.ready[p], t)]
      /\ r.delayed = Without(k.delayed, t) /\ r.overflow = Without(k.overflow, t)
      /\ r.terminating = Without(k.terminating, t)
      /\ r.wake = [k.wake EXCEPT ![t] = 0]
      /\ r.pending = k.pending /\ r.events = k.events /\ SameRest(k, r)
      /\ r.nextUnblock = k.nextUnblock
  BY <1>0, RemoveStateFields
<1>2. /\ k.delayed \in Seq(Tasks) /\ k.overflow \in Seq(Tasks) /\ k.terminating \in Seq(Tasks)
      /\ k.wake \in [Tasks -> Ticks] /\ 0 \in Ticks
  BY TaskListsAssumption DEF KState, Ticks
<1>3. \A p \in Priorities : /\ ListOK(r.ready[p])
                            /\ ToSet(r.ready[p].items) = ToSet(k.ready[p].items) \ {t}
  BY <1>1, ListRemoveIs DEF WellFormed
<1>4. \A s \in {k.delayed, k.overflow, k.terminating} :
        /\ Without(s, t) \in Seq(Tasks) /\ IsInjective(Without(s, t))
        /\ ToSet(Without(s, t)) = ToSet(s) \ {t}
        /\ Sorted(s, k.wake) => Sorted(Without(s, t), k.wake)
  BY <1>2, WithoutIs DEF WellFormed
<1>5. \A s \in {k.delayed, k.overflow} :
        Sorted(Without(s, t), k.wake) => Sorted(Without(s, t), r.wake)
  <2>. TAKE s \in {k.delayed, k.overflow}
  <2>1. \A x \in ToSet(Without(s, t)) : x \in Tasks /\ x # t
    BY <1>4, <1>2, ToSetIn
  <2>2. \A x \in ToSet(Without(s, t)) : r.wake[x] = k.wake[x]
    BY <1>1, <1>2, <2>1
  <2>. QED
    BY <2>2, SortedSame
<1>6. r \in KState
  <2>1. r.wake \in [Tasks -> Ticks]
    BY <1>1, <1>2
  <2>2. r.ready \in [Priorities -> [items : Seq(Tasks), index : Nat]]
    BY <1>1, <1>3 DEF ListOK
  <2>3. r.delayed \in Seq(Tasks) /\ r.overflow \in Seq(Tasks) /\ r.terminating \in Seq(Tasks)
    BY <1>1, <1>4
  <2>. QED
    BY <1>0, <1>1, <2>1, <2>2, <2>3 DEF RemoveState, KState
<1>7. \A u \in Tasks \ {t} : r.wake[u] = k.wake[u]
  BY <1>1, <1>2
<1>. QED
  BY <1>0, <1>1, <1>3, <1>4, <1>5, <1>6, <1>7 DEF WellFormed, StateRemoved

EventRemoved(k, t, r) ==
    /\ WellFormed(r)
    /\ \A e \in EventLists : ToSet(r.events[e]) = ToSet(k.events[e]) \ {t}
    /\ ToSet(r.pending) = ToSet(k.pending) \ {t}
    /\ r.ready = k.ready /\ r.delayed = k.delayed /\ r.overflow = k.overflow
    /\ r.terminating = k.terminating /\ r.wake = k.wake
    /\ SameRest(k, r) /\ r.nextUnblock = k.nextUnblock /\ OrderKept(k, r)

LEMMA RemoveEventIs ==
    ASSUME NEW k, WellFormed(k), NEW t \in Tasks
    PROVE  EventRemoved(k, t, RemoveEvent(k, t))
<1>. DEFINE r == RemoveEvent(k, t)
<1>0. r = RemoveEvent(k, t)
  OBVIOUS
<1>. HIDE DEF r
<1>. k \in KState
  BY DEF WellFormed
<1>1. /\ r.events = [e \in EventLists |-> Without(k.events[e], t)]
      /\ r.pending = Without(k.pending, t)
      /\ r.ready = k.ready /\ r.delayed = k.delayed /\ r.overflow = k.overflow
      /\ r.terminating = k.terminating /\ r.wake = k.wake
      /\ SameRest(k, r) /\ r.nextUnblock = k.nextUnblock
  BY <1>0 DEF RemoveEvent, KState, SameRest
<1>2. k.pending \in Seq(Tasks) /\ \A e \in EventLists : k.events[e] \in Seq(Tasks)
  BY DEF KState
<1>3. /\ Without(k.pending, t) \in Seq(Tasks) /\ IsInjective(Without(k.pending, t))
      /\ ToSet(Without(k.pending, t)) = ToSet(k.pending) \ {t}
  BY <1>2, WithoutIs DEF WellFormed
<1>4. \A e \in EventLists :
        /\ Without(k.events[e], t) \in Seq(Tasks) /\ IsInjective(Without(k.events[e], t))
        /\ ToSet(Without(k.events[e], t)) = ToSet(k.events[e]) \ {t}
        /\ \A w : Sorted(k.events[e], w) => Sorted(Without(k.events[e], t), w)
  BY <1>2, WithoutIs DEF WellFormed
<1>5. r \in KState
  <2>1. r.events \in [EventLists -> Seq(Tasks)] /\ r.pending \in Seq(Tasks)
    BY <1>1, <1>3, <1>4
  <2>. QED
    BY <1>0, <1>1, <2>1 DEF RemoveEvent, KState
<1>6. OrderKept(k, r)
  BY <1>1, <1>4 DEF OrderKept, SameRest
<1>. QED
  BY <1>0, <1>1, <1>3, <1>4, <1>5, <1>6 DEF WellFormed, EventRemoved

ReadyAdded(k, t, r) ==
    /\ WellFormed(r)
    /\ \A p \in Priorities : ToSet(r.ready[p].items) =
          IF p = k.prio[t] THEN ToSet(k.ready[p].items) \cup {t} ELSE ToSet(k.ready[p].items)
    /\ r.delayed = k.delayed /\ r.overflow = k.overflow /\ r.terminating = k.terminating
    /\ r.pending = k.pending /\ r.events = k.events /\ r.wake = k.wake
    /\ SameRest(k, r) /\ r.nextUnblock = k.nextUnblock

LEMMA AddToReadyIs ==
    ASSUME NEW k, WellFormed(k), NEW t \in Tasks, t \notin ToSet(k.ready[k.prio[t]].items)
    PROVE  ReadyAdded(k, t, AddToReady(k, t))
<1>. DEFINE r == AddToReady(k, t)
<1>0. r = AddToReady(k, t)
  OBVIOUS
<1>. HIDE DEF r
<1>. k \in KState /\ k.prio[t] \in Priorities
  BY DEF WellFormed, KState
<1>1. /\ r.ready = [k.ready EXCEPT ![k.prio[t]] = InsertEnd(k.ready[k.prio[t]], t)]
      /\ r.delayed = k.delayed /\ r.overflow = k.overflow /\ r.terminating = k.terminating
      /\ r.pending = k.pending /\ r.events = k.events /\ r.wake = k.wake
      /\ SameRest(k, r) /\ r.nextUnblock = k.nextUnblock
  BY <1>0 DEF AddToReady, KState, SameRest
<1>2. /\ ListOK(InsertEnd(k.ready[k.prio[t]], t))
      /\ ToSet(InsertEnd(k.ready[k.prio[t]], t).items) = ToSet(k.ready[k.prio[t]].items) \cup {t}
  BY InsertEndIs DEF WellFormed
<1>3. \A p \in Priorities :
        r.ready[p] = IF p = k.prio[t] THEN InsertEnd(k.ready[p], t) ELSE k.ready[p]
  BY <1>1 DEF KState
<1>4. r.ready \in [Priorities -> [items : Seq(Tasks), index : Nat]]
  <2>1. InsertEnd(k.ready[k.prio[t]], t) \in [items : Seq(Tasks), index : Nat]
    BY <1>2 DEF ListOK
  <2>2. k.ready \in [Priorities -> [items : Seq(Tasks), index : Nat]]
    BY DEF KState
  <2>. QED
    BY <1>1, <2>1, <2>2
<1>5. r \in KState
  BY <1>0, <1>1, <1>4 DEF AddToReady, KState
<1>. QED
  BY <1>0, <1>1, <1>2, <1>3, <1>5, ZenonT(60) DEF WellFormed, ReadyAdded

\* The three calls together, for each task of a set: those are on the ready lists of
\* their priorities, and on no other list.
MadeReady(k, W, r) ==
    /\ WellFormed(r)
    /\ \A p \in Priorities : ToSet(r.ready[p].items) =
          (ToSet(k.ready[p].items) \ W) \cup {t \in W : k.prio[t] = p}
    /\ ToSet(r.delayed) = ToSet(k.delayed) \ W
    /\ ToSet(r.overflow) = ToSet(k.overflow) \ W
    /\ ToSet(r.terminating) = ToSet(k.terminating) \ W
    /\ \A e \in EventLists : ToSet(r.events[e]) = ToSet(k.events[e]) \ W
    /\ ToSet(r.pending) = ToSet(k.pending) \ W
    /\ \A u \in Tasks \ W : r.wake[u] = k.wake[u]
    /\ SameRest(k, r) /\ OrderKept(k, r)
    /\ Sorted(k.delayed, k.wake) => Sorted(r.delayed, r.wake)
    /\ Sorted(k.overflow, k.wake) => Sorted(r.overflow, r.wake)

LEMMA MakeReadyIs ==
    ASSUME NEW k, WellFormed(k), NEW t \in Tasks
    PROVE  /\ MadeReady(k, {t}, MakeReady(k, t))
           /\ MakeReady(k, t).nextUnblock = k.nextUnblock
<1>. DEFINE a == RemoveEvent(k, t)  b == RemoveState(a, t)  r == AddToReady(b, t)
<1>1. EventRemoved(k, t, a)
  BY RemoveEventIs
<1>. HIDE DEF a
<1>2. StateRemoved(a, t, b)
  BY <1>1, RemoveStateIs DEF EventRemoved
<1>. HIDE DEF b
<1>3. b.prio = k.prio /\ k.prio[t] \in Priorities
  BY <1>1, <1>2 DEF EventRemoved, StateRemoved, SameRest, WellFormed, KState
<1>4. t \notin ToSet(b.ready[b.prio[t]].items)
  BY <1>2, <1>3 DEF StateRemoved
<1>5. ReadyAdded(b, t, r)
  BY <1>2, <1>4, AddToReadyIs DEF StateRemoved
<1>6. MakeReady(k, t) = r
  BY DEF MakeReady, a, b
<1>. HIDE DEF r
<1>7. \A p \in Priorities : ToSet(r.ready[p].items) =
            (ToSet(k.ready[p].items) \ {t}) \cup {u \in {t} : k.prio[u] = p}
  <2>. TAKE p \in Priorities
  <2>1. ToSet(b.ready[p].items) = ToSet(k.ready[p].items) \ {t}
    BY <1>1, <1>2 DEF EventRemoved, StateRemoved
  <2>. QED
    BY <1>3, <1>5, <2>1 DEF ReadyAdded
<1>8. SameRest(k, r) /\ r.nextUnblock = k.nextUnblock
  BY <1>1, <1>2, <1>5 DEF EventRemoved, StateRemoved, ReadyAdded, SameRest
<1>9. /\ Sorted(k.delayed, k.wake) => Sorted(r.delayed, r.wake)
      /\ Sorted(k.overflow, k.wake) => Sorted(r.overflow, r.wake)
  BY <1>1, <1>2, <1>5 DEF EventRemoved, StateRemoved, ReadyAdded
<1>10. /\ ToSet(r.delayed) = ToSet(k.delayed) \ {t}
       /\ ToSet(r.overflow) = ToSet(k.overflow) \ {t}
       /\ ToSet(r.terminating) = ToSet(k.terminating) \ {t}
       /\ ToSet(r.pending) = ToSet(k.pending) \ {t}
  BY <1>1, <1>2, <1>5 DEF EventRemoved, StateRemoved, ReadyAdded
<1>11. /\ \A e \in EventLists : ToSet(r.events[e]) = ToSet(k.events[e]) \ {t}
       /\ \A u \in Tasks \ {t} : r.wake[u] = k.wake[u]
  BY <1>1, <1>2, <1>5 DEF EventRemoved, StateRemoved, ReadyAdded
<1>12. WellFormed(r)
  BY <1>5 DEF ReadyAdded
<1>13. OrderKept(k, r)
  <2>1. r.events = a.events /\ r.evValue = a.evValue
    BY <1>2, <1>5 DEF StateRemoved, ReadyAdded, SameRest
  <2>. QED
    BY <1>1, <2>1, OrderSame, OrderBoth DEF EventRemoved
<1>. QED
  BY <1>6, <1>7, <1>8, <1>9, <1>10, <1>11, <1>12, <1>13 DEF MadeReady

LEMMA MadeReadyNone ==
    ASSUME NEW k, WellFormed(k)
    PROVE  MadeReady(k, {}, k)
  BY OrderSame DEF MadeReady, SameRest

LEMMA MadeReadyBoth ==
    ASSUME NEW k, NEW V, NEW a, MadeReady(k, V, a), NEW W, NEW r, MadeReady(a, W, r)
    PROVE  MadeReady(k, V \cup W, r)
<1>1. SameRest(k, r) /\ a.prio = k.prio
  BY DEF MadeReady, SameRest
<1>2. /\ Sorted(k.delayed, k.wake) => Sorted(r.delayed, r.wake)
      /\ Sorted(k.overflow, k.wake) => Sorted(r.overflow, r.wake)
      /\ WellFormed(r)
  BY DEF MadeReady
<1>3. \A u \in Tasks \ (V \cup W) : r.wake[u] = k.wake[u]
  BY DEF MadeReady
<1>4. /\ ToSet(r.delayed) = ToSet(k.delayed) \ (V \cup W)
      /\ ToSet(r.overflow) = ToSet(k.overflow) \ (V \cup W)
      /\ ToSet(r.terminating) = ToSet(k.terminating) \ (V \cup W)
      /\ ToSet(r.pending) = ToSet(k.pending) \ (V \cup W)
      /\ \A e \in EventLists : ToSet(r.events[e]) = ToSet(k.events[e]) \ (V \cup W)
  BY DEF MadeReady
<1>5. \A p \in Priorities : ToSet(r.ready[p].items) =
          (ToSet(k.ready[p].items) \ (V \cup W)) \cup {t \in V \cup W : k.prio[t] = p}
  <2>. TAKE p \in Priorities
  <2>1. /\ ToSet(r.ready[p].items) =
             (ToSet(a.ready[p].items) \ W) \cup {t \in W : k.prio[t] = p}
        /\ ToSet(a.ready[p].items) =
             (ToSet(k.ready[p].items) \ V) \cup {t \in V : k.prio[t] = p}
    BY <1>1 DEF MadeReady
  <2>. QED
    BY <2>1
<1>6. OrderKept(k, r)
  BY OrderBoth DEF MadeReady
<1>. QED
  BY <1>1, <1>2, <1>3, <1>4, <1>5, <1>6 DEF MadeReady

-----------------------------------------------------------------------------
(* The tick: xNextTaskUnblockTime, and the loop over the delayed list *)

\* xNextTaskUnblockTime lies after no task of the current list.
UnblocksInTime(k) == \A t \in ToSet(k.delayed) : k.nextUnblock <= k.wake[t]

LEMMA ResetNextUnblockIs ==
    ASSUME NEW k, WellFormed(k), Sorted(k.delayed, k.wake)
    PROVE  MadeReady(k, {}, ResetNextUnblock(k)) /\ UnblocksInTime(ResetNextUnblock(k))
<1>. DEFINE n == IF k.delayed = <<>> THEN MAX_DELAY ELSE k.wake[Head(k.delayed)]
            r == ResetNextUnblock(k)
<1>1. k \in KState /\ k.delayed \in Seq(Tasks) /\ k.wake \in [Tasks -> Ticks]
  BY DEF WellFormed, KState
<1>2. k.delayed # <<>> =>
        Head(k.delayed) \in ToSet(k.delayed) /\ \A x \in ToSet(k.delayed) : n <= k.wake[x]
  <2>1. k.wake \in [Tasks -> Int]
    BY <1>1 DEF Ticks
  <2>. QED
    BY <1>1, <2>1, HeadIsLeast
<1>3. n \in Ticks
  <2>1. Head(k.delayed) \in ToSet(k.delayed) => Head(k.delayed) \in Tasks
    BY <1>1, ToSetIn
  <2>. QED
    BY <1>1, <1>2, <2>1, TaskListsAssumption DEF Ticks, MAX_DELAY
<1>4. r = [k EXCEPT !.nextUnblock = n]
  BY DEF ResetNextUnblock
<1>. HIDE DEF n, r
<1>5. /\ r.ready = k.ready /\ r.delayed = k.delayed /\ r.overflow = k.overflow
      /\ r.terminating = k.terminating /\ r.pending = k.pending /\ r.events = k.events
      /\ r.wake = k.wake /\ SameRest(k, r) /\ r.nextUnblock = n
  BY <1>1, <1>4 DEF KState, SameRest
<1>6. r \in KState
  BY <1>1, <1>3, <1>4 DEF KState
<1>7. MadeReady(k, {}, r)
  <2>1. OrderKept(k, r)
    BY <1>5, OrderSame DEF SameRest
  <2>. QED
    BY <1>5, <1>6, <2>1 DEF MadeReady, WellFormed
<1>8. UnblocksInTime(r)
  <2>1. CASE k.delayed = <<>>
    BY <1>5, <2>1 DEF UnblocksInTime, ToSet
  <2>2. CASE k.delayed # <<>>
    BY <1>2, <1>5, <2>2 DEF UnblocksInTime
  <2>. QED
    BY <2>1, <2>2
<1>. QED
  BY <1>7, <1>8 DEF r

LEMMA WakeHeadIs ==
    ASSUME NEW k, WellFormed(k)
    PROVE  /\ k.delayed = <<>> \/ k.wake[Head(k.delayed)] > k.tick => WakeHead(k) = k
           /\ k.delayed # <<>> /\ ~(k.wake[Head(k.delayed)] > k.tick) =>
                 /\ Head(k.delayed) \in ToSet(k.delayed)
                 /\ MadeReady(k, {Head(k.delayed)}, WakeHead(k))
                 /\ Len(WakeHead(k).delayed) = Len(k.delayed) - 1
           /\ WellFormed(WakeHead(k))
<1>1. k.delayed \in Seq(Tasks) /\ IsInjective(k.delayed)
  BY DEF WellFormed, KState
<1>. DEFINE t == Head(k.delayed)  due == k.delayed # <<>> /\ ~(k.wake[t] > k.tick)
<1>2. ~due => WakeHead(k) = k
  BY DEF WakeHead
<1>3. ASSUME due
      PROVE  /\ t \in ToSet(k.delayed) /\ MadeReady(k, {t}, WakeHead(k))
             /\ Len(WakeHead(k).delayed) = Len(k.delayed) - 1
  <2>1. t \in ToSet(k.delayed) /\ t \in Tasks
    BY <1>1, <1>3, TailIs, ToSetIn
  <2>2. WakeHead(k) = MakeReady(k, t)
    BY <1>3 DEF WakeHead
  <2>3. MadeReady(k, {t}, MakeReady(k, t))
    BY <2>1, MakeReadyIs
  <2>4. Len(MakeReady(k, t).delayed) = Len(k.delayed) - 1
    <3>. DEFINE a == RemoveEvent(k, t)  b == RemoveState(a, t)  r == AddToReady(b, t)
    <3>1. EventRemoved(k, t, a)
      BY <2>1, RemoveEventIs
    <3>2. a \in KState /\ a.delayed = k.delayed
      BY <3>1 DEF EventRemoved, WellFormed
    <3>3. MakeReady(k, t) = r
      BY DEF MakeReady
    <3>. HIDE DEF a
    <3>8. StateRemoved(a, t, b)
      BY <2>1, <3>1, RemoveStateIs DEF EventRemoved
    <3>4. b.delayed = Without(k.delayed, t) /\ b \in KState
      <4>1. b.delayed = Without(a.delayed, t)
        BY <2>1, <3>2, RemoveStateFields, ZenonT(60)
      <4>. QED
        BY <3>2, <3>8, <4>1 DEF StateRemoved, WellFormed
    <3>. HIDE DEF b
    <3>5. r.delayed = b.delayed
      BY <3>4 DEF AddToReady, KState
    <3>6. Contains(k.delayed, t)
      BY <1>1, <2>1 DEF Contains, ToSet
    <3>7. Len(Without(k.delayed, t)) = Len(k.delayed) - 1
      BY <1>1, <3>6, WithoutIs
    <3>. QED
      BY <3>3, <3>4, <3>5, <3>7
  <2>. QED
    BY <2>1, <2>2, <2>3, <2>4
<1>. QED
  BY <1>2, <1>3 DEF MadeReady

\* The loop wakes the tasks whose time has come, each of them, and no other.
LEMMA WakeDueIs ==
    ASSUME NEW k, WellFormed(k), Sorted(k.delayed, k.wake)
    PROVE  /\ MadeReady(k, {t \in ToSet(k.delayed) : k.wake[t] <= k.tick}, WakeDue(k))
           /\ UnblocksInTime(WakeDue(k))
<1>. DEFINE n == Len(k.delayed)
            K == {r \in KState : WellFormed(r)}
            step == [i \in Nat |-> [r \in K |-> WakeHead(r)]]
<1>1. n \in Nat /\ k \in K /\ k.tick \in Int /\ k.delayed \in Seq(Tasks)
  <2>1. k \in KState
    BY DEF WellFormed
  <2>2. k.tick \in Int /\ k.delayed \in Seq(Tasks)
    BY <2>1 DEF KState, Ticks
  <2>. QED
    BY <2>1, <2>2
<1>2. step \in [Nat -> [K -> K]]
  <2>1. \A r \in K : WakeHead(r) \in K
    BY WakeHeadIs DEF WellFormed
  <2>. QED
    BY <2>1
<1>3. \E f \in [0..n -> K] : Iterated(f, k, step, n)
  <2>. HIDE DEF n, K, step
  <2>. QED
    BY <1>1, <1>2, Iterates
<1>4. PICK f \in [0..n -> K] : \A i \in 0..n : f[i] = IF i = 0 THEN k ELSE WakeHead(f[i - 1])
  <2>1. PICK f \in [0..n -> K] : \A i \in 0..n : f[i] = IF i = 0 THEN k ELSE step[i][f[i - 1]]
    BY <1>3 DEF Iterated
  <2>2. \A i \in 0..n : i # 0 => f[i - 1] \in K /\ i \in Nat
    BY <1>1, <2>1
  <2>3. \A i \in 0..n : f[i] = IF i = 0 THEN k ELSE WakeHead(f[i - 1])
    BY <2>1, <2>2
  <2>. QED
    BY <2>1, <2>3
<1>5. f = [i \in 0..n |-> IF i = 0 THEN k ELSE WakeHead(f[i - 1])]
  <2>. DEFINE g == [i \in 0..n |-> IF i = 0 THEN k ELSE WakeHead(f[i - 1])]
  <2>1. \A i \in 0..n : f[i] = g[i]
    BY <1>4
  <2>. QED
    BY <1>4, <2>1, Zenon
<1>. DEFINE after[i \in 0..n] == IF i = 0 THEN k ELSE WakeHead(after[i - 1])
<1>6. after = [i \in 0..n |-> IF i = 0 THEN k ELSE WakeHead(after[i - 1])]
  BY <1>5, Zenon
<1>7. WakeDue(k) = ResetNextUnblock(after[n])
  BY DEF WakeDue
<1>. DEFINE Due == {t \in ToSet(k.delayed) : k.wake[t] <= k.tick}
            Stays(r) == r.delayed = <<>> \/ r.wake[Head(r.delayed)] > r.tick
            Upto(i, r) == \E W \in SUBSET Due :
                             MadeReady(k, W, r) /\ (Len(r.delayed) <= n - i \/ Stays(r))
            T == {i \in Nat : i <= n => Upto(i, after[i])}
<1>8. \A i \in 0..n : after[i] = IF i = 0 THEN k ELSE WakeHead(after[i - 1])
  <2>. HIDE DEF after
  <2>. QED
    BY <1>6
<1>. HIDE DEF after
<1>9. 0 \in T
  <2>1. after[0] = k /\ MadeReady(k, {}, k)
    BY <1>1, <1>8, MadeReadyNone
  <2>2. Upto(0, k)
    BY <1>1, <2>1
  <2>. HIDE DEF Upto
  <2>. QED
    BY <2>1, <2>2
<1>10. ASSUME NEW i \in T PROVE i + 1 \in T
  <2>. SUFFICES ASSUME i + 1 <= n PROVE Upto(i + 1, after[i + 1])
    OBVIOUS
  <2>. DEFINE r == after[i]
  <2>1. i \in Nat /\ i <= n /\ after[i + 1] = WakeHead(r)
    BY <1>1, <1>8
  <2>2. PICK W \in SUBSET Due : MadeReady(k, W, r) /\ (Len(r.delayed) <= n - i \/ Stays(r))
    BY <1>10, <2>1
  <2>. HIDE DEF r
  <2>3. WellFormed(r) /\ r.delayed \in Seq(Tasks)
    BY <2>2 DEF MadeReady, WellFormed, KState
  <2>4. CASE Stays(r)
    <3>1. WakeHead(r) = r
      BY <2>3, <2>4, WakeHeadIs
    <3>. QED
      BY <2>1, <2>2, <2>4, <3>1
  <2>5. CASE ~Stays(r)
    <3>. DEFINE t == Head(r.delayed)
    <3>1. /\ t \in ToSet(r.delayed) /\ MadeReady(r, {t}, WakeHead(r))
          /\ Len(WakeHead(r).delayed) = Len(r.delayed) - 1
      BY <2>3, <2>5, WakeHeadIs
    <3>2. t \in ToSet(k.delayed) /\ t \notin W /\ t \in Tasks
      BY <2>2, <2>3, <3>1, ToSetIn DEF MadeReady
    <3>3. r.wake[t] = k.wake[t] /\ r.tick = k.tick /\ k.wake[t] \in Int /\ k.tick \in Int
      <4>1. r.wake[t] = k.wake[t] /\ r.tick = k.tick
        BY <2>2, <3>2 DEF MadeReady, SameRest
      <4>2. k.wake \in [Tasks -> Int]
        BY <1>1 DEF WellFormed, KState, Ticks
      <4>. QED
        BY <1>1, <3>2, <4>1, <4>2
    <3>4. t \in Due
      BY <2>5, <3>2, <3>3
    <3>5. MadeReady(k, W \cup {t}, WakeHead(r))
      BY <2>2, <3>1, MadeReadyBoth
    <3>6. Len(WakeHead(r).delayed) <= n - (i + 1)
      BY <1>1, <2>1, <2>2, <2>3, <2>5, <3>1
    <3>. HIDE DEF t, Stays, Due
    <3>7. W \cup {t} \in SUBSET Due
      BY <3>4
    <3>. QED
      BY <2>1, <3>5, <3>6, <3>7
  <2>. QED
    BY <2>4, <2>5
<1>11. PICK W \in SUBSET Due : MadeReady(k, W, after[n]) /\ Stays(after[n])
  <2>1. T = Nat
    <3>. HIDE DEF T
    <3>1. T \subseteq Nat
      BY DEF T
    <3>. QED
      BY <1>9, <1>10, <3>1, Induction
  <2>2. Upto(n, after[n])
    BY <1>1, <2>1
  <2>3. PICK W \in SUBSET Due :
           MadeReady(k, W, after[n]) /\ (Len(after[n].delayed) <= n - n \/ Stays(after[n]))
    BY <2>2
  <2>4. Len(after[n].delayed) <= n - n => after[n].delayed = <<>>
    <3>1. after[n].delayed \in Seq(Tasks)
      BY <2>3 DEF MadeReady, WellFormed, KState
    <3>. QED
      BY <1>1, <3>1
  <2>. QED
    BY <2>3, <2>4
<1>. DEFINE r == after[n]
<1>12. \A t \in Due : t \in W
  <2>. SUFFICES ASSUME NEW t \in Due, t \notin W PROVE FALSE
    OBVIOUS
  <2>. HIDE DEF r
  <2>1. /\ WellFormed(r) /\ Sorted(r.delayed, r.wake) /\ t \in ToSet(r.delayed)
        /\ r.tick = k.tick /\ r.wake[t] = k.wake[t] /\ t \in Tasks
    BY <1>1, <1>11, ToSetIn DEF MadeReady, SameRest, r
  <2>2. /\ r.delayed \in Seq(Tasks) /\ r.wake \in [Tasks -> Int] /\ r.delayed # <<>>
        /\ Head(r.delayed) \in Tasks
    <3>1. r.delayed \in Seq(Tasks) /\ r.wake \in [Tasks -> Int] /\ IsInjective(r.delayed)
      BY <2>1 DEF WellFormed, KState, Ticks
    <3>2. r.delayed # <<>>
      BY <2>1 DEF ToSet
    <3>. QED
      BY <3>1, <3>2, TailIs, ToSetIn
  <2>3. r.wake[Head(r.delayed)] <= r.wake[t]
    BY <2>1, <2>2, HeadIsLeast
  <2>4. r.wake[Head(r.delayed)] > r.tick
    BY <1>11, <2>2 DEF r
  <2>. QED
    BY <1>1, <2>1, <2>2, <2>3, <2>4
<1>13. MadeReady(k, Due, r)
  <2>. HIDE DEF r, Due
  <2>1. W = Due
    BY <1>11, <1>12
  <2>. QED
    BY <1>11, <2>1 DEF r
<1>. HIDE DEF Due, r
<1>14. MadeReady(r, {}, WakeDue(k)) /\ UnblocksInTime(WakeDue(k))
  BY <1>7, <1>13, ResetNextUnblockIs DEF MadeReady, r
<1>15. MadeReady(k, Due \cup {}, WakeDue(k))
  BY <1>13, <1>14, MadeReadyBoth
<1>. QED
  BY <1>14, <1>15 DEF Due

-----------------------------------------------------------------------------
(* What holds of the kernel state between any two critical sections *)

\* A ready task is on the list of its priority, no task is on two state lists, and
\* those that wait on an event, or were woken while the scheduler was suspended, are
\* still on a delayed list.
Separate(k) ==
    /\ \A p \in Priorities : \A t \in ToSet(k.ready[p].items) : k.prio[t] = p
    /\ ReadyTasks(k) \cap (DelayedTasks(k) \cup ToSet(k.terminating)) = {}
    /\ DelayedTasks(k) \cap ToSet(k.terminating) = {}
    /\ ToSet(k.delayed) \cap ToSet(k.overflow) = {}
    /\ ToSet(k.pending) \subseteq DelayedTasks(k)
    /\ \A e \in EventLists : ToSet(k.events[e]) \subseteq DelayedTasks(k) \ ToSet(k.pending)

\* The delayed lists are sorted, the current one holds the times to come before the
\* tick count wraps, the other those after.
Timely(k) ==
    /\ Sorted(k.delayed, k.wake) /\ Sorted(k.overflow, k.wake)
    /\ \A t \in ToSet(k.delayed) : k.wake[t] > k.tick
    /\ \A t \in ToSet(k.overflow) : k.wake[t] < k.tick
    /\ UnblocksInTime(k)

Sound(k) == WellFormed(k) /\ Separate(k) /\ Timely(k)

\* left counts, for each blocked task, the ticks to its wake time.
Clocked(k, left) ==
    \A t \in DelayedTasks(k) \ ToSet(k.pending) :
        left[t] = k.wake[t] - k.tick + (IF t \in ToSet(k.overflow) THEN TickMod ELSE 0)

\* No task is ready above the priority of the one that runs, or it will yield.
NoneAbove(k) ==
    \/ k.yieldPending
    \/ \A p \in Priorities : p > k.prio[k.cur] => ToSet(k.ready[p].items) = {}

\* The tasks of W become ready, wherever they waited; the others stay where they are.
Awakened(k, W, r) ==
    /\ \A p \in Priorities : ToSet(r.ready[p].items) =
          ToSet(k.ready[p].items) \cup {t \in W : k.prio[t] = p}
    /\ DelayedTasks(r) = DelayedTasks(k) \ W
    /\ ToSet(r.terminating) = ToSet(k.terminating)
    /\ \A e \in EventLists : ToSet(r.events[e]) = ToSet(k.events[e]) \ W
    /\ ToSet(r.pending) = ToSet(k.pending) \ W
    /\ r.prio = k.prio /\ r.base = k.base /\ r.cur = k.cur /\ r.suspended = k.suspended
    /\ OrderKept(k, r)

LEMMA MadeReadySound ==
    ASSUME NEW k, Sound(k), NEW W \in SUBSET DelayedTasks(k), NEW r, MadeReady(k, W, r),
           r.nextUnblock = k.nextUnblock \/ UnblocksInTime(r)
    PROVE  Sound(r) /\ Awakened(k, W, r) /\ \A l : Clocked(k, l) => Clocked(r, l)
<1>1. WellFormed(r) /\ SameRest(k, r) /\ OrderKept(k, r)
  BY DEF MadeReady
<1>2. /\ ToSet(r.delayed) = ToSet(k.delayed) \ W /\ ToSet(r.overflow) = ToSet(k.overflow) \ W
      /\ DelayedTasks(r) = DelayedTasks(k) \ W /\ ToSet(r.pending) = ToSet(k.pending) \ W
      /\ \A e \in EventLists : ToSet(r.events[e]) = ToSet(k.events[e]) \ W
  BY DEF MadeReady, DelayedTasks
<1>3. W \subseteq Tasks /\ DelayedTasks(k) \subseteq Tasks
  BY ToSetIn DEF Sound, WellFormed, KState, DelayedTasks
<1>4. /\ \A p \in Priorities : ToSet(r.ready[p].items) =
            ToSet(k.ready[p].items) \cup {t \in W : k.prio[t] = p}
      /\ ToSet(r.terminating) = ToSet(k.terminating)
  <2>1. ToSet(k.terminating) \cap W = {}
    BY DEF Sound, Separate
  <2>2. \A p \in Priorities : ToSet(k.ready[p].items) \cap W = {}
    BY DEF Sound, Separate, ReadyTasks
  <2>. QED
    BY <2>1, <2>2 DEF MadeReady
<1>5. Awakened(k, W, r)
  BY <1>1, <1>2, <1>4 DEF Awakened, SameRest
<1>6. ReadyTasks(r) \subseteq ReadyTasks(k) \cup W
  BY <1>4 DEF ReadyTasks
<1>7. Separate(r)
  <2>1. \A p \in Priorities : \A t \in ToSet(r.ready[p].items) : r.prio[t] = p
    BY <1>1, <1>4 DEF Sound, Separate, SameRest
  <2>. QED
    BY <1>2, <1>4, <1>6, <2>1 DEF Sound, Separate
<1>8. \A t \in DelayedTasks(r) : r.wake[t] = k.wake[t]
  BY <1>2, <1>3 DEF MadeReady
<1>9. Timely(r)
  <2>1. Sorted(r.delayed, r.wake) /\ Sorted(r.overflow, r.wake)
    BY DEF MadeReady, Sound, Timely
  <2>2. /\ \A t \in ToSet(r.delayed) : r.wake[t] > r.tick
        /\ \A t \in ToSet(r.overflow) : r.wake[t] < r.tick
    BY <1>1, <1>2, <1>8 DEF Sound, Timely, SameRest, DelayedTasks
  <2>3. UnblocksInTime(r)
    BY <1>2, <1>8 DEF Sound, Timely, UnblocksInTime, DelayedTasks
  <2>. QED
    BY <2>1, <2>2, <2>3 DEF Timely
<1>10. ASSUME NEW l, Clocked(k, l) PROVE Clocked(r, l)
  BY <1>1, <1>2, <1>8, <1>10 DEF Clocked, SameRest
<1>. QED
  BY <1>1, <1>5, <1>7, <1>9, <1>10 DEF Sound

-----------------------------------------------------------------------------
(* Blocking *)

LEMMA KernelFields ==
    ASSUME NEW k \in KState
    PROVE  /\ k.cur \in Tasks /\ k.prio \in [Tasks -> Priorities] /\ k.base \in [Tasks -> Priorities]
           /\ k.tick \in 0..(TickMod - 1) /\ k.nextUnblock \in 0..(TickMod - 1)
           /\ k.wake \in [Tasks -> Int] /\ k.evValue \in [Tasks -> Int]
           /\ k.wake \in [Tasks -> Ticks]
           /\ k.delayed \in Seq(Tasks) /\ k.overflow \in Seq(Tasks) /\ k.pending \in Seq(Tasks)
           /\ k.terminating \in Seq(Tasks) /\ \A e \in EventLists : k.events[e] \in Seq(Tasks)
           /\ k.suspended \in Nat /\ k.pendedTicks \in Nat /\ TickMod \in Nat \ {0, 1}
<1>1. /\ k.cur \in Tasks /\ k.prio \in [Tasks -> Priorities] /\ k.base \in [Tasks -> Priorities]
      /\ k.tick \in Ticks /\ k.nextUnblock \in Ticks /\ k.evValue \in [Tasks -> Int]
      /\ k.wake \in [Tasks -> Ticks]
      /\ k.delayed \in Seq(Tasks) /\ k.overflow \in Seq(Tasks) /\ k.pending \in Seq(Tasks)
      /\ k.terminating \in Seq(Tasks) /\ k.events \in [EventLists -> Seq(Tasks)]
      /\ k.suspended \in Nat /\ k.pendedTicks \in Nat
  BY DEF KState
<1>2. Ticks = 0..(TickMod - 1) /\ Ticks \subseteq Int /\ TickMod \in Nat \ {0, 1}
  BY TaskListsAssumption DEF Ticks
<1>3. k.wake \in [Tasks -> Int]
  BY <1>1, <1>2
<1>. QED
  BY <1>1, <1>2, <1>3

\* The running task leaves its ready list for the delayed list of its wake time.
FallsAsleep(k, n, r) ==
    /\ WellFormed(r)
    /\ \A p \in Priorities : ToSet(r.ready[p].items) = ToSet(k.ready[p].items) \ {k.cur}
    /\ ToSet(r.delayed) =
          IF k.tick + n < TickMod THEN ToSet(k.delayed) \cup {k.cur} ELSE ToSet(k.delayed)
    /\ ToSet(r.overflow) =
          IF k.tick + n < TickMod THEN ToSet(k.overflow) ELSE ToSet(k.overflow) \cup {k.cur}
    /\ ToSet(r.terminating) = ToSet(k.terminating) \ {k.cur}
    /\ r.pending = k.pending /\ r.events = k.events
    /\ r.wake = [k.wake EXCEPT ![k.cur] =
                    IF k.tick + n < TickMod THEN k.tick + n ELSE k.tick + n - TickMod]
    /\ SameRest(k, r)
    /\ Timely(r)

\* With r as RemoveState left it and the wake time set, and either list's insertion
LEMMA AddCurrentToDelayedIs ==
    ASSUME NEW k, WellFormed(k), Timely(k), NEW n \in Ticks \ {0}, k.cur \notin DelayedTasks(k)
    PROVE  FallsAsleep(k, n, AddCurrentToDelayed(k, n))
<1>. DEFINE c == k.cur
            w == (k.tick + n) % TickMod
            a == RemoveState(k, c)
            b == [a EXCEPT !.wake[c] = w]
            over == [b EXCEPT !.overflow = InsertSorted(@, c, b.wake)]
            cur == [b EXCEPT !.delayed = InsertSorted(@, c, b.wake),
                             !.nextUnblock = IF b.wake[c] < @ THEN b.wake[c] ELSE @]
            r == AddCurrentToDelayed(k, n)
<1>1. k \in KState /\ c \in Tasks /\ k.tick \in Ticks /\ TickMod \in Nat \ {0, 1} /\ n \in 1..(TickMod - 1)
  <2>1. k \in KState
    BY DEF WellFormed
  <2>2. Ticks = 0..(TickMod - 1)
    BY DEF Ticks
  <2>. QED
    BY <2>1, <2>2, KernelFields
<1>2. /\ w = IF k.tick + n < TickMod THEN k.tick + n ELSE k.tick + n - TickMod
      /\ w \in Ticks /\ (w < k.tick <=> ~(k.tick + n < TickMod)) /\ w # k.tick
  <2>1. CASE k.tick + n < TickMod
    <3>1. k.tick + n \in 0..(TickMod - 1) /\ w = k.tick + n
      BY <1>1, <2>1 DEF Ticks
    <3>. QED
      BY <1>1, <2>1, <3>1 DEF Ticks
  <2>2. CASE ~(k.tick + n < TickMod)
    <3>1. k.tick + n - TickMod \in 0..(TickMod - 1) /\ w = k.tick + n - TickMod
      <4>1. k.tick + n - TickMod \in 0..(TickMod - 1)
        BY <1>1, <2>2 DEF Ticks
      <4>2. (TickMod + (k.tick + n - TickMod)) % TickMod = (k.tick + n - TickMod) % TickMod
        BY <1>1, <4>1, ModRound
      <4>3. (k.tick + n - TickMod) % TickMod = k.tick + n - TickMod
        BY <1>1, <4>1
      <4>4. TickMod + (k.tick + n - TickMod) = k.tick + n
        BY <1>1 DEF Ticks
      <4>. QED
        BY <4>1, <4>2, <4>3, <4>4
    <3>. QED
      BY <1>1, <2>2, <3>1 DEF Ticks
  <2>. QED
    BY <2>1, <2>2
<1>3. StateRemoved(k, c, a)
  BY <1>1, RemoveStateIs
<1>4. a.wake = [k.wake EXCEPT ![c] = 0]
  BY <1>1 DEF RemoveState, KState
<1>. HIDE DEF w, a
<1>5. /\ b \in KState /\ b = [a EXCEPT !.wake = [a.wake EXCEPT ![c] = w]]
      /\ b.wake = [k.wake EXCEPT ![c] = w]
  <2>1. a \in KState
    BY <1>3 DEF StateRemoved, WellFormed
  <2>. QED
    BY <1>1, <1>2, <1>4, <2>1 DEF KState
<1>6. /\ b.ready = a.ready /\ b.delayed = a.delayed /\ b.overflow = a.overflow
      /\ b.terminating = a.terminating /\ b.pending = a.pending /\ b.events = a.events
      /\ SameRest(a, b) /\ b.nextUnblock = a.nextUnblock
  BY <1>3 DEF StateRemoved, WellFormed, KState, SameRest
<1>. HIDE DEF b
<1>7. r = IF b.wake[c] < k.tick THEN over ELSE cur
  BY DEF AddCurrentToDelayed, a, b, w
<1>8. /\ WellFormed(b) /\ SameRest(k, b) /\ b.nextUnblock = k.nextUnblock
      /\ \A p \in Priorities : ToSet(b.ready[p].items) = ToSet(k.ready[p].items) \ {c}
      /\ ToSet(b.delayed) = ToSet(k.delayed) /\ ToSet(b.overflow) = ToSet(k.overflow)
      /\ ToSet(b.terminating) = ToSet(k.terminating) \ {c}
      /\ b.pending = k.pending /\ b.events = k.events
  <2>1. WellFormed(b)
    BY <1>3, <1>5, <1>6 DEF StateRemoved, WellFormed
  <2>2. c \notin ToSet(k.delayed) /\ c \notin ToSet(k.overflow)
    BY DEF DelayedTasks
  <2>. QED
    BY <1>3, <1>6, <2>1, <2>2 DEF StateRemoved, SameRest
<1>9. b.delayed \in Seq(Tasks) /\ b.overflow \in Seq(Tasks) /\ b.wake \in [Tasks -> Int] /\ k.wake \in [Tasks -> Int]
  BY <1>1, <1>5, KernelFields
<1>10. ToSet(b.delayed) \subseteq Tasks \ {c} /\ ToSet(b.overflow) \subseteq Tasks \ {c}
  BY <1>8, <1>9, ToSetIn DEF DelayedTasks
<1>11. \A t \in Tasks \ {c} : b.wake[t] = k.wake[t]
  BY <1>5, <1>9
<1>12. b.wake[c] = w
  BY <1>1, <1>5, <1>9
<1>13. Sorted(b.delayed, b.wake) /\ Sorted(b.overflow, b.wake)
  <2>1. Sorted(b.delayed, a.wake) /\ Sorted(b.overflow, a.wake)
    BY <1>3, <1>6 DEF StateRemoved, Timely
  <2>2. \A t \in Tasks \ {c} : a.wake[t] = b.wake[t]
    BY <1>4, <1>9, <1>11
  <2>. QED
    BY <1>10, <2>1, <2>2, SortedSame
<1>14. b.tick = k.tick /\ b.tick \in Int /\ w \in Int /\ b.nextUnblock \in Ticks
      /\ b.nextUnblock \in Int
  <2>1. Ticks \subseteq Int /\ Ticks = 0..(TickMod - 1)
    BY <1>1 DEF Ticks
  <2>2. b.nextUnblock \in Ticks /\ b.tick = k.tick
    BY <1>5, <1>8, <2>1, KernelFields DEF SameRest
  <2>. QED
    BY <1>1, <1>2, <2>1, <2>2
<1>15. CASE k.tick + n < TickMod
  <2>. DEFINE s == InsertSorted(b.delayed, c, b.wake)
              u == IF w < b.nextUnblock THEN w ELSE b.nextUnblock
  <2>1. /\ s \in Seq(Tasks) /\ IsInjective(s) /\ ToSet(s) = ToSet(b.delayed) \cup {c}
        /\ Sorted(s, b.wake)
    BY <1>1, <1>8, <1>9, <1>10, <1>13, InsertSortedIs DEF WellFormed
  <2>2. r = [b EXCEPT !.delayed = s, !.nextUnblock = u]
    BY <1>2, <1>7, <1>12, <1>15
  <2>3. u \in Ticks /\ u \in Int /\ u <= w /\ u <= b.nextUnblock
    BY <1>2, <1>14
  <2>. HIDE DEF s, u, r
  <2>4. r \in KState
    BY <1>5, <2>1, <2>2, <2>3 DEF KState
  <2>5. /\ r.ready = b.ready /\ r.delayed = s /\ r.overflow = b.overflow
        /\ r.terminating = b.terminating /\ r.pending = b.pending /\ r.events = b.events
        /\ r.wake = b.wake /\ SameRest(b, r) /\ r.nextUnblock = u
    BY <1>5, <2>2 DEF KState, SameRest
  <2>6. WellFormed(r)
    BY <1>8, <2>1, <2>4, <2>5 DEF WellFormed
  <2>7. \A t \in ToSet(r.delayed) : r.wake[t] > r.tick
    <3>1. \A t \in ToSet(b.delayed) : b.wake[t] > k.tick
      BY <1>8, <1>10, <1>11 DEF Timely
    <3>2. w > k.tick
      BY <1>2, <1>14, <1>15
    <3>. QED
      BY <1>12, <1>14, <2>1, <2>5, <3>1, <3>2 DEF SameRest
  <2>8. \A t \in ToSet(r.overflow) : r.wake[t] < r.tick
    BY <1>8, <1>10, <1>11, <2>5 DEF Timely, SameRest
  <2>9. UnblocksInTime(r)
    <3>1. \A t \in ToSet(b.delayed) : b.nextUnblock <= b.wake[t] /\ b.wake[t] \in Int
      BY <1>8, <1>9, <1>10, <1>11 DEF Timely, UnblocksInTime
    <3>. QED
      BY <1>12, <1>14, <2>1, <2>3, <2>5, <3>1 DEF UnblocksInTime
  <2>10. Timely(r)
    BY <1>13, <2>1, <2>5, <2>7, <2>8, <2>9 DEF Timely
  <2>. QED
    BY <1>2, <1>5, <1>8, <1>15, <2>1, <2>5, <2>6, <2>10 DEF FallsAsleep, SameRest, r
<1>16. CASE ~(k.tick + n < TickMod)
  <2>. DEFINE s == InsertSorted(b.overflow, c, b.wake)
  <2>1. /\ s \in Seq(Tasks) /\ IsInjective(s) /\ ToSet(s) = ToSet(b.overflow) \cup {c}
        /\ Sorted(s, b.wake)
    BY <1>1, <1>8, <1>9, <1>10, <1>13, InsertSortedIs DEF WellFormed
  <2>2. r = [b EXCEPT !.overflow = s]
    BY <1>2, <1>7, <1>12, <1>16
  <2>. HIDE DEF s, r
  <2>4. r \in KState
    BY <1>5, <2>1, <2>2 DEF KState
  <2>5. /\ r.ready = b.ready /\ r.delayed = b.delayed /\ r.overflow = s
        /\ r.terminating = b.terminating /\ r.pending = b.pending /\ r.events = b.events
        /\ r.wake = b.wake /\ SameRest(b, r) /\ r.nextUnblock = b.nextUnblock
    BY <1>5, <2>2 DEF KState, SameRest
  <2>6. WellFormed(r)
    BY <1>8, <2>1, <2>4, <2>5 DEF WellFormed
  <2>7. \A t \in ToSet(r.delayed) : r.wake[t] > r.tick
    BY <1>8, <1>10, <1>11, <2>5 DEF Timely, SameRest
  <2>8. \A t \in ToSet(r.overflow) : r.wake[t] < r.tick
    <3>1. \A t \in ToSet(b.overflow) : b.wake[t] < k.tick
      BY <1>8, <1>10, <1>11 DEF Timely
    <3>. QED
      BY <1>2, <1>12, <1>14, <1>16, <2>1, <2>5, <3>1 DEF SameRest
  <2>9. UnblocksInTime(r)
    BY <1>8, <1>10, <1>11, <2>5 DEF Timely, UnblocksInTime
  <2>10. Timely(r)
    BY <1>13, <2>1, <2>5, <2>7, <2>8, <2>9 DEF Timely
  <2>. QED
    BY <1>2, <1>5, <1>8, <1>16, <2>1, <2>5, <2>6, <2>10 DEF FallsAsleep, SameRest, r
<1>. QED
  BY <1>15, <1>16

\* What blocking does to a sound kernel state, on an event list or not
Sleeps(k, n, r) ==
    /\ Sound(r)
    /\ \A p \in Priorities : ToSet(r.ready[p].items) = ToSet(k.ready[p].items) \ {k.cur}
    /\ DelayedTasks(r) = DelayedTasks(k) \cup {k.cur}
    /\ r.pending = k.pending /\ SameRest(k, r)
    /\ \A l \in [Tasks -> Nat] : Clocked(k, l) => Clocked(r, [l EXCEPT ![k.cur] = n])

LEMMA BlockedSound ==
    ASSUME NEW k, Sound(k), k.cur \in ReadyTasks(k), NEW n \in Ticks \ {0},
           NEW b, WellFormed(b), SameRest(k, b), b.nextUnblock = k.nextUnblock,
           b.ready = k.ready, b.delayed = k.delayed, b.overflow = k.overflow,
           b.terminating = k.terminating, b.pending = k.pending, b.wake = k.wake,
           \A e \in EventLists : ToSet(b.events[e]) \subseteq ToSet(k.events[e]) \cup {k.cur}
    PROVE  /\ Sleeps(k, n, AddCurrentToDelayed(b, n))
           /\ AddCurrentToDelayed(b, n).events = b.events
<1>. DEFINE c == k.cur  r == AddCurrentToDelayed(b, n)
<1>1. Timely(b) /\ b.cur = c /\ b.tick = k.tick
  BY DEF Sound, Timely, UnblocksInTime, SameRest
<1>2. /\ c \notin DelayedTasks(k) /\ c \notin ToSet(k.terminating) /\ c \notin ToSet(k.pending)
      /\ DelayedTasks(b) = DelayedTasks(k)
  BY DEF Sound, Separate, DelayedTasks
<1>3. FallsAsleep(b, n, r)
  BY <1>1, <1>2, AddCurrentToDelayedIs
<1>. HIDE DEF r
<1>4. /\ k.wake \in [Tasks -> Int] /\ c \in Tasks /\ k.tick \in Int /\ TickMod \in Int
      /\ DelayedTasks(k) \subseteq Tasks
  BY KernelFields, ToSetIn DEF Sound, WellFormed, DelayedTasks
<1>5. /\ WellFormed(r) /\ Timely(r) /\ SameRest(k, r) /\ r.pending = k.pending
      /\ ToSet(r.terminating) = ToSet(k.terminating)
      /\ \A p \in Priorities : ToSet(r.ready[p].items) = ToSet(k.ready[p].items) \ {c}
  BY <1>1, <1>2, <1>3 DEF FallsAsleep, SameRest
<1>6. /\ DelayedTasks(r) = DelayedTasks(k) \cup {c}
      /\ ToSet(r.delayed) = IF k.tick + n < TickMod THEN ToSet(k.delayed) \cup {c}
                                                    ELSE ToSet(k.delayed)
      /\ ToSet(r.overflow) = IF k.tick + n < TickMod THEN ToSet(k.overflow)
                                                     ELSE ToSet(k.overflow) \cup {c}
  BY <1>1, <1>3 DEF FallsAsleep, DelayedTasks
<1>7. ReadyTasks(r) = ReadyTasks(k) \ {c}
  BY <1>5 DEF ReadyTasks
<1>8. Separate(r)
  <2>1. \A p \in Priorities : \A t \in ToSet(r.ready[p].items) : r.prio[t] = p
    BY <1>5 DEF Sound, Separate, SameRest
  <2>2. ToSet(r.delayed) \cap ToSet(r.overflow) = {}
    BY <1>2, <1>6 DEF Sound, Separate, DelayedTasks
  <2>3. \A e \in EventLists : ToSet(r.events[e]) \subseteq DelayedTasks(r) \ ToSet(r.pending)
    BY <1>2, <1>3, <1>5, <1>6 DEF FallsAsleep, Sound, Separate
  <2>4. ToSet(r.pending) \subseteq DelayedTasks(r)
    BY <1>5, <1>6 DEF Sound, Separate
  <2>. QED
    BY <1>2, <1>5, <1>6, <1>7, <2>1, <2>2, <2>3, <2>4 DEF Sound, Separate
<1>9. r.wake = [k.wake EXCEPT ![c] = IF k.tick + n < TickMod THEN k.tick + n
                                                             ELSE k.tick + n - TickMod]
  BY <1>1, <1>3 DEF FallsAsleep
<1>10. ASSUME NEW l \in [Tasks -> Nat], Clocked(k, l) PROVE Clocked(r, [l EXCEPT ![c] = n])
  <2>. SUFFICES ASSUME NEW t \in DelayedTasks(r) \ ToSet(r.pending)
                PROVE  [l EXCEPT ![c] = n][t] =
                         r.wake[t] - r.tick + (IF t \in ToSet(r.overflow) THEN TickMod ELSE 0)
    BY DEF Clocked
  <2>1. r.tick = k.tick
    BY <1>5 DEF SameRest
  <2>2. CASE t = c
    <3>1. n \in Int /\ c \notin ToSet(k.overflow)
      BY <1>2 DEF Ticks, DelayedTasks
    <3>2. r.wake[t] = IF k.tick + n < TickMod THEN k.tick + n ELSE k.tick + n - TickMod
      BY <1>4, <1>9, <2>2
    <3>. QED
      BY <1>4, <1>6, <2>1, <2>2, <3>1, <3>2
  <2>3. CASE t # c
    <3>1. t \in DelayedTasks(k) \ ToSet(k.pending) /\ t \in Tasks
      BY <1>4, <1>5, <1>6, <2>3
    <3>2. l[t] = k.wake[t] - k.tick + (IF t \in ToSet(k.overflow) THEN TickMod ELSE 0)
      BY <1>10, <3>1 DEF Clocked
    <3>3. r.wake[t] = k.wake[t] /\ (t \in ToSet(r.overflow) <=> t \in ToSet(k.overflow))
      BY <1>4, <1>6, <1>9, <2>3, <3>1
    <3>. QED
      BY <2>1, <2>3, <3>1, <3>2, <3>3
  <2>. QED
    BY <2>2, <2>3
<1>. QED
  BY <1>3, <1>5, <1>6, <1>8, <1>10 DEF Sleeps, Sound, FallsAsleep, r

\* vTaskDelay
LEMMA DelaySleeps ==
    ASSUME NEW k, Sound(k), k.cur \in ReadyTasks(k), NEW n \in Ticks \ {0}
    PROVE  Sleeps(k, n, AddCurrentToDelayed(k, n))
  BY BlockedSound DEF Sound, SameRest

\* vTaskPlaceOnEventList
LEMMA PlaceSleeps ==
    ASSUME NEW k, Sound(k), k.cur \in ReadyTasks(k), NEW n \in Ticks \ {0}, NEW e \in EventLists
    PROVE  /\ Sleeps(k, n, PlaceOnEventList(k, e, n))
           /\ OrderKept(k, PlaceOnEventList(k, e, n))
           /\ \A d \in EventLists : ToSet(PlaceOnEventList(k, e, n).events[d]) =
                 IF d = e THEN ToSet(k.events[d]) \cup {k.cur} ELSE ToSet(k.events[d])
<1>. DEFINE s == InsertSorted(k.events[e], k.cur, k.evValue)
            b == [k EXCEPT !.events[e] = s]
<1>1. k \in KState /\ IsInjective(k.events[e]) /\ k.cur \notin ToSet(k.events[e])
  BY DEF Sound, WellFormed, Separate
<1>2. k.events[e] \in Seq(Tasks) /\ k.cur \in Tasks /\ k.evValue \in [Tasks -> Int]
  BY <1>1, KernelFields
<1>3. /\ s \in Seq(Tasks) /\ IsInjective(s) /\ ToSet(s) = ToSet(k.events[e]) \cup {k.cur}
      /\ Sorted(k.events[e], k.evValue) => Sorted(s, k.evValue)
  BY <1>1, <1>2, InsertSortedIs
<1>4. PlaceOnEventList(k, e, n) = AddCurrentToDelayed(b, n)
  BY DEF PlaceOnEventList
<1>. HIDE DEF s
<1>5. b.events = [k.events EXCEPT ![e] = s] /\ k.events \in [EventLists -> Seq(Tasks)]
  BY <1>1 DEF KState
<1>6. /\ b.ready = k.ready /\ b.delayed = k.delayed /\ b.overflow = k.overflow
      /\ b.terminating = k.terminating /\ b.pending = k.pending /\ b.wake = k.wake
      /\ SameRest(k, b) /\ b.nextUnblock = k.nextUnblock
  BY <1>1 DEF KState, SameRest
<1>7. b \in KState
  BY <1>1, <1>3 DEF KState
<1>. HIDE DEF b
<1>8. \A d \in EventLists : /\ IsInjective(b.events[d])
                            /\ ToSet(b.events[d]) \subseteq ToSet(k.events[d]) \cup {k.cur}
  BY <1>3, <1>5 DEF Sound, WellFormed
<1>9. WellFormed(b)
  BY <1>6, <1>7, <1>8 DEF Sound, WellFormed
<1>10. /\ Sleeps(k, n, AddCurrentToDelayed(b, n))
       /\ AddCurrentToDelayed(b, n).events = b.events
  BY <1>6, <1>8, <1>9, BlockedSound
<1>. DEFINE r == PlaceOnEventList(k, e, n)
<1>. HIDE DEF r
<1>11. r.events = b.events /\ Sleeps(k, n, r)
  BY <1>4, <1>10 DEF r
<1>12. OrderKept(k, r)
  BY <1>3, <1>5, <1>11 DEF OrderKept, Sleeps, SameRest
<1>13. \A d \in EventLists : ToSet(r.events[d]) =
          IF d = e THEN ToSet(k.events[d]) \cup {k.cur} ELSE ToSet(k.events[d])
  BY <1>3, <1>5, <1>11
<1>. QED
  BY <1>11, <1>12, <1>13 DEF r

-----------------------------------------------------------------------------
(* Choosing the task to run, and waking one *)

LEMMA HighestIs ==
    ASSUME NEW S, S \subseteq Priorities, S # {}
    PROVE  Highest(S) \in S /\ \A q \in S : q <= Highest(S)
<1>. DEFINE H == Highest(Priorities)  T == {H - p : p \in S}
<1>1. H \in Nat /\ Priorities = 0..H
  BY TaskListsAssumption
<1>. HIDE DEF H
<1>2. T \subseteq Nat /\ T # {}
  BY <1>1
<1>3. PICK x \in T : \A y \in T : x <= y
  BY <1>2, LeastOf
<1>4. PICK p \in S : x = H - p
  BY <1>3
<1>5. \A q \in S : q <= p
  <2>. TAKE q \in S
  <2>1. H - q \in T
    OBVIOUS
  <2>2. x <= H - q
    BY <1>3, <2>1
  <2>3. q \in 0..H /\ p \in 0..H
    BY <1>1
  <2>. QED
    BY <1>1, <1>4, <2>2, <2>3
<1>. QED
  BY <1>5 DEF Highest

\* The lists hold the same tasks, and the timeouts are the same.
SameSets(k, r) ==
    /\ \A p \in Priorities : ToSet(r.ready[p].items) = ToSet(k.ready[p].items)
    /\ r.delayed = k.delayed /\ r.overflow = k.overflow /\ r.terminating = k.terminating
    /\ r.pending = k.pending /\ r.events = k.events /\ r.wake = k.wake
    /\ r.tick = k.tick /\ r.nextUnblock = k.nextUnblock
    /\ r.prio = k.prio /\ r.base = k.base
    /\ r.evValue = k.evValue /\ r.overflows = k.overflows

LEMMA SameSetsSound ==
    ASSUME NEW k, Sound(k), NEW r, WellFormed(r), SameSets(k, r)
    PROVE  /\ Sound(r) /\ DelayedTasks(r) = DelayedTasks(k) /\ ReadyTasks(r) = ReadyTasks(k)
           /\ \A l : Clocked(k, l) => Clocked(r, l)
<1>1. DelayedTasks(r) = DelayedTasks(k) /\ ReadyTasks(r) = ReadyTasks(k)
  BY DEF SameSets, DelayedTasks, ReadyTasks
<1>2. Separate(r)
  <2>1. \A p \in Priorities : \A t \in ToSet(r.ready[p].items) : r.prio[t] = p
    BY DEF Sound, Separate, SameSets
  <2>. QED
    BY <1>1, <2>1 DEF Sound, Separate, SameSets
<1>3. Timely(r)
  BY DEF Sound, Timely, UnblocksInTime, SameSets
<1>. QED
  BY <1>1, <1>2, <1>3 DEF Sound, SameSets, Clocked

\* vTaskSuspendAll
LEMMA SuspendAllIs ==
    ASSUME NEW k, Sound(k), NEW r, r = SuspendAll(k)
    PROVE  /\ Sound(r) /\ SameSets(k, r) /\ r.cur = k.cur /\ r.suspended = k.suspended + 1
           /\ r.pendedTicks = k.pendedTicks /\ r.yieldPending = k.yieldPending
<1>1. k \in KState /\ k.suspended + 1 \in Nat
  BY KernelFields DEF Sound, WellFormed
<1>2. r \in KState
  BY <1>1 DEF SuspendAll, KState
<1>3. /\ r.ready = k.ready /\ SameSets(k, r) /\ r.cur = k.cur /\ r.suspended = k.suspended + 1
      /\ r.pendedTicks = k.pendedTicks /\ r.yieldPending = k.yieldPending
  BY <1>1 DEF SuspendAll, KState, SameSets
<1>4. WellFormed(r)
  BY <1>2, <1>3 DEF Sound, WellFormed, SameSets
<1>. QED
  BY <1>3, <1>4, SameSetsSound

\* A ready task that none is above is selected, unless the scheduler is suspended.
Selected(k, r) ==
    /\ Sound(r) /\ SameSets(k, r)
    /\ r.suspended = k.suspended /\ r.pendedTicks = k.pendedTicks
    /\ IF k.suspended > 0 THEN r.cur = k.cur /\ r.yieldPending
                          ELSE r.cur \in ReadyTasks(k) /\ NoneAbove(r)

LEMMA SwitchContextIs ==
    ASSUME NEW k, Sound(k), ReadyTasks(k) # {}
    PROVE  Selected(k, SwitchContext(k))
<1>. DEFINE r == SwitchContext(k)
<1>1. k \in KState /\ k.suspended \in Nat
  BY KernelFields DEF Sound, WellFormed
<1>2. CASE k.suspended > 0
  <2>1. r = [k EXCEPT !.yieldPending = TRUE]
    BY <1>2 DEF SwitchContext
  <2>2. r \in KState
    BY <1>1, <2>1 DEF KState
  <2>3. /\ r.ready = k.ready /\ SameSets(k, r) /\ r.suspended = k.suspended
        /\ r.pendedTicks = k.pendedTicks /\ r.cur = k.cur /\ r.yieldPending
    BY <1>1, <2>1 DEF KState, SameSets
  <2>4. WellFormed(r)
    BY <2>2, <2>3 DEF Sound, WellFormed, SameSets
  <2>. QED
    BY <1>2, <2>3, <2>4, SameSetsSound DEF Selected
<1>3. CASE ~(k.suspended > 0)
  <2>. DEFINE S == {p \in Priorities : k.ready[p].items # <<>>}
              p == TopReady(k)
              i == NextIndex(k.ready[p])
              x == k.ready[p].items[i]
  <2>1. \A q \in Priorities : k.ready[q] \in [items : Seq(Tasks), index : Nat]
    BY <1>1 DEF KState
  <2>2. \A q \in Priorities \ S : ToSet(k.ready[q].items) = {}
    BY DEF ToSet
  <2>3. S # {} /\ S \subseteq Priorities
    BY <2>2 DEF ReadyTasks
  <2>4. p \in S /\ \A q \in S : q <= p
    BY <2>3, HighestIs DEF TopReady
  <2>. HIDE DEF S, p
  <2>5. p \in Priorities /\ k.ready[p].items # <<>> /\ ListOK(k.ready[p])
    BY <2>4 DEF Sound, WellFormed, S
  <2>6. i \in 1..Len(k.ready[p].items) /\ x \in ToSet(k.ready[p].items) /\ i \in Nat
    <3>1. k.ready[p].items \in Seq(Tasks) /\ k.ready[p].index \in Nat
      BY <2>5 DEF ListOK
    <3>2. Len(k.ready[p].items) \in Nat \ {0}
      BY <2>5, <3>1
    <3>3. i \in 1..Len(k.ready[p].items)
      BY <3>1, <3>2 DEF NextIndex
    <3>. QED
      BY <3>1, <3>3 DEF ToSet
  <2>7. x \in Tasks
    BY <2>1, <2>5, <2>6, ToSetIn
  <2>8. r = [k EXCEPT !.yieldPending = FALSE, !.ready[p].index = i, !.cur = x]
    BY <1>3 DEF SwitchContext, p
  <2>. HIDE DEF i, x, r
  <2>9. /\ r.ready = [k.ready EXCEPT ![p].index = i] /\ r.cur = x /\ r.yieldPending = FALSE
        /\ r.suspended = k.suspended /\ r.pendedTicks = k.pendedTicks
        /\ r.delayed = k.delayed /\ r.overflow = k.overflow /\ r.terminating = k.terminating
        /\ r.pending = k.pending /\ r.events = k.events /\ r.wake = k.wake
        /\ r.tick = k.tick /\ r.nextUnblock = k.nextUnblock
        /\ r.prio = k.prio /\ r.base = k.base
        /\ r.evValue = k.evValue /\ r.overflows = k.overflows
    BY <1>1, <2>8 DEF KState
  <2>10. \A q \in Priorities : /\ r.ready[q] \in [items : Seq(Tasks), index : Nat]
                               /\ r.ready[q].items = k.ready[q].items
                               /\ r.ready[q].index = IF q = p THEN i ELSE k.ready[q].index
    <3>1. k.ready \in [Priorities -> [items : Seq(Tasks), index : Nat]]
      BY <1>1 DEF KState
    <3>2. TAKE q \in Priorities
    <3>3. r.ready[q] = IF q = p THEN [k.ready[p] EXCEPT !.index = i] ELSE k.ready[q]
      BY <2>9, <3>1
    <3>4. k.ready[q] \in [items : Seq(Tasks), index : Nat]
      BY <2>1
    <3>. QED
      BY <2>6, <3>3, <3>4
  <2>11. r \in KState
    <3>1. r.ready \in [Priorities -> [items : Seq(Tasks), index : Nat]]
      <4>1. r.ready = [q \in Priorities |-> r.ready[q]]
        BY <1>1, <2>9 DEF KState
      <4>. QED
        BY <2>10, <4>1
    <3>. QED
      BY <1>1, <2>7, <2>8, <2>9, <3>1 DEF KState
  <2>12. SameSets(k, r)
    BY <2>9, <2>10 DEF SameSets
  <2>13. \A q \in Priorities : ListOK(r.ready[q])
    <3>. TAKE q \in Priorities
    <3>1. ListOK(k.ready[q])
      BY DEF Sound, WellFormed
    <3>2. q = p => r.ready[q].index <= Len(r.ready[q].items)
      BY <2>6, <2>10
    <3>. QED
      BY <2>10, <3>1, <3>2 DEF ListOK
  <2>14. WellFormed(r)
    BY <2>9, <2>11, <2>13 DEF Sound, WellFormed
  <2>15. x \in ReadyTasks(k)
    BY <2>5, <2>6 DEF ReadyTasks
  <2>16. NoneAbove(r)
    <3>1. k.prio[x] = p
      BY <2>5, <2>6 DEF Sound, Separate
    <3>2. \A q \in Priorities : q > p => q \notin S
      <4>1. Priorities \subseteq Int
        BY TaskListsAssumption
      <4>. QED
        BY <2>4, <2>5, <4>1
    <3>3. \A q \in Priorities : q > p => ToSet(r.ready[q].items) = {}
      BY <2>2, <2>12, <3>2 DEF SameSets
    <3>. QED
      BY <2>9, <3>1, <3>3 DEF NoneAbove
  <2>. QED
    BY <1>3, <2>9, <2>12, <2>14, <2>15, <2>16, SameSetsSound DEF Selected, r
<1>. QED
  BY <1>2, <1>3

\* vTickISR while the scheduler is suspended: the tick is counted, and a yield noted.
LEMMA TickPends ==
    ASSUME NEW k, Sound(k), k.suspended # 0, NEW r, r = SwitchContext(IncrementTick(k))
    PROVE  /\ Sound(r) /\ SameSets(k, r) /\ r.cur = k.cur /\ r.suspended = k.suspended
           /\ r.pendedTicks = k.pendedTicks + 1 /\ r.yieldPending
<1>. DEFINE a == [k EXCEPT !.pendedTicks = @ + 1]
<1>1. k \in KState /\ k.suspended > 0 /\ k.pendedTicks + 1 \in Nat
  <2>1. k \in KState
    BY DEF Sound, WellFormed
  <2>. QED
    BY <2>1, KernelFields
<1>2. a \in KState /\ a.pendedTicks = k.pendedTicks + 1 /\ a.suspended = k.suspended
  BY <1>1 DEF KState
<1>3. r = [a EXCEPT !.yieldPending = TRUE]
  BY <1>1, <1>2 DEF IncrementTick, SwitchContext
<1>4. r \in KState
  BY <1>2, <1>3 DEF KState
<1>5. /\ r.ready = k.ready /\ SameSets(k, r) /\ r.cur = k.cur
      /\ r.suspended = a.suspended /\ r.pendedTicks = a.pendedTicks /\ r.yieldPending = TRUE
  BY <1>1, <1>3 DEF KState, SameSets
<1>6. WellFormed(r)
  BY <1>4, <1>5 DEF Sound, WellFormed, SameSets
<1>. QED
  BY <1>2, <1>5, <1>6, SameSetsSound

\* The task of the highest priority on an event list is made ready, or pending.
Given(k, t, r) ==
    /\ Sound(r) /\ t \in DelayedTasks(k) /\ t \in Tasks
    /\ \A p \in Priorities : ToSet(r.ready[p].items) =
          ToSet(k.ready[p].items) \cup (IF k.suspended = 0 /\ k.prio[t] = p THEN {t} ELSE {})
    /\ DelayedTasks(r) = IF k.suspended = 0 THEN DelayedTasks(k) \ {t} ELSE DelayedTasks(k)
    /\ ToSet(r.pending) = IF k.suspended = 0 THEN ToSet(k.pending)
                                             ELSE ToSet(k.pending) \cup {t}
    /\ r.tick = k.tick /\ r.prio = k.prio /\ r.base = k.base /\ r.cur = k.cur
    /\ r.suspended = k.suspended /\ r.pendedTicks = k.pendedTicks
    /\ r.yieldPending = (k.yieldPending \/ k.prio[t] > k.prio[k.cur])
    /\ r.overflows = k.overflows /\ OrderKept(k, r)
    /\ \A d \in EventLists : ToSet(r.events[d]) = ToSet(k.events[d]) \ {t}
    /\ NoneAbove(k) => NoneAbove(r)
    /\ \A l \in [Tasks -> Nat] : Clocked(k, l) => Clocked(r, [l EXCEPT ![t] = 0])

\* Only the yield flag differs.
LEMMA YieldFlag ==
    ASSUME NEW k, Sound(k), NEW y \in BOOLEAN, NEW r, r = [k EXCEPT !.yieldPending = y]
    PROVE  /\ Sound(r) /\ SameSets(k, r) /\ r.cur = k.cur /\ r.suspended = k.suspended
           /\ r.pendedTicks = k.pendedTicks /\ r.yieldPending = y
<1>1. k \in KState
  BY DEF Sound, WellFormed
<1>2. r \in KState
  BY <1>1 DEF KState
<1>3. /\ r.ready = k.ready /\ SameSets(k, r) /\ r.cur = k.cur /\ r.suspended = k.suspended
      /\ r.pendedTicks = k.pendedTicks /\ r.yieldPending = y
  BY <1>1 DEF KState, SameSets
<1>4. WellFormed(r)
  BY <1>2, <1>3 DEF Sound, WellFormed, SameSets
<1>. QED
  BY <1>3, <1>4, SameSetsSound

LEMMA RemoveFromEventListIs ==
    ASSUME NEW k, Sound(k), NEW e \in EventLists, k.events[e] # <<>>,
           k.suspended = 0 => k.pending = <<>>
    PROVE  Given(k, Head(k.events[e]), RemoveFromEventList(k, e))
<1>. DEFINE t == Head(k.events[e])
            high == k.prio[t] > k.prio[k.cur]
            r == RemoveFromEventList(k, e)
<1>1. k \in KState /\ k.events[e] \in Seq(Tasks) /\ IsInjective(k.events[e])
  BY KernelFields DEF Sound, WellFormed
<1>2. t \in ToSet(k.events[e]) /\ t \in Tasks /\ t \in DelayedTasks(k) /\ t \notin ToSet(k.pending)
  BY <1>1, TailIs, ToSetIn DEF Sound, Separate
<1>3. k.suspended \in Nat /\ k.yieldPending \in BOOLEAN /\ k.pending \in Seq(Tasks)
  BY <1>1 DEF KState
<1>. HIDE DEF t
<1>4. CASE k.suspended = 0
  <2>. DEFINE a == MakeReady(k, t)  y == a.yieldPending \/ high
  <2>1. MadeReady(k, {t}, a) /\ a.nextUnblock = k.nextUnblock
    BY <1>2, MakeReadyIs DEF Sound
  <2>2. r = [a EXCEPT !.yieldPending = y]
    BY <1>4 DEF RemoveFromEventList, WakesHigher, t
  <2>. HIDE DEF a, r
  <2>3. Sound(a) /\ Awakened(k, {t}, a) /\ \A l : Clocked(k, l) => Clocked(a, l)
    BY <1>2, <2>1, MadeReadySound
  <2>4. a.yieldPending = k.yieldPending /\ a.pendedTicks = k.pendedTicks /\ a.tick = k.tick
    BY <2>1 DEF MadeReady, SameRest
  <2>5. y \in BOOLEAN
    BY <1>3, <2>4
  <2>. HIDE DEF y
  <2>6. /\ Sound(r) /\ SameSets(a, r) /\ r.cur = a.cur /\ r.suspended = a.suspended
        /\ r.pendedTicks = a.pendedTicks /\ r.yieldPending = y
    BY <2>2, <2>3, <2>5, YieldFlag
  <2>7. /\ DelayedTasks(r) = DelayedTasks(k) \ {t}
        /\ \A l : Clocked(k, l) => Clocked(r, l)
    <3>1. WellFormed(r)
      BY <2>6 DEF Sound
    <3>2. DelayedTasks(r) = DelayedTasks(a) /\ \A l : Clocked(a, l) => Clocked(r, l)
      BY <2>3, <2>6, <3>1, SameSetsSound
    <3>. QED
      BY <2>3, <3>2 DEF Awakened
  <2>8. /\ \A p \in Priorities : ToSet(r.ready[p].items) =
              ToSet(k.ready[p].items) \cup (IF k.prio[t] = p THEN {t} ELSE {})
        /\ ToSet(r.pending) = ToSet(k.pending)
    <3>1. \A p \in Priorities : ToSet(r.ready[p].items) =
              ToSet(k.ready[p].items) \cup {u \in {t} : k.prio[u] = p}
      BY <2>3, <2>6 DEF Awakened, SameSets
    <3>2. \A p \in Priorities : {u \in {t} : k.prio[u] = p} = IF k.prio[t] = p THEN {t} ELSE {}
      OBVIOUS
    <3>3. ToSet(r.pending) = ToSet(k.pending) \ {t}
      BY <2>3, <2>6 DEF Awakened, SameSets
    <3>. QED
      BY <1>2, <3>1, <3>2, <3>3
  <2>9. NoneAbove(k) => NoneAbove(r)
    <3>. SUFFICES ASSUME NoneAbove(k), ~y PROVE NoneAbove(r)
      BY <2>6 DEF NoneAbove, y
    <3>1. ~high /\ \A p \in Priorities : p > k.prio[k.cur] => ToSet(k.ready[p].items) = {}
      BY <2>4 DEF NoneAbove, y
    <3>2. r.prio = k.prio /\ r.cur = k.cur
      BY <2>3, <2>6 DEF Awakened, SameSets
    <3>. QED
      BY <2>8, <3>1, <3>2 DEF NoneAbove
  <2>10. ASSUME NEW l \in [Tasks -> Nat], Clocked(k, l) PROVE Clocked(r, [l EXCEPT ![t] = 0])
    <3>1. Clocked(r, l) /\ t \notin DelayedTasks(r)
      BY <2>7, <2>10
    <3>2. \A u \in DelayedTasks(r) : u \in Tasks
      BY <2>6, ToSetIn, KernelFields DEF Sound, WellFormed, DelayedTasks
    <3>3. \A u \in DelayedTasks(r) : [l EXCEPT ![t] = 0][u] = l[u]
      BY <3>1, <3>2
    <3>. QED
      BY <3>1, <3>3 DEF Clocked
  <2>11. /\ r.overflows = k.overflows /\ OrderKept(k, r)
         /\ \A d \in EventLists : ToSet(r.events[d]) = ToSet(k.events[d]) \ {t}
    <3>1. OrderKept(a, r)
      BY <2>6, OrderSame DEF SameSets
    <3>2. OrderKept(k, r)
      BY <2>3, <3>1, OrderBoth DEF Awakened
    <3>. QED
      BY <2>1, <2>3, <2>6, <3>2 DEF MadeReady, SameRest, Awakened, SameSets
  <2>. QED
    BY <1>2, <1>4, <2>3, <2>4, <2>6, <2>7, <2>8, <2>9, <2>10, <2>11 DEF Given, Awakened, SameSets, r, t, y
<1>5. CASE k.suspended # 0
  <2>. DEFINE a == RemoveEvent(k, t)  b == [a EXCEPT !.pending = Append(@, t)]
              y == b.yieldPending \/ high
  <2>1. EventRemoved(k, t, a)
    BY <1>2, RemoveEventIs DEF Sound
  <2>2. r = [b EXCEPT !.yieldPending = y]
    BY <1>5 DEF RemoveFromEventList, WakesHigher, t
  <2>. HIDE DEF a, r
  <2>3. a \in KState /\ a.pending \in Seq(Tasks) /\ IsInjective(a.pending) /\ t \notin ToSet(a.pending)
    BY <2>1, KernelFields DEF EventRemoved, WellFormed
  <2>4. /\ Append(a.pending, t) \in Seq(Tasks) /\ IsInjective(Append(a.pending, t))
        /\ ToSet(Append(a.pending, t)) = ToSet(a.pending) \cup {t}
    BY <1>2, <2>3, AppendIs
  <2>5. b \in KState
    BY <2>3, <2>4 DEF KState
  <2>6. /\ b.pending = Append(a.pending, t) /\ b.ready = a.ready /\ b.delayed = a.delayed
        /\ b.overflow = a.overflow /\ b.terminating = a.terminating /\ b.events = a.events
        /\ b.wake = a.wake /\ SameRest(a, b) /\ b.nextUnblock = a.nextUnblock
    BY <2>3 DEF KState, SameRest
  <2>. HIDE DEF b
  <2>7. /\ WellFormed(b) /\ SameRest(k, b) /\ b.nextUnblock = k.nextUnblock
        /\ b.ready = k.ready /\ b.delayed = k.delayed /\ b.overflow = k.overflow
        /\ b.terminating = k.terminating /\ b.wake = k.wake
        /\ ToSet(b.pending) = ToSet(k.pending) \cup {t}
        /\ \A d \in EventLists : ToSet(b.events[d]) = ToSet(k.events[d]) \ {t}
    <3>1. WellFormed(b)
      BY <2>1, <2>4, <2>5, <2>6 DEF EventRemoved, WellFormed
    <3>2. SameRest(k, b)
      BY <2>1, <2>6 DEF EventRemoved, SameRest
    <3>3. ToSet(b.pending) = ToSet(k.pending) \cup {t}
      BY <2>1, <2>4, <2>6 DEF EventRemoved
    <3>. QED
      BY <2>1, <2>6, <3>1, <3>2, <3>3 DEF EventRemoved
  <2>8. DelayedTasks(b) = DelayedTasks(k) /\ ReadyTasks(b) = ReadyTasks(k)
    BY <2>7 DEF DelayedTasks, ReadyTasks
  <2>9. Sound(b)
    <3>1. Separate(b)
      <4>1. \A p \in Priorities : \A u \in ToSet(b.ready[p].items) : b.prio[u] = p
        BY <2>7 DEF Sound, Separate, SameRest
      <4>2. /\ ToSet(b.pending) \subseteq DelayedTasks(b)
            /\ \A d \in EventLists : ToSet(b.events[d]) \subseteq DelayedTasks(b) \ ToSet(b.pending)
        BY <1>2, <2>7, <2>8, ZenonT(60) DEF Sound, Separate
      <4>. QED
        BY <2>7, <2>8, <4>1, <4>2 DEF Sound, Separate
    <3>2. Timely(b)
      BY <2>7 DEF Sound, Timely, UnblocksInTime, SameRest
    <3>. QED
      BY <2>7, <3>1, <3>2 DEF Sound
  <2>10. b.yieldPending = k.yieldPending /\ y \in BOOLEAN
    BY <1>3, <2>7 DEF SameRest
  <2>. HIDE DEF y
  <2>11. /\ Sound(r) /\ SameSets(b, r) /\ r.cur = b.cur /\ r.suspended = b.suspended
         /\ r.pendedTicks = b.pendedTicks /\ r.yieldPending = y
    BY <2>2, <2>9, <2>10, YieldFlag
  <2>12. DelayedTasks(r) = DelayedTasks(k)
    <3>1. WellFormed(r)
      BY <2>11 DEF Sound
    <3>. QED
      BY <2>8, <2>9, <2>11, <3>1, SameSetsSound
  <2>13. NoneAbove(k) => NoneAbove(r)
    BY <2>7, <2>10, <2>11 DEF NoneAbove, SameSets, SameRest, y
  <2>14. ASSUME NEW l \in [Tasks -> Nat], Clocked(k, l) PROVE Clocked(r, [l EXCEPT ![t] = 0])
    <3>1. \A u \in DelayedTasks(k) : u \in Tasks
      BY <1>1, ToSetIn, KernelFields DEF DelayedTasks
    <3>2. \A u \in DelayedTasks(r) \ ToSet(r.pending) :
             u \in DelayedTasks(k) \ ToSet(k.pending) /\ [l EXCEPT ![t] = 0][u] = l[u]
      BY <2>7, <2>11, <2>12, <3>1 DEF SameSets
    <3>3. r.wake = k.wake /\ r.tick = k.tick /\ r.overflow = k.overflow
      BY <2>7, <2>11 DEF SameSets, SameRest
    <3>. QED
      BY <2>14, <3>2, <3>3 DEF Clocked
  <2>15. \A p \in Priorities : ToSet(r.ready[p].items) = ToSet(k.ready[p].items)
    BY <2>7, <2>11 DEF SameSets
  <2>16. /\ r.tick = k.tick /\ r.prio = k.prio /\ r.base = k.base /\ r.cur = k.cur
         /\ r.suspended = k.suspended /\ r.pendedTicks = k.pendedTicks
         /\ ToSet(r.pending) = ToSet(k.pending) \cup {t}
    BY <2>7, <2>11 DEF SameSets, SameRest
  <2>17. /\ r.overflows = k.overflows /\ OrderKept(k, r)
         /\ \A d \in EventLists : ToSet(r.events[d]) = ToSet(k.events[d]) \ {t}
    <3>1. OrderKept(a, r)
      <4>1. r.events = a.events /\ r.evValue = a.evValue
        BY <2>6, <2>11 DEF SameSets, SameRest
      <4>. QED
        BY <4>1, OrderSame
    <3>2. OrderKept(k, r)
      BY <2>1, <3>1, OrderBoth DEF EventRemoved
    <3>. QED
      BY <2>7, <2>11, <3>2 DEF SameRest, SameSets
  <2>. QED
    BY <1>2, <1>5, <2>10, <2>11, <2>12, <2>13, <2>14, <2>15, <2>16, <2>17 DEF Given, r, t, y
<1>. QED
  BY <1>4, <1>5

-----------------------------------------------------------------------------
(* The tick *)

CountedDown(l, n) == [t \in Tasks |-> IF l[t] > n THEN l[t] - n ELSE 0]

\* It is d ticks, less than a round, since vTaskSetTimeOutState noted the time.
Since(k, to, d) ==
    /\ d \in 0..(TickMod - 1) /\ to.entering \in Ticks
    /\ IF to.entering + d < TickMod
       THEN k.tick = to.entering + d /\ k.overflows = to.overflows
       ELSE /\ k.tick = to.entering + d - TickMod
            /\ k.overflows = (to.overflows + 1) % OverflowMod

SinceKept(k, n, r) ==
    \A to, d : Since(k, to, d) /\ d + n < TickMod => Since(r, to, d + n)

\* n ticks later the tasks of W are ready, and those only whose time has come.
Advances(k, W, n, r) ==
    /\ Sound(r) /\ Awakened(k, W, r) /\ r.pendedTicks = k.pendedTicks
    /\ r.tick = (k.tick + n) % TickMod /\ SinceKept(k, n, r)
    /\ \A l \in [Tasks -> Nat] : Clocked(k, l) =>
          Clocked(r, CountedDown(l, n)) /\ \A t \in W : CountedDown(l, n)[t] = 0

\* The tick is counted, and the delayed lists exchanged if it wrapped.
Turned(k, a) ==
    /\ WellFormed(a) /\ UnblocksInTime(a)
    /\ Sorted(a.delayed, a.wake) /\ Sorted(a.overflow, a.wake)
    /\ \A p \in Priorities : ToSet(a.ready[p].items) = ToSet(k.ready[p].items)
    /\ ToSet(a.terminating) = ToSet(k.terminating) /\ ToSet(a.pending) = ToSet(k.pending)
    /\ \A e \in EventLists : ToSet(a.events[e]) = ToSet(k.events[e])
    /\ \A u \in Tasks : a.wake[u] = k.wake[u]
    /\ a.prio = k.prio /\ a.base = k.base /\ a.cur = k.cur /\ a.suspended = k.suspended
    /\ a.pendedTicks = k.pendedTicks /\ a.yieldPending = k.yieldPending
    /\ OrderKept(k, a)
    /\ IF k.tick + 1 < TickMod
       THEN /\ a.tick = k.tick + 1 /\ a.overflows = k.overflows
            /\ ToSet(a.delayed) = ToSet(k.delayed) /\ ToSet(a.overflow) = ToSet(k.overflow)
       ELSE /\ a.tick = 0 /\ a.overflows = (k.overflows + 1) % OverflowMod
            /\ ToSet(a.delayed) = ToSet(k.overflow) /\ ToSet(a.overflow) = ToSet(k.delayed)

LEMMA TurnedIs ==
    ASSUME NEW k, Sound(k), NEW next, next = [k EXCEPT !.tick = (@ + 1) % TickMod]
    PROVE  Turned(k, IF next.tick = 0 THEN SwitchDelayedLists(next) ELSE next)
<1>1. k \in KState /\ WellFormed(k)
  BY DEF Sound, WellFormed
<1>2. k.tick \in 0..(TickMod - 1) /\ TickMod \in Nat \ {0, 1} /\ Ticks = 0..(TickMod - 1)
  BY <1>1, KernelFields DEF Ticks
<1>. DEFINE n == (k.tick + 1) % TickMod
<1>3. n \in Ticks /\ n = IF k.tick + 1 < TickMod THEN k.tick + 1 ELSE 0
  <2>1. CASE k.tick + 1 < TickMod
    BY <1>2, <2>1
  <2>2. CASE ~(k.tick + 1 < TickMod)
    <3>1. k.tick + 1 = TickMod
      BY <1>2, <2>2
    <3>. QED
      BY <1>2, <2>2, <3>1
  <2>. QED
    BY <2>1, <2>2
<1>4. next = [k EXCEPT !.tick = n]
  OBVIOUS
<1>. HIDE DEF n
<1>5. /\ next \in KState /\ next.tick = n
      /\ next.ready = k.ready /\ next.delayed = k.delayed /\ next.overflow = k.overflow
      /\ next.terminating = k.terminating /\ next.pending = k.pending
      /\ next.events = k.events /\ next.wake = k.wake /\ next.nextUnblock = k.nextUnblock
      /\ next.prio = k.prio /\ next.base = k.base /\ next.cur = k.cur
      /\ next.suspended = k.suspended /\ next.pendedTicks = k.pendedTicks
      /\ next.yieldPending = k.yieldPending /\ next.overflows = k.overflows
      /\ next.evValue = k.evValue
  BY <1>1, <1>3, <1>4 DEF KState
<1>6. WellFormed(next)
  BY <1>1, <1>5 DEF WellFormed
<1>7. Sorted(k.delayed, k.wake) /\ Sorted(k.overflow, k.wake) /\ UnblocksInTime(k)
  BY DEF Sound, Timely
<1>8. CASE k.tick + 1 < TickMod
  <2>1. next.tick # 0 /\ next.tick = k.tick + 1
    BY <1>2, <1>3, <1>5, <1>8
  <2>2. UnblocksInTime(next)
    BY <1>5, <1>7 DEF UnblocksInTime
  <2>3. OrderKept(k, next)
    BY <1>5, OrderSame
  <2>4. Turned(k, next)
    BY <1>5, <1>6, <1>7, <1>8, <2>1, <2>2, <2>3 DEF Turned
  <2>. QED
    BY <2>1, <2>4
<1>9. CASE ~(k.tick + 1 < TickMod)
  <2>. DEFINE o == (next.overflows + 1) % OverflowMod
              b == [next EXCEPT !.delayed = next.overflow, !.overflow = next.delayed, !.overflows = o]
              r == ResetNextUnblock(b)
  <2>1. next.tick = 0 /\ SwitchDelayedLists(next) = r
    BY <1>3, <1>5, <1>9 DEF SwitchDelayedLists
  <2>2. o \in Nat
    <3>1. next.overflows + 1 \in Nat /\ OverflowMod \in Nat \ {0}
      <4>1. next.overflows \in Nat
        BY <1>5 DEF KState
      <4>. QED
        BY <4>1, TaskListsAssumption
    <3>. QED
      BY <3>1
  <2>. HIDE DEF o
  <2>3. b \in KState
    BY <1>5, <2>2, ZenonT(60) DEF KState
  <2>4. /\ b.tick = n
        /\ b.ready = k.ready /\ b.delayed = k.overflow /\ b.overflow = k.delayed
        /\ b.terminating = k.terminating /\ b.pending = k.pending
        /\ b.events = k.events /\ b.wake = k.wake
        /\ b.prio = k.prio /\ b.base = k.base /\ b.cur = k.cur
        /\ b.suspended = k.suspended /\ b.pendedTicks = k.pendedTicks
        /\ b.yieldPending = k.yieldPending /\ b.evValue = k.evValue /\ b.overflows = o
    BY <1>5 DEF KState
  <2>. HIDE DEF b
  <2>5. WellFormed(b)
    BY <1>1, <2>3, <2>4 DEF WellFormed
  <2>6. Sorted(b.delayed, b.wake) /\ Sorted(b.overflow, b.wake)
    BY <1>7, <2>4
  <2>7. MadeReady(b, {}, r) /\ UnblocksInTime(r)
    BY <2>5, <2>6, ResetNextUnblockIs
  <2>. HIDE DEF r
  <2>8. /\ WellFormed(r) /\ Sorted(r.delayed, r.wake) /\ Sorted(r.overflow, r.wake)
        /\ SameRest(b, r) /\ \A u \in Tasks : r.wake[u] = b.wake[u]
    BY <2>6, <2>7 DEF MadeReady
  <2>9. /\ \A p \in Priorities : ToSet(r.ready[p].items) = ToSet(b.ready[p].items)
        /\ ToSet(r.terminating) = ToSet(b.terminating) /\ ToSet(r.pending) = ToSet(b.pending)
        /\ \A e \in EventLists : ToSet(r.events[e]) = ToSet(b.events[e])
        /\ ToSet(r.delayed) = ToSet(b.delayed) /\ ToSet(r.overflow) = ToSet(b.overflow)
    BY <2>7 DEF MadeReady
  <2>10. r.tick = 0
    BY <1>3, <1>9, <2>4, <2>8 DEF SameRest
  <2>11. r.overflows = (k.overflows + 1) % OverflowMod
    BY <1>5, <2>4, <2>8 DEF SameRest, o
  <2>12. OrderKept(k, r)
    BY <2>4, <2>7, OrderSame, OrderBoth DEF MadeReady
  <2>13. Turned(k, r)
    BY <1>9, <2>4, <2>7, <2>8, <2>9, <2>10, <2>11, <2>12 DEF Turned, SameRest
  <2>. QED
    BY <2>1, <2>13
<1>. QED
  BY <1>8, <1>9

LEMMA TurnedSound ==
    ASSUME NEW k, Sound(k), k.pending = <<>>, NEW a, Turned(k, a),
           NEW W, W = {t \in ToSet(a.delayed) : a.wake[t] <= a.tick},
           NEW r, MadeReady(a, W, r), UnblocksInTime(r)
    PROVE  Advances(k, W, 1, r) /\ W \subseteq DelayedTasks(k)
<1>1. /\ k.tick \in 0..(TickMod - 1) /\ TickMod \in Nat \ {0, 1} /\ k.wake \in [Tasks -> Ticks]
      /\ Ticks = 0..(TickMod - 1) /\ DelayedTasks(k) \subseteq Tasks
  BY KernelFields, ToSetIn DEF Ticks, Sound, WellFormed, DelayedTasks
<1>2. DelayedTasks(a) = DelayedTasks(k) /\ ReadyTasks(a) = ReadyTasks(k)
  BY DEF Turned, DelayedTasks, ReadyTasks
<1>3. \A t \in DelayedTasks(k) : k.wake[t] \in 0..(TickMod - 1) /\ a.wake[t] = k.wake[t]
  BY <1>1 DEF Turned
<1>4. /\ \A t \in ToSet(k.delayed) : k.wake[t] > k.tick
      /\ \A t \in ToSet(k.overflow) : k.wake[t] < k.tick
  BY DEF Sound, Timely
<1>5. ~(k.tick + 1 < TickMod) => ToSet(k.delayed) = {}
  <2>1. ASSUME NEW t \in ToSet(k.delayed) PROVE k.tick + 1 < TickMod
    <3>1. k.wake[t] > k.tick /\ k.wake[t] \in 0..(TickMod - 1)
      BY <1>3, <1>4 DEF DelayedTasks
    <3>. QED
      BY <1>1, <3>1
  <2>. QED
    BY <2>1
<1>6. /\ \A t \in ToSet(a.delayed) : a.wake[t] >= a.tick /\ a.wake[t] \in Int
      /\ \A t \in ToSet(a.overflow) : a.wake[t] < a.tick
      /\ a.tick \in Int
  <2>1. CASE k.tick + 1 < TickMod
    <3>1. /\ a.tick = k.tick + 1 /\ ToSet(a.delayed) = ToSet(k.delayed)
          /\ ToSet(a.overflow) = ToSet(k.overflow)
      BY <2>1 DEF Turned
    <3>2. \A t \in ToSet(k.delayed) \cup ToSet(k.overflow) :
             a.wake[t] = k.wake[t] /\ k.wake[t] \in Int
      BY <1>3 DEF DelayedTasks
    <3>. QED
      BY <1>1, <1>4, <3>1, <3>2
  <2>2. CASE ~(k.tick + 1 < TickMod)
    <3>1. /\ a.tick = 0 /\ ToSet(a.delayed) = ToSet(k.overflow) /\ ToSet(a.overflow) = {}
      BY <1>5, <2>2 DEF Turned
    <3>2. \A t \in ToSet(k.overflow) : a.wake[t] \in Nat
      BY <1>3 DEF DelayedTasks
    <3>. QED
      BY <3>1, <3>2
  <2>. QED
    BY <2>1, <2>2
<1>7. W \subseteq ToSet(a.delayed) /\ \A t \in W : a.wake[t] = a.tick
  BY <1>6
<1>8. /\ DelayedTasks(r) = DelayedTasks(k) \ W
      /\ ToSet(r.delayed) = ToSet(a.delayed) \ W /\ ToSet(r.overflow) = ToSet(a.overflow) \ W
      /\ W \subseteq DelayedTasks(k) /\ W \subseteq Tasks
  BY <1>1, <1>2, <1>7 DEF MadeReady, DelayedTasks
<1>9. WellFormed(r) /\ SameRest(a, r) /\ \A u \in Tasks \ W : r.wake[u] = a.wake[u]
  BY DEF MadeReady
<1>10. Awakened(k, W, r)
  <2>1. /\ ToSet(k.terminating) \cap W = {}
        /\ \A p \in Priorities : ToSet(k.ready[p].items) \cap W = {}
    BY <1>8 DEF Sound, Separate, ReadyTasks
  <2>2. \A p \in Priorities : ToSet(r.ready[p].items) =
            ToSet(k.ready[p].items) \cup {t \in W : k.prio[t] = p}
    BY <2>1 DEF MadeReady, Turned
  <2>3. /\ ToSet(r.terminating) = ToSet(k.terminating)
        /\ \A e \in EventLists : ToSet(r.events[e]) = ToSet(k.events[e]) \ W
        /\ ToSet(r.pending) = ToSet(k.pending) \ W
    BY <2>1 DEF MadeReady, Turned
  <2>4. OrderKept(k, r)
    BY OrderBoth DEF MadeReady, Turned
  <2>. QED
    BY <1>8, <1>9, <2>2, <2>3, <2>4 DEF Awakened, Turned, SameRest
<1>11. r.tick = a.tick /\ r.prio = k.prio /\ r.pendedTicks = k.pendedTicks
  BY <1>9 DEF Turned, SameRest
<1>12. \A t \in DelayedTasks(r) : r.wake[t] = k.wake[t] /\ a.wake[t] = k.wake[t]
  BY <1>1, <1>3, <1>8, <1>9
<1>13. Separate(r)
  <2>1. \A p \in Priorities : \A t \in ToSet(r.ready[p].items) : r.prio[t] = p
    BY <1>10, <1>11 DEF Awakened, Sound, Separate
  <2>2. ReadyTasks(r) \subseteq ReadyTasks(k) \cup W
    BY <1>10 DEF Awakened, ReadyTasks
  <2>3. ToSet(r.delayed) \cap ToSet(r.overflow) = {}
    BY <1>8 DEF Turned, Sound, Separate
  <2>4. /\ ReadyTasks(r) \cap (DelayedTasks(r) \cup ToSet(r.terminating)) = {}
        /\ DelayedTasks(r) \cap ToSet(r.terminating) = {}
    BY <1>8, <1>10, <2>2 DEF Awakened, Sound, Separate
  <2>5. /\ ToSet(r.pending) \subseteq DelayedTasks(r)
        /\ \A e \in EventLists : ToSet(r.events[e]) \subseteq DelayedTasks(r) \ ToSet(r.pending)
    BY <1>10 DEF Awakened, Sound, Separate
  <2>. QED
    BY <2>1, <2>3, <2>4, <2>5 DEF Separate
<1>14. Timely(r)
  <2>1. Sorted(r.delayed, r.wake) /\ Sorted(r.overflow, r.wake)
    BY DEF MadeReady, Turned
  <2>2. \A t \in ToSet(r.delayed) : r.wake[t] > r.tick
    <3>. TAKE t \in ToSet(r.delayed)
    <3>1. t \in ToSet(a.delayed) /\ t \notin W /\ r.wake[t] = a.wake[t]
      BY <1>8, <1>12 DEF DelayedTasks
    <3>. QED
      BY <1>6, <1>11, <3>1
  <2>3. \A t \in ToSet(r.overflow) : r.wake[t] < r.tick
    <3>. TAKE t \in ToSet(r.overflow)
    <3>1. t \in ToSet(a.overflow) /\ r.wake[t] = a.wake[t]
      BY <1>8, <1>12 DEF DelayedTasks
    <3>. QED
      BY <1>6, <1>11, <3>1
  <2>. QED
    BY <2>1, <2>2, <2>3 DEF Timely
<1>15. r.tick = (k.tick + 1) % TickMod
  <2>1. CASE k.tick + 1 < TickMod
    <3>1. (k.tick + 1) % TickMod = k.tick + 1
      BY <1>1, <2>1
    <3>. QED
      BY <1>11, <2>1, <3>1 DEF Turned
  <2>2. CASE ~(k.tick + 1 < TickMod)
    <3>1. k.tick + 1 = TickMod
      BY <1>1, <2>2
    <3>. QED
      BY <1>1, <1>11, <2>2, <3>1 DEF Turned
  <2>. QED
    BY <2>1, <2>2
<1>16. ASSUME NEW l \in [Tasks -> Nat], Clocked(k, l)
       PROVE  Clocked(r, CountedDown(l, 1)) /\ \A t \in W : CountedDown(l, 1)[t] = 0
  <2>1. ToSet(k.pending) = {}
    BY DEF ToSet
  <2>2. \A t \in DelayedTasks(k) :
           l[t] = k.wake[t] - k.tick + (IF t \in ToSet(k.overflow) THEN TickMod ELSE 0)
    BY <1>16, <2>1 DEF Clocked
  <2>3. \A t \in DelayedTasks(k) : CountedDown(l, 1)[t] = IF l[t] > 1 THEN l[t] - 1 ELSE 0
    BY <1>1 DEF CountedDown
  <2>4. \A t \in DelayedTasks(k) :
           l[t] - 1 = a.wake[t] - a.tick + (IF t \in ToSet(a.overflow) THEN TickMod ELSE 0)
    <3>. TAKE t \in DelayedTasks(k)
    <3>1. /\ l[t] = k.wake[t] - k.tick + (IF t \in ToSet(k.overflow) THEN TickMod ELSE 0)
          /\ a.wake[t] = k.wake[t] /\ k.wake[t] \in Int /\ k.tick \in Int /\ TickMod \in Int
      BY <1>1, <1>3, <2>2
    <3>2. CASE k.tick + 1 < TickMod
      <4>1. a.tick = k.tick + 1 /\ ToSet(a.overflow) = ToSet(k.overflow)
        BY <3>2 DEF Turned
      <4>. QED
        BY <3>1, <4>1, SMTT(30)
    <3>3. CASE ~(k.tick + 1 < TickMod)
      <4>1. a.tick = 0 /\ k.tick + 1 = TickMod /\ t \notin ToSet(a.overflow) /\ t \in ToSet(k.overflow)
        BY <1>1, <1>5, <3>3 DEF Turned, DelayedTasks
      <4>. QED
        BY <3>1, <4>1
    <3>. QED
      BY <3>2, <3>3
  <2>5. \A t \in W : l[t] - 1 = 0
    <3>. TAKE t \in W
    <3>1. t \in DelayedTasks(k) /\ a.wake[t] = a.tick /\ t \in ToSet(a.delayed)
      BY <1>7, <1>8
    <3>2. t \notin ToSet(a.overflow)
      BY <3>1 DEF Turned, Sound, Separate
    <3>3. l[t] - 1 = a.wake[t] - a.tick + 0
      BY <2>4, <3>1, <3>2
    <3>4. a.tick \in Int
      BY <1>6
    <3>5. a.wake[t] = a.tick
      BY <1>7
    <3>6. l[t] - 1 = a.tick - a.tick + 0
      BY <3>3, <3>5
    <3>7. a.tick - a.tick + 0 = 0
      BY <3>4
    <3>. QED
      BY <3>6, <3>7
  <2>6. \A t \in DelayedTasks(r) : l[t] - 1 > 0
    <3>. TAKE t \in DelayedTasks(r)
    <3>1. t \in DelayedTasks(k) /\ a.wake[t] \in 0..(TickMod - 1) /\ r.wake[t] = a.wake[t]
      BY <1>3, <1>8, <1>12
    <3>2. a.tick \in 0..(TickMod - 1)
      BY <1>1 DEF Turned
    <3>3. CASE t \in ToSet(a.overflow)
      BY <1>1, <2>4, <3>1, <3>2, <3>3
    <3>4. CASE t \notin ToSet(a.overflow)
      <4>1. t \in ToSet(r.delayed)
        BY <1>8, <3>4 DEF DelayedTasks
      <4>2. r.wake[t] > r.tick
        BY <1>14, <4>1 DEF Timely
      <4>. QED
        BY <1>11, <2>4, <3>1, <3>2, <3>4, <4>2
    <3>. QED
      BY <3>3, <3>4
  <2>7. \A t \in Tasks : l[t] \in Nat
    OBVIOUS
  <2>8. Clocked(r, CountedDown(l, 1))
    <3>. SUFFICES ASSUME NEW t \in DelayedTasks(r)
                  PROVE  CountedDown(l, 1)[t] =
                            r.wake[t] - r.tick + (IF t \in ToSet(r.overflow) THEN TickMod ELSE 0)
      BY DEF Clocked
    <3>1. t \in DelayedTasks(k) /\ t \notin W /\ r.wake[t] = a.wake[t] /\ t \in Tasks
      BY <1>1, <1>3, <1>8, <1>12
    <3>2. t \in ToSet(r.overflow) <=> t \in ToSet(a.overflow)
      BY <1>8, <3>1
    <3>3. CountedDown(l, 1)[t] = l[t] - 1
      BY <2>3, <2>6, <2>7, <3>1
    <3>. QED
      BY <1>11, <2>4, <3>1, <3>2, <3>3
  <2>9. \A t \in W : CountedDown(l, 1)[t] = 0
    BY <1>8, <2>3, <2>5, <2>7
  <2>. QED
    BY <2>8, <2>9
<1>17. SinceKept(k, 1, r)
  <2>. SUFFICES ASSUME NEW to, NEW d, Since(k, to, d), d + 1 < TickMod
                PROVE  Since(r, to, d + 1)
    BY DEF SinceKept
  <2>1. /\ d \in 0..(TickMod - 1) /\ to.entering \in 0..(TickMod - 1) /\ TickMod \in Nat
        /\ to.entering \in Ticks
    BY <1>1 DEF Since
  <2>2. r.tick = a.tick /\ r.overflows = a.overflows
    BY <1>9 DEF SameRest
  <2>3. CASE k.tick + 1 < TickMod
    <3>1. r.tick = k.tick + 1 /\ r.overflows = k.overflows
      BY <2>2, <2>3 DEF Turned
    <3>2. CASE to.entering + d < TickMod
      <4>1. k.tick = to.entering + d /\ k.overflows = to.overflows
        BY <3>2 DEF Since
      <4>. QED
        BY <1>1, <2>1, <2>3, <3>1, <4>1 DEF Since
    <3>3. CASE ~(to.entering + d < TickMod)
      <4>1. k.tick = to.entering + d - TickMod /\ k.overflows = (to.overflows + 1) % OverflowMod
        BY <3>3 DEF Since
      <4>2. ~(to.entering + (d + 1) < TickMod) /\ r.tick = to.entering + (d + 1) - TickMod
        BY <1>1, <2>1, <3>1, <3>3, <4>1
      <4>. QED
        BY <2>1, <3>1, <4>1, <4>2 DEF Since
    <3>. QED
      BY <3>2, <3>3
  <2>4. CASE ~(k.tick + 1 < TickMod)
    <3>1. /\ r.tick = 0 /\ r.overflows = (k.overflows + 1) % OverflowMod
          /\ k.tick + 1 = TickMod
      BY <1>1, <2>2, <2>4 DEF Turned
    <3>2. to.entering + d < TickMod
      <4>1. CASE ~(to.entering + d < TickMod)
        <5>1. k.tick = to.entering + d - TickMod
          BY <4>1 DEF Since
        <5>. QED
          BY <1>1, <2>1, <3>1, <5>1
      <4>. QED
        BY <4>1
    <3>3. k.tick = to.entering + d /\ k.overflows = to.overflows
      BY <3>2 DEF Since
    <3>4. ~(to.entering + (d + 1) < TickMod) /\ r.tick = to.entering + (d + 1) - TickMod
      BY <1>1, <2>1, <3>1, <3>3
    <3>. QED
      BY <2>1, <3>1, <3>3, <3>4 DEF Since
  <2>. QED
    BY <2>3, <2>4
<1>. QED
  BY <1>8, <1>9, <1>10, <1>11, <1>13, <1>14, <1>15, <1>16, <1>17 DEF Advances, Sound

\* xTaskIncrementTick with the scheduler running
LEMMA AdvanceTickIs ==
    ASSUME NEW k, Sound(k), k.pending = <<>>
    PROVE  /\ \E W \in SUBSET DelayedTasks(k) : Advances(k, W, 1, AdvanceTick(k))
           /\ AdvanceTick(k).yieldPending = k.yieldPending
<1>. DEFINE next == [k EXCEPT !.tick = (@ + 1) % TickMod]
            a == IF next.tick = 0 THEN SwitchDelayedLists(next) ELSE next
            W == {t \in ToSet(a.delayed) : a.wake[t] <= a.tick}
            r == IF a.tick >= a.nextUnblock THEN WakeDue(a) ELSE a
<1>1. Turned(k, a)
  BY TurnedIs
<1>2. AdvanceTick(k) = r
  BY DEF AdvanceTick
<1>. HIDE DEF a
<1>3. WellFormed(a) /\ Sorted(a.delayed, a.wake) /\ UnblocksInTime(a) /\ a.yieldPending = k.yieldPending
  BY <1>1 DEF Turned
<1>4. MadeReady(a, W, r) /\ UnblocksInTime(r)
  <2>1. CASE a.tick >= a.nextUnblock
    BY <1>3, <2>1, WakeDueIs
  <2>2. CASE ~(a.tick >= a.nextUnblock)
    <3>1. a.tick \in Int /\ a.nextUnblock \in Int /\ a.wake \in [Tasks -> Int] /\ ToSet(a.delayed) \subseteq Tasks
      BY <1>3, KernelFields, ToSetIn DEF WellFormed
    <3>2. \A t \in ToSet(a.delayed) : ~(a.wake[t] <= a.tick)
      BY <1>3, <2>2, <3>1 DEF UnblocksInTime
    <3>3. W = {}
      BY <3>2
    <3>4. MadeReady(a, {}, a)
      BY <1>3, MadeReadyNone
    <3>. QED
      BY <1>3, <2>2, <3>3, <3>4
  <2>. QED
    BY <2>1, <2>2
<1>. HIDE DEF r
<1>5. Advances(k, W, 1, r) /\ W \subseteq DelayedTasks(k)
  BY <1>1, <1>4, TurnedSound
<1>6. r.yieldPending = k.yieldPending
  BY <1>3, <1>4 DEF MadeReady, SameRest
<1>. QED
  BY <1>2, <1>5, <1>6

LEMMA ToSetConcat ==
    ASSUME NEW S, NEW a \in Seq(S), NEW b \in Seq(S)
    PROVE  ToSet(a \o b) = ToSet(a) \cup ToSet(b)
<1>1. /\ Len(a) \in Nat /\ Len(b) \in Nat /\ DOMAIN (a \o b) = 1..(Len(a) + Len(b))
      /\ DOMAIN a = 1..Len(a) /\ DOMAIN b = 1..Len(b)
      /\ \A i \in 1..(Len(a) + Len(b)) :
            (a \o b)[i] = IF i <= Len(a) THEN a[i] ELSE b[i - Len(a)]
  OBVIOUS
<1>. DEFINE c == a \o b
<1>. HIDE DEF c
<1>2. \A i \in 1..Len(a) : i \in 1..(Len(a) + Len(b)) /\ c[i] = a[i]
  BY <1>1 DEF c
<1>3. \A i \in 1..Len(b) : i + Len(a) \in 1..(Len(a) + Len(b)) /\ c[i + Len(a)] = b[i]
  BY <1>1 DEF c
<1>4. \A i \in 1..(Len(a) + Len(b)) :
         (i \in 1..Len(a) /\ c[i] = a[i]) \/ (i - Len(a) \in 1..Len(b) /\ c[i] = b[i - Len(a)])
  BY <1>1 DEF c
<1>5. ToSet(a) \cup ToSet(b) \subseteq ToSet(c)
  <2>1. \A i \in 1..Len(a) : a[i] \in ToSet(c)
    BY <1>1, <1>2 DEF ToSet, c
  <2>2. \A i \in 1..Len(b) : b[i] \in ToSet(c)
    <3>. TAKE i \in 1..Len(b)
    <3>1. b[i] = c[i + Len(a)] /\ i + Len(a) \in DOMAIN c
      BY <1>1, <1>3 DEF c
    <3>. QED
      BY <3>1 DEF ToSet
  <2>. QED
    BY <1>1, <2>1, <2>2 DEF ToSet
<1>6. ToSet(c) \subseteq ToSet(a) \cup ToSet(b)
  BY <1>1, <1>4 DEF ToSet, c
<1>. QED
  BY <1>5, <1>6 DEF c

\* One pended tick: if a task that was woken may run, a yield is pending.
LEMMA TickAndYieldIs ==
    ASSUME NEW k, Sound(k), k.pending = <<>>
    PROVE  /\ \E W \in SUBSET DelayedTasks(k) : Advances(k, W, 1, TickAndYield(k))
           /\ NoneAbove(k) => NoneAbove(TickAndYield(k))
           /\ TickAndYield(k).pending = <<>>
<1>. DEFINE a == AdvanceTick(k)  y == TickNeedsSwitch(k, a)  r == TickAndYield(k)
<1>1. PICK W \in SUBSET DelayedTasks(k) : Advances(k, W, 1, a)
  BY AdvanceTickIs
<1>2. a.yieldPending = k.yieldPending
  BY AdvanceTickIs
<1>3. r = [a EXCEPT !.yieldPending = y]
  BY DEF TickAndYield
<1>4. y \in BOOLEAN
  BY DEF TickNeedsSwitch
<1>. HIDE DEF a, y, r
<1>5. Sound(a) /\ Awakened(k, W, a)
  BY <1>1 DEF Advances
<1>6. /\ Sound(r) /\ SameSets(a, r) /\ r.cur = a.cur /\ r.suspended = a.suspended
      /\ r.pendedTicks = a.pendedTicks /\ r.yieldPending = y
  BY <1>3, <1>4, <1>5, YieldFlag
<1>7. WellFormed(r)
  BY <1>6 DEF Sound
<1>8. DelayedTasks(r) = DelayedTasks(a) /\ \A l : Clocked(a, l) => Clocked(r, l)
  BY <1>5, <1>6, <1>7, SameSetsSound
<1>9. Awakened(k, W, r)
  <2>1. OrderKept(k, r)
    BY <1>5, <1>6, OrderSame, OrderBoth DEF Awakened, SameSets
  <2>. QED
    BY <1>5, <1>6, <1>8, <2>1 DEF Awakened, SameSets
<1>10. Advances(k, W, 1, r)
  <2>1. SinceKept(k, 1, r)
    BY <1>1, <1>6 DEF Advances, SinceKept, Since, SameSets
  <2>. QED
    BY <1>1, <1>6, <1>8, <1>9, <2>1 DEF Advances, SameSets
<1>11. r.pending = <<>>
  <2>1. ToSet(r.pending) = {} /\ r.pending \in Seq(Tasks)
    <3>1. ToSet(k.pending) = {}
      BY DEF ToSet
    <3>. QED
      BY <1>7, <1>9, <3>1, KernelFields DEF Awakened, WellFormed
  <2>2. \A i \in 1..Len(r.pending) : r.pending[i] \in ToSet(r.pending)
    BY <2>1 DEF ToSet
  <2>3. Len(r.pending) = 0
    <3>1. Len(r.pending) \in Nat /\ 1 \notin 1..Len(r.pending)
      BY <2>1, <2>2
    <3>. QED
      BY <3>1
  <2>. QED
    BY <2>1, <2>3
<1>12. ASSUME NoneAbove(k) PROVE NoneAbove(r)
  <2>. SUFFICES ASSUME ~y PROVE NoneAbove(r)
    BY <1>6 DEF NoneAbove
  <2>1. ~k.yieldPending
    BY <1>2 DEF y, TickNeedsSwitch
  <2>2. \A p \in Priorities : p > k.prio[k.cur] => ToSet(k.ready[p].items) = {}
    BY <1>12, <2>1 DEF NoneAbove
  <2>3. \A t \in W : ~(k.prio[t] >= k.prio[k.cur])
    <3>1. /\ ToSet(k.delayed \o k.overflow) = DelayedTasks(k)
          /\ ToSet(a.delayed \o a.overflow) = DelayedTasks(a)
      BY <1>5, KernelFields, ToSetConcat DEF Sound, WellFormed, DelayedTasks
    <3>2. \A t \in DelayedTasks(k) \ DelayedTasks(a) : ~(a.prio[t] >= a.prio[a.cur])
      BY <3>1 DEF y, TickNeedsSwitch
    <3>3. W = DelayedTasks(k) \ DelayedTasks(a) /\ a.prio = k.prio /\ a.cur = k.cur
      BY <1>5 DEF Awakened
    <3>. QED
      BY <3>2, <3>3
  <2>4. /\ r.cur = k.cur /\ r.prio = k.prio
        /\ \A p \in Priorities : ToSet(r.ready[p].items) =
              ToSet(k.ready[p].items) \cup {t \in W : k.prio[t] = p}
    BY <1>9 DEF Awakened
  <2>5. k.prio \in [Tasks -> Priorities] /\ k.cur \in Tasks /\ Priorities \subseteq Int
    BY KernelFields, TaskListsAssumption DEF Sound, WellFormed
  <2>6. \A p \in Priorities : p > k.prio[k.cur] => {t \in W : k.prio[t] = p} = {}
    <3>. SUFFICES ASSUME NEW p \in Priorities, p > k.prio[k.cur], NEW t \in W, k.prio[t] = p
                  PROVE  FALSE
      OBVIOUS
    <3>1. p \in Int /\ k.prio[k.cur] \in Int
      BY <2>5
    <3>2. k.prio[t] >= k.prio[k.cur]
      BY <3>1
    <3>. QED
      BY <2>3, <3>2
  <2>. QED
    BY <2>2, <2>4, <2>6 DEF NoneAbove
<1>. QED
  BY <1>10, <1>11, <1>12 DEF r

LEMMA NoPending ==
    ASSUME NEW s, NEW S, s \in Seq(S), ToSet(s) = {}
    PROVE  s = <<>>
<1>1. \A i \in 1..Len(s) : s[i] \in ToSet(s)
  BY DEF ToSet
<1>2. Len(s) \in Nat /\ 1 \notin 1..Len(s)
  BY <1>1
<1>. QED
  BY <1>2

LEMMA AwakenedBoth ==
    ASSUME NEW k, NEW V, NEW a, Awakened(k, V, a), NEW W, NEW r, Awakened(a, W, r)
    PROVE  Awakened(k, V \cup W, r)
<1>1. a.prio = k.prio
  BY DEF Awakened
<1>2. \A p \in Priorities : ToSet(r.ready[p].items) =
          ToSet(k.ready[p].items) \cup {t \in V \cup W : k.prio[t] = p}
  <2>. TAKE p \in Priorities
  <2>1. /\ ToSet(r.ready[p].items) = ToSet(a.ready[p].items) \cup {t \in W : k.prio[t] = p}
        /\ ToSet(a.ready[p].items) = ToSet(k.ready[p].items) \cup {t \in V : k.prio[t] = p}
    BY <1>1 DEF Awakened
  <2>. QED
    BY <2>1
<1>3. /\ DelayedTasks(r) = DelayedTasks(k) \ (V \cup W)
      /\ ToSet(r.terminating) = ToSet(k.terminating)
      /\ \A e \in EventLists : ToSet(r.events[e]) = ToSet(k.events[e]) \ (V \cup W)
      /\ ToSet(r.pending) = ToSet(k.pending) \ (V \cup W)
      /\ r.prio = k.prio /\ r.base = k.base /\ r.cur = k.cur /\ r.suspended = k.suspended
  BY DEF Awakened
<1>4. OrderKept(k, r)
  BY OrderBoth DEF Awakened
<1>. QED
  BY <1>2, <1>3, <1>4 DEF Awakened

LEMMA AdvancesBoth ==
    ASSUME NEW k, Sound(k), NEW n \in Nat,
           NEW V \in SUBSET DelayedTasks(k), NEW a, Advances(k, V, n, a),
           NEW W \in SUBSET DelayedTasks(a), NEW r, Advances(a, W, 1, r)
    PROVE  Advances(k, V \cup W, n + 1, r) /\ V \cup W \subseteq DelayedTasks(k)
<1>1. Awakened(k, V \cup W, r)
  BY AwakenedBoth DEF Advances
<1>2. DelayedTasks(a) = DelayedTasks(k) \ V /\ DelayedTasks(k) \subseteq Tasks
  BY KernelFields, ToSetIn DEF Advances, Awakened, Sound, WellFormed, DelayedTasks
<1>3. r.tick = (k.tick + (n + 1)) % TickMod
  <2>1. k.tick \in Nat /\ TickMod \in Nat \ {0}
    BY KernelFields DEF Sound, WellFormed
  <2>2. a.tick = (k.tick + n) % TickMod /\ r.tick = (a.tick + 1) % TickMod
    BY DEF Advances
  <2>3. ((k.tick + n) + 1) % TickMod = (((k.tick + n) % TickMod) + 1) % TickMod
    <3>. DEFINE b == k.tick + n
    <3>1. b \in Nat
      BY <2>1
    <3>. HIDE DEF b
    <3>2. (b + 1) % TickMod = ((b % TickMod) + 1) % TickMod
      BY <2>1, <3>1, ModNext
    <3>. QED
      BY <3>2 DEF b
  <2>4. (k.tick + n) + 1 = k.tick + (n + 1)
    BY <2>1
  <2>. QED
    BY <2>2, <2>3, <2>4
<1>4. ASSUME NEW l \in [Tasks -> Nat], Clocked(k, l)
      PROVE  /\ Clocked(r, CountedDown(l, n + 1))
             /\ \A t \in V \cup W : CountedDown(l, n + 1)[t] = 0
  <2>. DEFINE m == CountedDown(l, n)
  <2>1. m \in [Tasks -> Nat]
    BY DEF CountedDown
  <2>2. CountedDown(m, 1) = CountedDown(l, n + 1)
    <3>1. \A t \in Tasks : (IF m[t] > 1 THEN m[t] - 1 ELSE 0)
                              = (IF l[t] > n + 1 THEN l[t] - (n + 1) ELSE 0)
      <4>. TAKE t \in Tasks
      <4>1. l[t] \in Nat /\ m[t] = IF l[t] > n THEN l[t] - n ELSE 0
        BY DEF CountedDown
      <4>. QED
        BY <4>1
    <3>. QED
      BY <3>1 DEF CountedDown
  <2>3. Clocked(a, m) /\ \A t \in V : m[t] = 0
    BY <1>4 DEF Advances
  <2>. HIDE DEF m
  <2>4. Clocked(r, CountedDown(m, 1)) /\ \A t \in W : CountedDown(m, 1)[t] = 0
    BY <2>1, <2>3 DEF Advances
  <2>5. \A t \in V : CountedDown(m, 1)[t] = 0
    BY <1>2, <2>3 DEF CountedDown
  <2>. QED
    BY <2>2, <2>4, <2>5
<1>5. SinceKept(k, n + 1, r)
  <2>. SUFFICES ASSUME NEW to, NEW d, Since(k, to, d), d + (n + 1) < TickMod
                PROVE  Since(r, to, d + (n + 1))
    BY DEF SinceKept
  <2>1. TickMod \in Nat /\ d \in Nat
    BY KernelFields DEF Sound, WellFormed, Since
  <2>2. d + n < TickMod /\ (d + n) + 1 < TickMod /\ (d + n) + 1 = d + (n + 1)
    BY <2>1
  <2>3. Since(a, to, d + n)
    BY <2>2 DEF Advances, SinceKept
  <2>4. Since(r, to, (d + n) + 1)
    BY <2>2, <2>3 DEF Advances, SinceKept
  <2>. QED
    BY <2>2, <2>4
<1>. QED
  BY <1>1, <1>2, <1>3, <1>4, <1>5 DEF Advances

\* xTaskResumeAll, first part: every task of the pending list is made ready, wherever
\* else it is.
DrainedYield(k) ==
    k.yieldPending \/ \E t \in ToSet(k.pending) : k.prio[t] >= k.prio[k.cur]

LEMMA DrainedIs ==
    ASSUME NEW k, WellFormed(k)
    PROVE  \E a : /\ MadeReady(k, ToSet(k.pending), a) /\ a.nextUnblock = k.nextUnblock
                  /\ DrainPending(k) =
                        IF k.pending = <<>> THEN k
                        ELSE ResetNextUnblock([a EXCEPT !.yieldPending = DrainedYield(k)])
<1>. DEFINE P == k.pending
            n == Len(P)
            K == {r \in KState : WellFormed(r)}
            Make(i, r) == IF i \in 1..n THEN MakeReady(r, P[i]) ELSE r
            step == [i \in Nat |-> [r \in K |-> Make(i, r)]]
<1>1. k \in KState /\ WellFormed(k) /\ P \in Seq(Tasks) /\ n \in Nat /\ k \in K
      /\ \A i \in 1..n : P[i] \in Tasks /\ P[i] \in ToSet(P)
  <2>1. k \in KState /\ WellFormed(k) /\ P \in Seq(Tasks)
    BY KernelFields DEF WellFormed
  <2>. QED
    BY <2>1 DEF ToSet
<1>2. step \in [Nat -> [K -> K]]
  <2>1. \A i \in Nat : \A r \in K : Make(i, r) \in K
    <3>. TAKE i \in Nat
    <3>. TAKE r \in K
    <3>1. CASE i \in 1..n
      <4>1. MadeReady(r, {P[i]}, MakeReady(r, P[i]))
        BY <1>1, <3>1, MakeReadyIs
      <4>. QED
        BY <3>1, <4>1 DEF MadeReady, WellFormed
    <3>2. CASE i \notin 1..n
      BY <3>2
    <3>. QED
      BY <3>1, <3>2
  <2>. HIDE DEF Make, K
  <2>. QED
    BY <2>1
<1>3. \E f \in [0..n -> K] : Iterated(f, k, step, n)
  <2>. HIDE DEF n, K, step
  <2>. QED
    BY <1>1, <1>2, Iterates
<1>4. PICK f \in [0..n -> K] :
         \A i \in 0..n : f[i] = IF i = 0 THEN k ELSE MakeReady(f[i - 1], P[i])
  <2>1. PICK f \in [0..n -> K] : \A i \in 0..n : f[i] = IF i = 0 THEN k ELSE step[i][f[i - 1]]
    BY <1>3 DEF Iterated
  <2>2. \A i \in 0..n : i # 0 => f[i - 1] \in K /\ i \in Nat /\ i \in 1..n
    BY <1>1, <2>1
  <2>3. \A i \in 0..n : f[i] = IF i = 0 THEN k ELSE MakeReady(f[i - 1], P[i])
    BY <2>1, <2>2
  <2>. QED
    BY <2>1, <2>3
<1>5. f = [i \in 0..n |-> IF i = 0 THEN k ELSE MakeReady(f[i - 1], P[i])]
  <2>. DEFINE g == [i \in 0..n |-> IF i = 0 THEN k ELSE MakeReady(f[i - 1], P[i])]
  <2>1. \A i \in 0..n : f[i] = g[i]
    BY <1>4
  <2>. QED
    BY <1>4, <2>1, Zenon
<1>. DEFINE ready[i \in 0..n] == IF i = 0 THEN k ELSE MakeReady(ready[i - 1], P[i])
<1>6. ready = [i \in 0..n |-> IF i = 0 THEN k ELSE MakeReady(ready[i - 1], P[i])]
  BY <1>5, Zenon
<1>. DEFINE a == ready[n]
            y == a.yieldPending \/ \E t \in ToSet(P) : k.prio[t] >= k.prio[k.cur]
<1>7. DrainPending(k) = IF P = <<>> THEN k
                        ELSE ResetNextUnblock([a EXCEPT !.yieldPending = y])
  BY DEF DrainPending
<1>. DEFINE Firsts(i) == {P[j] : j \in 1..i}
            T == {i \in Nat : i <= n => MadeReady(k, Firsts(i), ready[i])
                                        /\ ready[i].nextUnblock = k.nextUnblock}
<1>11. \A i \in 0..n : ready[i] = IF i = 0 THEN k ELSE MakeReady(ready[i - 1], P[i])
  <2>. HIDE DEF ready
  <2>. QED
    BY <1>6
<1>. HIDE DEF ready
<1>12. 0 \in T
  <2>1. ready[0] = k /\ Firsts(0) = {}
    BY <1>1, <1>11
  <2>. QED
    BY <1>1, <2>1, MadeReadyNone
<1>13. ASSUME NEW i \in T PROVE i + 1 \in T
  <2>. SUFFICES ASSUME i + 1 <= n
                PROVE  /\ MadeReady(k, Firsts(i + 1), ready[i + 1])
                       /\ ready[i + 1].nextUnblock = k.nextUnblock
    OBVIOUS
  <2>. DEFINE c == ready[i]
  <2>1. /\ i \in Nat /\ i <= n /\ i + 1 \in 1..n /\ ready[i + 1] = MakeReady(c, P[i + 1])
        /\ MadeReady(k, Firsts(i), c) /\ c.nextUnblock = k.nextUnblock
    <3>1. i \in Nat /\ i <= n /\ i + 1 \in 1..n /\ i + 1 \in 0..n /\ i + 1 # 0 /\ (i + 1) - 1 = i
      <4>1. i \in Nat
        BY <1>13
      <4>. QED
        BY <1>1, <4>1
    <3>2. ready[i + 1] = MakeReady(ready[(i + 1) - 1], P[i + 1])
      BY <1>11, <3>1
    <3>3. MadeReady(k, Firsts(i), c) /\ c.nextUnblock = k.nextUnblock
      BY <1>13, <3>1
    <3>. QED
      BY <3>1, <3>2, <3>3
  <2>. HIDE DEF c
  <2>2. P[i + 1] \in Tasks
    BY <1>1, <2>1
  <2>3. /\ MadeReady(c, {P[i + 1]}, MakeReady(c, P[i + 1]))
        /\ MakeReady(c, P[i + 1]).nextUnblock = c.nextUnblock
    BY <2>1, <2>2, MakeReadyIs DEF MadeReady
  <2>4. Firsts(i + 1) = Firsts(i) \cup {P[i + 1]}
    <3>1. \A j \in 1..(i + 1) : j \in 1..i \/ j = i + 1
      BY <2>1
    <3>. QED
      BY <2>1, <3>1
  <2>. HIDE DEF Firsts
  <2>5. MadeReady(k, Firsts(i) \cup {P[i + 1]}, MakeReady(c, P[i + 1]))
    BY <2>1, <2>3, MadeReadyBoth
  <2>. QED
    BY <2>1, <2>3, <2>4, <2>5
<1>14. T = Nat
  <2>. HIDE DEF T
  <2>1. T \subseteq Nat
    BY DEF T
  <2>. QED
    BY <1>12, <1>13, <2>1, Induction
<1>15. Firsts(n) = ToSet(P)
  BY <1>1 DEF ToSet
<1>16. MadeReady(k, ToSet(P), a) /\ a.nextUnblock = k.nextUnblock
  <2>1. n \in T /\ n <= n
    <3>. HIDE DEF T
    <3>. QED
      BY <1>1, <1>14
  <2>. HIDE DEF Firsts
  <2>. QED
    BY <1>15, <2>1
<1>. HIDE DEF a
<1>17. y = DrainedYield(k)
  BY <1>16 DEF MadeReady, SameRest, DrainedYield
<1>. QED
  BY <1>7, <1>16, <1>17

LEMMA DrainPendingIs ==
    ASSUME NEW k, Sound(k)
    PROVE  /\ Sound(DrainPending(k)) /\ Awakened(k, ToSet(k.pending), DrainPending(k))
           /\ DrainPending(k).pending = <<>> /\ DrainPending(k).tick = k.tick
           /\ DrainPending(k).pendedTicks = k.pendedTicks
           /\ DrainPending(k).overflows = k.overflows
           /\ NoneAbove(k) => NoneAbove(DrainPending(k))
           /\ \A l : Clocked(k, l) => Clocked(DrainPending(k), l)
<1>. DEFINE P == k.pending  y == DrainedYield(k)
<1>1. k \in KState /\ WellFormed(k) /\ P \in Seq(Tasks)
  BY KernelFields DEF Sound, WellFormed
<1>2. PICK a : /\ MadeReady(k, ToSet(P), a) /\ a.nextUnblock = k.nextUnblock
               /\ DrainPending(k) = IF P = <<>> THEN k
                                    ELSE ResetNextUnblock([a EXCEPT !.yieldPending = y])
  BY <1>1, DrainedIs
<1>. DEFINE b == [a EXCEPT !.yieldPending = y]
            r == ResetNextUnblock(b)
<1>4. MadeReady(k, ToSet(P), a) /\ a.nextUnblock = k.nextUnblock
  BY <1>2
<1>7. DrainPending(k) = IF P = <<>> THEN k ELSE r
  BY <1>2
<1>8. CASE P = <<>>
  <2>1. ToSet(P) = {}
    BY <1>8 DEF ToSet
  <2>2. Awakened(k, {}, k)
    BY OrderSame DEF Awakened
  <2>. QED
    BY <1>7, <1>8, <2>1, <2>2
<1>9. CASE P # <<>>
  <2>7. ToSet(P) \in SUBSET DelayedTasks(k)
    BY DEF Sound, Separate
  <2>8. Sound(a) /\ Awakened(k, ToSet(P), a) /\ \A l : Clocked(k, l) => Clocked(a, l)
    BY <1>4, <2>7, MadeReadySound
  <2>9. /\ a.tick = k.tick /\ a.pendedTicks = k.pendedTicks /\ a.yieldPending = k.yieldPending
        /\ a.overflows = k.overflows
    BY <1>4 DEF MadeReady, SameRest
  <2>10. y \in BOOLEAN
    BY <1>1 DEF KState, DrainedYield
  <2>. HIDE DEF y
  <2>11. /\ Sound(b) /\ SameSets(a, b) /\ b.cur = a.cur /\ b.suspended = a.suspended
         /\ b.pendedTicks = a.pendedTicks /\ b.yieldPending = y
    BY <2>8, <2>10, YieldFlag
  <2>. HIDE DEF b
  <2>12. DelayedTasks(b) = DelayedTasks(a) /\ \A l : Clocked(a, l) => Clocked(b, l)
    <3>1. WellFormed(b)
      BY <2>11 DEF Sound
    <3>. QED
      BY <2>8, <2>11, <3>1, SameSetsSound
  <2>13. Awakened(k, ToSet(P), b)
    <3>1. OrderKept(k, b)
      BY <2>8, <2>11, OrderSame, OrderBoth DEF Awakened, SameSets
    <3>. QED
      BY <2>8, <2>11, <2>12, <3>1 DEF Awakened, SameSets
  <2>14. MadeReady(b, {}, r) /\ UnblocksInTime(r)
    BY <2>11, ResetNextUnblockIs DEF Sound, Timely
  <2>. HIDE DEF r
  <2>15. Sound(r) /\ Awakened(b, {}, r) /\ \A l : Clocked(b, l) => Clocked(r, l)
    <3>1. {} \in SUBSET DelayedTasks(b)
      OBVIOUS
    <3>. QED
      BY <2>11, <2>14, <3>1, MadeReadySound
  <2>16. Awakened(k, ToSet(P), r)
    <3>1. Awakened(k, ToSet(P) \cup {}, r)
      BY <2>13, <2>15, AwakenedBoth
    <3>2. ToSet(P) \cup {} = ToSet(P)
      OBVIOUS
    <3>. QED
      BY <3>1, <3>2
  <2>17. /\ r.tick = k.tick /\ r.pendedTicks = k.pendedTicks /\ r.yieldPending = y
         /\ r.overflows = k.overflows
    BY <2>9, <2>11, <2>14 DEF MadeReady, SameRest, SameSets
  <2>18. r.pending = <<>>
    <3>1. ToSet(r.pending) = {}
      BY <2>16 DEF Awakened
    <3>2. r.pending \in Seq(Tasks)
      BY <2>15, KernelFields DEF Sound, WellFormed
    <3>. QED
      BY <3>1, <3>2, NoPending
  <2>19. ASSUME NoneAbove(k) PROVE NoneAbove(r)
    <3>. SUFFICES ASSUME ~y PROVE NoneAbove(r)
      BY <2>17 DEF NoneAbove
    <3>1. ~k.yieldPending /\ \A t \in ToSet(P) : ~(k.prio[t] >= k.prio[k.cur])
      BY DEF y, DrainedYield
    <3>2. \A p \in Priorities : p > k.prio[k.cur] => ToSet(k.ready[p].items) = {}
      BY <2>19, <3>1 DEF NoneAbove
    <3>3. /\ r.cur = k.cur /\ r.prio = k.prio
          /\ \A p \in Priorities : ToSet(r.ready[p].items) =
                ToSet(k.ready[p].items) \cup {t \in ToSet(P) : k.prio[t] = p}
      BY <2>16 DEF Awakened
    <3>4. \A p \in Priorities : p > k.prio[k.cur] => {t \in ToSet(P) : k.prio[t] = p} = {}
      <4>. SUFFICES ASSUME NEW p \in Priorities, p > k.prio[k.cur],
                           NEW t \in ToSet(P), k.prio[t] = p
                    PROVE  FALSE
        OBVIOUS
      <4>1. p \in Int /\ k.prio[k.cur] \in Int
        BY <1>1, KernelFields, TaskListsAssumption
      <4>2. k.prio[t] >= k.prio[k.cur]
        BY <4>1
      <4>. QED
        BY <3>1, <4>2
    <3>. QED
      BY <3>2, <3>3, <3>4 DEF NoneAbove
  <2>. QED
    BY <1>7, <1>9, <2>8, <2>12, <2>15, <2>16, <2>17, <2>18, <2>19
<1>. QED
  BY <1>8, <1>9

\* xTaskResumeAll, second part: the pended ticks are processed, one by one.
LEMMA ProcessPendedIs ==
    ASSUME NEW k, Sound(k), k.pending = <<>>
    PROVE  \E W \in SUBSET DelayedTasks(k) :
              /\ Sound(ProcessPended(k)) /\ Awakened(k, W, ProcessPended(k))
              /\ ProcessPended(k).pendedTicks = 0 /\ ProcessPended(k).pending = <<>>
              /\ ProcessPended(k).tick = (k.tick + k.pendedTicks) % TickMod
              /\ SinceKept(k, k.pendedTicks, ProcessPended(k))
              /\ NoneAbove(k) => NoneAbove(ProcessPended(k))
              /\ \A l \in [Tasks -> Nat] : Clocked(k, l) =>
                    /\ Clocked(ProcessPended(k), CountedDown(l, k.pendedTicks))
                    /\ \A t \in W : CountedDown(l, k.pendedTicks)[t] = 0
<1>. DEFINE n == k.pendedTicks
            K == {r \in KState : Sound(r) /\ r.pending = <<>>}
            step == [i \in Nat |-> [r \in K |-> TickAndYield(r)]]
<1>1. k \in KState /\ n \in Nat /\ k \in K
  <2>1. k \in KState
    BY DEF Sound, WellFormed
  <2>. QED
    BY <2>1, KernelFields
<1>2. step \in [Nat -> [K -> K]]
  <2>1. \A r \in K : TickAndYield(r) \in K
    <3>. TAKE r \in K
    <3>1. PICK W \in SUBSET DelayedTasks(r) : Advances(r, W, 1, TickAndYield(r))
      BY TickAndYieldIs
    <3>2. TickAndYield(r).pending = <<>>
      BY TickAndYieldIs
    <3>. QED
      BY <3>1, <3>2 DEF Advances, Sound, WellFormed
  <2>. HIDE DEF K
  <2>. QED
    BY <2>1
<1>3. \E f \in [0..n -> K] : Iterated(f, k, step, n)
  <2>. HIDE DEF n, K, step
  <2>. QED
    BY <1>1, <1>2, Iterates
<1>4. PICK f \in [0..n -> K] : \A i \in 0..n : f[i] = IF i = 0 THEN k ELSE TickAndYield(f[i - 1])
  <2>1. PICK f \in [0..n -> K] : \A i \in 0..n : f[i] = IF i = 0 THEN k ELSE step[i][f[i - 1]]
    BY <1>3 DEF Iterated
  <2>2. \A i \in 0..n : i # 0 => f[i - 1] \in K /\ i \in Nat
    BY <1>1, <2>1
  <2>3. \A i \in 0..n : f[i] = IF i = 0 THEN k ELSE TickAndYield(f[i - 1])
    BY <2>1, <2>2
  <2>. QED
    BY <2>1, <2>3
<1>5. f = [i \in 0..n |-> IF i = 0 THEN k ELSE TickAndYield(f[i - 1])]
  <2>. DEFINE g == [i \in 0..n |-> IF i = 0 THEN k ELSE TickAndYield(f[i - 1])]
  <2>1. \A i \in 0..n : f[i] = g[i]
    BY <1>4
  <2>. QED
    BY <1>4, <2>1, Zenon
<1>. DEFINE after[i \in 0..n] == IF i = 0 THEN k ELSE TickAndYield(after[i - 1])
<1>6. after = [i \in 0..n |-> IF i = 0 THEN k ELSE TickAndYield(after[i - 1])]
  BY <1>5, Zenon
<1>. DEFINE r == [after[n] EXCEPT !.pendedTicks = 0]
<1>7. ProcessPended(k) = r
  BY DEF ProcessPended
<1>. DEFINE Upto(i, a) == /\ \E W \in SUBSET DelayedTasks(k) : Advances(k, W, i, a)
                          /\ NoneAbove(k) => NoneAbove(a)
                          /\ a.pending = <<>>
            T == {i \in Nat : i <= n => Upto(i, after[i])}
<1>8. \A i \in 0..n : after[i] = IF i = 0 THEN k ELSE TickAndYield(after[i - 1])
  <2>. HIDE DEF after
  <2>. QED
    BY <1>6
<1>. HIDE DEF after
<1>9. 0 \in T
  <2>1. after[0] = k
    BY <1>1, <1>8
  <2>2. Advances(k, {}, 0, k)
    <3>1. Awakened(k, {}, k)
      BY OrderSame DEF Awakened
    <3>2. k.tick = (k.tick + 0) % TickMod
      <4>1. k.tick \in 0..(TickMod - 1) /\ TickMod \in Nat \ {0}
        BY <1>1, KernelFields
      <4>2. k.tick + 0 = k.tick /\ k.tick % TickMod = k.tick
        BY <4>1
      <4>. QED
        BY <4>2
    <3>3. ASSUME NEW l \in [Tasks -> Nat] PROVE CountedDown(l, 0) = l
      <4>1. \A t \in Tasks : l[t] = IF l[t] > 0 THEN l[t] - 0 ELSE 0
        OBVIOUS
      <4>. QED
        BY <4>1 DEF CountedDown
    <3>4. SinceKept(k, 0, k)
      <4>1. \A to, d : Since(k, to, d) => d + 0 = d
        BY KernelFields DEF Sound, WellFormed, Since
      <4>. QED
        BY <4>1 DEF SinceKept
    <3>. QED
      BY <3>1, <3>2, <3>3, <3>4 DEF Advances
  <2>3. Upto(0, k)
    BY <2>2
  <2>. HIDE DEF Upto
  <2>. QED
    BY <2>1, <2>3
<1>10. ASSUME NEW i \in T PROVE i + 1 \in T
  <2>. SUFFICES ASSUME i + 1 <= n PROVE Upto(i + 1, after[i + 1])
    OBVIOUS
  <2>. DEFINE a == after[i]
  <2>1. i \in Nat /\ i <= n /\ after[i + 1] = TickAndYield(a)
    <3>1. i \in Nat
      BY <1>10
    <3>2. i <= n /\ i + 1 \in 0..n /\ i + 1 # 0 /\ (i + 1) - 1 = i
      BY <1>1, <3>1
    <3>. QED
      BY <1>8, <3>1, <3>2
  <2>2. Upto(i, a)
    BY <1>10, <2>1
  <2>3. PICK V \in SUBSET DelayedTasks(k) : Advances(k, V, i, a)
    BY <2>2
  <2>. HIDE DEF a
  <2>4. Sound(a) /\ a.pending = <<>>
    BY <2>2, <2>3 DEF Advances
  <2>5. PICK W \in SUBSET DelayedTasks(a) : Advances(a, W, 1, TickAndYield(a))
    BY <2>4, TickAndYieldIs
  <2>6. (NoneAbove(a) => NoneAbove(TickAndYield(a))) /\ TickAndYield(a).pending = <<>>
    BY <2>4, TickAndYieldIs
  <2>7. Advances(k, V \cup W, i + 1, TickAndYield(a)) /\ V \cup W \in SUBSET DelayedTasks(k)
    BY <2>1, <2>3, <2>5, AdvancesBoth
  <2>. QED
    BY <2>1, <2>2, <2>6, <2>7
<1>11. T = Nat
  <2>. HIDE DEF T
  <2>1. T \subseteq Nat
    BY DEF T
  <2>. QED
    BY <1>9, <1>10, <2>1, Induction
<1>. DEFINE a == after[n]
<1>12. Upto(n, a)
  <2>1. n \in T
    <3>. HIDE DEF T
    <3>. QED
      BY <1>1, <1>11
  <2>. QED
    BY <1>1, <2>1
<1>13. PICK W \in SUBSET DelayedTasks(k) : Advances(k, W, n, a)
  BY <1>12
<1>14. (NoneAbove(k) => NoneAbove(a)) /\ a.pending = <<>>
  BY <1>12
<1>. HIDE DEF a
<1>15. Sound(a) /\ a \in KState
  BY <1>13 DEF Advances, Sound, WellFormed
<1>16. r = [a EXCEPT !.pendedTicks = 0] /\ r \in KState
  BY <1>15 DEF KState, a
<1>. HIDE DEF r
<1>17. /\ r.ready = a.ready /\ SameSets(a, r) /\ r.cur = a.cur /\ r.suspended = a.suspended
       /\ r.pendedTicks = 0 /\ r.yieldPending = a.yieldPending
  BY <1>15, <1>16 DEF KState, SameSets
<1>18. WellFormed(r)
  BY <1>15, <1>16, <1>17 DEF Sound, WellFormed, SameSets
<1>19. Sound(r) /\ DelayedTasks(r) = DelayedTasks(a) /\ \A l : Clocked(a, l) => Clocked(r, l)
  BY <1>15, <1>17, <1>18, SameSetsSound
<1>20. Awakened(k, W, r)
  <2>1. Awakened(k, W, a)
    BY <1>13 DEF Advances
  <2>2. OrderKept(k, r)
    BY <1>17, <2>1, OrderSame, OrderBoth DEF Awakened, SameSets
  <2>. QED
    BY <1>17, <1>19, <2>1, <2>2 DEF Awakened, SameSets
<1>21. NoneAbove(k) => NoneAbove(r)
  BY <1>14, <1>17 DEF NoneAbove, SameSets
<1>22. r.tick = (k.tick + n) % TickMod /\ r.pending = <<>>
  BY <1>13, <1>14, <1>17 DEF Advances, SameSets
<1>23. \A l \in [Tasks -> Nat] : Clocked(k, l) =>
          Clocked(r, CountedDown(l, n)) /\ \A t \in W : CountedDown(l, n)[t] = 0
  BY <1>13, <1>19 DEF Advances
<1>24. SinceKept(k, n, r)
  BY <1>13, <1>17 DEF Advances, SinceKept, Since, SameSets
<1>. QED
  BY <1>7, <1>17, <1>19, <1>20, <1>21, <1>22, <1>23, <1>24

\* What xTaskResumeAll leaves: the tasks of W are ready, and but for those that were
\* pending their time has come.
Resumes(k, W, r) ==
    /\ Sound(r) /\ W \subseteq DelayedTasks(k)
    /\ \A p \in Priorities : ToSet(r.ready[p].items) =
          ToSet(k.ready[p].items) \cup {t \in W : k.prio[t] = p}
    /\ DelayedTasks(r) = DelayedTasks(k) \ W
    /\ r.prio = k.prio /\ r.base = k.base /\ r.cur = k.cur
    /\ r.suspended = 0 /\ r.pendedTicks = 0 /\ r.pending = <<>>
    /\ r.tick = (k.tick + k.pendedTicks) % TickMod /\ SinceKept(k, k.pendedTicks, r)
    /\ \A e \in EventLists : ToSet(r.events[e]) = ToSet(k.events[e]) \ W
    /\ OrderKept(k, r) /\ ToSet(r.terminating) = ToSet(k.terminating)
    /\ NoneAbove(k) => NoneAbove(r)
    /\ \A l \in [Tasks -> Nat] : Clocked(k, l) =>
          /\ Clocked(r, CountedDown(l, k.pendedTicks))
          /\ \A t \in W \ ToSet(k.pending) : CountedDown(l, k.pendedTicks)[t] = 0

LEMMA ResumedIs ==
    ASSUME NEW k, Sound(k)
    PROVE  \E W : Resumes(k, W, Resumed(k))
<1>. DEFINE b == [k EXCEPT !.suspended = 0]  d == DrainPending(b)  r == ProcessPended(d)
<1>1. k \in KState
  BY DEF Sound, WellFormed
<1>2. b \in KState /\ b.ready = k.ready /\ SameSets(k, b) /\ b.cur = k.cur /\ b.suspended = 0
      /\ b.pendedTicks = k.pendedTicks /\ b.yieldPending = k.yieldPending
  BY <1>1 DEF KState, SameSets
<1>3. Resumed(k) = r
  BY DEF Resumed
<1>. HIDE DEF b
<1>4. WellFormed(b)
  BY <1>2 DEF Sound, WellFormed, SameSets
<1>5. Sound(b) /\ DelayedTasks(b) = DelayedTasks(k) /\ \A l : Clocked(k, l) => Clocked(b, l)
  BY <1>2, <1>4, SameSetsSound
<1>6. /\ Sound(d) /\ Awakened(b, ToSet(b.pending), d)
      /\ d.pending = <<>> /\ d.tick = b.tick /\ d.pendedTicks = b.pendedTicks
      /\ d.overflows = b.overflows
      /\ NoneAbove(b) => NoneAbove(d)
      /\ \A l : Clocked(b, l) => Clocked(d, l)
  BY <1>5, DrainPendingIs
<1>. HIDE DEF d
<1>7. PICK W \in SUBSET DelayedTasks(d) :
              /\ Sound(r) /\ Awakened(d, W, r) /\ r.pendedTicks = 0 /\ r.pending = <<>>
              /\ r.tick = (d.tick + d.pendedTicks) % TickMod /\ SinceKept(d, d.pendedTicks, r)
              /\ NoneAbove(d) => NoneAbove(r)
              /\ \A l \in [Tasks -> Nat] : Clocked(d, l) =>
                    /\ Clocked(r, CountedDown(l, d.pendedTicks))
                    /\ \A t \in W : CountedDown(l, d.pendedTicks)[t] = 0
  BY <1>6, ProcessPendedIs
<1>. HIDE DEF r
<1>. DEFINE V == ToSet(b.pending)  U == V \cup W
<1>8. Awakened(b, U, r)
  BY <1>6, <1>7, AwakenedBoth
<1>9. U \subseteq DelayedTasks(k)
  <2>1. V \subseteq DelayedTasks(b)
    BY <1>5 DEF Sound, Separate
  <2>2. DelayedTasks(d) = DelayedTasks(b) \ V
    BY <1>6 DEF Awakened
  <2>. QED
    BY <1>5, <1>7, <2>1, <2>2
<1>10. V = ToSet(k.pending)
  BY <1>2 DEF SameSets
<1>11. /\ \A p \in Priorities : ToSet(r.ready[p].items) =
             ToSet(k.ready[p].items) \cup {t \in U : k.prio[t] = p}
       /\ DelayedTasks(r) = DelayedTasks(k) \ U
       /\ r.prio = k.prio /\ r.base = k.base /\ r.cur = k.cur /\ r.suspended = 0
  BY <1>2, <1>5, <1>8 DEF Awakened, SameSets
<1>12. r.tick = (k.tick + k.pendedTicks) % TickMod
  BY <1>2, <1>6, <1>7 DEF SameSets
<1>13. NoneAbove(k) => NoneAbove(r)
  BY <1>2, <1>6, <1>7 DEF NoneAbove, SameSets
<1>14. ASSUME NEW l \in [Tasks -> Nat], Clocked(k, l)
       PROVE  /\ Clocked(r, CountedDown(l, k.pendedTicks))
              /\ \A t \in U \ ToSet(k.pending) : CountedDown(l, k.pendedTicks)[t] = 0
  <2>1. Clocked(d, l) /\ d.pendedTicks = k.pendedTicks
    BY <1>2, <1>5, <1>6, <1>14
  <2>. QED
    BY <1>7, <1>10, <2>1
<1>15. SinceKept(k, k.pendedTicks, r)
  BY <1>2, <1>6, <1>7 DEF SinceKept, Since, SameSets
<1>16. /\ \A e \in EventLists : ToSet(r.events[e]) = ToSet(k.events[e]) \ U
       /\ ToSet(r.terminating) = ToSet(k.terminating)
  BY <1>2, <1>8 DEF Awakened, SameSets
<1>17. OrderKept(k, r)
  <2>1. OrderKept(k, b)
    BY <1>2, OrderSame DEF SameSets
  <2>. QED
    BY <1>8, <2>1, OrderBoth DEF Awakened
<1>. HIDE DEF U
<1>18. Resumes(k, U, r)
  BY <1>7, <1>9, <1>11, <1>12, <1>13, <1>14, <1>15, <1>16, <1>17 DEF Resumes
<1>. QED
  BY <1>3, <1>18

-----------------------------------------------------------------------------
(* The state the scheduler starts in *)

\* The tasks of S are ready, and one that none is above is the one to run.
Started(S, prio, r) ==
    /\ WellFormed(r)
    /\ \A p \in Priorities : ToSet(r.ready[p].items) = {t \in S : prio[t] = p}
    /\ r.delayed = <<>> /\ r.overflow = <<>> /\ r.terminating = <<>> /\ r.pending = <<>>
    /\ \A e \in EventLists : r.events[e] = <<>>
    /\ r.prio = prio /\ r.base = prio /\ r.evValue = ItemValue(prio)
    /\ r.tick = 0 /\ r.suspended = 0 /\ r.pendedTicks = 0
    /\ r.cur \in S \/ S = {}
    /\ \A t \in S : prio[t] <= prio[r.cur]

LEMMA NoneCreatedIs ==
    ASSUME NEW first \in Tasks, NEW prio \in [Tasks -> Priorities]
    PROVE  Started({}, prio, NoneCreated(first, prio))
<1>. DEFINE r == NoneCreated(first, prio)
<1>1. /\ ItemValue(prio) \in [Tasks -> Int] /\ 0 \in Ticks /\ MAX_DELAY \in Ticks /\ 0 \in Nat
      /\ <<>> \in Seq(Tasks)
  BY TaskListsAssumption DEF ItemValue, Ticks, MAX_DELAY
<1>2. EmptyList \in [items : Seq(Tasks), index : Nat] /\ EmptyList.items = <<>> /\ ListOK(EmptyList)
  BY <1>1 DEF EmptyList, ListOK, IsInjective
<1>. HIDE DEF EmptyList
<1>3. r \in KState
  BY <1>1, <1>2 DEF NoneCreated, KState
<1>4. /\ r.ready = [p \in Priorities |-> EmptyList] /\ r.events = [e \in EventLists |-> <<>>]
      /\ r.delayed = <<>> /\ r.overflow = <<>> /\ r.terminating = <<>> /\ r.pending = <<>>
      /\ r.prio = prio /\ r.base = prio /\ r.tick = 0 /\ r.suspended = 0 /\ r.pendedTicks = 0
      /\ r.evValue = ItemValue(prio)
  BY DEF NoneCreated
<1>. HIDE DEF r
<1>5. IsInjective(<<>>) /\ ToSet(<<>>) = {}
  BY DEF IsInjective, ToSet
<1>6. WellFormed(r)
  BY <1>2, <1>3, <1>4, <1>5 DEF WellFormed
<1>7. \A p \in Priorities : ToSet(r.ready[p].items) = {}
  BY <1>2, <1>4, <1>5
<1>. QED
  BY <1>4, <1>6, <1>7 DEF Started, r

LEMMA CreateBeforeIs ==
    ASSUME NEW prio \in [Tasks -> Priorities], NEW S \in SUBSET Tasks, NEW k, Started(S, prio, k),
           NEW t \in Tasks \ S, k.cur \in S \cup {t}
    PROVE  Started(S \cup {t}, prio, CreateBefore(k, t))
<1>. DEFINE a == AddToReady(k, t)
            c == IF k.prio[k.cur] <= k.prio[t] THEN t ELSE k.cur
            r == CreateBefore(k, t)
<1>1. /\ k \in KState /\ WellFormed(k) /\ k.cur \in Tasks /\ k.prio = prio
      /\ Priorities \subseteq Int /\ t \notin ToSet(k.ready[k.prio[t]].items)
  <2>1. WellFormed(k) /\ k \in KState /\ k.prio = prio
    BY DEF Started, WellFormed
  <2>2. t \notin ToSet(k.ready[prio[t]].items)
    BY DEF Started
  <2>. QED
    BY <2>1, <2>2, KernelFields, TaskListsAssumption
<1>2. ReadyAdded(k, t, a)
  BY <1>1, AddToReadyIs
<1>. HIDE DEF a
<1>3. a \in KState /\ a.cur = k.cur /\ a.prio = prio
  BY <1>1, <1>2 DEF ReadyAdded, WellFormed, SameRest
<1>4. r = [a EXCEPT !.cur = c]
  BY <1>3 DEF CreateBefore, a
<1>5. c \in Tasks
  BY <1>1
<1>6. r.cur = c
  BY <1>3, <1>4 DEF KState
<1>. HIDE DEF r
<1>7. /\ r \in KState /\ r.ready = a.ready /\ r.delayed = a.delayed /\ r.overflow = a.overflow
      /\ r.terminating = a.terminating /\ r.pending = a.pending /\ r.events = a.events
      /\ r.prio = a.prio /\ r.base = a.base /\ r.tick = a.tick
      /\ r.suspended = a.suspended /\ r.pendedTicks = a.pendedTicks /\ r.evValue = a.evValue
  BY <1>3, <1>4, <1>5 DEF KState
<1>8. WellFormed(r)
  BY <1>2, <1>7 DEF ReadyAdded, WellFormed
<1>9. \A p \in Priorities : ToSet(r.ready[p].items) = {u \in S \cup {t} : prio[u] = p}
  <2>. TAKE p \in Priorities
  <2>1. ToSet(r.ready[p].items) = IF p = prio[t] THEN ToSet(k.ready[p].items) \cup {t}
                                                ELSE ToSet(k.ready[p].items)
    BY <1>1, <1>2, <1>7 DEF ReadyAdded
  <2>2. ToSet(k.ready[p].items) = {u \in S : prio[u] = p}
    BY DEF Started
  <2>. QED
    BY <2>1, <2>2
<1>10. r.cur \in S \cup {t} /\ \A u \in S \cup {t} : prio[u] <= prio[r.cur]
  <2>1. /\ k.cur \in S \/ S = {}
        /\ \A u \in S : prio[u] <= prio[k.cur]
    BY DEF Started
  <2>2. \A u \in Tasks : prio[u] \in Int
    BY <1>1
  <2>3. CASE prio[k.cur] <= prio[t]
    <3>1. c = t
      BY <1>1, <2>3
    <3>2. \A u \in S : prio[u] <= prio[t]
      BY <1>1, <2>1, <2>2, <2>3
    <3>. QED
      BY <1>6, <2>2, <3>1, <3>2
  <2>4. CASE ~(prio[k.cur] <= prio[t])
    <3>1. c = k.cur
      BY <1>1, <2>4
    <3>2. k.cur \in S
      BY <1>1, <2>2, <2>4
    <3>. QED
      BY <1>1, <1>6, <2>1, <2>2, <2>4, <3>1, <3>2
  <2>. QED
    BY <2>3, <2>4
<1>11. /\ r.delayed = <<>> /\ r.overflow = <<>> /\ r.terminating = <<>> /\ r.pending = <<>>
       /\ \A e \in EventLists : r.events[e] = <<>>
  BY <1>2, <1>7 DEF Started, ReadyAdded
<1>12. /\ r.prio = prio /\ r.base = prio /\ r.evValue = ItemValue(prio)
       /\ r.tick = 0 /\ r.suspended = 0 /\ r.pendedTicks = 0
  BY <1>2, <1>7 DEF Started, ReadyAdded, SameRest
<1>. QED
  BY <1>8, <1>9, <1>10, <1>11, <1>12 DEF Started, r

\* vTaskStartScheduler after xTaskCreate of each task in turn
LEMMA StartedWithIs ==
    ASSUME NEW order \in Seq(Tasks), order # <<>>, IsInjective(order),
           NEW prio \in [Tasks -> Priorities]
    PROVE  Started(ToSet(order), prio, StartedWith(order, prio))
<1>. DEFINE n == Len(order)
            k0 == NoneCreated(order[1], prio)
            K == KState
            Make(i, r) == IF CreateBefore(r, order[i]) \in KState
                          THEN CreateBefore(r, order[i]) ELSE r
            step == [i \in Nat |-> [r \in K |-> Make(i, r)]]
            Firsts(i) == {order[j] : j \in 1..i}
            Upto(i, r) == Started(Firsts(i), prio, r) /\ (i = 0 => r.cur = order[1])
<1>1. /\ n \in Nat /\ 1 \in 1..n
      /\ \A i \in 1..n : order[i] \in Tasks
      /\ \A i, j \in 1..n : order[i] = order[j] => i = j
  BY DEF IsInjective
<1>2. Started({}, prio, k0) /\ k0 \in K /\ k0.cur = order[1]
  <2>1. Started({}, prio, k0)
    BY <1>1, NoneCreatedIs
  <2>2. k0.cur = order[1]
    BY DEF NoneCreated
  <2>. QED
    BY <2>1, <2>2 DEF Started, WellFormed
<1>3. step \in [Nat -> [K -> K]]
  <2>1. \A i \in Nat : \A r \in K : Make(i, r) \in K
    OBVIOUS
  <2>. HIDE DEF Make, K
  <2>. QED
    BY <2>1
<1>4. \E f \in [0..n -> K] : Iterated(f, k0, step, n)
  <2>. HIDE DEF n, K, step, k0
  <2>. QED
    BY <1>1, <1>2, <1>3, Iterates
<1>5. PICK f \in [0..n -> K] : \A i \in 0..n : f[i] = IF i = 0 THEN k0 ELSE Make(i, f[i - 1])
  <2>. HIDE DEF Make, k0
  <2>1. PICK f \in [0..n -> K] : \A i \in 0..n : f[i] = IF i = 0 THEN k0 ELSE step[i][f[i - 1]]
    BY <1>4 DEF Iterated
  <2>2. \A i \in 0..n : i # 0 => f[i - 1] \in K /\ i \in Nat
    BY <1>1, <2>1
  <2>3. \A i \in 0..n : f[i] = IF i = 0 THEN k0 ELSE Make(i, f[i - 1])
    BY <2>1, <2>2
  <2>. QED
    BY <2>1, <2>3
<1>. DEFINE T == {i \in Nat : i <= n => Upto(i, f[i])
                                        /\ (i # 0 => f[i] = CreateBefore(f[i - 1], order[i]))}
<1>6. 0 \in T
  <2>1. Firsts(0) = {} /\ f[0] = k0
    BY <1>1, <1>5
  <2>. HIDE DEF k0, Firsts
  <2>. QED
    BY <1>2, <2>1
<1>7. ASSUME NEW i \in T PROVE i + 1 \in T
  <2>. SUFFICES ASSUME i + 1 <= n
                PROVE  Upto(i + 1, f[i + 1]) /\ f[i + 1] = CreateBefore(f[i], order[i + 1])
    <3>1. i \in Nat /\ (i + 1) - 1 = i
      BY <1>7
    <3>. HIDE DEF Upto
    <3>. QED
      BY <3>1
  <2>. DEFINE k == f[i]  t == order[i + 1]
  <2>1. i \in Nat
    BY <1>7
  <2>2. i <= n /\ i + 1 \in 1..n /\ i + 1 \in 0..n /\ i + 1 # 0 /\ (i + 1) - 1 = i
    BY <1>1, <2>1
  <2>3. Upto(i, k)
    <3>. HIDE DEF Upto
    <3>. QED
      BY <1>7, <2>2
  <2>4. f[i + 1] = Make(i + 1, k)
    <3>. HIDE DEF Make, k0
    <3>. QED
      BY <1>5, <2>2
  <2>5. Firsts(i) \in SUBSET Tasks
    BY <1>1, <2>2
  <2>6. t \in Tasks \ Firsts(i)
    BY <1>1, <2>1, <2>2
  <2>7. Firsts(i + 1) = Firsts(i) \cup {t}
    <3>1. \A j \in 1..(i + 1) : j \in 1..i \/ j = i + 1
      BY <2>1
    <3>. QED
      BY <2>1, <3>1
  <2>8. k.cur \in Firsts(i) \cup {t}
    <3>1. CASE i = 0
      BY <2>3, <3>1
    <3>2. CASE i # 0
      <4>1. 1 \in 1..i
        BY <2>1, <3>2
      <4>2. Firsts(i) # {}
        BY <4>1
      <4>. QED
        BY <2>3, <4>2 DEF Started
    <3>. QED
      BY <3>1, <3>2
  <2>. HIDE DEF k, t, Firsts
  <2>9. Started(Firsts(i) \cup {t}, prio, CreateBefore(k, t))
    BY <2>3, <2>5, <2>6, <2>8, CreateBeforeIs
  <2>10. f[i + 1] = CreateBefore(k, t)
    <3>1. CreateBefore(k, t) \in KState
      BY <2>9 DEF Started, WellFormed
    <3>. QED
      BY <2>4, <3>1 DEF t
  <2>. QED
    BY <2>2, <2>7, <2>9, <2>10 DEF k, t
<1>8. T = Nat
  <2>. HIDE DEF T
  <2>1. T \subseteq Nat
    BY DEF T
  <2>. QED
    BY <1>6, <1>7, <2>1, Induction
<1>9. \A i \in 0..n : Upto(i, f[i]) /\ (i # 0 => f[i] = CreateBefore(f[i - 1], order[i]))
  <2>1. \A i \in 0..n : i \in T /\ i <= n
    <3>. HIDE DEF T
    <3>. QED
      BY <1>1, <1>8
  <2>. HIDE DEF Upto
  <2>. QED
    BY <2>1
<1>10. f = [i \in 0..n |-> IF i = 0 THEN k0 ELSE CreateBefore(f[i - 1], order[i])]
  <2>. HIDE DEF k0, Upto
  <2>. DEFINE g == [i \in 0..n |-> IF i = 0 THEN k0 ELSE CreateBefore(f[i - 1], order[i])]
  <2>1. f[0] = k0
    BY <1>1, <1>5
  <2>2. \A i \in 0..n : f[i] = g[i]
    BY <1>9, <2>1
  <2>. QED
    BY <1>5, <2>2, Zenon
<1>. DEFINE created[i \in 0..n] == IF i = 0 THEN k0 ELSE CreateBefore(created[i - 1], order[i])
<1>11. created = [i \in 0..n |-> IF i = 0 THEN k0 ELSE CreateBefore(created[i - 1], order[i])]
  BY <1>10, Zenon
<1>12. StartedWith(order, prio) = created[n]
  BY DEF StartedWith
<1>13. \A i \in 0..n : created[i] = IF i = 0 THEN k0 ELSE CreateBefore(created[i - 1], order[i])
  <2>. HIDE DEF created
  <2>. QED
    BY <1>11
<1>. HIDE DEF created
<1>. DEFINE R == {i \in Nat : i <= n => created[i] = f[i]}
<1>14. 0 \in R
  <2>. HIDE DEF k0, Make
  <2>. QED
    BY <1>1, <1>5, <1>13
<1>15. ASSUME NEW i \in R PROVE i + 1 \in R
  <2>1. i \in Nat
    BY <1>15
  <2>. SUFFICES ASSUME i + 1 <= n PROVE created[i + 1] = f[i + 1]
    BY <2>1
  <2>2. i <= n /\ i + 1 \in 0..n /\ i + 1 # 0 /\ (i + 1) - 1 = i
    BY <1>1, <2>1
  <2>3. created[i] = f[i]
    BY <1>15, <2>2
  <2>. HIDE DEF k0, Upto, R
  <2>4. f[i + 1] = CreateBefore(f[i], order[i + 1])
    BY <1>9, <2>2
  <2>. QED
    BY <1>13, <2>2, <2>3, <2>4
<1>16. R = Nat
  <2>. HIDE DEF R
  <2>1. R \subseteq Nat
    BY DEF R
  <2>. QED
    BY <1>14, <1>15, <2>1, Induction
<1>17. created[n] = f[n] /\ n \in 0..n
  <2>1. n \in R
    <3>. HIDE DEF R
    <3>. QED
      BY <1>1, <1>16
  <2>. QED
    BY <1>1, <2>1
<1>18. Firsts(n) = ToSet(order)
  BY <1>1 DEF ToSet
<1>19. Started(Firsts(n), prio, f[n])
  BY <1>9, <1>17
<1>. QED
  BY <1>12, <1>17, <1>18, <1>19

\* The orders in which the tasks of a finite set can be created
LEMMA OrderIs ==
    ASSUME NEW S \in SUBSET Tasks, IsFiniteSet(Tasks), NEW order \in SetToSeqs(S)
    PROVE  order \in Seq(Tasks) /\ IsInjective(order) /\ ToSet(order) = S
<1>1. IsFiniteSet(S) /\ Cardinality(S) \in Nat
  BY FS_Subset, FS_CardinalityType
<1>2. order \in [1..Cardinality(S) -> S] /\ IsInjective(order)
  <2>1. /\ order \in [1..Cardinality(S) -> S]
        /\ \A i, j \in 1..Cardinality(S) : i # j => order[i] # order[j]
    BY DEF SetToSeqs
  <2>. QED
    BY <2>1 DEF IsInjective
<1>3. order \in Seq(Tasks)
  BY <1>1, <1>2
<1>4. IsFiniteSet(1..Cardinality(S)) /\ Cardinality(1..Cardinality(S)) = Cardinality(S)
  BY <1>1, FS_Interval
<1>5. order \in Surjection(1..Cardinality(S), S)
  <2>1. order \in Injection(1..Cardinality(S), S)
    BY <1>2 DEF Injection
  <2>. QED
    BY <1>1, <1>4, <2>1, FS_Injection
<1>6. \A t \in S : \E i \in 1..Cardinality(S) : order[i] = t
  BY <1>5 DEF Surjection
<1>7. ToSet(order) = S
  BY <1>2, <1>6 DEF ToSet
<1>. QED
  BY <1>2, <1>3, <1>7

LEMMA StartedSound ==
    ASSUME NEW S, NEW prio \in [Tasks -> Priorities], NEW k, Started(S, prio, k)
    PROVE  Sound(k) /\ DelayedTasks(k) = {} /\ (S \subseteq Tasks => ReadyTasks(k) = S)
<1>1. /\ WellFormed(k) /\ k.delayed = <<>> /\ k.overflow = <<>> /\ k.terminating = <<>>
      /\ k.pending = <<>> /\ k.prio = prio /\ \A e \in EventLists : k.events[e] = <<>>
      /\ \A p \in Priorities : ToSet(k.ready[p].items) = {t \in S : prio[t] = p}
  BY DEF Started
<1>2. ToSet(k.delayed) = {} /\ ToSet(k.overflow) = {} /\ ToSet(k.terminating) = {}
      /\ ToSet(k.pending) = {} /\ \A e \in EventLists : ToSet(k.events[e]) = {}
  BY <1>1 DEF ToSet
<1>3. DelayedTasks(k) = {}
  BY <1>2 DEF DelayedTasks
<1>4. Separate(k)
  BY <1>1, <1>2, <1>3 DEF Separate
<1>5. Timely(k)
  BY <1>1, <1>2 DEF Timely, Sorted, UnblocksInTime
<1>6. ASSUME S \subseteq Tasks PROVE ReadyTasks(k) = S
  <2>1. ReadyTasks(k) \subseteq S
    BY <1>1 DEF ReadyTasks
  <2>2. ASSUME NEW t \in S PROVE t \in ReadyTasks(k)
    <3>1. prio[t] \in Priorities
      BY <1>6
    <3>2. t \in ToSet(k.ready[prio[t]].items)
      BY <1>1, <3>1
    <3>. QED
      BY <3>1, <3>2 DEF ReadyTasks
  <2>. QED
    BY <2>1, <2>2
<1>. QED
  BY <1>1, <1>3, <1>4, <1>5, <1>6 DEF Sound

-----------------------------------------------------------------------------
(* Timeouts *)

\* xTaskCheckForTimeOut: less than a round after vTaskSetTimeOutState, and less than the
\* ticks to wait, it finds no timeout, and computes what elapsed.
LEMMA SinceElapsed ==
    ASSUME NEW k, k.tick \in Ticks, NEW to, NEW d, Since(k, to, d), NEW w \in Ticks, d < w
    PROVE  Elapsed(k, to) = d /\ ~TimedOut(k, to, w)
<1>. DEFINE e == to.entering
<1>1. TickMod \in Nat \ {0, 1} /\ Ticks = 0..(TickMod - 1)
  BY TaskListsAssumption DEF Ticks
<1>2. d \in 0..(TickMod - 1) /\ e \in 0..(TickMod - 1) /\ w \in 0..(TickMod - 1)
  BY <1>1 DEF Since
<1>3. CASE e + d < TickMod
  <2>1. k.tick - e = d /\ k.overflows = to.overflows
    BY <1>2, <1>3 DEF Since
  <2>2. d % TickMod = d
    BY <1>1, <1>2
  <2>. QED
    BY <1>2, <2>1, <2>2 DEF Elapsed, TimedOut
<1>4. CASE ~(e + d < TickMod)
  <2>1. k.tick = e + d - TickMod
    BY <1>4 DEF Since
  <2>2. k.tick - e = d - TickMod /\ k.tick < e
    BY <1>1, <1>2, <1>4, <2>1
  <2>3. (d - TickMod) % TickMod = d
    <3>1. d \in Int /\ TickMod > 0 /\ d - TickMod < 0 /\ d - TickMod >= -TickMod
      BY <1>1, <1>2
    <3>. QED
      BY <1>1, <1>2, <3>1
  <2>. QED
    BY <1>1, <1>2, <2>2, <2>3 DEF Elapsed, TimedOut
<1>. QED
  BY <1>3, <1>4

\* xTaskRemoveFromEventList takes one task off the list.
LEMMA RemovedLength ==
    ASSUME NEW k, Sound(k), NEW e \in EventLists, k.events[e] # <<>>
    PROVE  Len(RemoveFromEventList(k, e).events[e]) = Len(k.events[e]) - 1
<1>. DEFINE t == Head(k.events[e])  s == k.events[e]  b == RemoveEvent(k, t)
<1>1. k \in KState /\ s \in Seq(Tasks) /\ IsInjective(s)
  BY KernelFields DEF Sound, WellFormed
<1>2. t \in ToSet(s) /\ t \in Tasks
  BY <1>1, TailIs, ToSetIn
<1>3. Len(Without(s, t)) = Len(s) - 1
  BY <1>1, <1>2, WithoutIs DEF Contains, ToSet
<1>4. b.events[e] = Without(s, t) /\ b \in KState /\ WellFormed(b)
  <2>1. EventRemoved(k, t, b)
    BY <1>2, RemoveEventIs DEF Sound
  <2>2. b.events[e] = Without(s, t)
    BY <1>1 DEF RemoveEvent, KState
  <2>. QED
    BY <2>1, <2>2 DEF EventRemoved, WellFormed
<1>5. MakeReady(k, t).events = b.events
  <2>. DEFINE c == RemoveState(b, t)
  <2>1. c.events = b.events /\ c \in KState
    <3>1. c.events = b.events
      BY <1>2, <1>4, RemoveStateFields, ZenonT(40)
    <3>2. StateRemoved(b, t, c)
      BY <1>2, <1>4, RemoveStateIs
    <3>. QED
      BY <3>1, <3>2 DEF StateRemoved, WellFormed
  <2>. HIDE DEF b, c
  <2>2. AddToReady(c, t).events = c.events
    BY <2>1 DEF AddToReady, KState
  <2>. QED
    BY <2>1, <2>2 DEF MakeReady, b, c
<1>6. RemoveFromEventList(k, e).events = b.events
  <2>1. CASE k.suspended = 0
    BY <1>5, <2>1 DEF RemoveFromEventList
  <2>2. CASE k.suspended # 0
    <3>. HIDE DEF b
    <3>1. RemoveFromEventList(k, e) =
             [[b EXCEPT !.pending = Append(@, t)] EXCEPT !.yieldPending = @ \/ WakesHigher(k, e)]
      BY <2>2 DEF RemoveFromEventList, b
    <3>. QED
      BY <1>4, <3>1 DEF KState
  <2>. QED
    BY <2>1, <2>2
<1>. QED
  BY <1>3, <1>4, <1>6
=============================================================================
