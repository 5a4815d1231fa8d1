------------------------- MODULE HeapIpTask_proofs -------------------------
(***************************************************************************)
(* The two allocators, and the tasks that pass what they allocate to each  *)
(* other.                                                                  *)
(*                                                                         *)
(* heap_4.c is an allocator, for a heap and a minimum block of every size, *)
(* any requests and any order of calls, if no interrupt frees during a     *)
(* call: the calls implement HeapBlocks, whose blocks tile the heap.       *)
(* First the abstract blocks, then what the loops over the free list       *)
(* find, what prvInsertBlockIntoFreeList leaves, and the calls.            *)
(*                                                                         *)
(* The IP task, the poll task and an application that pass descriptors of  *)
(* the pool to each other: first the pool, for any number of descriptors   *)
(* and of tasks that call it at once, and the ARP cache, of every size and *)
(* for any number of hosts.  Then the three tasks, for every length of the *)
(* event queue and any number of frames and calls: each descriptor is in   *)
(* one place, with what is expected there, and the tasks use the pool and  *)
(* the cache as their modules say.                                         *)
(***************************************************************************)
EXTENDS Heap4, IpTask, FiniteSetTheorems, WellFoundedInduction, TLAPS

-----------------------------------------------------------------------------
(* The blocks: HeapBlocks *)

Pieces == [lo : 0..HeapEnd, hi : 0..HeapEnd]
Joined(free) == \A b, c \in free : b.hi # c.lo

HInv ==
    /\ blocks = [free |-> blocks.free, used |-> blocks.used]
    /\ HB!Tiled /\ HB!Coalesced

\* l and r are the free blocks on either side of b, or empty intervals there
LeftOf(free, b, l) == \/ l \in free /\ l.hi = b.lo
                      \/ l = HB!Block(b.lo, b.lo) /\ \A x \in free : x.hi # b.lo
RightOf(free, b, r) == \/ r \in free /\ r.lo = b.hi
                       \/ r = HB!Block(b.hi, b.hi) /\ \A x \in free : x.lo # b.hi

LEMMA BeforeAfter ==
    ASSUME NEW s, NEW b, NEW l \in HB!Before(s, b), NEW r \in HB!After(s, b)
    PROVE  LeftOf(s.free, b, l) /\ RightOf(s.free, b, r)
<1> DEFINE c == {x \in s.free : x.hi = b.lo}
           d == {x \in s.free : x.lo = b.hi}
<1>1. LeftOf(s.free, b, l)
  <2>1. CASE c = {}
    BY <2>1 DEF HB!Before, LeftOf
  <2>2. CASE c # {}
    BY <2>2 DEF HB!Before, LeftOf
  <2> QED BY <2>1, <2>2
<1>2. RightOf(s.free, b, r)
  <2>1. CASE d = {}
    BY <2>1 DEF HB!After, RightOf
  <2>2. CASE d # {}
    BY <2>2 DEF HB!After, RightOf
  <2> QED BY <2>1, <2>2
<1> QED BY <1>1, <1>2

LEMMA PieceFields ==
    ASSUME NEW b \in Pieces
    PROVE  b.lo \in 0..HeapEnd /\ b.hi \in 0..HeapEnd /\ b = HB!Block(b.lo, b.hi)
  BY DEF Pieces, HB!Block

-----------------------------------------------------------------------------
(* pvPortMalloc *)

LEMMA AllocatedTiles ==
    ASSUME NEW F, NEW U, HB!TiledBy(F, U), NEW n \in 1..HeapEnd, NEW b \in F,
           HB!Units(b) >= n, HB!Units(b) - n > Spare
    PROVE  HB!TiledBy((F \ {b}) \cup {HB!Block(b.lo + n, b.hi)},
                   U \cup {HB!Block(b.lo, b.lo + n)})
<1> DEFINE rest == HB!Block(b.lo + n, b.hi)
           given == HB!Block(b.lo, b.lo + n)
           F1 == (F \ {b}) \cup {rest}
           U1 == U \cup {given}
<1>1. /\ HeapEnd \in Nat /\ Spare \in Nat /\ n \in Nat /\ n > 0
      /\ b.lo \in 0..HeapEnd /\ b.hi \in 0..HeapEnd /\ b.hi - b.lo - n > Spare
  BY HeapSizeAssumption, PieceFields DEF HB!TiledBy, HB!Units, Pieces
<1>2. \A c \in F \cup U : /\ c.lo \in 0..HeapEnd /\ c.hi \in 0..HeapEnd /\ c.lo < c.hi
                          /\ (c # b => (c.hi <= b.lo \/ b.hi <= c.lo))
  BY PieceFields DEF HB!TiledBy, Pieces, HB!Apart
<1>3. /\ rest.lo = b.lo + n /\ rest.hi = b.hi /\ given.lo = b.lo /\ given.hi = b.lo + n
      /\ rest \in [lo : 0..HeapEnd, hi : 0..HeapEnd] /\ given \in [lo : 0..HeapEnd, hi : 0..HeapEnd]
  BY <1>1 DEF HB!Block
<1>4. \A c \in (F \cup U) \ {b} : HB!Apart(c, rest) /\ HB!Apart(rest, c) /\ HB!Apart(c, given)
                                 /\ HB!Apart(given, c) /\ c # rest /\ c # given
  <2> HIDE DEF rest, given
  <2> QED BY <1>1, <1>2, <1>3 DEF HB!Apart
<1>5. F1 \cup U1 = ((F \cup U) \ {b}) \cup {rest, given} 
  BY DEF HB!TiledBy
<1>6. F1 \cap U1 = {}
  <2>1. rest # given
    BY <1>1, <1>3
  <2> QED BY <1>4, <2>1 DEF HB!TiledBy
<1>7. \A c \in F1 \cup U1 : c \in [lo : 0..HeapEnd, hi : 0..HeapEnd] /\ c.lo < c.hi
  <2> HIDE DEF rest, given
  <2> QED BY <1>1, <1>3 DEF HB!TiledBy
<1>8. \A c, d \in F1 \cup U1 : c # d => HB!Apart(c, d)
  <2>1. HB!Apart(rest, given) /\ HB!Apart(given, rest)
    BY <1>1, <1>3 DEF HB!Apart
  <2> HIDE DEF rest, given, F1, U1
  <2> QED BY <1>4, <1>5, <2>1 DEF HB!TiledBy
<1>9. ASSUME NEW x \in 0..(HeapEnd - 1)
      PROVE  \E c \in F1 \cup U1 : c.lo <= x /\ x < c.hi
  <2>1. PICK c \in F \cup U : c.lo <= x /\ x < c.hi
    BY DEF HB!TiledBy
  <2>2. CASE c # b
    BY <2>1, <2>2, <1>5
  <2>3. CASE c = b
    BY <2>1, <2>3, <1>1, <1>3
  <2> QED BY <2>2, <2>3
<1> HIDE DEF F1, U1, rest, given
<1> QED BY <1>6, <1>7, <1>8, <1>9 DEF HB!TiledBy, F1, U1, rest, given

\* The block in front of the remainder is in use, so nothing free touches it.
LEMMA AllocatedJoined ==
    ASSUME NEW F, NEW U, HB!TiledBy(F, U), Joined(F), NEW n \in 1..HeapEnd, NEW b \in F,
           HB!Units(b) - n > Spare
    PROVE  Joined((F \ {b}) \cup {HB!Block(b.lo + n, b.hi)})
<1> DEFINE rest == HB!Block(b.lo + n, b.hi)
<1>1. /\ Spare \in Nat /\ n \in Nat /\ n > 0
      /\ b.lo \in 0..HeapEnd /\ b.hi \in 0..HeapEnd /\ b.hi - b.lo - n > Spare
  BY HeapSizeAssumption, PieceFields DEF HB!TiledBy, HB!Units, Pieces
<1>2. rest.lo = b.lo + n /\ rest.hi = b.hi
  BY DEF HB!Block
<1>3. \A c \in F \ {b} : /\ c.lo \in 0..HeapEnd /\ c.hi \in 0..HeapEnd /\ c.lo < c.hi
                          /\ (c.hi <= b.lo \/ b.hi <= c.lo)
  BY PieceFields DEF HB!TiledBy, Pieces, HB!Apart
<1>4. \A c \in F \ {b} : c.hi # rest.lo /\ rest.hi # c.lo
  <2> SUFFICES ASSUME NEW c \in F \ {b} PROVE c.hi # rest.lo /\ rest.hi # c.lo
    OBVIOUS
  <2> HIDE DEF rest
  <2>1. c.hi # rest.lo
    BY <1>1, <1>2, <1>3
  <2>2. rest.hi # c.lo
    BY <1>2 DEF Joined
  <2> QED BY <2>1, <2>2
<1>5. rest.hi # rest.lo
  BY <1>1, <1>2
<1> HIDE DEF rest
<1> QED BY <1>4, <1>5 DEF Joined, rest

-----------------------------------------------------------------------------
(* vPortFree *)

LEMMA ReleasedKeeps ==
    ASSUME NEW F, NEW U, HB!TiledBy(F, U), Joined(F), NEW b \in U,
           NEW l, NEW r, LeftOf(F, b, l), RightOf(F, b, r)
    PROVE  /\ HB!TiledBy((F \ {l, r}) \cup {HB!Block(l.lo, r.hi)}, U \ {b})
           /\ Joined((F \ {l, r}) \cup {HB!Block(l.lo, r.hi)})
<1> DEFINE m == HB!Block(l.lo, r.hi)
           F1 == (F \ {l, r}) \cup {m}
           U1 == U \ {b}
<1>1. \A c \in F \cup U : c.lo \in 0..HeapEnd /\ c.hi \in 0..HeapEnd /\ c.lo < c.hi
  BY PieceFields DEF HB!TiledBy, Pieces
<1>2. \A c, d \in F \cup U : c # d => c.hi <= d.lo \/ d.hi <= c.lo
  BY DEF HB!TiledBy, HB!Apart
<1>3. b \in F \cup U /\ b \notin F
  BY DEF HB!TiledBy
<1>4. HeapEnd \in Nat
  BY HeapSizeAssumption
<1>5. l.lo \in 0..HeapEnd /\ l.lo <= b.lo /\ l.hi = b.lo
  BY <1>1, <1>3 DEF LeftOf, HB!Block
<1>6. r.hi \in 0..HeapEnd /\ b.hi <= r.hi /\ r.lo = b.hi
  BY <1>1, <1>3 DEF RightOf, HB!Block
<1>7. m.lo = l.lo /\ m.hi = r.hi /\ m \in [lo : 0..HeapEnd, hi : 0..HeapEnd] /\ m.lo < m.hi
  BY <1>1, <1>3, <1>5, <1>6 DEF HB!Block
<1>8. \A c \in (F \cup U) \ {b, l, r} : c.hi <= m.lo \/ m.hi <= c.lo
  <2> SUFFICES ASSUME NEW c \in (F \cup U) \ {b, l, r}
               PROVE  c.hi <= m.lo \/ m.hi <= c.lo
    OBVIOUS
  <2>1. c.hi <= b.lo \/ b.hi <= c.lo
    BY <1>2, <1>3
  <2>2. ASSUME c.hi <= b.lo PROVE c.hi <= m.lo
    <3>1. CASE l \in F
      <4>1. c.hi <= l.lo \/ l.hi <= c.lo
        BY <1>2, <3>1
      <4> HIDE DEF m
      <4> QED BY <4>1, <1>1, <1>5, <1>7, <2>2
    <3>2. CASE l \notin F
      <4>1. l.lo = b.lo
        BY <3>2 DEF LeftOf, HB!Block
      <4> HIDE DEF m
      <4> QED BY <4>1, <1>7, <2>2
    <3> QED BY <3>1, <3>2
  <2>3. ASSUME b.hi <= c.lo PROVE m.hi <= c.lo
    <3>1. CASE r \in F
      <4>1. c.hi <= r.lo \/ r.hi <= c.lo
        BY <1>2, <3>1
      <4> HIDE DEF m
      <4> QED BY <4>1, <1>1, <1>6, <1>7, <2>3
    <3>2. CASE r \notin F
      <4>1. r.hi = b.hi
        BY <3>2 DEF RightOf, HB!Block
      <4> HIDE DEF m
      <4> QED BY <4>1, <1>7, <2>3
    <3> QED BY <3>1, <3>2
  <2> QED BY <2>1, <2>2, <2>3
<1>9. \A c \in (F \cup U) \ {b, l, r} : c # m
  <2> HIDE DEF m
  <2> QED BY <1>1, <1>7, <1>8
<1>10. l \notin U /\ r \notin U
  <2>1. \A c \in U : c.lo # c.hi
    BY <1>1
  <2>2. l \in F \/ l.lo = l.hi
    BY DEF LeftOf, HB!Block
  <2>3. r \in F \/ r.lo = r.hi
    BY DEF RightOf, HB!Block
  <2> QED BY <2>1, <2>2, <2>3 DEF HB!TiledBy
<1>11. F1 \cup U1 = ((F \cup U) \ {b, l, r}) \cup {m}
  BY <1>3, <1>10
<1>12. F1 \cap U1 = {}
  BY <1>9, <1>10 DEF HB!TiledBy
<1>13. \A c \in F1 \cup U1 : c \in [lo : 0..HeapEnd, hi : 0..HeapEnd] /\ c.lo < c.hi
  <2> HIDE DEF m, F1, U1
  <2> QED BY <1>7, <1>11 DEF HB!TiledBy
<1>14. \A c, d \in F1 \cup U1 : c # d => HB!Apart(c, d)
  <2> HIDE DEF m, F1, U1
  <2> QED BY <1>8, <1>11 DEF HB!TiledBy, HB!Apart
<1>15. ASSUME NEW x \in 0..(HeapEnd - 1)
       PROVE  \E c \in F1 \cup U1 : c.lo <= x /\ x < c.hi
  <2>1. PICK c \in F \cup U : c.lo <= x /\ x < c.hi
    BY DEF HB!TiledBy
  <2> HIDE DEF m, F1, U1
  <2>2. CASE c \notin {b, l, r}
    BY <2>1, <2>2, <1>11
  <2>3. CASE c \in {b, l, r}
    <3>1. m.lo <= x /\ x < m.hi
      BY <2>1, <2>3, <1>1, <1>3, <1>5, <1>6, <1>7
    <3> QED BY <3>1, <1>11
  <2> QED BY <2>2, <2>3
<1>16. \A c \in F \ {l, r} : c.hi # m.lo /\ m.hi # c.lo
  <2> SUFFICES ASSUME NEW c \in F \ {l, r} PROVE c.hi # m.lo /\ m.hi # c.lo
    OBVIOUS
  <2>1. c.hi # m.lo
    <3>1. CASE l \in F
      BY <3>1, <1>7 DEF Joined
    <3>2. CASE l \notin F
      BY <3>2, <1>7 DEF LeftOf, HB!Block
    <3> QED BY <3>1, <3>2
  <2>2. m.hi # c.lo
    <3>1. CASE r \in F
      BY <3>1, <1>7 DEF Joined
    <3>2. CASE r \notin F
      BY <3>2, <1>7 DEF RightOf, HB!Block
    <3> QED BY <3>1, <3>2
  <2> QED BY <2>1, <2>2
<1>17. Joined(F1)
  <2> HIDE DEF m
  <2> QED BY <1>7, <1>16 DEF Joined
<1> HIDE DEF F1, U1, m
<1> QED BY <1>12, <1>13, <1>14, <1>15, <1>17 DEF HB!TiledBy, F1, U1, m

-----------------------------------------------------------------------------
(* The specification *)

LEMMA InitInv == HB!Init => HInv
<1> SUFFICES ASSUME HB!Init PROVE HInv
  OBVIOUS
<1>1. HeapEnd \in Nat \ {0}
  BY HeapSizeAssumption
<1>2. blocks.free = {HB!Block(0, HeapEnd)} /\ blocks.used = {}
  BY DEF HB!Init
<1>3. HB!Block(0, HeapEnd).lo = 0 /\ HB!Block(0, HeapEnd).hi = HeapEnd
      /\ HB!Block(0, HeapEnd) \in [lo : 0..HeapEnd, hi : 0..HeapEnd]
  BY <1>1 DEF HB!Block
<1>4. HB!Tiled
  BY <1>1, <1>2, <1>3 DEF HB!Tiled, HB!TiledBy
<1>5. HB!Coalesced
  BY <1>1, <1>2, <1>3 DEF HB!Coalesced
<1> QED BY <1>4, <1>5 DEF HInv, HB!Init

LEMMA MallocInv == ASSUME HInv, blocks' \in HB!Mallocs(blocks) PROVE HInv'
<1>1. PICK n \in 1..HeapEnd, b \in blocks.free :
          HB!FirstFit(blocks, n, b) /\ blocks' = HB!Allocated(blocks, n, b)
  BY DEF HB!Mallocs
<1>2. HB!Units(b) >= n /\ HB!TiledBy(blocks.free, blocks.used) /\ Joined(blocks.free)
  BY <1>1 DEF HB!FirstFit, HInv, HB!Tiled, HB!Coalesced, Joined
<1>3. CASE HB!Units(b) - n > Spare
  <2>1. /\ blocks'.free = (blocks.free \ {b}) \cup {HB!Block(b.lo + n, b.hi)}
        /\ blocks'.used = blocks.used \cup {HB!Block(b.lo, b.lo + n)}
        /\ blocks' = [free |-> blocks'.free, used |-> blocks'.used]
    BY <1>1, <1>3 DEF HB!Allocated
  <2>2. HB!TiledBy(blocks'.free, blocks'.used) /\ Joined(blocks'.free)
    BY <1>2, <1>3, <2>1, AllocatedTiles, AllocatedJoined
  <2> QED BY <2>1, <2>2 DEF HInv, HB!Tiled, HB!Coalesced, Joined
<1>4. CASE ~ (HB!Units(b) - n > Spare)
  <2>1. /\ blocks'.free = blocks.free \ {b} /\ blocks'.used = blocks.used \cup {b}
        /\ blocks' = [free |-> blocks'.free, used |-> blocks'.used]
    BY <1>1, <1>4 DEF HB!Allocated
  <2>2. blocks'.free \cup blocks'.used = blocks.free \cup blocks.used
    BY <2>1
  <2>3. HB!TiledBy(blocks'.free, blocks'.used)
    BY <1>2, <2>1, <2>2 DEF HB!TiledBy
  <2>4. Joined(blocks'.free)
    BY <1>2, <2>1 DEF Joined
  <2> QED BY <2>1, <2>3, <2>4 DEF HInv, HB!Tiled, HB!Coalesced, Joined
<1> QED BY <1>3, <1>4

LEMMA FreeInv == ASSUME HInv, blocks' \in HB!Frees(blocks) PROVE HInv'
<1>0. PICK b \in blocks.used :
          \E lr \in HB!Before(blocks, b) \X HB!After(blocks, b) :
             blocks' = HB!Released(blocks, b, lr[1], lr[2])
  BY DEF HB!Frees
<1>1. PICK lr \in HB!Before(blocks, b) \X HB!After(blocks, b) :
          blocks' = HB!Released(blocks, b, lr[1], lr[2])
  BY <1>0
<1> DEFINE l == lr[1]
           r == lr[2]
<1>2. LeftOf(blocks.free, b, l) /\ RightOf(blocks.free, b, r)
  BY BeforeAfter
<1>3. /\ blocks'.free = (blocks.free \ {l, r}) \cup {HB!Block(l.lo, r.hi)}
      /\ blocks'.used = blocks.used \ {b}
      /\ blocks' = [free |-> blocks'.free, used |-> blocks'.used]
  BY <1>1 DEF HB!Released
<1>4. HB!TiledBy(blocks.free, blocks.used) /\ Joined(blocks.free)
  BY DEF HInv, HB!Tiled, HB!Coalesced, Joined
<1> HIDE DEF l, r
<1>5. HB!TiledBy(blocks'.free, blocks'.used) /\ Joined(blocks'.free)
  BY <1>2, <1>3, <1>4, ReleasedKeeps
<1> QED BY <1>3, <1>5 DEF HInv, HB!Tiled, HB!Coalesced, Joined

-----------------------------------------------------------------------------
(* Induction, and the walk along the list *)

LEMMA LeastOf ==
    ASSUME NEW T, T \subseteq Nat, T # {}
    PROVE  \E x \in T : \A y \in T : x <= y
<1>1. IsWellFoundedOn(OpToRel(<, Nat), Nat)
  BY NatLessThanWellFounded, Zenon
<1>2. PICK x \in T : \A y \in T : ~ (<<y, x>> \in OpToRel(<, Nat))
  BY <1>1, WFMin, Zenon
<1>3. \A y \in T : ~(y < x)
  BY <1>2 DEF OpToRel
<1> QED BY <1>3

LEMMA Induction ==
    ASSUME NEW T, T \subseteq Nat, 0 \in T, \A n \in T : n + 1 \in T
    PROVE  T = Nat
<1> SUFFICES ASSUME Nat \ T # {} PROVE FALSE
  OBVIOUS
<1>1. PICK x \in Nat \ T : \A y \in Nat \ T : x <= y
  BY LeastOf
<1>2. x - 1 \in T
  BY <1>1
<1> QED BY <1>1, <1>2

Headers ==
    [next : [Addresses -> Pointers], size : [Addresses -> 0..HeapEnd],
     allocated : SUBSET Addresses, free : 0..HeapEnd, minEver : 0..HeapEnd]

\* The step of Chain
After(m, a) == IF a = Null THEN Null ELSE m.next[a]

LEMMA ChainIs ==
    ASSUME NEW m \in Headers
    PROVE  /\ Chain(m) \in [0..(HeapEnd + 2) -> Pointers]
           /\ Chain(m)[0] = ListStart
           /\ \A i \in 0..(HeapEnd + 1) : Chain(m)[i + 1] = After(m, Chain(m)[i])
<1> DEFINE Up(n, f) == \A i \in 0..n : f[i] = IF i = 0 THEN ListStart ELSE After(m, f[i - 1])
           T == {n \in Nat : \E f \in [0..n -> Pointers] : Up(n, f)}
<1>0. HeapEnd \in Nat /\ ListStart \in Pointers
  BY HeapSizeAssumption DEF Pointers, Addresses, ListStart
<1>1. \A a \in Pointers : After(m, a) \in Pointers
  BY DEF Headers, Pointers, After
<1>2. 0 \in T
  <2> DEFINE f == [i \in 0..0 |-> ListStart]
  <2>1. f \in [0..0 -> Pointers] /\ Up(0, f)
    BY <1>0
  <2> QED BY <2>1
<1>3. ASSUME NEW n \in T PROVE n + 1 \in T
  <2>1. n \in Nat
    OBVIOUS
  <2>2. PICK f \in [0..n -> Pointers] : Up(n, f)
    BY <1>3
  <2> DEFINE g == [i \in 0..(n + 1) |-> IF i = n + 1 THEN After(m, f[n]) ELSE f[i]]
  <2>3. g \in [0..(n + 1) -> Pointers]
    <3>1. f[n] \in Pointers
      BY <2>1, <2>2
    <3> QED BY <1>1, <2>1, <2>2, <3>1
  <2>4. Up(n + 1, g)
    <3> SUFFICES ASSUME NEW i \in 0..(n + 1)
                 PROVE  g[i] = IF i = 0 THEN ListStart ELSE After(m, g[i - 1])
      OBVIOUS
    <3>1. CASE i = n + 1
      <4>1. g[i] = After(m, f[n]) /\ i # 0 /\ g[i - 1] = f[n]
        BY <2>1, <3>1
      <4> QED BY <4>1
    <3>2. CASE i # n + 1
      <4>1. i \in 0..n /\ g[i] = f[i] /\ (i # 0 => g[i - 1] = f[i - 1])
        BY <2>1, <3>2
      <4>2. f[i] = IF i = 0 THEN ListStart ELSE After(m, f[i - 1])
        BY <2>2, <4>1
      <4> QED BY <4>1, <4>2
    <3> QED BY <3>1, <3>2
  <2> HIDE DEF Up, g
  <2> QED BY <2>1, <2>3, <2>4
<1>4. T = Nat
  <2> HIDE DEF T
  <2>1. T \subseteq Nat
    BY DEF T
  <2> QED BY <1>2, <1>3, <2>1, Induction
<1>5. PICK f \in [0..(HeapEnd + 2) -> Pointers] : Up(HeapEnd + 2, f)
  <2>1. HeapEnd + 2 \in T
    <3> HIDE DEF T
    <3> QED BY <1>0, <1>4
  <2> QED BY <2>1
<1> DEFINE Step(f0, i) ==
             IF i = 0 THEN ListStart
             ELSE LET a == f0[i - 1] IN IF a = Null THEN Null ELSE m.next[a]
<1>6. f = [i \in 0..(HeapEnd + 2) |-> Step(f, i)]
  <2>1. \A i \in 0..(HeapEnd + 2) : f[i] = Step(f, i)
    BY <1>5 DEF After
  <2> HIDE DEF Step
  <2> QED BY <1>5, <2>1
<1> DEFINE G == CHOOSE f0 : f0 = [i \in 0..(HeapEnd + 2) |-> Step(f0, i)]
<1>7. G = [i \in 0..(HeapEnd + 2) |-> Step(G, i)]
  <2> HIDE DEF Step
  <2> QED BY <1>6
<1>8. Chain(m) = G
  BY DEF Chain
<1> DEFINE c == Chain(m)
<1>9. c = [i \in 0..(HeapEnd + 2) |-> Step(c, i)]
  <2> HIDE DEF Step
  <2> QED BY <1>7, <1>8
<1>10. \A i \in 0..(HeapEnd + 2) : c[i] = IF i = 0 THEN ListStart ELSE After(m, c[i - 1])
  <2> HIDE DEF c
  <2>1. \A i \in 0..(HeapEnd + 2) : c[i] = Step(c, i)
    <3> HIDE DEF Step
    <3> QED BY <1>9
  <2> QED BY <2>1 DEF After
<1>11. DOMAIN c = 0..(HeapEnd + 2) /\ c = [i \in DOMAIN c |-> c[i]]
  <2> HIDE DEF c, Step
  <2> QED BY <1>9
<1> HIDE DEF c, Up, T
<1>12. \A i \in 0..(HeapEnd + 2) : c[i] \in Pointers
  <2> DEFINE V == {i \in Nat : i \in 0..(HeapEnd + 2) => c[i] \in Pointers}
  <2>1. 0 \in V
    BY <1>0, <1>10
  <2>2. ASSUME NEW i \in V PROVE i + 1 \in V
    <3> SUFFICES ASSUME i + 1 \in 0..(HeapEnd + 2) PROVE c[i + 1] \in Pointers
      OBVIOUS
    <3>1. i \in 0..(HeapEnd + 2) /\ i + 1 # 0 /\ (i + 1) - 1 = i
      BY <1>0
    <3>2. c[i + 1] = After(m, c[i])
      BY <1>10, <3>1
    <3> QED BY <1>1, <3>1, <3>2
  <2>3. V = Nat
    <3>1. V \subseteq Nat
      OBVIOUS
    <3> HIDE DEF V
    <3> QED BY <2>1, <2>2, <3>1, Induction
  <2> QED BY <1>0, <2>3
<1>13. \A i \in 0..(HeapEnd + 1) : c[i + 1] = After(m, c[i])
  <2> SUFFICES ASSUME NEW i \in 0..(HeapEnd + 1) PROVE c[i + 1] = After(m, c[i])
    OBVIOUS
  <2>1. i + 1 \in 0..(HeapEnd + 2) /\ i + 1 # 0 /\ (i + 1) - 1 = i
    BY <1>0
  <2> QED BY <1>10, <2>1
<1>14. c \in [0..(HeapEnd + 2) -> Pointers]
  <2>1. c = [i \in 0..(HeapEnd + 2) |-> c[i]]
    BY <1>11
  <2> QED BY <1>12, <2>1
<1>15. c[0] = ListStart
  BY <1>0, <1>10
<1> QED BY <1>13, <1>14, <1>15 DEF c

\* The list: from xStart through the addresses in F, in order, to pxEnd
Linked(next, F) ==
    /\ F \subseteq 0..(HeapEnd - 1) /\ next[HeapEnd] = Null
    /\ \A a \in F \cup {ListStart} :
          /\ next[a] \in F \cup {HeapEnd} /\ a < next[a]
          /\ \A x \in F : x <= a \/ next[a] <= x

Nodes(F) == F \cup {ListStart, HeapEnd}

LEMMA ChainReaches ==
    ASSUME NEW m \in Headers, NEW F, Linked(m.next, F)
    PROVE  LET c == Chain(m)
           IN  /\ \A i \in 0..(HeapEnd + 2) : c[i] \in Nodes(F) \cup {Null}
               /\ \A i \in 1..(HeapEnd + 2) : c[i] # ListStart
               /\ \A i \in 0..(HeapEnd + 2) : c[i] # Null =>
                     \A a \in Nodes(F) : a < c[i] => \E j \in 0..(i - 1) : c[j] = a
               /\ \A a \in Nodes(F) : \E j \in 0..(HeapEnd + 1) : c[j] = a
<1> DEFINE c == Chain(m)
           Reaches(i) == \/ /\ c[i] \in Nodes(F) /\ c[i] >= i - 1
                            /\ \A a \in Nodes(F) : a < c[i] => \E j \in 0..(i - 1) : c[j] = a
                         \/ c[i] = Null /\ \E j \in 0..(i - 1) : c[j] = HeapEnd
           T == {i \in Nat : i \in 0..(HeapEnd + 2) => Reaches(i)}
<1>0. /\ HeapEnd \in Nat /\ ListStart = -1 /\ Null = -2
      /\ F \subseteq 0..(HeapEnd - 1) /\ \A a \in Nodes(F) : a \in Int /\ a >= -1 /\ a <= HeapEnd
  BY HeapSizeAssumption DEF ListStart, Null, Linked, Nodes
<1>1. /\ c[0] = ListStart /\ \A i \in 0..(HeapEnd + 1) : c[i + 1] = After(m, c[i])
      /\ \A i \in 0..(HeapEnd + 2) : c[i] \in Pointers
  BY ChainIs
<1> HIDE DEF c
<1>2. 0 \in T
  <2>1. c[0] \in Nodes(F) /\ c[0] >= 0 - 1 /\ \A a \in Nodes(F) : ~(a < c[0])
    BY <1>0, <1>1 DEF Nodes
  <2> QED BY <2>1
<1>3. ASSUME NEW i \in T PROVE i + 1 \in T
  <2> SUFFICES ASSUME i + 1 \in 0..(HeapEnd + 2) PROVE Reaches(i + 1)
    OBVIOUS
  <2>1. i \in 0..(HeapEnd + 1) /\ i \in Nat /\ Reaches(i) /\ c[i + 1] = After(m, c[i])
    BY <1>0, <1>1
  <2>2. 0..(i - 1) \subseteq 0..((i + 1) - 1) /\ i \in 0..((i + 1) - 1)
    BY <2>1
  <2>3. CASE c[i] = Null
    <3>1. c[i + 1] = Null
      BY <2>1, <2>3 DEF After
    <3>2. \E j \in 0..(i - 1) : c[j] = HeapEnd
      BY <1>0, <2>1, <2>3
    <3> QED BY <2>2, <3>1, <3>2
  <2>4. CASE c[i] = HeapEnd
    <3>1. c[i + 1] = Null
      BY <1>0, <2>1, <2>4 DEF After, Linked
    <3> QED BY <2>2, <2>4, <3>1
  <2>5. CASE c[i] # Null /\ c[i] # HeapEnd
    <3>1. c[i] \in F \cup {ListStart} /\ c[i] >= i - 1
      BY <2>1, <2>5 DEF Nodes
    <3>2. c[i + 1] = m.next[c[i]]
      BY <2>1, <2>5 DEF After
    <3> DEFINE a0 == c[i]
               a1 == c[i + 1]
    <3>3. /\ a1 \in F \cup {HeapEnd} /\ a0 < a1 /\ \A x \in F : x <= a0 \/ a1 <= x
      BY <3>1, <3>2 DEF Linked
    <3>4. a0 \in Int /\ a1 \in Int /\ a1 \in Nodes(F) /\ a0 >= i - 1
      BY <1>0, <3>1, <3>3 DEF Nodes
    <3>7. a0 >= -1
      BY <1>0, <3>1 DEF Nodes
    <3>5. a1 >= (i + 1) - 1
      <4> HIDE DEF a0, a1
      <4> QED BY <2>1, <3>3, <3>4
    <3>6. ASSUME NEW a \in Nodes(F), a < a1 PROVE \E j \in 0..((i + 1) - 1) : c[j] = a
      <4>1. a <= a0
        <5> HIDE DEF a0, a1
        <5>1. CASE a \in F
          BY <1>0, <3>3, <3>4, <3>6, <5>1
        <5>2. CASE a = ListStart
          BY <1>0, <3>4, <3>7, <5>2
        <5>3. CASE a = HeapEnd
          BY <1>0, <3>3, <3>4, <3>6, <5>3
        <5> QED BY <5>1, <5>2, <5>3 DEF Nodes
      <4>2. CASE a = a0
        BY <2>2, <4>2
      <4>3. CASE a # a0
        <5>1. a < a0
          <6> HIDE DEF a0, a1
          <6> QED BY <1>0, <3>4, <4>1, <4>3
        <5>2. \E j \in 0..(i - 1) : c[j] = a
          BY <1>0, <2>1, <2>5, <5>1
        <5> QED BY <2>2, <5>2
      <4> QED BY <4>2, <4>3
    <3> QED BY <3>4, <3>5, <3>6
  <2> QED BY <2>3, <2>4, <2>5
<1>4. T = Nat
  <2>1. T \subseteq Nat
    OBVIOUS
  <2> HIDE DEF T
  <2> QED BY <1>2, <1>3, <2>1, Induction
<1>5. \A i \in 0..(HeapEnd + 2) : Reaches(i)
  <2> HIDE DEF Reaches
  <2> QED BY <1>0, <1>4
<1>6. \A i \in 0..(HeapEnd + 2) : c[i] \in Nodes(F) \cup {Null}
  BY <1>5
<1>7. \A i \in 1..(HeapEnd + 2) : c[i] # ListStart
  BY <1>0, <1>5
<1>8. ASSUME NEW i \in 0..(HeapEnd + 2), c[i] # Null, NEW a \in Nodes(F), a < c[i]
      PROVE  \E j \in 0..(i - 1) : c[j] = a
  BY <1>5, <1>8
<1>9. ASSUME NEW a \in Nodes(F) PROVE \E j \in 0..(HeapEnd + 1) : c[j] = a
  <2>1. HeapEnd + 2 \in 0..(HeapEnd + 2) /\ (HeapEnd + 2) - 1 = HeapEnd + 1
    BY <1>0
  <2>2. ~(c[HeapEnd + 2] \in Nodes(F) /\ c[HeapEnd + 2] >= (HeapEnd + 2) - 1)
    BY <1>0
  <2>3. PICK j \in 0..(HeapEnd + 1) : c[j] = HeapEnd
    BY <1>5, <2>1, <2>2
  <2>4. CASE a = HeapEnd
    BY <2>3, <2>4
  <2>5. CASE a # HeapEnd
    <3>1. a < c[j] /\ c[j] # Null /\ j \in 0..(HeapEnd + 2)
      BY <1>0, <2>3, <2>5
    <3>2. PICK i \in 0..(j - 1) : c[i] = a
      BY <1>8, <3>1
    <3>3. i \in 0..(HeapEnd + 1)
      BY <1>0
    <3> QED BY <3>2, <3>3
  <2> QED BY <2>4, <2>5
<1> QED BY <1>6, <1>7, <1>8, <1>9 DEF c

\* The search for the first of the nodes in S stops at the least.
FirstAt(m, S) == Min({i \in 0..(HeapEnd + 1) : Chain(m)[i] \in S})

LEMMA FirstPosition ==
    ASSUME NEW m \in Headers, NEW F, Linked(m.next, F), NEW S, S \subseteq Nodes(F), S # {}
    PROVE  LET c == Chain(m)
               p == FirstAt(m, S)
           IN  /\ p \in 0..(HeapEnd + 1) /\ c[p] \in S /\ \A x \in S : c[p] <= x
               /\ c[p] # ListStart =>
                     p > 0 /\ c[p - 1] \in F \cup {ListStart} /\ m.next[c[p - 1]] = c[p]
<1> DEFINE c == Chain(m)
           T == {i \in 0..(HeapEnd + 1) : c[i] \in S}
           p == FirstAt(m, S)
<1>0. /\ HeapEnd \in Nat /\ ListStart = -1 /\ Null = -2 /\ \A a \in Nodes(F) : a \in Int /\ a >= -1
  BY HeapSizeAssumption DEF ListStart, Null, Linked, Nodes
<1>1. /\ c[0] = ListStart /\ \A i \in 0..(HeapEnd + 1) : c[i + 1] = After(m, c[i])
  BY ChainIs
<1>2. /\ \A i \in 0..(HeapEnd + 2) : c[i] \in Nodes(F) \cup {Null}
      /\ \A i \in 0..(HeapEnd + 2) : c[i] # Null =>
            \A a \in Nodes(F) : a < c[i] => \E j \in 0..(i - 1) : c[j] = a
      /\ \A a \in Nodes(F) : \E j \in 0..(HeapEnd + 1) : c[j] = a
  BY ChainReaches
<1> HIDE DEF c
<1>3. T # {} /\ T \subseteq Nat
  <2>1. PICK s \in S : TRUE
    OBVIOUS
  <2> QED BY <1>0, <1>2, <2>1
<1>4. p \in T /\ \A i \in T : p <= i
  <2>1. \E x \in T : \A y \in T : x <= y
    <3> HIDE DEF T
    <3> QED BY <1>3, LeastOf
  <2>2. p = Min(T)
    BY DEF c, FirstAt
  <2> HIDE DEF T, p
  <2> QED BY <2>1, <2>2 DEF Min
<1> HIDE DEF p
<1>5. p \in 0..(HeapEnd + 1) /\ c[p] \in S
  BY <1>4
<1>6. ASSUME NEW x \in S PROVE c[p] <= x
  <2> SUFFICES ASSUME x < c[p] PROVE FALSE
    BY <1>0, <1>5
  <2>0. c[p] # Null /\ x \in Nodes(F) /\ p \in 0..(HeapEnd + 2)
    BY <1>0, <1>5
  <2>1. PICK j \in 0..(p - 1) : c[j] = x
    BY <1>2, <2>0
  <2>2. j \in T /\ ~(p <= j)
    BY <1>0, <1>5, <2>1
  <2> QED BY <1>4, <2>2
<1>7. ASSUME c[p] # ListStart
      PROVE  p > 0 /\ c[p - 1] \in F \cup {ListStart} /\ m.next[c[p - 1]] = c[p]
  <2>1. p > 0 /\ p - 1 \in 0..(HeapEnd + 1) /\ p - 1 \in 0..(HeapEnd + 2) /\ (p - 1) + 1 = p
    BY <1>0, <1>1, <1>5, <1>7
  <2>2. c[p] = After(m, c[p - 1])
    BY <1>1, <2>1
  <2>3. c[p] # Null
    BY <1>0, <1>5
  <2>4. c[p - 1] # Null /\ c[p] = m.next[c[p - 1]]
    BY <2>2, <2>3 DEF After
  <2>5. c[p - 1] # HeapEnd
    BY <2>3, <2>4 DEF Linked
  <2>6. c[p - 1] \in F \cup {ListStart}
    BY <1>2, <2>1, <2>4, <2>5 DEF Nodes
  <2> QED BY <2>1, <2>4, <2>6
<1> QED BY <1>5, <1>6, <1>7 DEF c, p

LEMMA FreeAddressesAre ==
    ASSUME NEW m \in Headers, NEW F, Linked(m.next, F)
    PROVE  FreeAddresses(m) = F
<1> DEFINE c == Chain(m)
<1>0. HeapEnd \in Nat /\ ListStart = -1 /\ Null = -2 /\ F \subseteq 0..(HeapEnd - 1)
  BY HeapSizeAssumption DEF ListStart, Null, Linked
<1>1. c[0] = ListStart
  BY ChainIs
<1>2. /\ \A i \in 0..(HeapEnd + 2) : c[i] \in Nodes(F) \cup {Null}
      /\ \A i \in 1..(HeapEnd + 2) : c[i] # ListStart
      /\ \A a \in Nodes(F) : \E j \in 0..(HeapEnd + 1) : c[j] = a
  BY ChainReaches
<1>3. FreeAddresses(m) = {c[i] : i \in 1..(HeapEnd + 2)} \ {Null, HeapEnd}
  BY DEF FreeAddresses
<1> HIDE DEF c
<1>4. ASSUME NEW i \in 1..(HeapEnd + 2), c[i] \notin {Null, HeapEnd} PROVE c[i] \in F
  <2>1. i \in 0..(HeapEnd + 2)
    BY <1>0
  <2> QED BY <1>2, <1>4, <2>1 DEF Nodes
<1>5. ASSUME NEW a \in F PROVE a \notin {Null, HeapEnd} /\ \E i \in 1..(HeapEnd + 2) : c[i] = a
  <2>1. PICK j \in 0..(HeapEnd + 1) : c[j] = a
    BY <1>2 DEF Nodes
  <2>2. j # 0
    BY <1>0, <1>1, <2>1
  <2>3. j \in 1..(HeapEnd + 2)
    BY <1>0, <2>2
  <2> QED BY <1>0, <2>1, <2>3
<1> QED BY <1>3, <1>4, <1>5

-----------------------------------------------------------------------------
(* What the loops over the list find *)

\* pvPortMalloc's search: the least address with a block that is large enough,
\* or pxEnd
LEMMA FirstFitIs ==
    ASSUME NEW m \in Headers, NEW F, Linked(m.next, F), NEW n
    PROVE  /\ FirstFit(m, n) \in F \cup {ListStart}
           /\ LET a == m.next[FirstFit(m, n)]
              IN  /\ a = HeapEnd \/ (a \in F /\ m.size[a] >= n)
                  /\ \A x \in F : m.size[x] >= n => a <= x
<1> DEFINE c == Chain(m)
           S == {x \in F : m.size[x] >= n} \cup {HeapEnd}
           P(x) == x \in 0..HeapEnd /\ (m.size[x] >= n \/ m.next[x] = Null)
           p == FirstAt(m, S)
<1>0. /\ HeapEnd \in Nat /\ ListStart = -1 /\ Null = -2 /\ F \subseteq 0..(HeapEnd - 1) /\ m.next[HeapEnd] = Null
      /\ \A a \in F : m.next[a] # Null
  BY HeapSizeAssumption DEF ListStart, Null, Linked
<1>1. \A i \in 0..(HeapEnd + 2) : c[i] \in Nodes(F) \cup {Null}
  BY ChainReaches
<1>2. \A i \in 0..(HeapEnd + 1) : P(c[i]) <=> c[i] \in S
  <2> SUFFICES ASSUME NEW i \in 0..(HeapEnd + 1) PROVE P(c[i]) <=> c[i] \in S
    OBVIOUS
  <2>1. c[i] \in F \cup {ListStart, HeapEnd, Null}
    BY <1>0, <1>1 DEF Nodes
  <2>2. \A x \in F : P(x) <=> x \in S
    BY <1>0
  <2>3. /\ P(HeapEnd) /\ HeapEnd \in S
        /\ ~P(ListStart) /\ ListStart \notin S
        /\ ~P(Null) /\ Null \notin S
    BY <1>0
  <2> HIDE DEF c, P, S
  <2> QED BY <2>1, <2>2, <2>3
<1>3. FirstFit(m, n) = c[p - 1]
  <2>1. {i \in 0..(HeapEnd + 1) : P(c[i])} = {i \in 0..(HeapEnd + 1) : c[i] \in S}
    <3> HIDE DEF P, S, c
    <3> QED BY <1>2
  <2> QED BY <2>1 DEF FirstFit, Position, FirstAt
<1>4. S \subseteq Nodes(F) /\ S # {}
  BY DEF Nodes
<1>5. /\ p \in 0..(HeapEnd + 1) /\ c[p] \in S /\ \A x \in S : c[p] <= x
      /\ c[p] # ListStart => p > 0 /\ c[p - 1] \in F \cup {ListStart} /\ m.next[c[p - 1]] = c[p]
  <2> HIDE DEF S
  <2> QED BY <1>4, FirstPosition
<1> HIDE DEF c, p
<1>6. c[p] # ListStart
  <2>1. \A x \in S : x # ListStart
    BY <1>0
  <2> HIDE DEF S
  <2> QED BY <1>5, <2>1
<1> QED BY <1>3, <1>5, <1>6

LEMMA EndReached ==
    ASSUME NEW m \in Headers, NEW F, Linked(m.next, F)
    PROVE  /\ \E a \in F \cup {ListStart} : m.next[a] = HeapEnd
           /\ \E i \in 1..(HeapEnd + 1) : Chain(m)[i] = HeapEnd
<1> DEFINE c == Chain(m)
           p == FirstAt(m, {HeapEnd})
<1>1. {HeapEnd} \subseteq Nodes(F) /\ {HeapEnd} # {} /\ HeapEnd # ListStart /\ HeapEnd \in Nat
  BY HeapSizeAssumption DEF Nodes, ListStart
<1>2. /\ p \in 0..(HeapEnd + 1) /\ c[p] \in {HeapEnd}
      /\ c[p] # ListStart => p > 0 /\ c[p - 1] \in F \cup {ListStart} /\ m.next[c[p - 1]] = c[p]
  BY <1>1, FirstPosition
<1> HIDE DEF c, p
<1>3. p \in 1..(HeapEnd + 1) /\ c[p] = HeapEnd
  BY <1>1, <1>2
<1> QED BY <1>1, <1>2, <1>3 DEF c

\* prvInsertBlockIntoFreeList's search: the last node before a
InsertPlace(m, a) == Chain(m)[Position(m, LAMBDA x : x \in Addresses /\ m.next[x] >= a)]

LEMMA InsertPlaceIs ==
    ASSUME NEW m \in Headers, NEW F, Linked(m.next, F), NEW a \in 0..(HeapEnd - 1), a \notin F
    PROVE  /\ InsertPlace(m, a) \in F \cup {ListStart} /\ InsertPlace(m, a) < a
           /\ a < m.next[InsertPlace(m, a)]
<1> DEFINE c == Chain(m)
           S == {x \in F \cup {ListStart} : m.next[x] >= a}
           P(x) == x \in Addresses /\ m.next[x] >= a
           p == FirstAt(m, S)
           b == c[p]
<1>0. /\ HeapEnd \in Nat /\ ListStart = -1 /\ Null = -2 /\ F \subseteq 0..(HeapEnd - 1) /\ m.next[HeapEnd] = Null
      /\ \A x \in F \cup {ListStart} : m.next[x] \in F \cup {HeapEnd}
  BY HeapSizeAssumption DEF ListStart, Null, Linked
<1>1. \A i \in 0..(HeapEnd + 2) : c[i] \in Nodes(F) \cup {Null}
  BY ChainReaches
<1>2. \A i \in 0..(HeapEnd + 1) : P(c[i]) <=> c[i] \in S
  <2> SUFFICES ASSUME NEW i \in 0..(HeapEnd + 1) PROVE P(c[i]) <=> c[i] \in S
    OBVIOUS
  <2>1. c[i] \in F \cup {ListStart, HeapEnd, Null}
    BY <1>0, <1>1 DEF Nodes
  <2>2. Null \notin Addresses /\ F \cup {ListStart} \subseteq Addresses
    BY <1>0 DEF Addresses
  <2>3. ~(m.next[HeapEnd] >= a)
    BY <1>0
  <2>4. HeapEnd \notin F \cup {ListStart}
    BY <1>0
  <2> HIDE DEF c
  <2> QED BY <2>1, <2>2, <2>3, <2>4
<1>3. InsertPlace(m, a) = b
  <2>1. {i \in 0..(HeapEnd + 1) : P(c[i])} = {i \in 0..(HeapEnd + 1) : c[i] \in S}
    <3> HIDE DEF P, S, c
    <3> QED BY <1>2
  <2> QED BY <2>1 DEF InsertPlace, Position, FirstAt
<1>4. S \subseteq Nodes(F) /\ S # {}
  <2>1. PICK x \in F \cup {ListStart} : m.next[x] = HeapEnd
    BY EndReached
  <2>2. x \in S
    BY <1>0, <2>1
  <2> QED BY <2>2 DEF Nodes
<1>5. /\ p \in 0..(HeapEnd + 1) /\ b \in S /\ \A x \in S : b <= x
      /\ b # ListStart => p > 0 /\ c[p - 1] \in F \cup {ListStart} /\ m.next[c[p - 1]] = b
  <2> HIDE DEF S
  <2> QED BY <1>4, FirstPosition
<1>6. b \in F \cup {ListStart} /\ m.next[b] >= a
  BY <1>5
<1>7. b < a
  <2>1. CASE b = ListStart
    BY <1>0, <2>1
  <2>2. CASE b # ListStart
    <3> DEFINE x == c[p - 1]
    <3>1. x \in F \cup {ListStart} /\ m.next[x] = b
      BY <1>5, <2>2
    <3> HIDE DEF x, b
    <3>2. x < b /\ x \in Int /\ b \in Int
      BY <1>0, <1>6, <3>1 DEF Linked
    <3>3. x \notin S
      <4> HIDE DEF S
      <4> QED BY <1>5, <3>2
    <3>4. ~(b >= a)
      BY <3>1, <3>3
    <3> QED BY <3>2, <3>4
  <2> QED BY <2>1, <2>2
<1> HIDE DEF b
<1>8. m.next[b] # a /\ m.next[b] \in Int
  <2>1. m.next[b] \in F \cup {HeapEnd}
    BY <1>0, <1>6
  <2>2. \A x \in F \cup {HeapEnd} : x # a /\ x \in Int
    BY <1>0
  <2> QED BY <2>1, <2>2
<1>9. a < m.next[b]
  BY <1>0, <1>6, <1>8
<1> QED BY <1>3, <1>6, <1>7, <1>9

-----------------------------------------------------------------------------
(* What a change of the list leaves *)

LEMMA LinkedSame ==
    ASSUME NEW next, NEW F, Linked(next, F), NEW next2,
           \A a \in F \cup {ListStart, HeapEnd} : next2[a] = next[a]
    PROVE  Linked(next2, F)
  BY DEF Linked

LEMMA UnlinkedIs ==
    ASSUME NEW next \in [Addresses -> Pointers], NEW F, Linked(next, F), NEW a \in F,
           NEW prev \in F \cup {ListStart}, next[prev] = a
    PROVE  Linked([next EXCEPT ![prev] = next[a]], F \ {a})
<1> DEFINE next2 == [next EXCEPT ![prev] = next[a]]
<1>0. /\ HeapEnd \in Nat /\ ListStart = -1 /\ F \subseteq 0..(HeapEnd - 1) /\ F \cup {ListStart} \subseteq Addresses
      /\ HeapEnd \in Addresses /\ prev # HeapEnd
      /\ \A x \in F \cup {ListStart} : next[x] \in F \cup {HeapEnd} /\ x < next[x] /\ next[x] \in Int
  <2>1. /\ HeapEnd \in Nat /\ ListStart = -1 /\ F \subseteq 0..(HeapEnd - 1)
        /\ \A x \in F \cup {ListStart} : next[x] \in F \cup {HeapEnd} /\ x < next[x]
    BY HeapSizeAssumption DEF ListStart, Linked
  <2>2. F \cup {ListStart} \subseteq Addresses /\ HeapEnd \in Addresses /\ prev # HeapEnd
    BY <2>1 DEF Addresses
  <2>3. \A x \in F \cup {HeapEnd} : x \in Int
    BY <2>1
  <2> QED BY <2>1, <2>2, <2>3
<1>1. next2[prev] = next[a] /\ \A x \in Addresses : x # prev => next2[x] = next[x]
  BY <1>0
<1> HIDE DEF next2
<1>2. prev < a /\ a < next[a]
  BY <1>0
<1>3. ASSUME NEW x \in (F \ {a}) \cup {ListStart}
      PROVE  /\ next2[x] \in (F \ {a}) \cup {HeapEnd} /\ x < next2[x]
             /\ \A y \in F \ {a} : y <= x \/ next2[x] <= y
  <2>1. CASE x = prev
    <3>1. next2[x] = next[a] /\ next[a] \in (F \ {a}) \cup {HeapEnd} /\ x < next[a]
      BY <1>0, <1>1, <1>2, <2>1
    <3>2. ASSUME NEW y \in F \ {a} PROVE y <= x \/ next[a] <= y
      <4>1. y <= prev \/ a <= y
        BY DEF Linked
      <4>2. y <= a \/ next[a] <= y
        BY DEF Linked
      <4>3. y \in Int /\ a \in Int /\ y # a
        BY <1>0
      <4> QED BY <2>1, <4>1, <4>2, <4>3
    <3> QED BY <3>1, <3>2
  <2>2. CASE x # prev
    <3>1. next2[x] = next[x] /\ x \in F \cup {ListStart}
      BY <1>0, <1>1, <2>2
    <3>2. /\ next[x] \in F \cup {HeapEnd} /\ x < next[x]
          /\ \A y \in F : y <= x \/ next[x] <= y
      BY <3>1 DEF Linked
    <3>3. next[x] # a
      <4> SUFFICES ASSUME next[x] = a PROVE FALSE
        OBVIOUS
      <4>1. x < a /\ prev < a /\ x \in Int /\ prev \in Int /\ a \in Int
        BY <1>0, <1>2
      <4>2. CASE x < prev
        <5>1. prev \in F
          BY <1>0, <4>1, <4>2
        <5>2. prev <= x \/ a <= prev
          BY <3>2, <5>1
        <5> QED BY <4>1, <4>2, <5>2
      <4>3. CASE prev < x
        <5>1. x \in F
          BY <1>0, <4>1, <4>3
        <5>2. x <= prev \/ a <= x
          BY <5>1 DEF Linked
        <5> QED BY <4>1, <4>3, <5>2
      <4> QED BY <2>2, <4>1, <4>2, <4>3
    <3> QED BY <3>1, <3>2, <3>3
  <2> QED BY <2>1, <2>2
<1>4. next2[HeapEnd] = Null
  BY <1>0, <1>1 DEF Linked
<1> QED BY <1>0, <1>3, <1>4 DEF Linked, next2

\* The links that prvInsertBlockIntoFreeList leaves for a block at a, between the
\* nodes before and after: joined to the left and to the right, or not
Relinked(next, a, before, prev, right) ==
    LET after == next[before]
        first == IF prev THEN before ELSE a
        linked == [next EXCEPT ![first] = IF right THEN next[after] ELSE after]
    IN  IF prev THEN linked ELSE [linked EXCEPT ![before] = a]

LEMMA RelinkedIs ==
    ASSUME NEW next \in [Addresses -> Pointers], NEW F, Linked(next, F),
           NEW a \in 0..(HeapEnd - 1), a \notin F, NEW before \in F \cup {ListStart},
           before < a, a < next[before], NEW prev \in BOOLEAN, NEW right \in BOOLEAN,
           prev => before \in F, right => next[before] \in F
    PROVE  /\ Relinked(next, a, before, prev, right) \in [Addresses -> Pointers]
           /\ Linked(Relinked(next, a, before, prev, right),
                     (F \cup {IF prev THEN before ELSE a})
                         \ (IF right THEN {next[before]} ELSE {}))
<1> DEFINE after == next[before]
           first == IF prev THEN before ELSE a
           F1 == (F \cup {first}) \ (IF right THEN {after} ELSE {})
           to == IF right THEN next[after] ELSE after
           next2 == Relinked(next, a, before, prev, right)
<1>0. /\ HeapEnd \in Nat /\ ListStart = -1 /\ F \subseteq 0..(HeapEnd - 1) /\ F \cup {ListStart} \subseteq Addresses
      /\ HeapEnd \in Addresses /\ a \in Addresses /\ a \in Int
      /\ \A x \in F \cup {ListStart} : next[x] \in F \cup {HeapEnd} /\ x < next[x] /\ next[x] \in Int
                                   /\ x \in Int /\ next[x] \in Pointers
      /\ a \in Pointers
  <2>1. /\ HeapEnd \in Nat /\ ListStart = -1 /\ F \subseteq 0..(HeapEnd - 1)
        /\ \A x \in F \cup {ListStart} : next[x] \in F \cup {HeapEnd} /\ x < next[x]
    BY HeapSizeAssumption DEF ListStart, Linked
  <2>2. F \cup {ListStart} \subseteq Addresses /\ HeapEnd \in Addresses /\ a \in Addresses
    BY <2>1 DEF Addresses
  <2>3. \A x \in F \cup {HeapEnd, ListStart} : x \in Int
    BY <2>1
  <2>4. \A x \in Addresses : next[x] \in Pointers /\ x \in Pointers
    BY DEF Pointers
  <2>5. a \in Int
    OBVIOUS
  <2>6. ASSUME NEW x \in F \cup {ListStart}
        PROVE  next[x] \in F \cup {HeapEnd} /\ x < next[x] /\ next[x] \in Int
               /\ x \in Int /\ next[x] \in Pointers
    BY <2>1, <2>2, <2>3, <2>4
  <2> QED BY <2>1, <2>2, <2>4, <2>5, <2>6
<1>1. after \in F \cup {HeapEnd} /\ after \in Int /\ after \in Pointers /\ a < after
  BY <1>0
<1>2. first \in Addresses /\ first \in Int /\ first <= a /\ before <= first /\ before \in Addresses
      /\ before \in Int
  BY <1>0
<1>3. /\ to \in F \cup {HeapEnd} /\ to \in Int /\ to \in Pointers /\ a < to /\ after <= to
      /\ right => after < to
  BY <1>0, <1>1
<1>4. \A x \in F : x <= before \/ after <= x
  BY DEF Linked
<1>5. \A x \in F : right => x <= after \/ to <= x
  BY DEF Linked
<1>6. next2 = IF prev THEN [next EXCEPT ![first] = to]
              ELSE [[next EXCEPT ![first] = to] EXCEPT ![before] = a]
  BY DEF Relinked
<1> HIDE DEF to, next2
<1>7. next2 \in [Addresses -> Pointers]
  BY <1>0, <1>3, <1>6
<1>8. /\ next2[first] = to /\ (~prev => next2[before] = a)
      /\ \A x \in Addresses : x # first /\ x # before => next2[x] = next[x]
  <2>1. CASE prev
    BY <1>2, <1>6, <2>1
  <2>2. CASE ~prev
    <3>1. first # before
      BY <1>2, <2>2
    <3> HIDE DEF first
    <3> QED BY <1>2, <1>6, <2>2, <3>1
  <2> QED BY <2>1, <2>2
<1>9. first \in 0..(HeapEnd - 1) /\ (prev => first = before) /\ (~prev => first = a)
  BY <1>0
<1> HIDE DEF first, after
<1>10. \A y \in F1 : y = first \/ (y \in F /\ (right => y # after))
  OBVIOUS
<1>11. ASSUME NEW x \in F1 \cup {ListStart}
       PROVE  /\ next2[x] \in F1 \cup {HeapEnd} /\ x < next2[x]
              /\ \A y \in F1 : y <= x \/ next2[x] <= y
  <2>0. x \in Int /\ x \in Addresses /\ x \in F \cup {first, ListStart}
    BY <1>0, <1>2
  <2>1. CASE x = first
    <3>1. next2[x] = to /\ x < to
      BY <1>2, <1>3, <1>8, <2>1, <1>0
    <3>2. to \in F1 \cup {HeapEnd}
      <4>1. right => to # after
        BY <1>1, <1>3
      <4>2. ~right => to = after
        BY DEF to
      <4> QED BY <1>3, <4>1
    <3>3. ASSUME NEW y \in F1 PROVE y <= x \/ to <= y
      <4>1. CASE y = first
        BY <2>0, <2>1, <4>1
      <4>2. CASE y # first
        <5>1. y \in F /\ (right => y # after) /\ y \in Int
          BY <1>0, <4>2
        <5>2. y <= before \/ after <= y
          BY <1>4, <5>1
        <5>3. CASE right
          <6>1. y <= after \/ to <= y
            BY <1>5, <5>1, <5>3
          <6> QED BY <1>1, <1>2, <2>1, <5>1, <5>2, <5>3, <6>1
        <5>4. CASE ~right
          <6>1. to = after
            BY <5>4 DEF to
          <6> QED BY <1>1, <1>2, <2>1, <5>1, <5>2, <6>1
        <5> QED BY <5>3, <5>4
      <4> QED BY <4>1, <4>2
    <3> QED BY <3>1, <3>2, <3>3
  <2>2. CASE x = before /\ x # first
    <3>1. ~prev /\ next2[x] = a /\ first = a
      BY <1>8, <1>9, <2>2
    <3>2. a \in F1 /\ x < a
      BY <1>0, <1>1, <2>2, <3>1
    <3>3. ASSUME NEW y \in F1 PROVE y <= x \/ a <= y
      <4>1. CASE y = first
        BY <1>0, <3>1, <4>1
      <4>2. CASE y # first
        <5>1. y \in F /\ y \in Int
          BY <1>0, <4>2
        <5>2. y <= before \/ after <= y
          BY <1>4, <5>1
        <5> QED BY <1>0, <1>1, <1>2, <2>2, <5>1, <5>2
      <4> QED BY <4>1, <4>2
    <3> QED BY <3>1, <3>2, <3>3
  <2>3. CASE x # before /\ x # first
    <3>1. next2[x] = next[x] /\ x \in F \cup {ListStart} /\ (right => x # after)
      BY <1>0, <1>1, <1>8, <2>0, <2>3
    <3>2. /\ next[x] \in F \cup {HeapEnd} /\ x < next[x] /\ next[x] \in Int
          /\ \A y \in F : y <= x \/ next[x] <= y
      BY <1>0, <3>1 DEF Linked
    <3>3. x < before => next[x] <= before
      <4> SUFFICES ASSUME x < before PROVE next[x] <= before
        OBVIOUS
      <4>1. before \in F
        BY <1>0, <1>2, <2>0, <3>1
      <4>2. before <= x \/ next[x] <= before
        BY <3>2, <4>1
      <4> QED BY <1>2, <2>0, <4>2
    <3>4. before < x => after <= x
      <4> SUFFICES ASSUME before < x PROVE after <= x
        OBVIOUS
      <4>1. x \in F
        BY <1>0, <1>2, <2>0, <3>1
      <4> QED BY <1>2, <1>4, <2>0, <4>1
    <3>5. next[x] # after
      BY <1>0, <1>1, <1>2, <2>0, <2>3, <3>2, <3>3, <3>4
    <3>6. x <= a => next[x] <= a
      BY <1>0, <1>1, <1>2, <2>0, <2>3, <3>2, <3>3, <3>4
    <3>7. ASSUME NEW y \in F1 PROVE y <= x \/ next[x] <= y
      <4>1. CASE y = first
        <5>1. CASE prev
          <6>1. y \in F
            BY <1>9, <4>1, <5>1
          <6> QED BY <3>2, <6>1
        <5>2. CASE ~prev
          BY <1>0, <1>9, <2>0, <3>6, <4>1, <5>2
        <5> QED BY <5>1, <5>2
      <4>2. CASE y # first
        BY <3>2, <4>2
      <4> QED BY <4>1, <4>2
    <3>8. next[x] \in F1 \cup {HeapEnd}
      BY <3>2, <3>5
    <3> QED BY <3>1, <3>2, <3>7, <3>8
  <2> QED BY <2>1, <2>2, <2>3
<1>12. next2[HeapEnd] = Null
  <2>1. HeapEnd # first /\ HeapEnd # before
    BY <1>0, <1>9
  <2> QED BY <1>0, <1>8, <2>1 DEF Linked
<1>13. F1 \subseteq 0..(HeapEnd - 1)
  BY <1>0, <1>9
<1>14. Linked(next2, F1)
  <2> HIDE DEF F1
  <2> QED BY <1>11, <1>12, <1>13 DEF Linked
<1> QED BY <1>7, <1>14 DEF next2, first, after

-----------------------------------------------------------------------------
(* prvInsertBlockIntoFreeList *)

Los(B) == {b.lo : b \in B}

\* Blocks that do not overlap, and the headers and the list that record them
Separate(B) == \A b, c \in B : b # c => HB!Apart(b, c)
Sized(m, B) == \A b \in B : m.size[b.lo] = HB!Units(b)
Listed(m, B) == Linked(m.next, Los(B)) /\ Sized(m, B)

Real(B) == \A b \in B : b \in Pieces /\ b.lo < b.hi

LEMMA LoUnique ==
    ASSUME NEW B, Real(B), Separate(B), NEW b \in B, NEW c \in B, b.lo = c.lo
    PROVE  b = c
<1>1. /\ b.lo \in Int /\ b.hi \in Int /\ c.lo \in Int /\ c.hi \in Int
      /\ b.lo < b.hi /\ c.lo < c.hi
  BY HeapSizeAssumption DEF Real, Pieces
<1> QED BY <1>1 DEF Separate, HB!Apart

\* What it changes: the links, and the sizes of blocks that it joins
Inserted(m, m2, B, x) ==
    /\ m2 = [m EXCEPT !.next = m2.next, !.size = m2.size]
    /\ m2.next \in [Addresses -> Pointers] /\ m2.size \in [Addresses -> 0..HeapEnd]
    /\ \A a \in Addresses : a \notin Los(B) \cup {x.lo} => m2.size[a] = m.size[a]

\* The record of an insertion, the links and the sizes apart
InsertFields(m, a) ==
    LET before == InsertPlace(m, a)
        after  == m.next[before]
        prev   == before + m.size[before] = a
        first  == IF prev THEN before ELSE a
        size   == m.size[a] + IF prev THEN m.size[before] ELSE 0
        right  == first + size = after /\ after # HeapEnd
    IN  [m EXCEPT !.next = Relinked(m.next, a, before, prev, right),
                  !.size = [m.size EXCEPT ![first] =
                               size + IF right THEN m.size[after] ELSE 0]]

LEMMA InsertBlockFields ==
    ASSUME NEW m \in Headers, NEW F, Linked(m.next, F), NEW a \in 0..(HeapEnd - 1), a \notin F,
           m.size[ListStart] = 0
    PROVE  InsertBlock(m, a) = InsertFields(m, a)
<1> DEFINE before == InsertPlace(m, a)
           after  == m.next[before]
           first  == IF before + m.size[before] = a THEN before ELSE a
           size   == m.size[a] + IF first = before THEN m.size[before] ELSE 0
           right  == first + size = after /\ after # HeapEnd
           prev   == before + m.size[before] = a
           newSize == size + IF right THEN m.size[after] ELSE 0
           to == IF right THEN m.next[after] ELSE after
           linked == [m EXCEPT !.size[first] = newSize, !.next[first] = to]
<1>1. /\ before \in F \cup {ListStart} /\ before < a
  BY InsertPlaceIs
<1>2. before # a /\ (first = before <=> prev)
  BY <1>1
<1>3. InsertBlock(m, a) = IF first = before THEN linked ELSE [linked EXCEPT !.next[before] = a]
  BY DEF InsertBlock, InsertPlace
<1>4. m = [next |-> m.next, size |-> m.size, allocated |-> m.allocated, free |-> m.free,
           minEver |-> m.minEver]
  BY DEF Headers
<1>5. linked = [m EXCEPT !.next = [m.next EXCEPT ![first] = to],
                         !.size = [m.size EXCEPT ![first] = newSize]]
  <2> HIDE DEF first, newSize, to
  <2> QED BY <1>4
<1>6. [linked EXCEPT !.next[before] = a] =
         [m EXCEPT !.next = [[m.next EXCEPT ![first] = to] EXCEPT ![before] = a],
                   !.size = [m.size EXCEPT ![first] = newSize]]
  <2> HIDE DEF first, newSize, to, before, linked
  <2> QED BY <1>4, <1>5
<1>7. InsertBlock(m, a) =
         [m EXCEPT !.next = IF prev THEN [m.next EXCEPT ![first] = to]
                            ELSE [[m.next EXCEPT ![first] = to] EXCEPT ![before] = a],
                   !.size = [m.size EXCEPT ![first] = newSize]]
  <2> HIDE DEF first, newSize, to, before, linked, prev
  <2> QED BY <1>2, <1>3, <1>5, <1>6
<1>8. InsertFields(m, a) =
         [m EXCEPT !.next = IF prev THEN [m.next EXCEPT ![first] = to]
                            ELSE [[m.next EXCEPT ![first] = to] EXCEPT ![before] = a],
                   !.size = [m.size EXCEPT ![first] = newSize]]
  <2>1. size = m.size[a] + IF prev THEN m.size[before] ELSE 0
    <3> HIDE DEF first, prev, before
    <3> QED BY <1>2
  <2> HIDE DEF before
  <2> QED BY <2>1 DEF InsertFields, Relinked, before
<1> QED BY <1>7, <1>8

LEMMA InsertedIs ==
    ASSUME NEW m \in Headers, m.size[ListStart] = 0, NEW B, Real(B), Separate(B), Listed(m, B),
           NEW x \in Pieces, x.lo < x.hi, \A b \in B : HB!Apart(b, x), Joined(B),
           m.size[x.lo] = HB!Units(x)
    PROVE  \E l, r : /\ LeftOf(B, x, l) /\ RightOf(B, x, r)
                     /\ Listed(InsertBlock(m, x.lo), (B \ {l, r}) \cup {HB!Block(l.lo, r.hi)})
                     /\ Inserted(m, InsertBlock(m, x.lo), B, x)
<1> DEFINE a == x.lo
           F == Los(B)
           before == InsertPlace(m, a)
           after  == m.next[before]
           prev   == before + m.size[before] = a
           first  == IF prev THEN before ELSE a
           size   == m.size[a] + IF prev THEN m.size[before] ELSE 0
           right  == first + size = after /\ after # HeapEnd
           newSize == size + IF right THEN m.size[after] ELSE 0
           m2 == InsertBlock(m, a)
           l == IF prev THEN CHOOSE b \in B : b.lo = before ELSE HB!Block(a, a)
           r == IF right THEN CHOOSE b \in B : b.lo = after ELSE HB!Block(x.hi, x.hi)
           new == HB!Block(l.lo, r.hi)
           N == (B \ {l, r}) \cup {new}
<1>0. /\ HeapEnd \in Nat /\ ListStart = -1 /\ Null = -2
      /\ a \in 0..HeapEnd /\ x.hi \in 0..HeapEnd /\ a < x.hi /\ a \in 0..(HeapEnd - 1)
      /\ \A b \in B : b.lo \in 0..HeapEnd /\ b.hi \in 0..HeapEnd /\ b.lo < b.hi
      /\ \A b \in B : b.hi <= a \/ x.hi <= b.lo
      /\ \A b \in B : m.size[b.lo] = b.hi - b.lo
      /\ m.size[a] = x.hi - a
      /\ Linked(m.next, F) /\ F \subseteq 0..(HeapEnd - 1)
  <2>1. HeapEnd \in Nat /\ ListStart = -1 /\ Null = -2
    BY HeapSizeAssumption DEF ListStart, Null
  <2>2. a \in 0..HeapEnd /\ x.hi \in 0..HeapEnd /\ a < x.hi /\ a \in 0..(HeapEnd - 1)
    BY <2>1 DEF Pieces
  <2>3. \A b \in B : b.lo \in 0..HeapEnd /\ b.hi \in 0..HeapEnd /\ b.lo < b.hi
    BY DEF Real, Pieces
  <2>4. \A b \in B : b.hi <= a \/ x.hi <= b.lo
    BY DEF HB!Apart
  <2>5. (\A b \in B : m.size[b.lo] = b.hi - b.lo) /\ m.size[a] = x.hi - a
    BY DEF HB!Units, Listed, Sized
  <2>6. Linked(m.next, F) /\ F \subseteq 0..(HeapEnd - 1)
    BY DEF Listed, Linked
  <2> QED BY <2>1, <2>2, <2>3, <2>4, <2>5, <2>6
<1>1. a \notin F
  BY <1>0 DEF Los
<1>2. before \in F \cup {ListStart} /\ before < a /\ a < after
  BY <1>0, <1>1, InsertPlaceIs
<1>3. m2 = [m EXCEPT !.next = Relinked(m.next, a, before, prev, right),
                     !.size = [m.size EXCEPT ![first] = newSize]]
  <2>1. m2 = InsertFields(m, a)
    <3> HIDE DEF a, F
    <3> QED BY <1>0, <1>1, InsertBlockFields
  <2> HIDE DEF m2
  <2> QED BY <2>1 DEF InsertFields
<1>4. after \in F \cup {HeapEnd} /\ \A y \in F : y <= before \/ after <= y
  BY <1>0, <1>2 DEF Linked
<1> HIDE DEF before, after, m2, a, F
<1>5. \A y \in F : \E b \in B : b.lo = y
  BY DEF F, Los
<1>6. \A b \in B : b.lo \in F
  BY DEF F, Los
<1>7. \A b, c \in B : b # c => b.hi <= c.lo \/ c.hi <= b.lo
  BY DEF Separate, HB!Apart
<1>8. /\ before \in Int /\ after \in Int /\ a \in Int /\ x.hi \in Int
  BY <1>0, <1>2, <1>4
\* the block on the left, if there is one
<1>9. prev => before \in F
  BY <1>0, <1>2, <1>8
<1>10. prev => l \in B /\ l.lo = before /\ l.hi = a
  <2> SUFFICES ASSUME prev PROVE l \in B /\ l.lo = before /\ l.hi = a
    OBVIOUS
  <2>1. l \in B /\ l.lo = before
    BY <1>5, <1>9
  <2>2. m.size[before] = l.hi - before /\ l.hi \in Int
    <3> HIDE DEF l
    <3> QED BY <1>0, <2>1
  <2>3. before + m.size[before] = a
    OBVIOUS
  <2> HIDE DEF l
  <2> QED BY <1>8, <2>1, <2>2, <2>3
<1>11. ~prev => l = HB!Block(a, a) /\ l.lo = a /\ l.hi = a
  BY DEF HB!Block
<1>12. ~prev => \A y \in B : y.hi # a
  <2> SUFFICES ASSUME ~prev, NEW y \in B, y.hi = a PROVE FALSE
    OBVIOUS
  <2>1. y.lo \in F /\ y.lo < a /\ y.lo \in Int
    BY <1>0, <1>6
  <2>2. y.lo <= before
    BY <1>2, <1>4, <1>8, <2>1
  <2>3. CASE y.lo = before
    <3>1. m.size[before] = y.hi - before
      BY <1>0, <2>3
    <3> QED BY <1>8, <2>3, <3>1
  <2>4. CASE y.lo < before
    <3>1. before \in F
      BY <1>0, <1>2, <1>8, <2>1, <2>4
    <3>2. PICK b \in B : b.lo = before
      BY <1>5, <3>1
    <3>3. y # b
      BY <1>8, <2>1, <2>4, <3>2
    <3>4. y.hi <= b.lo \/ b.hi <= y.lo
      BY <1>7, <3>3
    <3> QED BY <1>0, <1>2, <1>8, <2>1, <2>4, <3>2, <3>4
  <2> QED BY <1>8, <2>1, <2>2, <2>3, <2>4
<1>13. LeftOf(B, x, l)
  <2> HIDE DEF l, prev
  <2> QED BY <1>10, <1>11, <1>12 DEF LeftOf, a
<1> HIDE DEF l
<1>14. first = l.lo /\ first + size = x.hi
  <2>1. CASE prev
    <3>1. m.size[before] = l.hi - l.lo
      BY <1>0, <1>10, <2>1
    <3> QED BY <1>0, <1>8, <1>10, <2>1, <3>1
  <2>2. CASE ~prev
    BY <1>0, <1>8, <1>11, <2>2
  <2> QED BY <2>1, <2>2
<1> HIDE DEF prev, size, first
<1>15. right <=> x.hi = after /\ after # HeapEnd
  BY <1>14
<1>16. right => after \in F
  BY <1>4, <1>15
<1> HIDE DEF right
<1>17. right => r \in B /\ r.lo = x.hi /\ r.lo = after
  <2> SUFFICES ASSUME right PROVE r \in B /\ r.lo = x.hi /\ r.lo = after
    OBVIOUS
  <2>1. r \in B /\ r.lo = after
    BY <1>5, <1>16
  <2> HIDE DEF r
  <2> QED BY <1>15, <2>1
<1>18. ~right => r = HB!Block(x.hi, x.hi) /\ r.lo = x.hi /\ r.hi = x.hi
  BY DEF HB!Block
<1> HIDE DEF r
<1>19. ~right => \A y \in B : y.lo # x.hi
  <2> SUFFICES ASSUME ~right, NEW y \in B, y.lo = x.hi PROVE FALSE
    OBVIOUS
  <2>1. y.lo \in F /\ a < y.lo /\ y.lo \in Int /\ y.lo < HeapEnd
    BY <1>0, <1>6
  <2>2. after <= y.lo /\ after # HeapEnd
    BY <1>0, <1>2, <1>4, <1>8, <2>1
  <2>3. PICK z \in B : z.lo = after
    BY <1>4, <1>5, <2>2
  <2>4. z.hi <= a \/ x.hi <= z.lo
    BY <1>0
  <2>5. x.hi <= after
    BY <1>0, <1>2, <1>8, <2>3, <2>4
  <2> QED BY <1>8, <1>15, <2>1, <2>2, <2>5
<1>20. RightOf(B, x, r)
  BY <1>17, <1>18, <1>19 DEF RightOf
<1>21. /\ l.lo \in 0..HeapEnd /\ l.lo <= a /\ l.hi = a /\ r.lo = x.hi /\ x.hi <= r.hi /\ r.hi \in 0..HeapEnd
  BY <1>0, <1>8, <1>10, <1>11, <1>17, <1>18
<1>22. new.lo = l.lo /\ new.hi = r.hi
  BY DEF HB!Block
<1>23. newSize = new.hi - new.lo /\ newSize \in 0..HeapEnd
  <2>1. l.lo \in Int /\ r.hi \in Int /\ size \in Int /\ size = x.hi - l.lo
    <3>0. \A y \in 0..HeapEnd : y \in Addresses
      BY <1>0 DEF Addresses
    <3>1. a \in Addresses /\ (prev => before \in Addresses)
      <4>1. a \in 0..HeapEnd
        BY <1>0
      <4>2. \A y \in F : y \in 0..HeapEnd
        BY <1>0
      <4>3. prev => before \in 0..HeapEnd
        BY <1>9, <4>2
      <4> QED BY <3>0, <4>1, <4>3
    <3>2. \A y \in Addresses : m.size[y] \in 0..HeapEnd
      BY DEF Headers
    <3>4. m.size[a] \in Int /\ (prev => m.size[before] \in Int)
      BY <3>1, <3>2
    <3>3. size \in Int
      BY <3>4 DEF size
    <3> QED BY <1>8, <1>14, <1>21, <3>3
  <2>2. newSize = r.hi - l.lo
    <3>1. CASE right
      <4>1. m.size[after] = r.hi - r.lo
        BY <1>0, <1>17, <3>1
      <4> QED BY <1>8, <1>17, <2>1, <3>1, <4>1
    <3>2. CASE ~right
      BY <1>18, <2>1, <3>2
    <3> QED BY <3>1, <3>2
  <2> HIDE DEF newSize, new
  <2> QED BY <1>0, <1>8, <1>21, <1>22, <2>1, <2>2
<1> HIDE DEF new, newSize
\* the list
<1>24. /\ prev \in BOOLEAN /\ right \in BOOLEAN
  BY DEF prev, right
<1> DEFINE F1 == (F \cup {IF prev THEN before ELSE a}) \ (IF right THEN {after} ELSE {})
           next2 == Relinked(m.next, a, before, prev, right)
<1>26. next2 \in [Addresses -> Pointers] /\ Linked(next2, F1)
  <2>1. m.next \in [Addresses -> Pointers] /\ (right => m.next[before] \in F)
    BY <1>16 DEF Headers, after
  <2> QED BY <1>0, <1>1, <1>2, <1>9, <1>24, <2>1, RelinkedIs DEF after
<1> HIDE DEF next2
<1>27. Los(N) = F1
  <2>0. \A b, c \in B : b.lo = c.lo => b = c
    BY LoUnique
  <2>1. first = (IF prev THEN before ELSE a) /\ new.lo = first
    BY <1>14, <1>22 DEF first
  <2>2. ASSUME NEW b \in N PROVE b.lo \in F1
    <3>1. CASE b = new
      <4>1. right => new.lo # after
        BY <1>2, <1>8, <1>21, <1>22
      <4> QED BY <2>1, <3>1, <4>1
    <3>2. CASE b \in B \ {l, r}
      <4>1. b.lo \in F /\ (right => b.lo # after)
        BY <1>6, <1>17, <2>0, <3>2
      <4> QED BY <4>1
    <3> QED BY <3>1, <3>2
  <2>3. ASSUME NEW y \in F1 PROVE \E b \in N : b.lo = y
    <3>1. CASE y = first
      BY <2>1, <3>1
    <3>2. CASE y # first
      <4>1. y \in F /\ (right => y # after) /\ (prev => y # before)
        BY <2>1, <3>2
      <4>2. PICK b \in B : b.lo = y
        BY <1>5, <4>1
      <4>3. b # l
        <5>1. CASE prev
          BY <1>10, <4>1, <4>2, <5>1
        <5>2. CASE ~prev
          BY <1>0, <1>8, <1>11, <4>2, <5>2
        <5> QED BY <5>1, <5>2
      <4>4. b # r
        <5>1. CASE right
          BY <1>17, <4>1, <4>2, <5>1
        <5>2. CASE ~right
          BY <1>0, <1>8, <1>18, <4>2, <5>2
        <5> QED BY <5>1, <5>2
      <4> QED BY <4>2, <4>3, <4>4
    <3> QED BY <3>1, <3>2
  <2> HIDE DEF N, F1
  <2> QED BY <2>2, <2>3 DEF Los
<1>28. first \in Addresses /\ m.size \in [Addresses -> 0..HeapEnd]
  <2>1. first \in 0..HeapEnd
    BY <1>14, <1>21
  <2>2. first \in Addresses
    BY <1>0, <2>1 DEF Addresses
  <2> QED BY <2>2 DEF Headers
<1>29. m2.next = next2 /\ m2.size = [m.size EXCEPT ![first] = newSize]
       /\ m2 = [m EXCEPT !.next = m2.next, !.size = m2.size]
  BY <1>3 DEF Headers, next2
<1>30. m2.size[first] = newSize /\ \A y \in Addresses : y # first => m2.size[y] = m.size[y]
  BY <1>28, <1>29
<1>31. Sized(m2, N)
  <2> SUFFICES ASSUME NEW b \in N PROVE m2.size[b.lo] = HB!Units(b)
    BY DEF Sized
  <2>1. CASE b = new
    BY <1>14, <1>22, <1>23, <1>30, <2>1 DEF HB!Units
  <2>2. CASE b # new
    <3>1. b \in B /\ b # l
      BY <2>2
    <3>2. b.lo # first
      <4>1. CASE prev
        <5>1. l \in B
          BY <1>10, <4>1
        <5> QED BY <1>14, <3>1, <5>1, LoUnique
      <4>2. CASE ~prev
        BY <1>1, <1>6, <1>11, <1>14, <3>1, <4>2
      <4> QED BY <4>1, <4>2
    <3>3. b.lo \in Addresses
      BY <1>0, <3>1 DEF Addresses
    <3> QED BY <1>0, <1>30, <3>1, <3>2, <3>3 DEF HB!Units
  <2> QED BY <2>1, <2>2
<1>32. Inserted(m, m2, B, x)
  <2>1. m2.size \in [Addresses -> 0..HeapEnd]
    BY <1>23, <1>28, <1>29
  <2>2. first \in F \cup {a}
    BY <1>9 DEF first
  <2>3. \A y \in Addresses : y \notin Los(B) \cup {x.lo} => m2.size[y] = m.size[y]
    BY <1>30, <2>2 DEF F, a
  <2> QED BY <1>26, <1>29, <2>1, <2>3 DEF Inserted
<1>33. Listed(m2, N)
  BY <1>26, <1>27, <1>29, <1>31 DEF Listed
<1> QED BY <1>13, <1>20, <1>32, <1>33 DEF m2, a, new

-----------------------------------------------------------------------------
(* The number of free units *)

UnitsOf(B) == {x \in 0..(HeapEnd - 1) : \E b \in B : b.lo <= x /\ x < b.hi}
Count(B) == Cardinality(UnitsOf(B))

LEMMA UnitsFinite ==
    ASSUME NEW B
    PROVE  IsFiniteSet(UnitsOf(B)) /\ Count(B) \in 0..HeapEnd
<1>0. HeapEnd \in Nat
  BY HeapSizeAssumption
<1>1. IsFiniteSet(0..(HeapEnd - 1)) /\ Cardinality(0..(HeapEnd - 1)) = HeapEnd
  BY <1>0, FS_Interval
<1>2. UnitsOf(B) \subseteq 0..(HeapEnd - 1)
  BY DEF UnitsOf
<1>3. IsFiniteSet(UnitsOf(B)) /\ Cardinality(UnitsOf(B)) <= Cardinality(0..(HeapEnd - 1))
  BY <1>1, <1>2, FS_Subset
<1>4. Cardinality(UnitsOf(B)) \in Nat
  BY <1>3, FS_CardinalityType
<1> QED BY <1>0, <1>1, <1>3, <1>4 DEF Count

\* A piece of the heap that is added to what is free adds its length.
LEMMA CountAdds ==
    ASSUME NEW B, NEW C, NEW lo \in 0..HeapEnd, NEW hi \in 0..HeapEnd, lo <= hi,
           UnitsOf(C) = UnitsOf(B) \cup (lo..(hi - 1)),
           UnitsOf(B) \cap (lo..(hi - 1)) = {}
    PROVE  Count(C) = Count(B) + (hi - lo)
<1>0. HeapEnd \in Nat /\ lo \in Int /\ hi \in Int
  BY HeapSizeAssumption
<1>1. IsFiniteSet(lo..(hi - 1)) /\ Cardinality(lo..(hi - 1)) = hi - lo
  <2>1. lo \in Int /\ hi - 1 \in Int
    BY <1>0
  <2>2. /\ IsFiniteSet(lo..(hi - 1))
        /\ Cardinality(lo..(hi - 1)) = IF lo > hi - 1 THEN 0 ELSE (hi - 1) - lo + 1
    BY <2>1, FS_Interval
  <2> QED BY <1>0, <2>2
<1>2. IsFiniteSet(UnitsOf(B)) /\ Count(B) \in Int
  BY <1>0, UnitsFinite
<1>3. Cardinality(UnitsOf(B) \cap (lo..(hi - 1))) = 0
  BY FS_EmptySet
<1>4. Cardinality(UnitsOf(B) \cup (lo..(hi - 1))) =
          Cardinality(UnitsOf(B)) + Cardinality(lo..(hi - 1))
            - Cardinality(UnitsOf(B) \cap (lo..(hi - 1)))
  BY <1>1, <1>2, FS_Union
<1> QED BY <1>0, <1>1, <1>2, <1>3, <1>4 DEF Count

\* pvPortMalloc takes the first n units of b, or all of it.
LEMMA AllocatedCount ==
    ASSUME NEW s, HB!TiledBy(s.free, s.used), NEW n \in 1..HeapEnd, NEW b \in s.free,
           HB!Units(b) >= n
    PROVE  LET given == IF HB!Units(b) - n > Spare THEN n ELSE HB!Units(b)
           IN  Count(HB!Allocated(s, n, b).free) = Count(s.free) - given
<1> DEFINE given == IF HB!Units(b) - n > Spare THEN n ELSE HB!Units(b)
           free == HB!Allocated(s, n, b).free
<1>0. /\ HeapEnd \in Nat /\ Spare \in Nat /\ n \in Nat
      /\ \A c \in s.free : c.lo \in 0..HeapEnd /\ c.hi \in 0..HeapEnd /\ c.lo < c.hi
      /\ \A c \in s.free : c # b => c.hi <= b.lo \/ b.hi <= c.lo
  BY HeapSizeAssumption, PieceFields DEF HB!TiledBy, Pieces, HB!Apart
<1>1. given \in Nat /\ b.lo + given \in 0..HeapEnd /\ b.lo + given <= b.hi
      /\ (~(HB!Units(b) - n > Spare) => b.lo + given = b.hi)
  BY <1>0 DEF HB!Units
<1>2. free = (s.free \ {b}) \cup
                (IF HB!Units(b) - n > Spare THEN {HB!Block(b.lo + given, b.hi)} ELSE {})
  BY DEF HB!Allocated
<1> HIDE DEF given, free
<1>3. \A x \in 0..(HeapEnd - 1) :
         (\E c \in free : c.lo <= x /\ x < c.hi) <=>
            \/ \E c \in s.free \ {b} : c.lo <= x /\ x < c.hi
            \/ b.lo + given <= x /\ x < b.hi
  <2>1. CASE HB!Units(b) - n > Spare
    <3> DEFINE rest == HB!Block(b.lo + given, b.hi)
    <3>1. rest.lo = b.lo + given /\ rest.hi = b.hi /\ free = (s.free \ {b}) \cup {rest}
      BY <1>2, <2>1 DEF HB!Block
    <3> HIDE DEF rest
    <3> QED BY <3>1
  <2>2. CASE ~(HB!Units(b) - n > Spare)
    <3>1. free = s.free \ {b} /\ \A x \in 0..(HeapEnd - 1) : ~(b.lo + given <= x /\ x < b.hi)
      BY <1>0, <1>1, <1>2, <2>2
    <3> QED BY <3>1
  <2> QED BY <2>1, <2>2
<1>4. \A x \in b.lo..(b.lo + given - 1) : x \in 0..(HeapEnd - 1) /\ b.lo <= x /\ x < b.hi
  BY <1>0, <1>1
<1>5. UnitsOf(s.free) = UnitsOf(free) \cup (b.lo..(b.lo + given - 1))
  <2>1. ASSUME NEW x \in UnitsOf(s.free)
        PROVE  x \in UnitsOf(free) \/ x \in b.lo..(b.lo + given - 1)
    <3>1. x \in 0..(HeapEnd - 1) /\ x \in Int
      BY <1>0 DEF UnitsOf
    <3>2. PICK c \in s.free : c.lo <= x /\ x < c.hi
      BY DEF UnitsOf
    <3>3. CASE c # b
      BY <1>3, <3>1, <3>2, <3>3 DEF UnitsOf
    <3>4. CASE c = b
      <4>1. b.lo + given <= x \/ x \in b.lo..(b.lo + given - 1)
        BY <1>0, <1>1, <3>1, <3>2, <3>4
      <4> QED BY <1>3, <3>1, <3>2, <3>4, <4>1 DEF UnitsOf
    <3> QED BY <3>3, <3>4
  <2>2. ASSUME NEW x \in UnitsOf(free) PROVE x \in UnitsOf(s.free)
    <3>1. x \in 0..(HeapEnd - 1) /\ x \in Int
      BY <1>0 DEF UnitsOf
    <3>2. \/ \E c \in s.free \ {b} : c.lo <= x /\ x < c.hi
          \/ b.lo + given <= x /\ x < b.hi
      BY <1>3, <3>1 DEF UnitsOf
    <3>3. b.lo + given <= x => b.lo <= x
      BY <1>0, <1>1, <3>1
    <3> QED BY <3>1, <3>2, <3>3 DEF UnitsOf
  <2>3. \A x \in b.lo..(b.lo + given - 1) : x \in UnitsOf(s.free)
    BY <1>4 DEF UnitsOf
  <2> QED BY <2>1, <2>2, <2>3
<1>6. UnitsOf(free) \cap (b.lo..(b.lo + given - 1)) = {}
  <2> SUFFICES ASSUME NEW x \in UnitsOf(free), x \in b.lo..(b.lo + given - 1) PROVE FALSE
    OBVIOUS
  <2>1. x \in 0..(HeapEnd - 1) /\ x \in Int /\ b.lo <= x /\ x < b.hi /\ x < b.lo + given
    BY <1>0, <1>1, <1>4
  <2>2. \E c \in s.free \ {b} : c.lo <= x /\ x < c.hi
    BY <1>0, <1>1, <1>3, <2>1 DEF UnitsOf
  <2>3. PICK c \in s.free \ {b} : c.lo <= x /\ x < c.hi
    BY <2>2
  <2>4. c.hi <= b.lo \/ b.hi <= c.lo
    BY <1>0
  <2> QED BY <1>0, <2>1, <2>3, <2>4
<1>7. Count(s.free) = Count(free) + given
  <2>1. b.lo \in 0..HeapEnd /\ b.lo <= b.lo + given /\ (b.lo + given) - b.lo = given
    BY <1>0, <1>1
  <2> QED BY <1>1, <1>5, <1>6, <2>1, CountAdds
<1>8. Count(free) \in Int
  BY <1>0, UnitsFinite
<1> QED BY <1>1, <1>7, <1>8 DEF free, given

\* vPortFree adds the units of b.
LEMMA ReleasedCount ==
    ASSUME NEW s, HB!TiledBy(s.free, s.used), NEW b \in s.used, NEW l, NEW r,
           LeftOf(s.free, b, l), RightOf(s.free, b, r)
    PROVE  Count(HB!Released(s, b, l, r).free) = Count(s.free) + HB!Units(b)
<1> DEFINE free == HB!Released(s, b, l, r).free
           new == HB!Block(l.lo, r.hi)
<1>0. /\ HeapEnd \in Nat /\ b \notin s.free
      /\ b.lo \in 0..HeapEnd /\ b.hi \in 0..HeapEnd /\ b.lo < b.hi
      /\ \A c \in s.free : c.lo \in 0..HeapEnd /\ c.hi \in 0..HeapEnd /\ c.lo < c.hi
      /\ \A c \in s.free : c.hi <= b.lo \/ b.hi <= c.lo
  <2>1. \A c \in s.free \cup s.used : c.lo \in 0..HeapEnd /\ c.hi \in 0..HeapEnd /\ c.lo < c.hi
    BY PieceFields DEF HB!TiledBy, Pieces
  <2>2. b \notin s.free /\ \A c \in s.free : c.hi <= b.lo \/ b.hi <= c.lo
    BY DEF HB!TiledBy, HB!Apart
  <2> QED BY <2>1, <2>2, HeapSizeAssumption
<1>1. /\ l.hi = b.lo /\ l.lo \in 0..HeapEnd /\ l.lo <= b.lo /\ (l \notin s.free => l.lo = b.lo)
      /\ r.lo = b.hi /\ r.hi \in 0..HeapEnd /\ b.hi <= r.hi /\ (r \notin s.free => r.hi = b.hi)
  BY <1>0 DEF LeftOf, RightOf, HB!Block
<1>2. free = (s.free \ {l, r}) \cup {new} /\ new.lo = l.lo /\ new.hi = r.hi
  BY DEF HB!Released, HB!Block
<1> HIDE DEF free, new
<1>3. UnitsOf(free) = UnitsOf(s.free) \cup (b.lo..(b.hi - 1))
  <2>1. ASSUME NEW x \in UnitsOf(free) PROVE x \in UnitsOf(s.free) \/ x \in b.lo..(b.hi - 1)
    <3>1. x \in 0..(HeapEnd - 1) /\ x \in Int
      BY <1>0 DEF UnitsOf
    <3>2. PICK c \in free : c.lo <= x /\ x < c.hi
      BY DEF UnitsOf
    <3>3. CASE c # new
      BY <1>2, <3>1, <3>2, <3>3 DEF UnitsOf
    <3>4. CASE c = new
      <4>1. l.lo <= x /\ x < r.hi
        BY <1>2, <3>2, <3>4
      <4>2. CASE x < b.lo
        <5>1. l \in s.free /\ x < l.hi
          BY <1>0, <1>1, <3>1, <4>1, <4>2
        <5> QED BY <3>1, <4>1, <5>1 DEF UnitsOf
      <4>3. CASE b.hi <= x
        <5>1. r \in s.free /\ r.lo <= x
          BY <1>0, <1>1, <3>1, <4>1, <4>3
        <5> QED BY <3>1, <4>1, <5>1 DEF UnitsOf
      <4> QED BY <1>0, <3>1, <4>2, <4>3
    <3> QED BY <3>3, <3>4
  <2>2. ASSUME NEW x \in UnitsOf(s.free) PROVE x \in UnitsOf(free)
    <3>1. x \in 0..(HeapEnd - 1) /\ x \in Int
      BY <1>0 DEF UnitsOf
    <3>2. PICK c \in s.free : c.lo <= x /\ x < c.hi
      BY DEF UnitsOf
    <3>3. CASE c \notin {l, r}
      BY <1>2, <3>1, <3>2, <3>3 DEF UnitsOf
    <3>4. CASE c \in {l, r}
      <4>1. new.lo <= x /\ x < new.hi
        BY <1>0, <1>1, <1>2, <3>1, <3>2, <3>4
      <4> QED BY <1>2, <3>1, <4>1 DEF UnitsOf
    <3> QED BY <3>3, <3>4
  <2>3. ASSUME NEW x \in b.lo..(b.hi - 1) PROVE x \in UnitsOf(free)
    <3>1. x \in 0..(HeapEnd - 1) /\ new.lo <= x /\ x < new.hi
      BY <1>0, <1>1, <1>2
    <3> QED BY <1>2, <3>1 DEF UnitsOf
  <2> QED BY <2>1, <2>2, <2>3
<1>4. UnitsOf(s.free) \cap (b.lo..(b.hi - 1)) = {}
  <2> SUFFICES ASSUME NEW x \in UnitsOf(s.free), x \in b.lo..(b.hi - 1) PROVE FALSE
    OBVIOUS
  <2>1. PICK c \in s.free : c.lo <= x /\ x < c.hi
    BY DEF UnitsOf
  <2> QED BY <1>0, <2>1
<1>5. Count(free) = Count(s.free) + (b.hi - b.lo)
  BY <1>0, <1>3, <1>4, CountAdds
<1> QED BY <1>5 DEF free, HB!Units

\* Blocks adds to the lower address what the header says.
LEMMA BlocksAre ==
    ASSUME NEW m \in Headers, NEW B, NEW U, Real(B \cup U), Listed(m, B), Sized(m, U)
    PROVE  /\ {BlockOf(m, a) : a \in FreeAddresses(m)} = B
           /\ {BlockOf(m, a) : a \in Los(U)} = U
<1>1. FreeAddresses(m) = Los(B)
  BY FreeAddressesAre DEF Listed
<1>2. ASSUME NEW b \in B \cup U PROVE BlockOf(m, b.lo) = b
  <2>1. b = [lo |-> b.lo, hi |-> b.hi] /\ b.lo \in Int /\ b.hi \in Int
    BY HeapSizeAssumption DEF Real, Pieces
  <2>2. m.size[b.lo] = b.hi - b.lo
    BY DEF Listed, Sized, HB!Units
  <2>3. b.lo + m.size[b.lo] = b.hi
    BY <2>1, <2>2
  <2> QED BY <2>1, <2>3 DEF BlockOf
<1>3. {BlockOf(m, a) : a \in Los(B)} = {BlockOf(m, b.lo) : b \in B}
      /\ {BlockOf(m, a) : a \in Los(U)} = {BlockOf(m, b.lo) : b \in U}
  BY DEF Los
<1>4. {BlockOf(m, b.lo) : b \in B} = B /\ {BlockOf(m, b.lo) : b \in U} = U
  BY <1>2
<1> QED BY <1>1, <1>3, <1>4

-----------------------------------------------------------------------------
(* The invariant *)

\* pvPortMalloc serves a request with the free block b.
Serves(b, bytes) ==
    b \in blocks.free /\ Wanted(bytes) \in 1..HeapEnd /\ HB!FirstFit(blocks, Wanted(bytes), b)

\* Between the calls headers, list and pointers are those of the blocks, and so
\* they stay until a call changes them.
Settled == Listed(h, blocks.free) /\ Given = Los(blocks.used) /\ h.free = Count(blocks.free)

Found(b, bytes) ==
    /\ Settled
    /\ \E prev \in Los(blocks.free) \cup {ListStart} :
          /\ h.next[prev] = b.lo
          /\ call = [at |-> "unlink", bytes |-> bytes, prev |-> prev, block |-> b.lo]

\* The block is in no list; its header says n units.
Unlinked(b, n) ==
    /\ Listed(h, blocks.free \ {b}) /\ h.size[b.lo] = n
    /\ Given = Los(blocks.used) /\ h.free = Count(blocks.free)

Unsplit(b, bytes) ==
    /\ Unlinked(b, HB!Units(b))
    /\ call = [at |-> "split", bytes |-> bytes, block |-> b.lo, return |-> b.lo]

\* The remainder has a header of its own, and is in no list either.
Cut(b, bytes) ==
    /\ Unlinked(b, Wanted(bytes)) /\ HB!Units(b) - Wanted(bytes) > Spare
    /\ h.size[b.lo + Wanted(bytes)] = HB!Units(b) - Wanted(bytes)
    /\ call = [at |-> "insert rest", bytes |-> bytes, block |-> b.lo, return |-> b.lo]

Taken(b, bytes) ==
    /\ LET new == HB!Allocated(blocks, Wanted(bytes), b)
       IN  Listed(h, new.free) /\ Sized(h, new.used)
    /\ Given = Los(blocks.used) /\ h.free = Count(blocks.free)
    /\ call = [at |-> "account", bytes |-> bytes, block |-> b.lo, return |-> b.lo]

Mallocing ==
    \E bytes \in Requests, b \in blocks.free :
       /\ Serves(b, bytes)
       /\ Found(b, bytes) \/ Unsplit(b, bytes) \/ Cut(b, bytes) \/ Taken(b, bytes)

\* A block that is counted as free and is in no list yet
Freeing ==
    \E b \in blocks.used :
       /\ Listed(h, blocks.free) /\ Given = Los(blocks.used \ {b})
       /\ h.free = Count(blocks.free) + HB!Units(b)
       /\ call = [at |-> "insert freed", block |-> b.lo]

\* Who holds what: each block given out has one holder, and is large enough.
Holders ==
    /\ owned \subseteq [at : Addresses, bytes : Requests]
    /\ \A o \in owned : /\ o.at \notin freeing
                        /\ Wanted(o.bytes) <= h.size[o.at]
                        /\ h.size[o.at] <= Wanted(o.bytes) + Spare
    /\ \A o, p \in owned : o.at = p.at => o = p

Core ==
    /\ h \in Headers /\ h.size[ListStart] = 0 /\ h.minEver <= h.free
    /\ HInv /\ Sized(h, blocks.used) /\ Holders

Phase == (call = NoCall /\ Settled) \/ Mallocing \/ Freeing

HeapInv == Core /\ Phase

LEMMA Tiling ==
    ASSUME HInv
    PROVE  /\ HB!TiledBy(blocks.free, blocks.used) /\ Joined(blocks.free)
           /\ blocks.free \cap blocks.used = {}
           /\ Real(blocks.free \cup blocks.used) /\ Separate(blocks.free \cup blocks.used)
<1>1. HB!TiledBy(blocks.free, blocks.used) /\ Joined(blocks.free)
  BY DEF HInv, HB!Tiled, HB!Coalesced, Joined
<1>2. /\ blocks.free \cap blocks.used = {}
      /\ \A b \in blocks.free \cup blocks.used : b \in [lo : 0..HeapEnd, hi : 0..HeapEnd] /\ b.lo < b.hi
      /\ \A b, c \in blocks.free \cup blocks.used : b # c => HB!Apart(b, c)
  BY <1>1 DEF HB!TiledBy
<1> QED BY <1>1, <1>2 DEF Real, Separate, Pieces

LEMMA PartOf ==
    ASSUME NEW B, NEW C, C \subseteq B, Real(B), Separate(B)
    PROVE  Real(C) /\ Separate(C)
  BY DEF Real, Separate

LEMMA Bounds ==
    ASSUME NEW B, Real(B), NEW b \in B
    PROVE  /\ b.lo \in 0..HeapEnd /\ b.hi \in 0..HeapEnd /\ b.lo < b.hi /\ b.lo \in 0..(HeapEnd - 1)
           /\ b.lo \in Addresses /\ b.lo \in Int /\ b.hi \in Int /\ b.lo # ListStart /\ b.lo # HeapEnd
           /\ HB!Units(b) \in 1..HeapEnd /\ HB!Units(b) = b.hi - b.lo /\ b = HB!Block(b.lo, b.hi)
<1>1. /\ b.lo \in 0..HeapEnd /\ b.hi \in 0..HeapEnd /\ b.lo < b.hi /\ b = HB!Block(b.lo, b.hi)
      /\ HB!Units(b) = b.hi - b.lo /\ HeapEnd \in Nat /\ ListStart = -1
  BY HeapSizeAssumption, PieceFields DEF Real, HB!Units, ListStart
<1>2. b.lo \in Addresses
  BY <1>1 DEF Addresses
<1> QED BY <1>1, <1>2

LEMMA LosMinus ==
    ASSUME NEW B, Real(B), Separate(B), NEW b \in B
    PROVE  Los(B \ {b}) = Los(B) \ {b.lo} /\ b.lo \in Los(B)
  BY LoUnique DEF Los

\* No other block begins inside b.
LEMMA Outside ==
    ASSUME NEW B, Real(B), Separate(B), NEW b \in B, NEW c \in B, c # b,
           NEW x \in Int, b.lo <= x, x < b.hi
    PROVE  c.lo # x
<1>1. b.lo \in Int /\ b.hi \in Int /\ c.lo \in Int /\ c.hi \in Int /\ c.lo < c.hi
  BY Bounds
<1>2. c.hi <= b.lo \/ b.hi <= c.lo
  BY DEF Separate, HB!Apart
<1> QED BY <1>1, <1>2

LEMMA WantedIs ==
    ASSUME NEW bytes \in Nat
    PROVE  /\ Wanted(bytes) \in Nat
           /\ Wanted(bytes) # 0 => Alignment * (Wanted(bytes) - 1) >= bytes
           /\ Wanted(bytes) = 0 => bytes = 0
<1>1. Alignment = 8
  BY DEF Alignment
<1>2. (bytes + 7) \div 8 \in Nat /\ 8 * ((bytes + 7) \div 8) >= bytes
  OBVIOUS
<1>3. bytes + Alignment - 1 = bytes + 7
  BY <1>1
<1> QED BY <1>1, <1>2, <1>3 DEF Wanted

LEMMA OwnedGiven ==
    ASSUME Holders
    PROVE  \A o \in owned : o.at \in Given /\ o.bytes \in Requests /\ o.at \in Addresses
  BY DEF Holders, Given

-----------------------------------------------------------------------------
(* pvPortMalloc *)

LEMMA FindInv ==
    ASSUME HeapInv, NEW bytes \in Requests, MallocFind(bytes),
           blocks' = blocks
    PROVE  HeapInv'
<1> DEFINE n == Wanted(bytes)
           prev == FirstFit(h, n)
           a == h.next[prev]
<1>0. /\ call = NoCall /\ h' = h /\ owned' = owned /\ freeing' = freeing
      /\ call' = [at |-> "unlink", bytes |-> bytes, prev |-> prev, block |-> a]
      /\ n # 0 /\ ~(n > h.free) /\ a # HeapEnd
  BY DEF MallocFind, MallocRefused
<1>1. h \in Headers /\ HInv
  BY DEF HeapInv, Core
<1>2. Settled
  <2>1. ~Mallocing
    BY <1>0 DEF Mallocing, NoCall, Found, Unsplit, Cut, Taken
  <2>2. ~Freeing
    BY <1>0 DEF Freeing, NoCall
  <2> QED BY <2>1, <2>2 DEF HeapInv, Phase
<1>3. Linked(h.next, Los(blocks.free)) /\ Sized(h, blocks.free)
  BY <1>2 DEF Settled, Listed
<1> DEFINE F == Los(blocks.free)
<1>4. /\ prev \in F \cup {ListStart} /\ (a = HeapEnd \/ (a \in F /\ h.size[a] >= n))
      /\ \A x \in F : h.size[x] >= n => a <= x
  BY <1>1, <1>3, FirstFitIs
<1> HIDE DEF prev, a
<1>5. PICK b \in blocks.free : b.lo = a
  BY <1>0, <1>4 DEF Los
<1>6. Serves(b, bytes)
  <2>1. n \in 1..HeapEnd
    <3>1. bytes \in Nat /\ h.free \in 0..HeapEnd /\ HeapEnd \in Nat
      BY <1>1, HeapSizeAssumption, Heap4Assumption DEF Headers
    <3>2. n \in Nat
      BY <3>1, WantedIs
    <3> HIDE DEF n
    <3> QED BY <1>0, <3>1, <3>2
  <2>2. \A c \in blocks.free : HB!Units(c) >= n => b.lo <= c.lo
    BY <1>3, <1>4, <1>5 DEF Sized, Los
  <2>3. HB!Units(b) >= n
    BY <1>0, <1>3, <1>4, <1>5 DEF Sized
  <2> QED BY <2>1, <2>2, <2>3 DEF Serves, HB!FirstFit
<1>7. h.next[prev] = b.lo
  BY <1>5 DEF a
<1>8. Found(b, bytes)'
  <2>1. Settled'
    BY <1>0, <1>2 DEF Settled, Given
  <2>2. call' = [at |-> "unlink", bytes |-> bytes, prev |-> prev, block |-> b.lo]
    BY <1>0, <1>5
  <2>3. prev \in Los(blocks.free)' \cup {ListStart} /\ h'.next[prev] = b.lo
    BY <1>0, <1>4, <1>7
  <2> QED BY <2>1, <2>2, <2>3 DEF Found
<1>9. Serves(b, bytes)' /\ b \in blocks'.free
  BY <1>5, <1>6 DEF Serves
<1>10. Mallocing'
  BY <1>8, <1>9 DEF Mallocing
<1>11. Core'
  BY <1>0 DEF HeapInv, Core, HInv, HB!Tiled, HB!Coalesced, Holders
<1> QED BY <1>10, <1>11 DEF HeapInv, Phase

\* What a call of pvPortMalloc knows between its steps
LEMMA PhaseAt ==
    /\ Freeing => call.at = "insert freed"
    /\ \A b, bytes : /\ Found(b, bytes) => call.at = "unlink"
                     /\ Unsplit(b, bytes) => call.at = "split"
                     /\ Cut(b, bytes) => call.at = "insert rest"
                     /\ Taken(b, bytes) => call.at = "account"
<1>1. ASSUME Freeing PROVE call.at = "insert freed"
  <2>1. PICK b \in blocks.used : call = [at |-> "insert freed", block |-> b.lo]
    BY <1>1 DEF Freeing
  <2> QED BY <2>1
<1>2. ASSUME NEW b, NEW bytes
      PROVE  /\ Found(b, bytes) => call.at = "unlink"
             /\ Unsplit(b, bytes) => call.at = "split"
             /\ Cut(b, bytes) => call.at = "insert rest"
             /\ Taken(b, bytes) => call.at = "account"
  <2>1. ASSUME Found(b, bytes) PROVE call.at = "unlink"
    <3>1. \E prev \in Los(blocks.free) \cup {ListStart} :
             call = [at |-> "unlink", bytes |-> bytes, prev |-> prev, block |-> b.lo]
      BY <2>1 DEF Found
    <3> QED BY <3>1
  <2>2. ASSUME Unsplit(b, bytes) PROVE call.at = "split"
    <3>1. call = [at |-> "split", bytes |-> bytes, block |-> b.lo, return |-> b.lo]
      BY <2>2 DEF Unsplit
    <3> QED BY <3>1
  <2>3. ASSUME Cut(b, bytes) PROVE call.at = "insert rest"
    <3>1. call = [at |-> "insert rest", bytes |-> bytes, block |-> b.lo, return |-> b.lo]
      BY <2>3 DEF Cut
    <3> QED BY <3>1
  <2>4. ASSUME Taken(b, bytes) PROVE call.at = "account"
    <3>1. call = [at |-> "account", bytes |-> bytes, block |-> b.lo, return |-> b.lo]
      BY <2>4 DEF Taken
    <3> QED BY <3>1
  <2> QED BY <2>1, <2>2, <2>3, <2>4
<1> QED BY <1>1, <1>2

LEMMA InMalloc ==
    ASSUME HeapInv, call.at \in {"unlink", "split", "insert rest", "account"}
    PROVE  /\ HInv /\ h \in Headers /\ h.size[ListStart] = 0
           /\ \E bytes \in Requests, b \in blocks.free :
                 /\ Serves(b, bytes)
                 /\ call.at = "unlink" => Found(b, bytes)
                 /\ call.at = "split" => Unsplit(b, bytes)
                 /\ call.at = "insert rest" => Cut(b, bytes)
                 /\ call.at = "account" => Taken(b, bytes)
<1>1. call # NoCall
  <2> SUFFICES ASSUME call = NoCall PROVE FALSE
    OBVIOUS
  <2>1. call.at = "idle"
    BY DEF NoCall
  <2> QED BY <2>1
<1>2. ~Freeing
  BY PhaseAt
<1>3. Mallocing
  BY <1>1, <1>2 DEF HeapInv, Phase
<1>4. PICK bytes \in Requests, b \in blocks.free :
         /\ Serves(b, bytes)
         /\ Found(b, bytes) \/ Unsplit(b, bytes) \/ Cut(b, bytes) \/ Taken(b, bytes)
  BY <1>3 DEF Mallocing
<1>6. HInv /\ h \in Headers /\ h.size[ListStart] = 0
  BY DEF HeapInv, Core
<1> QED BY <1>4, <1>6, PhaseAt

LEMMA UnlinkInv ==
    ASSUME HeapInv, MallocUnlink, blocks' = blocks
    PROVE  HeapInv'
<1>0. /\ call.at = "unlink" /\ owned' = owned /\ freeing' = freeing
  BY DEF MallocUnlink
<1>1. HInv /\ h \in Headers /\ h.size[ListStart] = 0
  BY <1>0, InMalloc
<1>2. PICK bytes \in Requests, b \in blocks.free : Serves(b, bytes) /\ Found(b, bytes)
  BY <1>0, InMalloc
<1>3. PICK prev \in Los(blocks.free) \cup {ListStart} :
         /\ h.next[prev] = b.lo
         /\ call = [at |-> "unlink", bytes |-> bytes, prev |-> prev, block |-> b.lo]
  BY <1>2 DEF Found
<1>4. /\ h' = [h EXCEPT !.next[prev] = h.next[b.lo]]
      /\ call' = [at |-> "split", bytes |-> bytes, block |-> b.lo, return |-> b.lo]
  BY <1>3 DEF MallocUnlink, UnlinkBlock
<1>5. /\ h.next \in [Addresses -> Pointers] /\ h.size \in [Addresses -> 0..HeapEnd]
      /\ h'.next = [h.next EXCEPT ![prev] = h.next[b.lo]] /\ h'.size = h.size
      /\ h'.free = h.free /\ h'.minEver = h.minEver /\ h'.allocated = h.allocated
      /\ h' = [h EXCEPT !.next = h'.next]
  BY <1>1, <1>4 DEF Headers
<1>6. Settled /\ Linked(h.next, Los(blocks.free)) /\ Sized(h, blocks.free)
  BY <1>2 DEF Found, Settled, Listed
<1>7. Real(blocks.free) /\ Separate(blocks.free)
  BY <1>1, Tiling, PartOf
<1>8. /\ b.lo \in Los(blocks.free) /\ Los(blocks.free \ {b}) = Los(blocks.free) \ {b.lo}
      /\ b.lo \in Addresses
  BY <1>7, LosMinus, Bounds
<1>9. Linked(h'.next, Los(blocks.free \ {b}))
  <2> DEFINE F == Los(blocks.free)
             a == b.lo
  <2>1. Linked([h.next EXCEPT ![prev] = h.next[a]], F \ {a})
    <3>1. /\ h.next \in [Addresses -> Pointers] /\ Linked(h.next, F) /\ a \in F
          /\ prev \in F \cup {ListStart} /\ h.next[prev] = a
      BY <1>3, <1>5, <1>6, <1>8
    <3> HIDE DEF F, a
    <3> QED BY <3>1, UnlinkedIs
  <2> QED BY <1>5, <1>8, <2>1
<1>10. h' \in Headers
  <2>1. h.next[b.lo] \in Pointers
    BY <1>5, <1>8
  <2>2. h'.next \in [Addresses -> Pointers]
    BY <1>5, <2>1
  <2> QED BY <1>1, <1>5, <2>2 DEF Headers
<1>11. Unsplit(b, bytes)'
  <2>1. Listed(h', blocks.free \ {b}) /\ h'.size[b.lo] = HB!Units(b)
    BY <1>5, <1>6, <1>9 DEF Listed, Sized
  <2>2. Given' = Los(blocks.used) /\ h'.free = Count(blocks.free)
    BY <1>0, <1>5, <1>6 DEF Settled, Given
  <2> QED BY <1>4, <2>1, <2>2 DEF Unsplit, Unlinked
<1>12. Mallocing'
  BY <1>2, <1>11 DEF Mallocing, Serves
<1>13. Core'
  <2>1. HInv'
    BY <1>1 DEF HInv, HB!Tiled, HB!Coalesced
  <2>2. Sized(h', blocks'.used) /\ Holders'
    BY <1>0, <1>5 DEF HeapInv, Core, Sized, Holders
  <2>3. h'.size[ListStart] = 0 /\ h'.minEver <= h'.free
    BY <1>1, <1>5 DEF HeapInv, Core
  <2> QED BY <1>10, <2>1, <2>2, <2>3 DEF Core
<1> QED BY <1>12, <1>13 DEF HeapInv, Phase

LEMMA SplitInv ==
    ASSUME HeapInv, MallocSplit, blocks' = blocks
    PROVE  HeapInv'
<1>0. /\ call.at = "split" /\ owned' = owned /\ freeing' = freeing
  BY DEF MallocSplit
<1>1. HInv /\ h \in Headers /\ h.size[ListStart] = 0
  BY <1>0, InMalloc
<1>2. PICK bytes \in Requests, b \in blocks.free : Serves(b, bytes) /\ Unsplit(b, bytes)
  BY <1>0, InMalloc
<1> DEFINE n == Wanted(bytes)
           a == b.lo
<1>3. /\ call = [at |-> "split", bytes |-> bytes, block |-> a, return |-> a]
      /\ Listed(h, blocks.free \ {b}) /\ h.size[a] = HB!Units(b)
      /\ Given = Los(blocks.used) /\ h.free = Count(blocks.free)
  BY <1>2 DEF Unsplit, Unlinked
<1>4. n \in 1..HeapEnd /\ HB!Units(b) >= n /\ n \in Int /\ HeapEnd \in Nat /\ Spare \in Nat
  BY <1>2, HeapSizeAssumption DEF Serves, HB!FirstFit
<1>5. /\ a \in Int /\ a \in Addresses /\ a \in 0..(HeapEnd - 1) /\ b.hi \in 0..HeapEnd
      /\ HB!Units(b) = b.hi - a /\ HB!Units(b) \in 1..HeapEnd /\ ListStart = -1
  BY <1>1, Tiling, Bounds DEF ListStart
<1>6. HInv'
  BY <1>1 DEF HInv, HB!Tiled, HB!Coalesced
<1>7. Serves(b, bytes)' /\ b \in blocks'.free
  BY <1>2 DEF Serves
<1>8. CASE HB!Units(b) - n > Spare
  <2>1. /\ h' = Split(h, a, n)
        /\ call' = [at |-> "insert rest", bytes |-> bytes, block |-> a, return |-> a]
    <3>1. Splits(h, call.block, Wanted(call.bytes)) /\ call.block = a /\ call.bytes = bytes
      BY <1>3, <1>8 DEF Splits
    <3>2. h' = Split(h, a, n) /\ call' = [call EXCEPT !.at = "insert rest"]
      BY <3>1 DEF MallocSplit
    <3> QED BY <1>3, <3>2
  <2>2. h' = [h EXCEPT !.size = [[h.size EXCEPT ![a] = n] EXCEPT ![a + n] = h.size[a] - n]]
    BY <1>1, <2>1 DEF Split, Headers
  <2>3. /\ a + n \in Int /\ a + n # a /\ a < a + n /\ a + n < b.hi /\ a + n \in Addresses
        /\ h.size[a] - n \in 0..HeapEnd /\ n \in 0..HeapEnd
    <3>1. a + n \in Int /\ a + n # a /\ a < a + n /\ a + n < b.hi
          /\ h.size[a] - n \in 0..HeapEnd /\ n \in 0..HeapEnd
      BY <1>3, <1>4, <1>5, <1>8
    <3>2. a + n \in 0..HeapEnd
      BY <1>4, <1>5, <3>1
    <3> QED BY <1>5, <3>1, <3>2 DEF Addresses
  <2>4. h.size \in [Addresses -> 0..HeapEnd]
    BY <1>1 DEF Headers
  <2> HIDE DEF n, a
  <2>5. /\ h'.size = [[h.size EXCEPT ![a] = n] EXCEPT ![a + n] = h.size[a] - n]
        /\ h'.next = h.next /\ h'.free = h.free /\ h'.minEver = h.minEver
        /\ h'.allocated = h.allocated
    BY <1>1, <2>2 DEF Headers
  <2>6. h'.size \in [Addresses -> 0..HeapEnd]
    BY <2>3, <2>4, <2>5
  <2>7. /\ h'.size[a] = n /\ h'.size[a + n] = HB!Units(b) - n
        /\ \A x \in Addresses : x # a /\ x # a + n => h'.size[x] = h.size[x]
    BY <1>3, <1>5, <2>3, <2>4, <2>5 DEF a
  <2>8. h' \in Headers
    BY <1>1, <2>2, <2>5, <2>6 DEF Headers
  <2>9. ASSUME NEW c \in blocks.free \cup blocks.used, c # b
        PROVE  h'.size[c.lo] = h.size[c.lo]
    <3>1. c.lo # a /\ c.lo # a + n
      <4>1. b.lo <= a /\ a < b.hi /\ b.lo <= a + n
        BY <1>5, <2>3 DEF a
      <4> QED BY <1>1, <1>5, <2>3, <2>9, <4>1, Tiling, Outside
    <3>2. c.lo \in Addresses
      BY <1>1, Tiling, Bounds
    <3> QED BY <2>7, <3>1, <3>2
  <2>10. Cut(b, bytes)'
    <3>1. Listed(h', blocks.free \ {b})
      BY <1>3, <2>5, <2>9 DEF Listed, Sized
    <3>2. Given' = Los(blocks.used) /\ h'.free = Count(blocks.free)
      BY <1>0, <1>3, <2>5 DEF Given
    <3> QED BY <1>8, <2>1, <2>7, <3>1, <3>2 DEF Cut, Unlinked, n, a
  <2>11. Sized(h', blocks.used)
    <3>1. b \notin blocks.used
      BY <1>1, Tiling
    <3> QED BY <2>9, <3>1 DEF HeapInv, Core, Sized
  <2>12. Holders'
    <3>1. \A o \in owned : h'.size[o.at] = h.size[o.at]
      <4> SUFFICES ASSUME NEW o \in owned PROVE h'.size[o.at] = h.size[o.at]
        OBVIOUS
      <4>1. o.at \in Los(blocks.used)
        BY <1>3, OwnedGiven DEF HeapInv, Core
      <4>2. PICK u \in blocks.used : u.lo = o.at
        BY <4>1 DEF Los
      <4>3. u # b
        BY <1>1, Tiling
      <4> QED BY <2>9, <4>2, <4>3
    <3> QED BY <1>0, <3>1 DEF HeapInv, Core, Holders
  <2>13. h'.size[ListStart] = 0
    <3>1. ListStart \in Addresses /\ ListStart # a /\ ListStart # a + n
      BY <1>4, <1>5, <2>3 DEF Addresses, a
    <3> QED BY <1>1, <2>7, <3>1
  <2>14. Core'
    BY <1>6, <2>5, <2>8, <2>11, <2>12, <2>13 DEF HeapInv, Core
  <2> QED BY <1>7, <2>10, <2>14 DEF HeapInv, Phase, Mallocing
<1>9. CASE ~(HB!Units(b) - n > Spare)
  <2>1. /\ h' = h
        /\ call' = [at |-> "account", bytes |-> bytes, block |-> a, return |-> a]
    <3>1. ~Splits(h, call.block, Wanted(call.bytes))
      BY <1>3, <1>9 DEF Splits
    <3>2. h' = h /\ call' = [call EXCEPT !.at = "account"]
      BY <3>1 DEF MallocSplit
    <3> QED BY <1>3, <3>2
  <2>2. /\ HB!Allocated(blocks, n, b).free = blocks.free \ {b}
        /\ HB!Allocated(blocks, n, b).used = blocks.used \cup {b}
    BY <1>9 DEF HB!Allocated
  <2>3. Listed(h, blocks.free \ {b}) /\ Sized(h, blocks.used \cup {b})
    BY <1>3 DEF HeapInv, Core, Sized
  <2>4. Taken(b, bytes)'
    BY <1>0, <1>3, <2>1, <2>2, <2>3 DEF Taken, Given
  <2>5. Core'
    BY <1>0, <1>6, <2>1 DEF HeapInv, Core, Holders
  <2> QED BY <1>7, <2>4, <2>5 DEF HeapInv, Phase, Mallocing
<1> QED BY <1>8, <1>9

LEMMA InsertRestInv ==
    ASSUME HeapInv, MallocInsertRest, blocks' = blocks
    PROVE  HeapInv'
<1>0. /\ call.at = "insert rest" /\ owned' = owned /\ freeing' = freeing
  BY DEF MallocInsertRest
<1>1. HInv /\ h \in Headers /\ h.size[ListStart] = 0
  BY <1>0, InMalloc
<1>2. PICK bytes \in Requests, b \in blocks.free : Serves(b, bytes) /\ Cut(b, bytes)
  BY <1>0, InMalloc
<1> DEFINE n == Wanted(bytes)
           B == blocks.free \ {b}
           x == HB!Block(b.lo + n, b.hi)
           m2 == InsertBlock(h, x.lo)
<1>3. /\ call = [at |-> "insert rest", bytes |-> bytes, block |-> b.lo, return |-> b.lo]
      /\ Listed(h, B) /\ h.size[b.lo] = n
      /\ HB!Units(b) - n > Spare /\ h.size[b.lo + n] = HB!Units(b) - n
      /\ Given = Los(blocks.used) /\ h.free = Count(blocks.free)
  BY <1>2 DEF Cut, Unlinked
<1>4. n \in 1..HeapEnd /\ n \in Int /\ HeapEnd \in Nat /\ Spare \in Nat /\ ListStart = -1
  BY <1>2, HeapSizeAssumption DEF Serves, ListStart
<1>5. /\ b.lo \in Int /\ b.hi \in Int /\ b.lo \in 0..HeapEnd /\ b.hi \in 0..HeapEnd /\ b.lo # ListStart
      /\ HB!Units(b) = b.hi - b.lo /\ b.lo \in Addresses /\ b \notin blocks.used
  BY <1>1, Tiling, Bounds
<1>6. x.lo = b.lo + n /\ x.hi = b.hi
  BY DEF HB!Block
<1> HIDE DEF n, x
<1>7. /\ x.lo \in 0..HeapEnd /\ x.hi \in 0..HeapEnd /\ x.lo < x.hi /\ b.lo < x.lo /\ x.lo \in Int
      /\ HB!Units(x) = HB!Units(b) - n
  <2>1. HB!Units(x) = x.hi - x.lo
    BY DEF HB!Units
  <2>2. x.lo \in Int /\ b.lo < x.lo /\ x.lo < x.hi /\ x.hi \in 0..HeapEnd
    <3>1. HB!Units(b) - n > Spare
      BY <1>3
    <3>2. b.lo + n < b.hi /\ b.lo < b.lo + n /\ b.lo + n \in Int
      BY <1>4, <1>5, <3>1
    <3> QED BY <1>5, <1>6, <3>2
  <2>3. x.lo \in 0..HeapEnd
    BY <1>4, <1>5, <2>2
  <2> QED BY <1>4, <1>5, <1>6, <2>1, <2>2, <2>3
<1>8. x \in Pieces /\ x = HB!Block(x.lo, x.hi)
  BY <1>5, <1>6, <1>7 DEF x, HB!Block, Pieces
<1>9. Real(B) /\ Separate(B) /\ Joined(B) /\ Real(blocks.free) /\ Separate(blocks.free)
  <2>1. Real(blocks.free) /\ Separate(blocks.free) /\ Joined(blocks.free)
    BY <1>1, Tiling, PartOf
  <2> QED BY <2>1 DEF Real, Separate, Joined
<1>10. \A c \in B : /\ c.lo \in Int /\ c.hi \in Int /\ c.lo < c.hi
                    /\ (c.hi <= b.lo \/ b.hi <= c.lo) /\ c.lo # b.hi
  <2> SUFFICES ASSUME NEW c \in B
               PROVE  /\ c.lo \in Int /\ c.hi \in Int /\ c.lo < c.hi
                      /\ (c.hi <= b.lo \/ b.hi <= c.lo) /\ c.lo # b.hi
    OBVIOUS
  <2>1. c.lo \in Int /\ c.hi \in Int /\ c.lo < c.hi
    BY <1>9, Bounds
  <2>2. c.hi <= b.lo \/ b.hi <= c.lo
    BY <1>9 DEF Separate, HB!Apart
  <2>3. c.lo # b.hi
    BY <1>1, Tiling DEF Joined
  <2> QED BY <2>1, <2>2, <2>3
<1>11. \A c \in B : HB!Apart(c, x)
  BY <1>5, <1>6, <1>7, <1>10 DEF HB!Apart
<1>12. PICK l, r : /\ LeftOf(B, x, l) /\ RightOf(B, x, r)
                   /\ Listed(m2, (B \ {l, r}) \cup {HB!Block(l.lo, r.hi)})
                   /\ Inserted(h, m2, B, x)
  <2>1. h.size[x.lo] = HB!Units(x)
    BY <1>3, <1>6, <1>7
  <2> HIDE DEF B
  <2> QED BY <1>1, <1>3, <1>7, <1>8, <1>9, <1>11, <2>1, InsertedIs
\* nothing that is free touches the remainder
<1>13. (B \ {l, r}) \cup {HB!Block(l.lo, r.hi)} = B \cup {x}
  <2>1. l = HB!Block(x.lo, x.lo)
    <3>1. \A c \in B : c.hi # x.lo
      BY <1>5, <1>6, <1>7, <1>10
    <3> QED BY <1>12, <3>1 DEF LeftOf
  <2>2. r = HB!Block(x.hi, x.hi)
    <3>1. \A c \in B : c.lo # x.hi
      BY <1>6, <1>10
    <3> QED BY <1>12, <3>1 DEF RightOf
  <2>3. l.lo = x.lo /\ l.hi = x.lo /\ r.lo = x.hi /\ r.hi = x.hi
    BY <2>1, <2>2 DEF HB!Block
  <2>4. \A c \in B : c.lo # c.hi
    BY <1>10
  <2>5. l \notin B /\ r \notin B
    BY <2>3, <2>4
  <2> HIDE DEF B
  <2> QED BY <1>8, <2>3, <2>5
<1>14. /\ h' = m2
       /\ call' = [at |-> "account", bytes |-> bytes, block |-> b.lo, return |-> b.lo]
  <2>1. call.block + Wanted(call.bytes) = x.lo
    BY <1>3, <1>6 DEF n
  <2>2. h' = InsertBlock(h, x.lo) /\ call' = [call EXCEPT !.at = "account"]
    BY <2>1 DEF MallocInsertRest
  <2> QED BY <1>3, <2>2
<1> HIDE DEF m2
<1>15. /\ h' = [h EXCEPT !.next = h'.next, !.size = h'.size]
       /\ h'.next \in [Addresses -> Pointers] /\ h'.size \in [Addresses -> 0..HeapEnd]
       /\ \A y \in Addresses : y \notin Los(B) \cup {x.lo} => h'.size[y] = h.size[y]
  BY <1>12, <1>14 DEF Inserted
<1>16. h' \in Headers /\ h'.free = h.free /\ h'.minEver = h.minEver
  <2> HIDE DEF B
  <2> QED BY <1>1, <1>15 DEF Headers
<1>17. Listed(h', B \cup {x})
  BY <1>12, <1>13, <1>14
\* the sizes of the blocks in use, and of the one that is given
<1>18. ASSUME NEW u \in blocks.used \cup {b} PROVE h'.size[u.lo] = h.size[u.lo]
  <2>1. u \in blocks.free \cup blocks.used /\ u.lo \in Addresses
    BY <1>1, <1>5, Tiling, Bounds
  <2>2. u.lo # x.lo
    <3>1. CASE u = b
      BY <1>5, <1>7, <3>1
    <3>2. CASE u # b
      <4>1. b.lo <= x.lo /\ x.lo < b.hi
        BY <1>5, <1>6, <1>7
      <4> QED BY <1>1, <1>7, <2>1, <3>2, <4>1, Tiling, Outside
    <3> QED BY <3>1, <3>2
  <2>3. \A c \in B : c.lo # u.lo
    <3> SUFFICES ASSUME NEW c \in B, c.lo = u.lo PROVE FALSE
      OBVIOUS
    <3>1. c = u
      BY <1>1, <2>1, Tiling, LoUnique
    <3> QED BY <1>1, <3>1, Tiling
  <2>4. u.lo \notin Los(B) \cup {x.lo}
    BY <2>2, <2>3 DEF Los
  <2> QED BY <1>15, <2>1, <2>4
<1>19. Taken(b, bytes)'
  <2> DEFINE given == HB!Block(b.lo, b.lo + n)
  <2>1. /\ HB!Allocated(blocks, n, b).free = B \cup {x}
        /\ HB!Allocated(blocks, n, b).used = blocks.used \cup {given}
    BY <1>3 DEF HB!Allocated, x
  <2>2. given.lo = b.lo /\ HB!Units(given) = n
    BY <1>4, <1>5 DEF HB!Block, HB!Units
  <2>3. Sized(h', blocks.used \cup {given})
    <3>1. Sized(h, blocks.used)
      BY DEF HeapInv, Core
    <3> HIDE DEF given
    <3> QED BY <1>3, <1>18, <2>2, <3>1 DEF Sized
  <2>4. Given' = Los(blocks.used) /\ h'.free = Count(blocks.free)
    BY <1>0, <1>3, <1>16 DEF Given
  <2> HIDE DEF B
  <2> QED BY <1>14, <1>17, <2>1, <2>3, <2>4 DEF Taken, n
<1>20. Core'
  <2>1. HInv'
    BY <1>1 DEF HInv, HB!Tiled, HB!Coalesced
  <2>2. Sized(h', blocks.used)
    BY <1>18 DEF HeapInv, Core, Sized
  <2>3. Holders'
    <3>1. \A o \in owned : h'.size[o.at] = h.size[o.at]
      <4> SUFFICES ASSUME NEW o \in owned PROVE h'.size[o.at] = h.size[o.at]
        OBVIOUS
      <4>1. PICK u \in blocks.used : u.lo = o.at
        BY <1>3, OwnedGiven DEF HeapInv, Core, Los
      <4> QED BY <1>18, <4>1
    <3> QED BY <1>0, <3>1 DEF HeapInv, Core, Holders
  <2>4. h'.size[ListStart] = 0
    <3>1. ListStart \in Addresses
      BY <1>4 DEF Addresses
    <3>2. \A c \in B : c.lo # ListStart
      BY <1>9, Bounds
    <3>3. ListStart \notin Los(B) \cup {x.lo}
      BY <1>4, <1>7, <3>2 DEF Los
    <3> QED BY <1>1, <1>15, <3>1, <3>3
  <2> QED BY <1>16, <2>1, <2>2, <2>3, <2>4 DEF HeapInv, Core
<1>21. Mallocing'
  BY <1>2, <1>19 DEF Mallocing, Serves
<1> QED BY <1>20, <1>21 DEF HeapInv, Phase

\* Core and the contents of blocks, when a call is over and blocks is taken anew
LEMMA SettledInv ==
    ASSUME NEW m \in Headers, m.size[ListStart] = 0, m.minEver <= m.free, h' = m,
           NEW new, new = [free |-> new.free, used |-> new.used],
           Real(new.free \cup new.used), Listed(m, new.free), Sized(m, new.used),
           m.free = Count(new.free), Given' = Los(new.used), call' = NoCall,
           blocks' = Blocks', Holders',
           blocks' = new => HInv'
    PROVE  HeapInv' /\ blocks' = new
<1>1. /\ {BlockOf(m, a) : a \in FreeAddresses(m)} = new.free
      /\ {BlockOf(m, a) : a \in Los(new.used)} = new.used
  BY BlocksAre
<1>2. Blocks' = [free |-> {BlockOf(m, a) : a \in FreeAddresses(m)},
                 used |-> {BlockOf(m, a) : a \in Los(new.used)}]
  BY DEF Blocks
<1>3. blocks' = new
  BY <1>1, <1>2
<1>4. Settled' /\ Core'
  BY <1>3 DEF Settled, Core
<1> QED BY <1>3, <1>4 DEF HeapInv, Phase

LEMMA AccountInv ==
    ASSUME HeapInv, MallocAccount, blocks' = Blocks'
    PROVE  HeapInv' /\ blocks' \in HB!Mallocs(blocks)
<1>0. /\ call.at = "account" /\ freeing' = freeing /\ call' = NoCall
      /\ owned' = owned \cup {[at |-> call.return, bytes |-> call.bytes]}
      /\ h' = Account(h, call.block)
  BY DEF MallocAccount
<1>1. HInv /\ h \in Headers /\ h.size[ListStart] = 0
  BY <1>0, InMalloc
<1>2. PICK bytes \in Requests, b \in blocks.free : Serves(b, bytes) /\ Taken(b, bytes)
  BY <1>0, InMalloc
<1> DEFINE n == Wanted(bytes)
           new == HB!Allocated(blocks, n, b)
           given == IF HB!Units(b) - n > Spare THEN n ELSE HB!Units(b)
           a == b.lo
<1>3. /\ call = [at |-> "account", bytes |-> bytes, block |-> a, return |-> a]
      /\ Listed(h, new.free) /\ Sized(h, new.used)
      /\ Given = Los(blocks.used) /\ h.free = Count(blocks.free)
  BY <1>2 DEF Taken
<1>4. /\ n \in 1..HeapEnd /\ HB!FirstFit(blocks, n, b) /\ HB!Units(b) >= n
      /\ HeapEnd \in Nat /\ Spare \in Nat /\ ListStart = -1
  BY <1>2, HeapSizeAssumption DEF Serves, HB!FirstFit, ListStart
<1> HIDE DEF n
<1>5. /\ a \in Int /\ b.hi \in Int /\ a \in 0..HeapEnd /\ b.hi \in 0..HeapEnd /\ a # ListStart /\ a # HeapEnd
      /\ HB!Units(b) = b.hi - a /\ HB!Units(b) \in 1..HeapEnd /\ a \in Addresses
      /\ b \notin blocks.used /\ HB!Block(a, b.hi) = b
  BY <1>1, Tiling, Bounds
<1>6. new \in HB!Mallocs(blocks)
  BY <1>2, <1>4 DEF HB!Mallocs
<1>7. new = [free |-> new.free, used |-> new.used]
      /\ Count(new.free) = Count(blocks.free) - given
  <2>1. new = [free |-> new.free, used |-> new.used]
    BY DEF HB!Allocated
  <2> HIDE DEF new, given
  <2>2. HB!TiledBy(blocks.free, blocks.used)
    BY <1>1, Tiling
  <2>3. Count(HB!Allocated(blocks, n, b).free) = Count(blocks.free) - given
    BY <1>4, <2>2, AllocatedCount DEF given
  <2> QED BY <2>1, <2>3 DEF new
\* the block that is given
<1> DEFINE mine == HB!Block(a, a + given)
<1>8. given \in 1..HeapEnd /\ a + given <= b.hi /\ n <= given /\ given <= n + Spare
  BY <1>4, <1>5
<1>9. new.used = blocks.used \cup {mine} /\ mine.lo = a /\ HB!Units(mine) = given
  <2>1. HB!Units(b) - n > Spare => new.used = blocks.used \cup {mine}
    BY DEF HB!Allocated
  <2>2. ~(HB!Units(b) - n > Spare) => new.used = blocks.used \cup {mine}
    <3> SUFFICES ASSUME ~(HB!Units(b) - n > Spare) PROVE new.used = blocks.used \cup {mine}
      OBVIOUS
    <3>1. new.used = blocks.used \cup {b} /\ given = HB!Units(b)
      BY DEF HB!Allocated
    <3>2. a + given = b.hi
      BY <1>5, <3>1
    <3> QED BY <1>5, <3>1, <3>2
  <2>3. mine.lo = a /\ mine.hi = a + given
    BY DEF HB!Block
  <2>4. HB!Units(mine) = given
    BY <1>5, <1>8, <2>3 DEF HB!Units
  <2> QED BY <2>1, <2>2, <2>3, <2>4
<1>10. \A c \in new.free : c.lo # a
  <2>1. \A c \in blocks.free \ {b} : c.lo # a
    BY <1>1, Tiling, PartOf, LoUnique
  <2>2. HB!Units(b) - n > Spare => a + n # a
    BY <1>4, <1>5
  <2> QED BY <2>1, <2>2 DEF HB!Allocated, HB!Block
<1>11. h.size[a] = given
  BY <1>3, <1>9 DEF Sized
<1> HIDE DEF new, given, mine
<1>12. /\ h' = [h EXCEPT !.free = h.free - given,
                         !.minEver = IF h.free - given < h.minEver THEN h.free - given
                                     ELSE h.minEver,
                         !.allocated = h.allocated \cup {a},
                         !.next = [h.next EXCEPT ![a] = Null]]
  BY <1>0, <1>1, <1>3, <1>11 DEF Account, Headers
<1>13. /\ h'.free = h.free - given /\ h'.size = h.size /\ h'.allocated = h.allocated \cup {a}
       /\ h'.next = [h.next EXCEPT ![a] = Null]
       /\ h'.minEver = IF h.free - given < h.minEver THEN h.free - given ELSE h.minEver
  BY <1>1, <1>12 DEF Headers
<1>14. h'.free = Count(new.free) /\ h'.free \in 0..HeapEnd
  BY <1>3, <1>7, <1>13, UnitsFinite
<1>15. h' \in Headers /\ h'.minEver <= h'.free
  <2>1. /\ h.next \in [Addresses -> Pointers] /\ h.minEver \in 0..HeapEnd /\ h.free \in 0..HeapEnd
        /\ h.allocated \subseteq Addresses /\ h.size \in [Addresses -> 0..HeapEnd]
    BY <1>1 DEF Headers
  <2>2. h'.next \in [Addresses -> Pointers]
    BY <1>13, <2>1 DEF Pointers
  <2>3. h'.minEver \in 0..HeapEnd /\ h'.minEver <= h'.free
    <3>1. h.minEver <= h.free
      BY DEF HeapInv, Core
    <3> QED BY <1>4, <1>8, <1>13, <1>14, <2>1, <3>1
  <2>4. h'.allocated \subseteq Addresses
    BY <1>5, <1>13, <2>1
  <2> QED BY <1>1, <1>12, <1>13, <1>14, <2>1, <2>2, <2>3, <2>4 DEF Headers
<1>16. Listed(h', new.free) /\ Sized(h', new.used)
  <2>1. \A x \in Los(new.free) \cup {ListStart, HeapEnd} : h'.next[x] = h.next[x]
    <3>1. Los(new.free) \cup {ListStart, HeapEnd} \subseteq Addresses
      BY <1>3, <1>4 DEF Listed, Linked, Addresses
    <3>2. \A x \in Los(new.free) \cup {ListStart, HeapEnd} : x # a
      BY <1>5, <1>10 DEF Los
    <3> QED BY <1>1, <1>13, <3>1, <3>2 DEF Headers
  <2>2. Linked(h'.next, Los(new.free))
    BY <1>3, <2>1, LinkedSame DEF Listed
  <2> QED BY <1>3, <1>13, <2>2 DEF Listed, Sized
<1> DEFINE o == [at |-> a, bytes |-> bytes]
<1>17. owned' = owned \cup {o} /\ o.at = a /\ o.bytes = bytes
  BY <1>0, <1>3
<1>18. Given' = Los(new.used)
  <2>1. Given' = Given \cup {a}
    BY <1>0, <1>17 DEF Given
  <2> QED BY <1>3, <1>9, <2>1 DEF Los
<1>19. Holders'
  <2>1. a \notin Given
    <3> SUFFICES ASSUME NEW u \in blocks.used, u.lo = a PROVE FALSE
      BY <1>3 DEF Los
    <3>1. u = b
      BY <1>1, Tiling, LoUnique
    <3> QED BY <1>5, <3>1
  <2>2. \A p \in owned : p.at # a
    BY <2>1, OwnedGiven DEF HeapInv, Core
  <2>3. a \notin freeing
    BY <2>1 DEF Given
  <2>4. owned' \subseteq [at : Addresses, bytes : Requests]
    BY <1>2, <1>5, <1>17 DEF HeapInv, Core, Holders
  <2>5. ASSUME NEW p \in owned'
        PROVE  /\ p.at \notin freeing' /\ Wanted(p.bytes) <= h'.size[p.at]
               /\ h'.size[p.at] <= Wanted(p.bytes) + Spare
    <3>1. CASE p \in owned
      BY <1>0, <1>13, <3>1 DEF HeapInv, Core, Holders
    <3>2. CASE p = o
      BY <1>0, <1>8, <1>11, <1>13, <2>3, <3>2 DEF n
    <3> QED BY <1>17, <3>1, <3>2
  <2>6. ASSUME NEW p \in owned', NEW q \in owned', p.at = q.at PROVE p = q
    <3>1. CASE p \in owned /\ q \in owned
      BY <2>6, <3>1 DEF HeapInv, Core, Holders
    <3>2. CASE p = o \/ q = o
      BY <1>17, <2>2, <2>6, <3>2
    <3> QED BY <1>17, <3>1, <3>2
  <2> HIDE DEF o
  <2> QED BY <2>4, <2>5, <2>6 DEF Holders
<1>20. blocks' = new => HInv'
  BY <1>1, <1>6, MallocInv
<1>21. Real(new.free \cup new.used)
  <2>1. HB!TiledBy(new.free, new.used)
    <3>1. HB!TiledBy(blocks.free, blocks.used) 
      BY <1>1, Tiling
    <3>2. CASE HB!Units(b) - n > Spare
      BY <1>4, <3>1, <3>2, AllocatedTiles DEF new, HB!Allocated
    <3>3. CASE ~(HB!Units(b) - n > Spare)
      <4>1. new.free = blocks.free \ {b} /\ new.used = blocks.used \cup {b}
        BY <3>3 DEF new, HB!Allocated
      <4>2. new.free \cup new.used = blocks.free \cup blocks.used
        BY <4>1
      <4> QED BY <1>5, <3>1, <4>1, <4>2 DEF HB!TiledBy
    <3> QED BY <3>2, <3>3
  <2> QED BY <2>1 DEF HB!TiledBy, Real, Pieces
<1>22. h'.size[ListStart] = 0
  BY <1>1, <1>13
<1>23. HeapInv' /\ blocks' = new
  BY <1>0, <1>7, <1>14, <1>15, <1>16, <1>18, <1>19, <1>20, <1>21, <1>22, SettledInv
<1> QED BY <1>6, <1>23

-----------------------------------------------------------------------------
(* vPortFree *)

LEMMA AtRest ==
    ASSUME HeapInv, call = NoCall
    PROVE  /\ Settled /\ HInv /\ h \in Headers /\ h.size[ListStart] = 0 /\ h.minEver <= h.free
           /\ Linked(h.next, Los(blocks.free)) /\ Holders
           /\ Sized(h, blocks.free) /\ Sized(h, blocks.used)
<1>1. call.at = "idle"
  BY DEF NoCall
<1>2. ~Freeing /\ ~Mallocing
  BY <1>1, PhaseAt DEF Mallocing
<1>4. Settled
  BY <1>2 DEF HeapInv, Phase
<1> QED BY <1>4 DEF HeapInv, Core, Settled, Listed

\* The block b, counted as free, is inserted: one step of HeapBlocks.
LEMMA FreedIs ==
    ASSUME HInv, NEW m \in Headers, m.size[ListStart] = 0, NEW b \in blocks.used,
           Listed(m, blocks.free), Sized(m, blocks.used),
           m.free = Count(blocks.free) + HB!Units(b)
    PROVE  LET m2 == InsertBlock(m, b.lo)
           IN  /\ m2 \in Headers /\ m2.size[ListStart] = 0
               /\ m2.free = m.free /\ m2.minEver = m.minEver
               /\ \A u \in blocks.used \ {b} : m2.size[u.lo] = m.size[u.lo]
               /\ \E new \in HB!Frees(blocks) :
                     /\ new = [free |-> new.free, used |-> blocks.used \ {b}]
                     /\ Real(new.free \cup new.used)
                     /\ Listed(m2, new.free) /\ Sized(m2, new.used)
                     /\ m2.free = Count(new.free)
<1> DEFINE m2 == InsertBlock(m, b.lo)
           F == blocks.free
<1>0. HeapEnd \in Nat /\ ListStart = -1
  BY HeapSizeAssumption DEF ListStart
<1>1. /\ HB!TiledBy(F, blocks.used) /\ Joined(F) /\ F \cap blocks.used = {}
      /\ Real(F \cup blocks.used) /\ Separate(F \cup blocks.used)
      /\ Real(F) /\ Separate(F)
  BY Tiling, PartOf
<1>2. \A c \in F \cup blocks.used : c.lo \in Addresses /\ c.lo # ListStart
  BY <1>1, Bounds
<1>3. b \in Pieces /\ b.lo < b.hi /\ \A c \in F : HB!Apart(c, b)
  BY <1>1 DEF Real, Separate
<1>4. m.size[b.lo] = HB!Units(b)
  BY DEF Sized
<1> HIDE DEF F
<1>5. PICK l, r : /\ LeftOf(F, b, l) /\ RightOf(F, b, r)
                  /\ Listed(m2, (F \ {l, r}) \cup {HB!Block(l.lo, r.hi)})
                  /\ Inserted(m, m2, F, b)
  <2>1. Listed(m, F)
    BY DEF F
  <2> QED BY <1>1, <1>3, <1>4, <2>1, InsertedIs
<1> DEFINE new == HB!Released(blocks, b, l, r)
<1>6. new \in HB!Frees(blocks)
  <2>1. l \in HB!Before(blocks, b)
    BY <1>5 DEF HB!Before, LeftOf, F
  <2>2. r \in HB!After(blocks, b)
    BY <1>5 DEF HB!After, RightOf, F
  <2> DEFINE lr == <<l, r>>
  <2>3. lr \in HB!Before(blocks, b) \X HB!After(blocks, b) /\ lr[1] = l /\ lr[2] = r
    BY <2>1, <2>2
  <2>4. new = HB!Released(blocks, b, lr[1], lr[2])
    BY <2>3
  <2> HIDE DEF lr, new
  <2> QED BY <2>3, <2>4 DEF HB!Frees
<1>7. /\ new.free = (F \ {l, r}) \cup {HB!Block(l.lo, r.hi)} /\ new.used = blocks.used \ {b}
      /\ new = [free |-> new.free, used |-> blocks.used \ {b}]
  BY DEF HB!Released, F
<1>8. Count(new.free) = Count(F) + HB!Units(b)
  <2> HIDE DEF new
  <2>1. Count(HB!Released(blocks, b, l, r).free) = Count(blocks.free) + HB!Units(b)
    BY <1>1, <1>5, ReleasedCount DEF F
  <2> QED BY <2>1 DEF F, new
<1> HIDE DEF new, m2
<1>9. /\ m2 \in Headers /\ m2.free = m.free /\ m2.minEver = m.minEver
      /\ \A y \in Addresses : y \notin Los(F) \cup {b.lo} => m2.size[y] = m.size[y]
  BY <1>5 DEF Inserted, Headers
<1>10. ASSUME NEW u \in blocks.used \ {b} PROVE m2.size[u.lo] = m.size[u.lo]
  <2>1. \A c \in F \cup {b} : c.lo # u.lo
    BY <1>1, LoUnique
  <2> QED BY <1>2, <1>9, <2>1 DEF Los
<1>11. m2.size[ListStart] = 0
  <2>1. ListStart \in Addresses /\ ListStart \notin Los(F) \cup {b.lo}
    BY <1>0, <1>2 DEF Los, Addresses
  <2> QED BY <1>9, <2>1
<1>12. Real(new.free \cup new.used)
  <2>1. HB!TiledBy(new.free, new.used)
    BY <1>1, <1>5, <1>7, ReleasedKeeps
  <2> QED BY <2>1 DEF HB!TiledBy, Real, Pieces
<1>13. Listed(m2, new.free) /\ Sized(m2, new.used)
  BY <1>5, <1>7, <1>10 DEF Sized
<1>14. m2.free = Count(new.free)
  BY <1>8, <1>9 DEF F
<1> QED BY <1>6, <1>7, <1>9, <1>10, <1>11, <1>12, <1>13, <1>14 DEF m2

\* The count with the units of b is no more than the heap.
LEMMA CountedIs ==
    ASSUME HInv, NEW b \in blocks.used
    PROVE  Count(blocks.free) + HB!Units(b) \in 0..HeapEnd
<1>1. HB!TiledBy(blocks.free, blocks.used)
  BY Tiling
<1>2. PICK l \in HB!Before(blocks, b), r \in HB!After(blocks, b) : TRUE
  BY DEF HB!Before, HB!After
<1>3. LeftOf(blocks.free, b, l) /\ RightOf(blocks.free, b, r)
  BY <1>2, BeforeAfter
<1>4. Count(HB!Released(blocks, b, l, r).free) = Count(blocks.free) + HB!Units(b)
  BY <1>1, <1>3, ReleasedCount
<1> QED BY <1>4, UnitsFinite

LEMMA BeginInv ==
    ASSUME HeapInv, NEW o \in owned, FreeBegin(o), blocks' = Blocks'
    PROVE  HeapInv' /\ blocks' = blocks
<1>0. /\ call = NoCall /\ call' = NoCall
      /\ h' = [h EXCEPT !.allocated = h.allocated \ {o.at}]
      /\ owned' = owned \ {o} /\ freeing' = freeing \cup {o.at}
  BY DEF FreeBegin
<1>1. /\ Settled /\ HInv /\ h \in Headers /\ h.size[ListStart] = 0 /\ h.minEver <= h.free
      /\ Sized(h, blocks.used) /\ Holders
  BY <1>0, AtRest
<1>2. /\ h'.next = h.next /\ h'.size = h.size /\ h'.free = h.free /\ h'.minEver = h.minEver
      /\ h' \in Headers
  BY <1>0, <1>1 DEF Headers
<1>3. Given' = Given
  BY <1>0 DEF Given
<1>4. Listed(h', blocks.free) /\ Sized(h', blocks.used)
  BY <1>1, <1>2 DEF Settled, Listed, Sized
<1>5. Holders'
  <2>1. \A p \in owned' : p.at \notin freeing'
    BY <1>0, <1>1 DEF Holders
  <2> QED BY <1>0, <1>1, <1>2, <2>1 DEF Holders
<1>6. blocks = [free |-> blocks.free, used |-> blocks.used]
  BY <1>1 DEF HInv
<1>7. Real(blocks.free \cup blocks.used)
  BY <1>1, Tiling
<1>8. blocks' = blocks => HInv'
  BY <1>1 DEF HInv, HB!Tiled, HB!Coalesced
<1>9. h'.free = Count(blocks.free) /\ Given' = Los(blocks.used)
  BY <1>1, <1>2, <1>3 DEF Settled
<1> QED BY <1>0, <1>1, <1>2, <1>4, <1>5, <1>6, <1>7, <1>8, <1>9, SettledInv

LEMMA CountInv ==
    ASSUME HeapInv, NEW a \in freeing, FreeCount(a), blocks' = blocks
    PROVE  HeapInv'
<1>0. /\ call = NoCall /\ call' = [at |-> "insert freed", block |-> a]
      /\ h' = [h EXCEPT !.free = h.free + h.size[a]]
      /\ owned' = owned /\ freeing' = freeing \ {a}
  BY DEF FreeCount, CountBlock
<1>1. /\ Settled /\ HInv /\ h \in Headers /\ h.size[ListStart] = 0 /\ h.minEver <= h.free
      /\ Sized(h, blocks.used) /\ Holders
  BY <1>0, AtRest
<1>2. PICK b \in blocks.used : b.lo = a
  <2>1. a \in Los(blocks.used)
    BY <1>1 DEF Settled, Given
  <2> QED BY <2>1 DEF Los
<1>3. /\ h'.next = h.next /\ h'.size = h.size /\ h'.minEver = h.minEver
      /\ h'.free = Count(blocks.free) + HB!Units(b) /\ h'.allocated = h.allocated
  <2>1. h.size[a] = HB!Units(b) /\ h.free = Count(blocks.free)
    BY <1>1, <1>2 DEF Sized, Settled
  <2> QED BY <1>0, <1>1, <2>1 DEF Headers
<1>4. h' \in Headers /\ h'.minEver <= h'.free
  <2>1. h'.free \in 0..HeapEnd
    BY <1>1, <1>3, CountedIs
  <2>2. h.free <= h'.free
    <3>1. HB!Units(b) \in Nat /\ Count(blocks.free) \in Nat /\ h.free = Count(blocks.free)
      BY <1>1, Tiling, Bounds, UnitsFinite DEF Settled
    <3> QED BY <1>3, <3>1
  <2>3. h.minEver \in Int /\ h.free \in Int
    BY <1>1 DEF Headers
  <2>4. h'.minEver <= h'.free
    BY <1>1, <1>3, <2>1, <2>2, <2>3
  <2> QED BY <1>0, <1>1, <2>1, <2>4 DEF Headers
<1>5. Given' = Los(blocks.used \ {b})
  <2>1. Given' = Given \ {a}
    BY <1>0, <1>1 DEF Given, Holders
  <2>2. Los(blocks.used \ {b}) = Los(blocks.used) \ {b.lo}
    BY <1>1, Tiling, PartOf, LosMinus
  <2> QED BY <1>1, <1>2, <2>1, <2>2 DEF Settled
<1>6. Freeing'
  <2>1. Listed(h', blocks.free)
    BY <1>1, <1>3 DEF Settled, Listed, Sized
  <2> QED BY <1>0, <1>2, <1>3, <1>5, <2>1 DEF Freeing
<1>7. Core'
  <2>1. HInv'
    BY <1>1 DEF HInv, HB!Tiled, HB!Coalesced
  <2>2. Sized(h', blocks.used) /\ Holders'
    BY <1>0, <1>1, <1>3 DEF Sized, Holders
  <2> QED BY <1>1, <1>3, <1>4, <2>1, <2>2 DEF Core
<1> QED BY <1>6, <1>7 DEF HeapInv, Phase

LEMMA InsertFreedInv ==
    ASSUME HeapInv, FreeInsert, blocks' = Blocks'
    PROVE  HeapInv' /\ blocks' \in HB!Frees(blocks)
<1>0. /\ call.at = "insert freed" /\ call' = NoCall /\ h' = InsertBlock(h, call.block)
      /\ owned' = owned /\ freeing' = freeing
  BY DEF FreeInsert
<1>1. /\ HInv /\ h \in Headers /\ h.size[ListStart] = 0 /\ h.minEver <= h.free
      /\ Sized(h, blocks.used) /\ Holders
  BY DEF HeapInv, Core
<1>2. PICK b \in blocks.used :
         /\ Listed(h, blocks.free) /\ Given = Los(blocks.used \ {b})
         /\ h.free = Count(blocks.free) + HB!Units(b)
         /\ call = [at |-> "insert freed", block |-> b.lo]
  <2>1. call # NoCall
    <3> SUFFICES ASSUME call = NoCall PROVE FALSE
      OBVIOUS
    <3>1. call.at = "idle"
      BY DEF NoCall
    <3> QED BY <1>0, <3>1
  <2>2. ~Mallocing
    <3> SUFFICES ASSUME NEW bytes \in Requests, NEW b \in blocks.free,
                        Found(b, bytes) \/ Unsplit(b, bytes) \/ Cut(b, bytes)
                           \/ Taken(b, bytes)
                 PROVE  FALSE
      BY DEF Mallocing
    <3>1. ASSUME NEW prev,
                 call = [at |-> "unlink", bytes |-> bytes, prev |-> prev, block |-> b.lo]
          PROVE  FALSE
      <4>1. call.at = "unlink"
        BY <3>1
      <4> QED BY <1>0, <4>1
    <3>2. ASSUME NEW at \in {"split", "insert rest", "account"},
                 call = [at |-> at, bytes |-> bytes, block |-> b.lo, return |-> b.lo]
          PROVE  FALSE
      <4>1. call.at = at
        BY <3>2
      <4> QED BY <1>0, <4>1
    <3>3. ~Found(b, bytes)
      BY <3>1 DEF Found
    <3>4. ~Unsplit(b, bytes) /\ ~Cut(b, bytes) /\ ~Taken(b, bytes)
      BY <3>2 DEF Unsplit, Cut, Taken
    <3> QED BY <3>3, <3>4
  <2>3. Freeing
    BY <2>1, <2>2 DEF HeapInv, Phase
  <2> QED BY <2>3 DEF Freeing
<1> DEFINE m2 == InsertBlock(h, b.lo)
<1>3. h' = m2
  BY <1>0, <1>2
<1>4. /\ m2 \in Headers /\ m2.size[ListStart] = 0
      /\ m2.free = h.free /\ m2.minEver = h.minEver
      /\ \A u \in blocks.used \ {b} : m2.size[u.lo] = h.size[u.lo]
      /\ \E new \in HB!Frees(blocks) :
            /\ new = [free |-> new.free, used |-> blocks.used \ {b}]
            /\ Real(new.free \cup new.used)
            /\ Listed(m2, new.free) /\ Sized(m2, new.used)
            /\ m2.free = Count(new.free)
  BY <1>1, <1>2, FreedIs
<1> HIDE DEF m2
<1>5. PICK new \in HB!Frees(blocks) :
            /\ new = [free |-> new.free, used |-> blocks.used \ {b}]
            /\ Real(new.free \cup new.used)
            /\ Listed(m2, new.free) /\ Sized(m2, new.used)
            /\ m2.free = Count(new.free)
  BY <1>4
<1>6. new.used = blocks.used \ {b} /\ new = [free |-> new.free, used |-> new.used]
  BY <1>5
<1>7. Given' = Los(new.used)
  BY <1>0, <1>2, <1>6 DEF Given
<1>8. Holders'
  <2>1. ASSUME NEW o \in owned PROVE h'.size[o.at] = h.size[o.at]
    <3>1. o.at \in Los(blocks.used \ {b})
      BY <1>1, <1>2, OwnedGiven
    <3>2. PICK u \in blocks.used \ {b} : u.lo = o.at
      BY <3>1 DEF Los
    <3> QED BY <1>3, <1>4, <3>2
  <2> QED BY <1>0, <1>1, <2>1 DEF Holders
<1>9. blocks' = new => HInv'
  BY <1>1, <1>5, FreeInv
<1>10. HeapInv' /\ blocks' = new
  BY <1>0, <1>1, <1>3, <1>4, <1>5, <1>6, <1>7, <1>8, <1>9, SettledInv
<1> QED BY <1>5, <1>10

LEMMA InterruptInv ==
    ASSUME HeapInv, InterruptsCalls = FALSE, NEW o \in owned, InterruptFree(o),
           call' = NoCall => blocks' = Blocks'
    PROVE  HeapInv' /\ blocks' \in HB!Frees(blocks)
<1> DEFINE m == CountBlock([h EXCEPT !.allocated = h.allocated \ {o.at}], o.at)
           m2 == InsertBlock(m, o.at)
<1>0. /\ call = NoCall /\ call' = NoCall /\ h' = m2
      /\ owned' = owned \ {o} /\ freeing' = freeing /\ blocks' = Blocks'
  BY DEF InterruptFree
<1>1. /\ Settled /\ HInv /\ h \in Headers /\ h.size[ListStart] = 0 /\ h.minEver <= h.free
      /\ Sized(h, blocks.used) /\ Holders
  BY <1>0, AtRest
<1>2. PICK b \in blocks.used : b.lo = o.at
  <2>1. o.at \in Los(blocks.used)
    BY <1>1, OwnedGiven DEF Settled
  <2> QED BY <2>1 DEF Los
<1>3. /\ m.next = h.next /\ m.size = h.size /\ m.minEver = h.minEver
      /\ m.free = Count(blocks.free) + HB!Units(b)
      /\ m = [h EXCEPT !.allocated = h.allocated \ {o.at}, !.free = m.free]
  <2>1. h.size[o.at] = HB!Units(b) /\ h.free = Count(blocks.free)
    BY <1>1, <1>2 DEF Sized, Settled
  <2> QED BY <1>1, <2>1 DEF Headers, CountBlock
<1> HIDE DEF m
<1>4. m \in Headers /\ m.minEver <= m.free
  <2>1. m.free \in 0..HeapEnd
    BY <1>1, <1>3, CountedIs
  <2>2. h.free <= m.free
    <3>1. HB!Units(b) \in Nat /\ Count(blocks.free) \in Nat /\ h.free = Count(blocks.free)
      BY <1>1, Tiling, Bounds, UnitsFinite DEF Settled
    <3> QED BY <1>3, <3>1
  <2>3. h.minEver \in Int /\ h.free \in Int
    BY <1>1 DEF Headers
  <2>4. m.minEver <= m.free
    BY <1>1, <1>3, <2>1, <2>2, <2>3
  <2> QED BY <1>1, <1>3, <2>1, <2>4 DEF Headers
<1>5. Listed(m, blocks.free) /\ Sized(m, blocks.used) /\ m.size[ListStart] = 0
  BY <1>1, <1>3 DEF Settled, Listed, Sized
<1>6. /\ m2 \in Headers /\ m2.size[ListStart] = 0
      /\ m2.free = m.free /\ m2.minEver = m.minEver
      /\ \A u \in blocks.used \ {b} : m2.size[u.lo] = m.size[u.lo]
      /\ \E new \in HB!Frees(blocks) :
            /\ new = [free |-> new.free, used |-> blocks.used \ {b}]
            /\ Real(new.free \cup new.used)
            /\ Listed(m2, new.free) /\ Sized(m2, new.used)
            /\ m2.free = Count(new.free)
  <2>1. m2 = InsertBlock(m, b.lo)
    BY <1>2
  <2>2. HInv /\ Sized(m, blocks.used) /\ Listed(m, blocks.free) /\ m.size[ListStart] = 0
        /\ m.free = Count(blocks.free) + HB!Units(b) /\ m \in Headers
    BY <1>1, <1>3, <1>4, <1>5
  <2> HIDE DEF m2
  <2> QED BY <2>1, <2>2, FreedIs
<1> HIDE DEF m2
<1>7. PICK new \in HB!Frees(blocks) :
            /\ new = [free |-> new.free, used |-> blocks.used \ {b}]
            /\ Real(new.free \cup new.used)
            /\ Listed(m2, new.free) /\ Sized(m2, new.used)
            /\ m2.free = Count(new.free)
  BY <1>6
<1>8. new.used = blocks.used \ {b} /\ new = [free |-> new.free, used |-> new.used]
  BY <1>7
<1>9. Given' = Los(new.used)
  <2>1. Given' = Given \ {o.at}
    BY <1>0, <1>1 DEF Given, Holders
  <2>2. Los(blocks.used \ {b}) = Los(blocks.used) \ {b.lo}
    BY <1>1, Tiling, PartOf, LosMinus
  <2> QED BY <1>1, <1>2, <1>8, <2>1, <2>2 DEF Settled
<1>10. Holders'
  <2>1. ASSUME NEW p \in owned' PROVE h'.size[p.at] = h.size[p.at]
    <3>1. p \in owned /\ p.at # o.at
      BY <1>0, <1>1 DEF Holders
    <3>2. PICK u \in blocks.used : u.lo = p.at
      BY <1>1, <3>1, OwnedGiven DEF Settled, Los
    <3>3. u # b
      BY <1>2, <3>1, <3>2
    <3> QED BY <1>0, <1>3, <1>6, <3>2, <3>3
  <2> QED BY <1>0, <1>1, <2>1 DEF Holders
<1>11. blocks' = new => HInv'
  BY <1>1, <1>7, FreeInv
<1>12. m2.minEver <= m2.free
  BY <1>4, <1>6
<1>13. HeapInv' /\ blocks' = new
  BY <1>0, <1>6, <1>7, <1>8, <1>9, <1>10, <1>11, <1>12, SettledInv
<1> QED BY <1>7, <1>13

-----------------------------------------------------------------------------
(* The specification *)

LEMMA InitHeapInv == InitHeap => HeapInv /\ HB!Init
<1> SUFFICES ASSUME InitHeap PROVE HeapInv /\ HB!Init
  OBVIOUS
<1> DEFINE all == HB!Block(0, HeapEnd)
           new == [free |-> {all}, used |-> {}]
<1>0. /\ HeapEnd \in Nat /\ HeapEnd # 0 /\ ListStart = -1 /\ Null = -2
  BY HeapSizeAssumption DEF ListStart, Null
<1>1. h = HeapInit /\ call = NoCall /\ owned = {} /\ freeing = {} /\ blocks = Blocks
  BY DEF InitHeap
<1>2. /\ h.next \in [Addresses -> Pointers] /\ h.size \in [Addresses -> 0..HeapEnd]
      /\ h.next[ListStart] = 0 /\ h.next[0] = HeapEnd /\ h.next[HeapEnd] = Null
      /\ h.size[ListStart] = 0 /\ h.size[0] = HeapEnd
      /\ h.allocated = {} /\ h.free = HeapEnd /\ h.minEver = HeapEnd /\ h \in Headers
  <2>1. ListStart \in Addresses /\ 0 \in Addresses /\ HeapEnd \in Addresses
    BY <1>0 DEF Addresses
  <2>2. h.next = [a \in Addresses |-> CASE a = ListStart -> 0 [] a = 0 -> HeapEnd [] OTHER -> Null]
    BY <1>1 DEF HeapInit
  <2>3. h.size = [a \in Addresses |-> IF a = 0 THEN HeapEnd ELSE 0]
    BY <1>1 DEF HeapInit
  <2>4. h.next \in [Addresses -> Pointers]
    BY <2>1, <2>2 DEF Pointers
  <2>5. h.size \in [Addresses -> 0..HeapEnd]
    BY <1>0, <2>3
  <2>6. h.allocated = {} /\ h.free = HeapEnd /\ h.minEver = HeapEnd
    BY <1>1 DEF HeapInit
  <2>7. h.next[ListStart] = 0 /\ h.next[0] = HeapEnd /\ h.next[HeapEnd] = Null
    BY <1>0, <2>1, <2>2
  <2>8. h.size[ListStart] = 0 /\ h.size[0] = HeapEnd
    BY <1>0, <2>1, <2>3
  <2>9. h = [next |-> h.next, size |-> h.size, allocated |-> h.allocated, free |-> h.free,
             minEver |-> h.minEver]
    BY <1>1 DEF HeapInit
  <2> QED BY <1>0, <2>4, <2>5, <2>6, <2>7, <2>8, <2>9 DEF Headers
<1>3. all.lo = 0 /\ all.hi = HeapEnd /\ HB!Units(all) = HeapEnd
  BY <1>0 DEF HB!Block, HB!Units
<1>4. all \in Pieces
  BY <1>0 DEF Pieces, HB!Block
<1>5. new.free = {all} /\ new.used = {} /\ Los({all}) = {0} /\ Los({}) = {}
  BY <1>3 DEF Los
<1> HIDE DEF all
<1>6. Real(new.free \cup new.used)
  BY <1>0, <1>3, <1>4 DEF Real
<1>7. Listed(h, new.free) /\ Sized(h, new.used)
  <2>1. Linked(h.next, {0})
    BY <1>0, <1>2 DEF Linked
  <2>2. Sized(h, {all}) /\ Sized(h, {})
    BY <1>2, <1>3 DEF Sized
  <2> QED BY <1>5, <2>1, <2>2 DEF Listed
<1>8. Given = {}
  BY <1>1 DEF Given
<1> HIDE DEF new
<1>9. blocks = new
  <2>1. /\ {BlockOf(h, a) : a \in FreeAddresses(h)} = new.free
        /\ {BlockOf(h, a) : a \in Los(new.used)} = new.used
    BY <1>2, <1>6, <1>7, BlocksAre
  <2> QED BY <1>1, <1>5, <1>8, <2>1 DEF Blocks, new
<1>10. HB!Init
  BY <1>9 DEF HB!Init, new, all
<1>11. HInv
  BY <1>10, InitInv
<1>12. h.free = Count(new.free)
  <2>1. UnitsOf({all}) = 0..(HeapEnd - 1)
    BY <1>0, <1>3 DEF UnitsOf
  <2>2. Cardinality(0..(HeapEnd - 1)) = HeapEnd
    BY <1>0, FS_Interval
  <2> QED BY <1>2, <1>5, <2>1, <2>2 DEF Count
<1>13. Settled
  BY <1>5, <1>7, <1>8, <1>9, <1>12 DEF Settled
<1>14. Holders
  BY <1>1 DEF Holders
<1>15. Core
  BY <1>0, <1>2, <1>7, <1>9, <1>11, <1>14 DEF Core
<1> QED BY <1>1, <1>10, <1>13, <1>15 DEF HeapInv, Phase

LEMMA IdleIs == NoCall.at = "idle"
  BY DEF NoCall

\* What a step does to the blocks
LEMMA StepInv ==
    ASSUME InterruptsCalls = FALSE, HeapInv, [HeapNext]_heapVars
    PROVE  HeapInv' /\ [HB!Next]_blocks
<1>1. CASE UNCHANGED heapVars
  <2>1. /\ h' = h /\ call' = call /\ owned' = owned /\ freeing' = freeing /\ blocks' = blocks
    BY <1>1 DEF heapVars
  <2>2. Core'
    BY <2>1 DEF HeapInv, Core, HInv, HB!Tiled, HB!Coalesced, Holders
  <2>3. Phase'
    BY <2>1 DEF HeapInv, Phase, Settled, Given, Mallocing, Freeing, Serves, Found, Unsplit,
                Cut, Taken, Unlinked
  <2> QED BY <2>1, <2>2, <2>3 DEF HeapInv
<1>2. CASE HeapNext
  <2>0. /\ call' = NoCall => blocks' = Blocks'
        /\ call' # NoCall => blocks' = blocks
    BY <1>2 DEF HeapNext
  <2>1. ASSUME NEW bytes \in Requests, MallocFind(bytes) PROVE HeapInv' /\ blocks' = blocks
    <3>1. call'.at = "unlink"
      BY <2>1 DEF MallocFind
    <3>2. call' # NoCall
      BY <3>1, IdleIs
    <3> QED BY <2>0, <2>1, <3>2, FindInv
  <2>2. ASSUME MallocUnlink PROVE HeapInv' /\ blocks' = blocks
    <3>1. call'.at = "split"
      BY <2>2 DEF MallocUnlink
    <3>2. call' # NoCall
      BY <3>1, IdleIs
    <3> QED BY <2>0, <2>2, <3>2, UnlinkInv
  <2>3. ASSUME MallocSplit PROVE HeapInv' /\ blocks' = blocks
    <3>0. call.at = "split"
      BY <2>3 DEF MallocSplit
    <3>1. PICK bytes \in Requests, b \in blocks.free : Unsplit(b, bytes)
      BY <3>0, InMalloc
    <3>2. call = [at |-> "split", bytes |-> bytes, block |-> b.lo, return |-> b.lo]
      BY <3>1 DEF Unsplit
    <3>3. call'.at \in {"insert rest", "account"}
      <4>1. call' = [call EXCEPT !.at = "insert rest"] \/ call' = [call EXCEPT !.at = "account"]
        BY <2>3 DEF MallocSplit
      <4> QED BY <3>2, <4>1
    <3>4. call' # NoCall
      BY <3>3, IdleIs
    <3> QED BY <2>0, <2>3, <3>4, SplitInv
  <2>4. ASSUME MallocInsertRest PROVE HeapInv' /\ blocks' = blocks
    <3>0. call.at = "insert rest"
      BY <2>4 DEF MallocInsertRest
    <3>1. PICK bytes \in Requests, b \in blocks.free : Cut(b, bytes)
      BY <3>0, InMalloc
    <3>2. call = [at |-> "insert rest", bytes |-> bytes, block |-> b.lo, return |-> b.lo]
      BY <3>1 DEF Cut
    <3>3. call'.at = "account"
      BY <2>4, <3>2 DEF MallocInsertRest
    <3>4. call' # NoCall
      BY <3>3, IdleIs
    <3> QED BY <2>0, <2>4, <3>4, InsertRestInv
  <2>5. ASSUME MallocAccount PROVE HeapInv' /\ blocks' \in HB!Mallocs(blocks)
    <3>1. call' = NoCall
      BY <2>5 DEF MallocAccount
    <3> QED BY <2>0, <2>5, <3>1, AccountInv
  <2>6. ASSUME NEW o \in owned, FreeBegin(o) PROVE HeapInv' /\ blocks' = blocks
    <3>1. call' = NoCall
      BY <2>6 DEF FreeBegin
    <3> QED BY <2>0, <2>6, <3>1, BeginInv
  <2>7. ASSUME NEW o \in owned, InterruptFree(o) PROVE HeapInv' /\ blocks' \in HB!Frees(blocks)
    BY <2>0, <2>7, InterruptInv
  <2>8. ASSUME NEW a \in freeing, FreeCount(a) PROVE HeapInv' /\ blocks' = blocks
    <3>1. call'.at = "insert freed"
      BY <2>8 DEF FreeCount
    <3>2. call' # NoCall
      BY <3>1, IdleIs
    <3> QED BY <2>0, <2>8, <3>2, CountInv
  <2>9. ASSUME FreeInsert PROVE HeapInv' /\ blocks' \in HB!Frees(blocks)
    <3>1. call' = NoCall
      BY <2>9 DEF FreeInsert
    <3> QED BY <2>0, <2>9, <3>1, InsertFreedInv
  <2>10. Calls
    BY <1>2 DEF HeapNext
  <2> QED BY <2>1, <2>2, <2>3, <2>4, <2>5, <2>6, <2>7, <2>8, <2>9, <2>10 DEF Calls, HB!Next
<1> QED BY <1>1, <1>2

LEMMA InvHolds == ASSUME InterruptsCalls = FALSE PROVE HeapSpec => []HeapInv
<1>1. InitHeap => HeapInv
  BY InitHeapInv
<1>2. HeapInv /\ [HeapNext]_heapVars => HeapInv'
  BY StepInv
<1> QED BY <1>1, <1>2, PTL DEF HeapSpec

LEMMA GivenUsed == ASSUME HeapInv PROVE Given \subseteq Los(blocks.used)
  BY DEF HeapInv, Phase, Settled, Mallocing, Freeing, Found, Unsplit, Cut, Taken, Unlinked,
         Los

LEMMA InvIntact == HeapInv => HeapIntact
<1> SUFFICES ASSUME HeapInv PROVE HeapIntact
  OBVIOUS
<1>0. /\ HeapEnd \in Nat /\ ListStart = -1 /\ Null = -2 /\ Spare \in Nat /\ Requests \subseteq Nat
  BY HeapSizeAssumption, Heap4Assumption DEF ListStart, Null
<1>1. /\ h \in Headers /\ h.minEver <= h.free /\ Holders /\ HInv
  BY DEF HeapInv, Core
<1>2. HeapTypeOK
  <2>1. DOMAIN blocks = {"free", "used"}
    <3>1. blocks = [free |-> blocks.free, used |-> blocks.used]
      BY <1>1 DEF HInv
    <3> QED BY <3>1
  <2>2. freeing \subseteq Addresses
    <3>1. freeing \subseteq Given
      BY DEF Given
    <3>2. Given \subseteq Los(blocks.used)
      BY GivenUsed
    <3>3. Los(blocks.used) \subseteq Addresses
      BY <1>1, Tiling, Bounds DEF Los
    <3> QED BY <3>1, <3>2, <3>3
  <2> QED BY <1>1, <2>1, <2>2 DEF HeapTypeOK, Headers, Holders
<1>3. FreeListOrdered
  <2> SUFFICES ASSUME call = NoCall
               PROVE  /\ HeapEnd \in {Chain(h)[i] : i \in 1..(HeapEnd + 1)}
                      /\ \A a \in FreeAddresses(h) :
                            h.next[a] = HeapEnd \/ a + h.size[a] < h.next[a]
    BY DEF FreeListOrdered
  <2>1. Linked(h.next, Los(blocks.free)) /\ Sized(h, blocks.free)
    BY AtRest
  <2>2. HeapEnd \in {Chain(h)[i] : i \in 1..(HeapEnd + 1)}
    BY <1>1, <2>1, EndReached
  <2>3. ASSUME NEW a \in FreeAddresses(h) PROVE h.next[a] = HeapEnd \/ a + h.size[a] < h.next[a]
    <3> SUFFICES ASSUME h.next[a] # HeapEnd PROVE a + h.size[a] < h.next[a]
      OBVIOUS
    <3>1. a \in Los(blocks.free)
      BY <1>1, <2>1, FreeAddressesAre
    <3>2. h.next[a] \in Los(blocks.free) /\ a < h.next[a]
      BY <2>1, <3>1 DEF Linked
    <3>3. PICK b \in blocks.free : b.lo = a
      BY <3>1 DEF Los
    <3>4. PICK c \in blocks.free : c.lo = h.next[a]
      BY <3>2 DEF Los
    <3>5. /\ b.lo \in Int /\ b.hi \in Int /\ c.lo \in Int /\ c.hi \in Int /\ b.lo < b.hi
          /\ c.lo < c.hi /\ HB!Units(b) = b.hi - b.lo
      BY <1>1, Tiling, Bounds
    <3>6. h.size[a] = b.hi - b.lo
      BY <2>1, <3>3, <3>5 DEF Sized
    <3>7. b.hi <= c.lo \/ c.hi <= b.lo
      <4>1. b # c
        BY <3>2, <3>3, <3>4, <3>5
      <4> QED BY <1>1, <4>1, Tiling DEF Separate, HB!Apart
    <3>8. b.hi # c.lo
      BY <1>1, Tiling DEF Joined
    <3> QED BY <3>2, <3>3, <3>4, <3>5, <3>6, <3>7, <3>8
  <2> QED BY <2>2, <2>3
<1>4. FreeBytesCounted
  <2> SUFFICES ASSUME call = NoCall PROVE h.free = Cardinality(FreeUnits)
    BY <1>1 DEF FreeBytesCounted
  <2>1. /\ Linked(h.next, Los(blocks.free)) /\ Sized(h, blocks.free)
        /\ h.free = Count(blocks.free)
    BY AtRest DEF Settled
  <2>2. FreeAddresses(h) = Los(blocks.free)
    BY <1>1, <2>1, FreeAddressesAre
  <2>3. \A b \in blocks.free : b.lo + h.size[b.lo] = b.hi
    <3> SUFFICES ASSUME NEW b \in blocks.free PROVE b.lo + h.size[b.lo] = b.hi
      OBVIOUS
    <3>1. b.lo \in Int /\ b.hi \in Int /\ HB!Units(b) = b.hi - b.lo
      BY <1>1, Tiling, Bounds
    <3>2. h.size[b.lo] = b.hi - b.lo
      BY <2>1, <3>1 DEF Sized
    <3> QED BY <3>1, <3>2
  <2>4. FreeUnits = UnitsOf(blocks.free)
    <3>1. ASSUME NEW x \in 0..(HeapEnd - 1)
          PROVE  (\E a \in FreeAddresses(h) : a <= x /\ x < a + h.size[a])
                    <=> (\E b \in blocks.free : b.lo <= x /\ x < b.hi)
      BY <2>2, <2>3 DEF Los
    <3> QED BY <3>1 DEF FreeUnits, UnitsOf
  <2> QED BY <2>1, <2>4 DEF Count
<1>5. BlocksFit
  <2> SUFFICES ASSUME NEW o \in owned
               PROVE  /\ Alignment * (h.size[o.at] - 1) >= o.bytes
                      /\ h.size[o.at] <= Wanted(o.bytes) + Spare
    BY DEF BlocksFit
  <2>1. /\ o.at \in Addresses /\ o.bytes \in Nat
        /\ Wanted(o.bytes) <= h.size[o.at] /\ h.size[o.at] <= Wanted(o.bytes) + Spare
    BY <1>0, <1>1 DEF Holders
  <2>2. h.size[o.at] \in Nat /\ h.size[o.at] \in 0..HeapEnd
    BY <1>0, <1>1, <2>1 DEF Headers
  <2>3. Alignment = 8 /\ Wanted(o.bytes) \in Nat
    BY <2>1, WantedIs DEF Alignment
  <2>4. CASE Wanted(o.bytes) # 0
    <3>1. 8 * (Wanted(o.bytes) - 1) >= o.bytes
      BY <2>1, <2>3, <2>4, WantedIs
    <3> QED BY <2>1, <2>2, <2>3, <3>1
  <2>5. CASE Wanted(o.bytes) = 0
    <3>1. o.bytes = 0
      BY <2>1, <2>5, WantedIs
    <3>2. PICK b \in blocks.used : b.lo = o.at
      <4>1. Given \subseteq Los(blocks.used)
        BY GivenUsed
      <4>2. o.at \in Los(blocks.used)
        BY <1>1, <4>1, OwnedGiven
      <4> QED BY <4>2 DEF Los
    <3>3. h.size[o.at] = HB!Units(b)
      BY <3>2 DEF HeapInv, Core, Sized
    <3>4. HB!Units(b) \in Nat \ {0}
      BY <1>1, Tiling, Bounds
    <3> QED BY <2>1, <2>2, <2>3, <3>1, <3>3, <3>4
  <2> QED BY <2>4, <2>5
<1> QED BY <1>2, <1>3, <1>4, <1>5 DEF HeapIntact

\* The free list stays ordered and joined, xFreeBytesRemaining is what its blocks
\* hold and the minimum never above it, and each block given out holds what was
\* asked for: for any heap, requests and order of calls of pvPortMalloc and
\* vPortFree, if no interrupt frees during one of them.
THEOREM HeapStaysIntact ==
    ASSUME InterruptsCalls = FALSE PROVE HeapSpec => []HeapIntact
  BY InvHolds, InvIntact, PTL

\* Each call of pvPortMalloc and vPortFree is one allocation, by first fit, or one
\* release, joined on both sides, of the abstract allocator, or none.
THEOREM HeapImplementsBlocks ==
    ASSUME InterruptsCalls = FALSE PROVE HeapSpec => ImplementsBlocks
<1>1. InitHeap => HB!Init
  BY InitHeapInv
<1>2. HeapInv /\ [HeapNext]_heapVars => [HB!Next]_blocks
  BY StepInv
<1> QED BY <1>1, <1>2, InvHolds, PTL DEF HeapSpec, ImplementsBlocks, HB!Spec

\* Whatever heap_4.c has allocated and freed, between its calls every unit of the
\* heap is in one block, free or in use, and no two free blocks touch: no memory
\* is lost by prvInsertBlockIntoFreeList or the split of pvPortMalloc, and none is
\* given to two callers.
THEOREM HeapStaysTiled ==
    ASSUME InterruptsCalls = FALSE
    PROVE  HeapSpec => [](HB!Tiled /\ HB!Coalesced)
<1>1. HeapInv => HB!Tiled /\ HB!Coalesced
  BY DEF HeapInv, Core, HInv
<1> QED BY <1>1, InvHolds, PTL

-----------------------------------------------------------------------------
(* The pool of network buffers *)

Distinct(s) == \A i, j \in DOMAIN s : s[i] = s[j] => i = j
Elements(s) == {s[i] : i \in DOMAIN s}

\* What a call that is moving a descriptor knows of it
Carries ==
    \A t \in Users :
        /\ op[t].step \in {"alloc", "free", "insert"} => op[t].buf \in Bufs
        /\ op[t].step = "insert" => op[t].buf \notin pool.payload

PoolInv == PoolTypeOK /\ SemaphoreCovers /\ PayloadOnlyInUse /\ EachInOnePlace /\ Carries

-----------------------------------------------------------------------------
(* The list *)

LEMMA HeadLeaves ==
    ASSUME NEW s \in Seq(Bufs), Distinct(s), s # <<>>
    PROVE  /\ Tail(s) \in Seq(Bufs) /\ Len(Tail(s)) = Len(s) - 1
           /\ Head(s) \in Bufs /\ Distinct(Tail(s))
           /\ Elements(Tail(s)) = Elements(s) \ {Head(s)}
           /\ Head(s) \in Elements(s)
<1>1. /\ Tail(s) \in Seq(Bufs) /\ Len(Tail(s)) = Len(s) - 1 /\ Len(s) > 0
      /\ Head(s) = s[1] /\ DOMAIN s = 1..Len(s)
      /\ DOMAIN Tail(s) = 1..(Len(s) - 1)
      /\ \A i \in 1..(Len(s) - 1) : Tail(s)[i] = s[i + 1]
  OBVIOUS
<1>2. Distinct(Tail(s))
  BY <1>1 DEF Distinct
<1>3. Head(s) \in Bufs /\ Head(s) \in Elements(s)
  BY <1>1 DEF Elements
<1>4. ASSUME NEW x \in Elements(Tail(s)) PROVE x \in Elements(s) \ {Head(s)}
  BY <1>1 DEF Elements, Distinct
<1>5. ASSUME NEW x \in Elements(s) \ {Head(s)} PROVE x \in Elements(Tail(s))
  <2>1. PICK i \in 1..Len(s) : s[i] = x
    BY <1>1 DEF Elements
  <2>2. i - 1 \in 1..(Len(s) - 1) /\ Tail(s)[i - 1] = x
    BY <1>1, <2>1
  <2> QED BY <1>1, <2>2 DEF Elements
<1> QED BY <1>1, <1>2, <1>3, <1>4, <1>5

LEMMA DescriptorJoins ==
    ASSUME NEW s \in Seq(Bufs), Distinct(s), NEW b \in Bufs, b \notin Elements(s)
    PROVE  /\ Append(s, b) \in Seq(Bufs) /\ Len(Append(s, b)) = Len(s) + 1
           /\ Distinct(Append(s, b))
           /\ Elements(Append(s, b)) = Elements(s) \cup {b}
<1>1. /\ Append(s, b) \in Seq(Bufs) /\ Len(Append(s, b)) = Len(s) + 1 /\ Len(s) \in Nat
      /\ DOMAIN s = 1..Len(s) /\ DOMAIN Append(s, b) = 1..(Len(s) + 1)
      /\ \A i \in 1..Len(s) : Append(s, b)[i] = s[i]
      /\ Append(s, b)[Len(s) + 1] = b
  OBVIOUS
<1>2. Distinct(Append(s, b))
  BY <1>1 DEF Distinct, Elements
<1>3. Elements(Append(s, b)) \subseteq Elements(s) \cup {b}
  BY <1>1 DEF Elements
<1>4. Elements(s) \cup {b} \subseteq Elements(Append(s, b))
  BY <1>1 DEF Elements
<1> QED BY <1>1, <1>2, <1>3, <1>4

-----------------------------------------------------------------------------
(* The record of the pool and that of a call *)

LEMMA PoolFields ==
    ASSUME PoolTypeOK
    PROVE  /\ pool.free \in Seq(Bufs) /\ pool.sem \in Nat
           /\ pool.payload \in SUBSET Bufs /\ pool.out \in SUBSET Bufs
           /\ pool = [free |-> pool.free, sem |-> pool.sem, payload |-> pool.payload,
                      out |-> pool.out]
           /\ op \in [Users -> [step : Steps, buf : Bufs \cup {NoBuf}]]
           /\ \A t \in Users : /\ op[t].step \in Steps /\ op[t].buf \in Bufs \cup {NoBuf}
                               /\ op[t] = [step |-> op[t].step, buf |-> op[t].buf]
  BY DEF PoolTypeOK

\* The state after a step of task t, in the terms the invariant is about
Moves(t, s, b) == op' = [op EXCEPT ![t] = [step |-> s, buf |-> b]]
Becomes(f, n, p, o) == pool' = [free |-> f, sem |-> n, payload |-> p, out |-> o]

\* A step keeps the types.
LEMMA TypesKept ==
    ASSUME PoolTypeOK, NEW t \in Users, NEW s \in Steps, NEW b \in Bufs \cup {NoBuf},
           NEW f \in Seq(Bufs), NEW n \in Nat, NEW p \in SUBSET Bufs, NEW o \in SUBSET Bufs,
           Moves(t, s, b), Becomes(f, n, p, o)
    PROVE  /\ PoolTypeOK'
           /\ op'[t].step = s /\ op'[t].buf = b
           /\ \A u \in Users \ {t} : op'[u] = op[u]
           /\ pool'.free = f /\ pool'.sem = n /\ pool'.payload = p /\ pool'.out = o
           /\ InFree' = Elements(f)
<1>1. op \in [Users -> [step : Steps, buf : Bufs \cup {NoBuf}]]
  BY DEF PoolTypeOK
<1>2. /\ op' \in [Users -> [step : Steps, buf : Bufs \cup {NoBuf}]]
      /\ op'[t] = [step |-> s, buf |-> b] /\ \A u \in Users \ {t} : op'[u] = op[u]
  BY <1>1 DEF Moves
<1>3. pool'.free = f /\ pool'.sem = n /\ pool'.payload = p /\ pool'.out = o
  BY DEF Becomes
<1>4. pool' \in [free : Seq(Bufs), sem : Nat, payload : SUBSET Bufs, out : SUBSET Bufs]
  BY DEF Becomes
<1> QED BY <1>2, <1>3, <1>4 DEF PoolTypeOK, InFree, Elements

\* The tasks at a step, after one task has moved
LEMMA TasksAt ==
    ASSUME PoolTypeOK, NEW t \in Users, NEW s, op'[t].step = s,
           \A u \in Users \ {t} : op'[u] = op[u], NEW l, NEW old, op[t].step = old
    PROVE  /\ IsFiniteSet(CallsAt(l)) /\ Cardinality(CallsAt(l)) \in Nat
           /\ old # l /\ s # l => Cardinality(CallsAt(l)') = Cardinality(CallsAt(l))
           /\ old = l /\ s = l => Cardinality(CallsAt(l)') = Cardinality(CallsAt(l))
           /\ old # l /\ s = l => Cardinality(CallsAt(l)') = Cardinality(CallsAt(l)) + 1
           /\ old = l /\ s # l => /\ Cardinality(CallsAt(l)') = Cardinality(CallsAt(l)) - 1
                                  /\ Cardinality(CallsAt(l)) > 0
<1>1. IsFiniteSet(CallsAt(l)) /\ Cardinality(CallsAt(l)) \in Nat
  BY FS_Subset, FS_CardinalityType, NetBuffersAssumption DEF CallsAt
<1>2. ASSUME (old # l /\ s # l) \/ (old = l /\ s = l) PROVE CallsAt(l)' = CallsAt(l)
  BY <1>2 DEF CallsAt
<1>3. ASSUME old # l, s = l PROVE CallsAt(l)' = CallsAt(l) \cup {t} /\ t \notin CallsAt(l)
  BY <1>3 DEF CallsAt
<1>4. ASSUME old = l, s # l PROVE CallsAt(l)' = CallsAt(l) \ {t} /\ t \in CallsAt(l)
  BY <1>4 DEF CallsAt
<1>5. ASSUME old = l, s # l PROVE Cardinality(CallsAt(l)) > 0
  BY <1>1, <1>4, <1>5, FS_EmptySet
<1>6. ASSUME old # l, s = l PROVE Cardinality(CallsAt(l)') = Cardinality(CallsAt(l)) + 1
  BY <1>1, <1>3, <1>6, FS_AddElement
<1>7. ASSUME old = l, s # l PROVE Cardinality(CallsAt(l)') = Cardinality(CallsAt(l)) - 1
  BY <1>1, <1>4, <1>7, FS_RemoveElement
<1> QED BY <1>1, <1>2, <1>5, <1>6, <1>7

\* The tasks that stand between the semaphore and the list
Between == Cardinality(CallsAt("unlink")) + Cardinality(CallsAt("give"))

\* A step of task t after which it is at s with descriptor b, and the pool is f,
\* n, p and o: one descriptor has moved between the list, the users of the pool
\* and the call, and the count goes with it.  The call now holds those of held.
InStep(t, s, b, f, n, p, o, held) ==
    /\ s \in Steps /\ b \in Bufs \cup {NoBuf} /\ f \in Seq(Bufs) /\ n \in Nat
    /\ p \in SUBSET Bufs /\ o \in SUBSET Bufs
    /\ Moves(t, s, b) /\ Becomes(f, n, p, o)
    /\ held = IF s \in {"alloc", "free", "insert"} THEN {b} ELSE {}
    /\ held \subseteq Bufs /\ (s = "insert" => b \notin p)
    /\ Distinct(f) /\ Elements(f) \cap p = {} /\ o \subseteq p
    /\ Elements(f) \cup o \cup held = InFree \cup pool.out \cup Moving(t)
    /\ Elements(f) \cap o = {} /\ held \cap (Elements(f) \cup o) = {}
    /\ p \subseteq pool.payload \cup Moving(t)
    /\ n + Between' = Len(f)

\* Such a step keeps the invariant.
LEMMA OneTaskMoves ==
    ASSUME PoolInv, NEW t \in Users, NEW s, NEW b, NEW f, NEW n, NEW p, NEW o, NEW held,
           InStep(t, s, b, f, n, p, o, held)
    PROVE  PoolInv'
<1>0. /\ s \in Steps /\ b \in Bufs \cup {NoBuf} /\ f \in Seq(Bufs) /\ n \in Nat
      /\ p \in SUBSET Bufs /\ o \in SUBSET Bufs
      /\ Moves(t, s, b) /\ Becomes(f, n, p, o)
      /\ held = IF s \in {"alloc", "free", "insert"} THEN {b} ELSE {}
      /\ held \subseteq Bufs /\ (s = "insert" => b \notin p)
      /\ Distinct(f) /\ Elements(f) \cap p = {} /\ o \subseteq p
      /\ Elements(f) \cup o \cup held = InFree \cup pool.out \cup Moving(t)
      /\ Elements(f) \cap o = {} /\ held \cap (Elements(f) \cup o) = {}
      /\ p \subseteq pool.payload \cup Moving(t)
      /\ n + Between' = Len(f)
  BY DEF InStep
<1>1. /\ PoolTypeOK'
      /\ op'[t].step = s /\ op'[t].buf = b
      /\ \A u \in Users \ {t} : op'[u] = op[u]
      /\ pool'.free = f /\ pool'.sem = n /\ pool'.payload = p /\ pool'.out = o
      /\ InFree' = Elements(f)
  BY <1>0, TypesKept DEF PoolInv
<1>2. SemaphoreCovers'
  <2>1. Cardinality(CallsAt("unlink")') \in Nat /\ Cardinality(CallsAt("give")') \in Nat
    <3>1. ASSUME NEW l PROVE Cardinality(CallsAt(l)') \in Nat
      BY FS_Subset, FS_CardinalityType, NetBuffersAssumption DEF CallsAt
    <3> QED BY <3>1
  <2> QED BY <1>0, <1>1, <2>1 DEF SemaphoreCovers, Between
<1>3. PayloadOnlyInUse'
  BY <1>0, <1>1 DEF PayloadOnlyInUse, Distinct
<1>4. Moving(t)' = held /\ \A u \in Users \ {t} : Moving(u)' = Moving(u)
  BY <1>0, <1>1 DEF Moving
<1>5. EachInOnePlace'
  <2> DEFINE M == UNION {Moving(u) : u \in Users}
             M1 == UNION {Moving(u)' : u \in Users}
  <2>1. /\ Bufs = InFree \cup pool.out \cup M
        /\ \A u \in Users : Moving(u) \cap (InFree \cup pool.out) = {}
        /\ \A u, v \in Users : u # v => Moving(u) \cap Moving(v) = {}
    BY DEF PoolInv, EachInOnePlace
  <2>2. Bufs \subseteq Elements(f) \cup o \cup M1
    <3> SUFFICES ASSUME NEW x \in Bufs, x \notin Elements(f) \cup o \cup held PROVE x \in M1
      BY <1>0, <1>4
    <3>1. PICK u \in Users : x \in Moving(u)
      BY <1>0, <2>1
    <3> QED BY <1>0, <1>4, <2>1, <3>1
  <2>3. \A u \in Users : Moving(u)' \subseteq Bufs
    <3>1. \A u \in Users : Moving(u) \subseteq Bufs
      BY <2>1
    <3> QED BY <1>0, <1>4, <3>1
  <2>4. Elements(f) \subseteq Bufs
    BY <1>0 DEF Elements
  <2>5. \A u \in Users : Moving(u)' \cap (Elements(f) \cup o) = {}
    BY <1>0, <1>4, <2>1
  <2>6. \A u, v \in Users : u # v => Moving(u)' \cap Moving(v)' = {}
    BY <1>0, <1>4, <2>1
  <2> QED BY <1>0, <1>1, <2>2, <2>3, <2>4, <2>5, <2>6 DEF EachInOnePlace
<1>6. Carries'
  <2> SUFFICES ASSUME NEW u \in Users
               PROVE  /\ op'[u].step \in {"alloc", "free", "insert"} => op'[u].buf \in Bufs
                      /\ op'[u].step = "insert" => op'[u].buf \notin p
    BY <1>1 DEF Carries
  <2>1. CASE u = t
    BY <1>0, <1>1, <2>1
  <2>2. CASE u # t
    <3>1. op'[u] = op[u] /\ Moving(u) \cap Moving(t) = {}
      BY <1>1, <2>2 DEF PoolInv, EachInOnePlace
    <3>2. op[u].step = "insert" => op[u].buf \in Moving(u) /\ op[u].buf \notin pool.payload
      BY DEF Moving, PoolInv, Carries
    <3> QED BY <1>0, <3>1, <3>2 DEF PoolInv, Carries
  <2> QED BY <2>1, <2>2
<1> QED BY <1>1, <1>2, <1>3, <1>5, <1>6 DEF PoolInv

-----------------------------------------------------------------------------
(* The steps *)

LEMMA PoolInitially == InitPool => PoolInv
<1> SUFFICES ASSUME InitPool PROVE PoolInv
  OBVIOUS
<1> DEFINE N == Cardinality(Bufs)
<1>1. N \in Nat
  BY FS_CardinalityType, NetBuffersAssumption
<1>2. /\ pool.free \in [1..N -> Bufs] /\ Distinct(pool.free)
      /\ \A b \in Bufs : \E i \in DOMAIN pool.free : pool.free[i] = b
      /\ pool.sem = N /\ pool.payload = {} /\ pool.out = {}
      /\ pool = [free |-> pool.free, sem |-> N, payload |-> {}, out |-> {}]
  BY DEF InitPool, Distinct
<1>3. op = [t \in Users |-> [step |-> "idle", buf |-> NoBuf]]
  BY DEF InitPool, Idle
<1>4. pool.free \in Seq(Bufs) /\ Len(pool.free) = N
  BY <1>1, <1>2
<1>5. PoolTypeOK
  BY <1>1, <1>2, <1>3, <1>4 DEF PoolTypeOK, Steps
<1>6. CallsAt("unlink") = {} /\ CallsAt("give") = {} /\ \A t \in Users : Moving(t) = {}
  BY <1>3 DEF CallsAt, Moving
<1>7. SemaphoreCovers
  <2>1. Cardinality(CallsAt("unlink")) = 0 /\ Cardinality(CallsAt("give")) = 0
    BY <1>6, FS_EmptySet, Zenon
  <2> QED BY <1>1, <1>2, <1>4, <2>1 DEF SemaphoreCovers
<1>8. PayloadOnlyInUse
  BY <1>2 DEF PayloadOnlyInUse, Distinct
<1>9. InFree = Bufs
  BY <1>2, Zenon DEF InFree
<1>10. EachInOnePlace
  BY <1>2, <1>6, <1>9 DEF EachInOnePlace
<1>11. Carries
  BY <1>3 DEF Carries
<1> QED BY <1>5, <1>7, <1>8, <1>10, <1>11 DEF PoolInv

\* What holds of the pool before any step
LEMMA Before ==
    ASSUME PoolInv, NEW t \in Users
    PROVE  /\ pool.free \in Seq(Bufs) /\ pool.sem \in Nat
           /\ pool.payload \in SUBSET Bufs /\ pool.out \in SUBSET Bufs
           /\ Distinct(pool.free) /\ InFree = Elements(pool.free)
           /\ InFree \cap pool.payload = {} /\ pool.out \subseteq pool.payload
           /\ InFree \cap pool.out = {} /\ Moving(t) \cap (InFree \cup pool.out) = {}
           /\ Len(pool.free) \in Nat
  BY PoolFields DEF PoolInv, PayloadOnlyInUse, EachInOnePlace, Distinct, Elements, InFree

\* The forms of the updates
LEMMA Forms ==
    ASSUME PoolTypeOK, NEW t \in Users
    PROVE  /\ \A s : op' = [op EXCEPT ![t].step = s] => Moves(t, s, op[t].buf)
           /\ \A s, b : op' = [op EXCEPT ![t] = [step |-> s, buf |-> b]] => Moves(t, s, b)
           /\ \A n : pool' = [pool EXCEPT !.sem = n]
                       => Becomes(pool.free, n, pool.payload, pool.out)
           /\ \A f : pool' = [pool EXCEPT !.free = f]
                       => Becomes(f, pool.sem, pool.payload, pool.out)
           /\ \A p : pool' = [pool EXCEPT !.payload = p]
                       => Becomes(pool.free, pool.sem, p, pool.out)
           /\ \A o : pool' = [pool EXCEPT !.out = o]
                       => Becomes(pool.free, pool.sem, pool.payload, o)
           /\ \A p, o : pool' = [pool EXCEPT !.payload = p, !.out = o]
                       => Becomes(pool.free, pool.sem, p, o)
           /\ pool' = pool => Becomes(pool.free, pool.sem, pool.payload, pool.out)
<1>1. op[t] = [step |-> op[t].step, buf |-> op[t].buf]
  BY PoolFields
<1>2. \A s : op' = [op EXCEPT ![t].step = s] => Moves(t, s, op[t].buf)
  BY <1>1 DEF Moves
<1>3. \A s, b : op' = [op EXCEPT ![t] = [step |-> s, buf |-> b]] => Moves(t, s, b)
  BY DEF Moves
<1>4. pool = [free |-> pool.free, sem |-> pool.sem, payload |-> pool.payload, out |-> pool.out]
  BY PoolFields
<1>5. \A n : pool' = [pool EXCEPT !.sem = n] => Becomes(pool.free, n, pool.payload, pool.out)
  BY <1>4 DEF Becomes
<1>6. \A f : pool' = [pool EXCEPT !.free = f] => Becomes(f, pool.sem, pool.payload, pool.out)
  BY <1>4 DEF Becomes
<1>7. \A p : pool' = [pool EXCEPT !.payload = p] => Becomes(pool.free, pool.sem, p, pool.out)
  BY <1>4 DEF Becomes
<1>8. \A o : pool' = [pool EXCEPT !.out = o] => Becomes(pool.free, pool.sem, pool.payload, o)
  BY <1>4 DEF Becomes
<1>9. \A p, o : pool' = [pool EXCEPT !.payload = p, !.out = o]
                  => Becomes(pool.free, pool.sem, p, o)
  BY <1>4 DEF Becomes
<1>10. pool' = pool => Becomes(pool.free, pool.sem, pool.payload, pool.out)
  BY <1>4 DEF Becomes
<1> QED BY <1>2, <1>3, <1>5, <1>6, <1>7, <1>8, <1>9, <1>10, Zenon

\* The two counts that stand beside the semaphore, after a step of task t to s
LEMMA Counts ==
    ASSUME PoolTypeOK, NEW t \in Users, NEW s \in Steps, NEW b, Moves(t, s, b)
    PROVE  LET c(l) == Cardinality(CallsAt(l))
               d(l) == Cardinality(CallsAt(l)')
           IN  \A l \in {"unlink", "give"} :
                 /\ c(l) \in Nat
                 /\ op[t].step # l /\ s # l => d(l) = c(l)
                 /\ op[t].step # l /\ s = l => d(l) = c(l) + 1
                 /\ op[t].step = l /\ s # l => d(l) = c(l) - 1 /\ c(l) > 0
<1>1. op'[t].step = s /\ \A u \in Users \ {t} : op'[u] = op[u]
  BY PoolFields DEF Moves
<1> QED BY <1>1, TasksAt

\* The sum of the counts after a step of task t from one step to another
LEMMA Sums ==
    ASSUME PoolInv, NEW t \in Users, NEW s \in Steps, NEW b, Moves(t, s, b)
    PROVE  /\ Between' \in Nat /\ Len(pool.free) \in Nat /\ pool.sem \in Nat
           /\ op[t].step \notin {"unlink", "give"} /\ s \notin {"unlink", "give"}
                => pool.sem + Between' = Len(pool.free)
           /\ op[t].step \notin {"unlink", "give"} /\ s \in {"unlink", "give"}
                => pool.sem + Between' = Len(pool.free) + 1
           /\ op[t].step \in {"unlink", "give"} /\ s \notin {"unlink", "give"}
                => pool.sem + Between' = Len(pool.free) - 1 /\ Len(pool.free) > 0
<1> DEFINE u == Cardinality(CallsAt("unlink"))
           g == Cardinality(CallsAt("give"))
           u1 == Cardinality(CallsAt("unlink")')
           g1 == Cardinality(CallsAt("give")')
<1>1. /\ u \in Nat /\ g \in Nat /\ pool.sem \in Nat /\ pool.sem + u + g = Len(pool.free)
      /\ Len(pool.free) \in Nat
  <2>1. u \in Nat /\ g \in Nat
    BY Counts DEF PoolInv
  <2>2. pool.sem \in Nat /\ Len(pool.free) \in Nat
    BY Before
  <2> QED BY <2>1, <2>2 DEF PoolInv, SemaphoreCovers
<1>2. /\ op[t].step # "unlink" /\ s # "unlink" => u1 = u
      /\ op[t].step # "unlink" /\ s = "unlink" => u1 = u + 1
      /\ op[t].step = "unlink" /\ s # "unlink" => u1 = u - 1 /\ u > 0
  BY Counts DEF PoolInv
<1>3. /\ op[t].step # "give" /\ s # "give" => g1 = g
      /\ op[t].step # "give" /\ s = "give" => g1 = g + 1
      /\ op[t].step = "give" /\ s # "give" => g1 = g - 1 /\ g > 0
  BY Counts DEF PoolInv
<1>4. u1 \in Nat /\ g1 \in Nat
  <2>1. ASSUME NEW l PROVE Cardinality(CallsAt(l)') \in Nat
    BY FS_Subset, FS_CardinalityType, NetBuffersAssumption DEF CallsAt
  <2> QED BY <2>1
<1>5. Between' = u1 + g1
  BY DEF Between
<1> HIDE DEF u, g, u1, g1
<1>6. ASSUME op[t].step \notin {"unlink", "give"}, s \notin {"unlink", "give"}
      PROVE  pool.sem + Between' = Len(pool.free)
  BY <1>1, <1>2, <1>3, <1>5, <1>6
<1>7. ASSUME op[t].step \notin {"unlink", "give"}, s \in {"unlink", "give"}
      PROVE  pool.sem + Between' = Len(pool.free) + 1
  <2>1. CASE s = "unlink"
    <3>1. u1 = u + 1 /\ g1 = g
      BY <1>2, <1>3, <1>7, <2>1
    <3> QED BY <1>1, <1>5, <3>1
  <2>2. CASE s = "give"
    <3>1. u1 = u /\ g1 = g + 1
      BY <1>2, <1>3, <1>7, <2>2
    <3> QED BY <1>1, <1>5, <3>1
  <2> QED BY <1>7, <2>1, <2>2
<1>8. ASSUME op[t].step \in {"unlink", "give"}, s \notin {"unlink", "give"}
      PROVE  pool.sem + Between' = Len(pool.free) - 1 /\ Len(pool.free) > 0
  <2>1. CASE op[t].step = "unlink"
    <3>1. u1 = u - 1 /\ u > 0 /\ g1 = g
      BY <1>2, <1>3, <1>8, <2>1
    <3> QED BY <1>1, <1>5, <3>1
  <2>2. CASE op[t].step = "give"
    <3>1. u1 = u /\ g1 = g - 1 /\ g > 0
      BY <1>2, <1>3, <1>8, <2>2
    <3> QED BY <1>1, <1>5, <3>1
  <2> QED BY <1>8, <2>1, <2>2
<1> QED BY <1>1, <1>4, <1>5, <1>6, <1>7, <1>8

LEMMA BeginGetKeeps ==
    ASSUME PoolInv, NEW t \in Users, BeginGet(t) PROVE PoolInv'
<1>1. Moving(t) = {} /\ op[t].step = "idle" /\ NoBuf \in Bufs \cup {NoBuf}
  BY DEF BeginGet, Moving
<1>2. Moves(t, "take", NoBuf) /\ Becomes(pool.free, pool.sem, pool.payload, pool.out)
  BY Forms DEF BeginGet, PoolInv
<1>3. pool.sem + Between' = Len(pool.free)
  <2>1. "take" \in Steps
    BY DEF Steps
  <2> QED BY <1>1, <1>2, <2>1, Sums
<1>4. InStep(t, "take", NoBuf, pool.free, pool.sem, pool.payload, pool.out, {})
  BY <1>1, <1>2, <1>3, Before DEF InStep, Steps
<1> QED BY <1>4, OneTaskMoves, Zenon

LEMMA TakeKeeps ==
    ASSUME PoolInv, NEW t \in Users, Take(t) PROVE PoolInv'
<1> DEFINE b == op[t].buf
           n == pool.sem - 1
<1>1. Moving(t) = {} /\ op[t].step = "take" /\ n \in Nat /\ b \in Bufs \cup {NoBuf}
  BY Before, PoolFields DEF Take, Moving, PoolInv
<1>2. Moves(t, "unlink", b) /\ Becomes(pool.free, n, pool.payload, pool.out)
  BY Forms DEF Take, PoolInv
<1> HIDE DEF b
<1>3. n + Between' = Len(pool.free)
  <2>1. "unlink" \in Steps
    BY DEF Steps
  <2>2. pool.sem + Between' = Len(pool.free) + 1
    BY <1>1, <1>2, <2>1, Sums
  <2>3. Between' \in Nat /\ Len(pool.free) \in Nat /\ pool.sem \in Nat
    BY <1>2, <2>1, Sums
  <2> QED BY <2>2, <2>3
<1> HIDE DEF n
<1>4. InStep(t, "unlink", b, pool.free, n, pool.payload, pool.out, {})
  BY <1>1, <1>2, <1>3, Before DEF InStep, Steps
<1> QED BY <1>4, OneTaskMoves, Zenon

LEMMA TimesOutKeeps ==
    ASSUME PoolInv, NEW t \in Users, TakeTimesOut(t) PROVE PoolInv'
<1>1. Moving(t) = {} /\ op[t].step = "take" /\ NoBuf \in Bufs \cup {NoBuf}
  BY DEF TakeTimesOut, Moving
<1>2. Moves(t, "idle", NoBuf) /\ Becomes(pool.free, pool.sem, pool.payload, pool.out)
  BY Forms DEF TakeTimesOut, Idle, PoolInv
<1>3. pool.sem + Between' = Len(pool.free)
  <2>1. "idle" \in Steps
    BY DEF Steps
  <2> QED BY <1>1, <1>2, <2>1, Sums
<1>4. InStep(t, "idle", NoBuf, pool.free, pool.sem, pool.payload, pool.out, {})
  BY <1>1, <1>2, <1>3, Before DEF InStep, Steps
<1> QED BY <1>4, OneTaskMoves, Zenon

LEMMA UnlinkKeeps ==
    ASSUME PoolInv, NEW t \in Users, Unlink(t) PROVE PoolInv'
<1> DEFINE f == Tail(pool.free)
           b == Head(pool.free)
<1>1. Moving(t) = {} /\ op[t].step = "unlink"
  BY DEF Unlink, Moving
<1>2. Moves(t, "alloc", b) /\ Becomes(f, pool.sem, pool.payload, pool.out)
  BY Forms DEF Unlink, PoolInv
<1>3. pool.free # <<>>
  BY "alloc" \in Steps, <1>1, <1>2, Sums DEF Steps
<1>4. /\ f \in Seq(Bufs) /\ Len(f) = Len(pool.free) - 1 /\ b \in Bufs /\ Distinct(f)
      /\ Elements(f) = InFree \ {b} /\ b \in InFree
  BY <1>3, Before, HeadLeaves
<1> HIDE DEF f, b
<1>5. pool.sem + Between' = Len(f)
  <2>1. "alloc" \in Steps
    BY DEF Steps
  <2> QED BY <1>1, <1>2, <1>3, <1>4, <2>1, Sums
<1>6. InStep(t, "alloc", b, f, pool.sem, pool.payload, pool.out, {b})
  BY <1>1, <1>2, <1>3, <1>4, <1>5, Before DEF InStep, Steps
<1> QED BY <1>6, OneTaskMoves, Zenon

LEMMA AllocKeeps ==
    ASSUME PoolInv, NEW t \in Users, Alloc(t) PROVE PoolInv'
<1> DEFINE b == op[t].buf
           p == pool.payload \cup {b}
           o == pool.out \cup {b}
<1>1. Moving(t) = {b} /\ op[t].step = "alloc" /\ b \in Bufs /\ b \in Bufs \cup {NoBuf}
  BY DEF Alloc, Moving, PoolInv, Carries
<1>2. Moves(t, "idle", b) /\ Becomes(pool.free, pool.sem, p, o)
  BY Forms DEF Alloc, PoolInv
<1>3. p = pool.payload \cup {b} /\ o = pool.out \cup {b}
  BY DEF p
<1> HIDE DEF b, p, o
<1>4. pool.sem + Between' = Len(pool.free)
  <2>1. "idle" \in Steps
    BY DEF Steps
  <2> QED BY <1>1, <1>2, <1>3, <2>1, Sums
<1>5. InStep(t, "idle", b, pool.free, pool.sem, p, o, {})
  BY <1>1, <1>2, <1>3, <1>4, Before DEF InStep, Steps
<1> QED BY <1>5, OneTaskMoves, Zenon

LEMMA AllocFailsKeeps ==
    ASSUME PoolInv, NEW t \in Users, AllocFails(t) PROVE PoolInv'
<1> DEFINE b == op[t].buf
<1>1. Moving(t) = {b} /\ op[t].step = "alloc" /\ b \in Bufs
  BY DEF AllocFails, Moving, PoolInv, Carries
<1>2. Moves(t, "free", b) /\ Becomes(pool.free, pool.sem, pool.payload, pool.out)
  BY Forms DEF AllocFails, PoolInv
<1> HIDE DEF b
<1>3. pool.sem + Between' = Len(pool.free)
  <2>1. "free" \in Steps
    BY DEF Steps
  <2> QED BY <1>1, <1>2, <2>1, Sums
<1>4. InStep(t, "free", b, pool.free, pool.sem, pool.payload, pool.out, {b})
  BY <1>1, <1>2, <1>3, Before DEF InStep, Steps
<1> QED BY <1>4, OneTaskMoves, Zenon

LEMMA BeginReleaseKeeps ==
    ASSUME PoolInv, NEW t \in Users, NEW b \in pool.out, BeginRelease(t, b) PROVE PoolInv'
<1> DEFINE o == pool.out \ {b}
<1>1. Moving(t) = {} /\ op[t].step = "idle" /\ b \in Bufs
  BY Before DEF BeginRelease, Moving
<1>2. Moves(t, "free", b) /\ Becomes(pool.free, pool.sem, pool.payload, o)
  BY Forms DEF BeginRelease, PoolInv
<1>3. o = pool.out \ {b}
  BY DEF o
<1> HIDE DEF o
<1>4. pool.sem + Between' = Len(pool.free)
  <2>1. "free" \in Steps
    BY DEF Steps
  <2> QED BY <1>1, <1>2, <1>3, <2>1, Sums
<1>5. InStep(t, "free", b, pool.free, pool.sem, pool.payload, o, {b})
  BY <1>1, <1>2, <1>3, <1>4, Before DEF InStep, Steps
<1> QED BY <1>5, OneTaskMoves, Zenon

LEMMA FreePayloadKeeps ==
    ASSUME PoolInv, NEW t \in Users, FreePayload(t) PROVE PoolInv'
<1> DEFINE b == op[t].buf
           p == pool.payload \ {b}
<1>1. Moving(t) = {b} /\ op[t].step = "free" /\ b \in Bufs
  BY DEF FreePayload, Moving, PoolInv, Carries
<1>2. Moves(t, "insert", b) /\ Becomes(pool.free, pool.sem, p, pool.out)
  BY Forms DEF FreePayload, PoolInv
<1>3. p = pool.payload \ {b} /\ b \notin p
  BY DEF p
<1> HIDE DEF b, p
<1>4. pool.sem + Between' = Len(pool.free)
  <2>1. "insert" \in Steps
    BY DEF Steps
  <2> QED BY <1>1, <1>2, <1>3, <2>1, Sums
<1>5. InStep(t, "insert", b, pool.free, pool.sem, p, pool.out, {b})
  BY <1>1, <1>2, <1>3, <1>4, Before DEF InStep, Steps
<1> QED BY <1>5, OneTaskMoves, Zenon

LEMMA InsertKeeps ==
    ASSUME PoolInv, NEW t \in Users, Insert(t) PROVE PoolInv'
<1> DEFINE b == op[t].buf
           f == Append(pool.free, b)
<1>1. Moving(t) = {b} /\ op[t].step = "insert" /\ b \in Bufs /\ b \notin pool.payload
      /\ b \in Bufs \cup {NoBuf}
  BY DEF Insert, Moving, PoolInv, Carries
<1>2. Moves(t, "give", b) /\ Becomes(f, pool.sem, pool.payload, pool.out)
  BY <1>1, Before, Forms DEF Insert, PoolInv
<1>3. b \notin InFree
  BY <1>1, Before
<1>4. /\ f \in Seq(Bufs) /\ Len(f) = Len(pool.free) + 1 /\ Distinct(f)
      /\ Elements(f) = InFree \cup {b}
  BY <1>1, <1>3, Before, DescriptorJoins
<1> HIDE DEF b, f
<1>5. pool.sem + Between' = Len(f)
  <2>1. "give" \in Steps
    BY DEF Steps
  <2> QED BY <1>1, <1>2, <1>3, <1>4, <2>1, Sums
<1>6. InStep(t, "give", b, f, pool.sem, pool.payload, pool.out, {})
  BY <1>1, <1>2, <1>3, <1>4, <1>5, Before DEF InStep, Steps
<1> QED BY <1>6, OneTaskMoves, Zenon

LEMMA GiveKeeps ==
    ASSUME PoolInv, NEW t \in Users, Give(t) PROVE PoolInv'
<1> DEFINE n == pool.sem + 1
<1>1. Moving(t) = {} /\ op[t].step = "give" /\ n \in Nat /\ NoBuf \in Bufs \cup {NoBuf}
  BY Before DEF Give, Moving
<1>2. Moves(t, "idle", NoBuf) /\ Becomes(pool.free, n, pool.payload, pool.out)
  BY Forms DEF Give, Idle, PoolInv
<1>3. n + Between' = Len(pool.free)
  <2>1. "idle" \in Steps
    BY DEF Steps
  <2> QED BY <1>1, <1>2, <2>1, Sums
<1> HIDE DEF n
<1>4. InStep(t, "idle", NoBuf, pool.free, n, pool.payload, pool.out, {})
  BY <1>1, <1>2, <1>3, Before DEF InStep, Steps
<1> QED BY <1>4, OneTaskMoves, Zenon

LEMMA PoolInductive == PoolInv /\ [PoolNext]_poolVars => PoolInv'
<1> SUFFICES ASSUME PoolInv, [PoolNext]_poolVars PROVE PoolInv'
  OBVIOUS
<1>1. CASE UNCHANGED poolVars
  BY <1>1 DEF poolVars, PoolInv, PoolTypeOK, SemaphoreCovers, PayloadOnlyInUse,
              EachInOnePlace, Carries, InFree, Moving, CallsAt
<1>2. ASSUME NEW t \in Users, PoolStep(t) PROVE PoolInv'
  BY <1>2, TakeKeeps, TimesOutKeeps, UnlinkKeeps, AllocKeeps, AllocFailsKeeps,
     FreePayloadKeeps, InsertKeeps, GiveKeeps DEF PoolStep
<1>3. ASSUME NEW t \in Users, BeginGet(t) PROVE PoolInv'
  BY <1>3, BeginGetKeeps
<1>4. ASSUME NEW t \in Users, NEW b \in pool.out, BeginRelease(t, b) PROVE PoolInv'
  BY <1>4, BeginReleaseKeeps
<1> QED BY <1>1, <1>2, <1>3, <1>4 DEF PoolNext

LEMMA PoolAlways == PoolSpec => []PoolInv
  BY PoolInitially, PoolInductive, PTL DEF PoolSpec

-----------------------------------------------------------------------------
(* The theorems *)

\* However many tasks call the pool at once, wherever their calls are interrupted
\* and whether or not the heap has room: the count of the semaphore is the length
\* of the list less what is promised or not yet given, so that a task which
\* xSemaphoreTake lets through finds a descriptor at the head, though it does not
\* look; no descriptor is lost or handed to two users; and exactly what is handed
\* out has a payload.
THEOREM PoolStaysIntact == PoolSpec => []PoolIntact
<1>1. PoolInv => PoolIntact
  BY DEF PoolInv, PoolIntact
<1> QED BY <1>1, PoolAlways, PTL

-----------------------------------------------------------------------------
(* The ARP cache *)

Row == [ip : Local \cup {NoIp}, mac : Macs \cup {NoMac}, age : 0..255, valid : BOOLEAN]

\* Every valid row has the hardware address last heard for its IP address,
\* which has not been heard for another one since.
Latest ==
    \A x \in Rows : arp[x].ip # NoIp /\ arp[x].valid =>
        /\ arp[x].mac \in Macs
        /\ heard[arp[x].ip] = arp[x].mac
        /\ claim[arp[x].mac] = arp[x].ip

ArpInv == ArpTypeOK /\ OneRowEach /\ Latest

\* A row made from values of the right types
LEMMA RowType ==
    ASSUME NEW i \in Local \cup {NoIp}, NEW m \in Macs \cup {NoMac}, NEW a \in 0..255,
           NEW v \in BOOLEAN
    PROVE  [ip |-> i, mac |-> m, age |-> a, valid |-> v] \in Row
  BY DEF Row

LEMMA RowFields ==
    ASSUME NEW r \in Row
    PROVE  /\ r.ip \in Local \cup {NoIp} /\ r.mac \in Macs \cup {NoMac}
           /\ r.age \in 0..255 /\ r.valid \in BOOLEAN
           /\ r = [ip |-> r.ip, mac |-> r.mac, age |-> r.age, valid |-> r.valid]
  BY DEF Row

LEMMA RowsTyped ==
    ASSUME ArpTypeOK
    PROVE  arp \in [Rows -> Row]
  BY DEF ArpTypeOK, Row

-----------------------------------------------------------------------------
(* The three ways a row changes *)

\* After a frame one row is of the sender, and no other row has one of its
\* addresses; each other row is as it was, or was of the sender's IP address
\* and is empty.
HeardIn(a, y, m, addr) ==
    /\ a \in [Rows -> Row]
    /\ a[y] = Answered(m, addr)
    /\ arp[y].ip = addr \/ arp[y].mac = m \/ y \in OldestRow
    /\ \A x \in Rows \ {y} :
         /\ a[x] = arp[x] \/ (a[x] = Empty /\ arp[x].ip = addr)
         /\ a[x].ip # addr /\ a[x].mac # m

LEMMA AnsweredType ==
    ASSUME NEW m \in Macs, NEW addr \in Local
    PROVE  /\ Answered(m, addr) \in Row /\ Empty \in Row
           /\ Answered(m, addr).ip = addr /\ Answered(m, addr).mac = m
           /\ Answered(m, addr).age = MaxAge /\ Answered(m, addr).valid = TRUE
           /\ Empty.ip = NoIp /\ Empty.mac = NoMac
<1>1. MaxAge \in 0..255
  BY ArpAssumption
<1>2. Answered(m, addr) \in Row
  BY <1>1, RowType DEF Answered
<1>3. Empty \in Row
  BY 0 \in 0..255, FALSE \in BOOLEAN, NoIp \in Local \cup {NoIp}, NoMac \in Macs \cup {NoMac},
     RowType, Zenon DEF Empty
<1> QED BY <1>2, <1>3 DEF Answered, Empty

\* One row is replaced by the answer, and no other row has one of its addresses.
LEMMA OneAnswered ==
    ASSUME NEW m \in Macs, NEW addr \in Local, NEW y \in Rows, arp \in [Rows -> Row],
           \A x \in Rows \ {y} : arp[x].ip # addr /\ arp[x].mac # m,
           arp[y].ip = addr \/ arp[y].mac = m \/ y \in OldestRow
    PROVE  HeardIn([arp EXCEPT ![y] = Answered(m, addr)], y, m, addr)
  BY AnsweredType DEF HeardIn

LEMMA RefreshedRows ==
    ASSUME ArpTypeOK, OneRowEach, NEW m \in Macs, NEW addr \in Local,
           NEW a \in Refreshed(m, addr)
    PROVE  \E y \in Rows : HeardIn(a, y, m, addr)
<1>1. arp \in [Rows -> Row] /\ addr # NoIp /\ m # NoMac
  BY RowsTyped, ArpAssumption
<1>2. \A x, y \in Rows : x # y => /\ arp[x].ip = addr => arp[y].ip # addr
                                  /\ arp[x].mac = m => arp[y].mac # m
  BY <1>1 DEF OneRowEach
<1>3. CASE Confirmed(m, addr) # {}
  <2>1. PICK y \in First(Confirmed(m, addr)) : a = [arp EXCEPT ![y] = Answered(m, addr)]
    BY <1>3 DEF Refreshed
  <2>2. y \in Rows /\ arp[y].ip = addr /\ arp[y].mac = m
    BY <2>1 DEF First, Confirmed, IpRows
  <2>3. \A x \in Rows \ {y} : arp[x].ip # addr /\ arp[x].mac # m
    BY <1>2, <2>2
  <2> QED BY <1>1, <2>1, <2>2, <2>3, OneAnswered
<1>4. CASE Confirmed(m, addr) = {} /\ MacRows(m, addr) # {}
  <2>1. PICK y \in LastOf(MacRows(m, addr)) :
          a = [x \in Rows |-> IF x = y THEN Answered(m, addr)
                              ELSE IF x \in LastOf(IpRows(addr)) THEN Empty ELSE arp[x]]
    BY <1>4 DEF Refreshed
  <2>2. y \in Rows /\ arp[y].mac = m /\ arp[y].ip # addr
    BY <2>1 DEF LastOf, MacRows
  <2>3. LastOf(IpRows(addr)) = IpRows(addr)
    BY <1>2 DEF LastOf, IpRows, Rows
  <2>4. a \in [Rows -> Row]
    BY <1>1, <2>1, AnsweredType
  <2>5. a[y] = Answered(m, addr)
    BY <2>1, <2>2
  <2>6. ASSUME NEW x \in Rows \ {y}
        PROVE  /\ a[x] = arp[x] \/ (a[x] = Empty /\ arp[x].ip = addr)
               /\ a[x].ip # addr /\ a[x].mac # m
    <3>1. CASE arp[x].ip = addr
      <4>1. a[x] = Empty
        BY <2>1, <2>3, <3>1 DEF IpRows
      <4> QED BY <1>1, <3>1, <4>1, AnsweredType
    <3>2. CASE arp[x].ip # addr
      <4>1. a[x] = arp[x]
        BY <2>1, <2>3, <3>2 DEF IpRows
      <4> QED BY <1>2, <2>2, <3>2, <4>1
    <3> QED BY <3>1, <3>2
  <2> QED BY <2>2, <2>4, <2>5, <2>6 DEF HeardIn
<1>5. CASE Confirmed(m, addr) = {} /\ MacRows(m, addr) = {} /\ IpRows(addr) # {}
  <2>1. PICK y \in LastOf(IpRows(addr)) : a = [arp EXCEPT ![y] = Answered(m, addr)]
    BY <1>5 DEF Refreshed
  <2>2. y \in Rows /\ arp[y].ip = addr
    BY <2>1 DEF LastOf, IpRows
  <2>3. \A x \in Rows \ {y} : arp[x].ip # addr /\ arp[x].mac # m
    BY <1>2, <1>5, <2>2 DEF MacRows
  <2> QED BY <1>1, <2>1, <2>2, <2>3, OneAnswered
<1>6. CASE Confirmed(m, addr) = {} /\ MacRows(m, addr) = {} /\ IpRows(addr) = {}
  <2>1. PICK y \in OldestRow : a = [arp EXCEPT ![y] = Answered(m, addr)]
    BY <1>6 DEF Refreshed
  <2>2. y \in Rows
    BY <2>1 DEF OldestRow, First
  <2>3. \A x \in Rows \ {y} : arp[x].ip # addr /\ arp[x].mac # m
    BY <1>6 DEF MacRows, IpRows
  <2> QED BY <1>1, <2>1, <2>2, <2>3, OneAnswered
<1> QED BY <1>3, <1>4, <1>5, <1>6

\* A request takes the oldest row for an address that has none.
Asked(a, y, hop) ==
    /\ a \in [Rows -> Row]
    /\ a[y].ip = hop /\ a[y].mac = arp[y].mac /\ a[y].age = Retransmissions /\ ~a[y].valid
    /\ y \in OldestRow
    /\ \A x \in Rows : arp[x].ip # hop
    /\ \A x \in Rows \ {y} : a[x] = arp[x]

LEMMA ReservedRows ==
    ASSUME ArpTypeOK, NEW addr \in Ips, Lookup(addr) = "miss", NEW a \in Reserved(Hop(addr))
    PROVE  Hop(addr) \in Local /\ \E y \in Rows : Asked(a, y, Hop(addr))
<1>1. IpRows(Hop(addr)) = {} /\ Hop(addr) \in Local
  BY ArpAssumption DEF Lookup, Hop, Ips
<1>2. PICK y \in OldestRow :
        a = [arp EXCEPT ![y] = [@ EXCEPT !.ip = Hop(addr), !.age = Retransmissions,
                                         !.valid = FALSE]]
  BY <1>1 DEF Reserved
<1>3. y \in Rows
  BY <1>2 DEF OldestRow, First
<1>4. arp \in [Rows -> Row]
  BY RowsTyped
<1>5. arp[y] \in Row
  BY <1>3, <1>4
<1>6. a[y] = [ip |-> Hop(addr), mac |-> arp[y].mac, age |-> Retransmissions, valid |-> FALSE]
  <2>1. arp[y] = [ip |-> arp[y].ip, mac |-> arp[y].mac, age |-> arp[y].age,
                  valid |-> arp[y].valid]
    BY <1>5, RowFields
  <2> QED BY <1>2, <1>3, <1>4, <2>1
<1>7. a[y] \in Row
  <2>1. arp[y].mac \in Macs \cup {NoMac} /\ Retransmissions \in 0..255 /\ FALSE \in BOOLEAN
    BY <1>5, RowFields, ArpAssumption
  <2>2. Hop(addr) \in Local \cup {NoIp}
    BY <1>1
  <2> QED BY <1>6, <2>1, <2>2 DEF Row
<1>8. a \in [Rows -> Row] /\ \A x \in Rows \ {y} : a[x] = arp[x]
  BY <1>2, <1>3, <1>4, <1>7
<1>9. \A x \in Rows : arp[x].ip # Hop(addr)
  BY <1>1 DEF IpRows
<1> QED BY <1>1, <1>2, <1>3, <1>6, <1>8, <1>9 DEF Asked

\* The timer makes one row older, and wipes its IP address at the end.
Older(a, y) ==
    /\ a \in [Rows -> Row]
    /\ a[y].mac = arp[y].mac /\ a[y].valid = arp[y].valid /\ a[y].age <= arp[y].age
    /\ a[y].ip = arp[y].ip \/ (a[y].ip = NoIp /\ arp[y].age = 1)
    /\ \A x \in Rows \ {y} : a[x] = arp[x]

LEMMA AgedRows ==
    ASSUME ArpTypeOK, NEW y \in Rows, AgeRow(y)
    PROVE  Older(arp', y)
<1>1. arp \in [Rows -> Row] /\ arp[y] \in Row
  BY RowsTyped
<1>2. CASE arp[y].age > 0
  <2> DEFINE r == arp[y]
             i == IF r.age - 1 = 0 THEN NoIp ELSE r.ip
  <2>1. r.age - 1 \in 0..255 /\ i \in Local \cup {NoIp}
    BY <1>1, <1>2, RowFields
  <2>3. arp' = [arp EXCEPT ![y] = [ip |-> i, mac |-> r.mac, age |-> r.age - 1,
                                   valid |-> r.valid]]
    BY <1>2, Zenon DEF AgeRow, Aged
  <2>4. [ip |-> i, mac |-> r.mac, age |-> r.age - 1, valid |-> r.valid] \in Row
    <3>1. r.mac \in Macs \cup {NoMac} /\ r.valid \in BOOLEAN
      BY <1>1, RowFields
    <3> HIDE DEF r, i
    <3> QED BY <2>1, <3>1 DEF Row
  <2>5. arp' \in [Rows -> Row]
    BY <1>1, <2>3, <2>4
  <2>6. /\ arp'[y].mac = r.mac /\ arp'[y].valid = r.valid /\ arp'[y].age = r.age - 1
        /\ arp'[y].ip = i /\ \A x \in Rows \ {y} : arp'[x] = arp[x]
    BY <1>1, <2>3
  <2>7. arp'[y].ip = r.ip \/ (arp'[y].ip = NoIp /\ r.age = 1)
    BY <1>1, <2>6, RowFields
  <2>8. arp'[y].age <= r.age
    BY <1>1, <2>6, RowFields
  <2> QED BY <2>5, <2>6, <2>7, <2>8 DEF Older
<1>3. CASE ~(arp[y].age > 0)
  BY <1>1, <1>3, RowFields DEF AgeRow, Older
<1> QED BY <1>2, <1>3

-----------------------------------------------------------------------------
(* The invariant *)

LEMMA ArpInitially == InitArp => ArpInv
<1> SUFFICES ASSUME InitArp PROVE ArpInv
  OBVIOUS
<1>1. arp = [x \in Rows |-> Empty] /\ Empty \in Row
  <2>1. 0 \in 0..255 /\ FALSE \in BOOLEAN /\ NoIp \in Local \cup {NoIp}
        /\ NoMac \in Macs \cup {NoMac}
    OBVIOUS
  <2> QED BY <2>1, RowType, Zenon DEF InitArp, Empty
<1>2. ArpTypeOK
  BY <1>1 DEF ArpTypeOK, Row, InitArp
<1>3. \A x \in Rows : arp[x].ip = NoIp /\ arp[x].mac = NoMac
  BY <1>1 DEF Empty
<1> QED BY <1>2, <1>3 DEF ArpInv, OneRowEach, Latest

LEMMA HearKeeps ==
    ASSUME ArpInv, NEW m \in Macs, NEW addr \in Ips, Hear(m, addr)
    PROVE  ArpInv'
<1>1. CASE addr \notin Local
  BY <1>1 DEF Hear, arpVars, ArpInv, ArpTypeOK, OneRowEach, Latest
<1>2. CASE addr \in Local
  <2>1. /\ heard' = [heard EXCEPT ![addr] = m]
        /\ claim' = [claim EXCEPT ![m] = addr]
        /\ arp' \in Refreshed(m, addr)
    BY <1>2 DEF Hear
  <2>2. PICK y \in Rows : HeardIn(arp', y, m, addr)
    BY <1>2, <2>1, RefreshedRows DEF ArpInv
  <2>3. /\ arp' \in [Rows -> Row]
        /\ arp'[y].ip = addr /\ arp'[y].mac = m /\ arp'[y].valid
        /\ addr # NoIp /\ m # NoMac /\ Empty.ip = NoIp /\ Empty.mac = NoMac
    <3>1. arp' \in [Rows -> Row] /\ arp'[y] = Answered(m, addr)
      BY <2>2 DEF HeardIn
    <3>2. addr # NoIp /\ m # NoMac
      BY <1>2, ArpAssumption
    <3> QED BY <3>1, <3>2 DEF Answered, Empty
  <2>4. \A x \in Rows \ {y} : /\ arp'[x] = arp[x] \/ arp'[x] = Empty
                              /\ arp'[x].ip # addr /\ arp'[x].mac # m
    BY <2>2 DEF HeardIn
  <2>5. ArpTypeOK'
    BY <1>2, <2>1, <2>3 DEF ArpInv, ArpTypeOK, Row, Ips
  <2>6. OneRowEach'
    BY <2>3, <2>4 DEF ArpInv, OneRowEach
  <2>7. Latest'
    <3> SUFFICES ASSUME NEW x \in Rows, arp'[x].ip # NoIp, arp'[x].valid
                 PROVE  /\ arp'[x].mac \in Macs
                        /\ heard'[arp'[x].ip] = arp'[x].mac
                        /\ claim'[arp'[x].mac] = arp'[x].ip
      BY DEF Latest
    <3>1. heard \in [Ips -> Macs \cup {NoMac}] /\ claim \in [Macs -> Ips \cup {NoIp}]
      BY DEF ArpInv, ArpTypeOK
    <3>2. CASE x = y
      BY <2>1, <2>3, <3>1, <3>2
    <3>3. CASE x # y
      <4>1. arp'[x] = arp[x] /\ arp[x].ip # addr /\ arp[x].mac # m
        BY <2>3, <2>4, <3>3
      <4>2. /\ arp[x].mac \in Macs
            /\ heard[arp[x].ip] = arp[x].mac
            /\ claim[arp[x].mac] = arp[x].ip
        BY <4>1 DEF ArpInv, Latest
      <4>3. heard'[arp[x].ip] = heard[arp[x].ip] /\ claim'[arp[x].mac] = claim[arp[x].mac]
        <5>1. arp[x].ip \in Ips
          BY <4>1, RowsTyped, RowFields DEF ArpInv, Ips
        <5> QED BY <2>1, <3>1, <4>1, <4>2, <5>1
      <4> QED BY <4>1, <4>2, <4>3
    <3> QED BY <3>2, <3>3
  <2> QED BY <2>5, <2>6, <2>7 DEF ArpInv
<1> QED BY <1>1, <1>2

LEMMA ReserveKeeps ==
    ASSUME ArpInv, NEW addr \in Ips, Reserve(addr)
    PROVE  ArpInv'
<1>1. Hop(addr) \in Local /\ \E y \in Rows : Asked(arp', y, Hop(addr))
  BY ReservedRows DEF Reserve, ArpInv
<1>2. PICK y \in Rows : Asked(arp', y, Hop(addr))
  BY <1>1
<1>3. UNCHANGED <<heard, claim>>
  BY DEF Reserve
<1>4. ArpTypeOK'
  BY <1>2, <1>3 DEF Asked, ArpInv, ArpTypeOK, Row
<1>5. OneRowEach'
  BY <1>2 DEF Asked, ArpInv, OneRowEach
<1>6. Latest'
  BY <1>2, <1>3 DEF Asked, ArpInv, Latest
<1> QED BY <1>4, <1>5, <1>6 DEF ArpInv

LEMMA AgeKeeps ==
    ASSUME ArpInv, NEW y \in Rows, AgeRow(y)
    PROVE  ArpInv'
<1>1. Older(arp', y)
  BY AgedRows DEF ArpInv
<1>2. UNCHANGED <<heard, claim>>
  BY DEF AgeRow
<1>3. ArpTypeOK'
  BY <1>1, <1>2 DEF Older, ArpInv, ArpTypeOK, Row
<1>4. OneRowEach'
  BY <1>1 DEF Older, ArpInv, OneRowEach
<1>5. Latest'
  BY <1>1, <1>2 DEF Older, ArpInv, Latest
<1> QED BY <1>3, <1>4, <1>5 DEF ArpInv

LEMMA ArpInductive == ArpInv /\ [ArpNext]_arpVars => ArpInv'
<1> SUFFICES ASSUME ArpInv, [ArpNext]_arpVars PROVE ArpInv'
  OBVIOUS
<1>1. CASE UNCHANGED arpVars
  BY <1>1 DEF arpVars, ArpInv, ArpTypeOK, OneRowEach, Latest
<1>2. ASSUME NEW m \in Macs, NEW addr \in Ips, Hear(m, addr) PROVE ArpInv'
  BY <1>2, HearKeeps
<1>3. ASSUME NEW addr \in Ips, Reserve(addr) PROVE ArpInv'
  BY <1>3, ReserveKeeps
<1>4. ASSUME NEW x \in Rows, AgeRow(x) PROVE ArpInv'
  BY <1>4, AgeKeeps
<1> QED BY <1>1, <1>2, <1>3, <1>4 DEF ArpNext

LEMMA ArpAlways == ArpSpec => []ArpInv
  BY ArpInitially, ArpInductive, PTL DEF ArpSpec

-----------------------------------------------------------------------------
(* The theorems *)

\* Every cache, of any size, keeps its types (ages stay within their byte), no IP
\* address and no hardware address ever has two rows, so that the loops of
\* FreeRTOS_ARP.c may stop at the first row they find, and what
\* eARPGetCacheEntry answers on a hit is the hardware address last heard for the
\* address looked up, of a host that has not been heard at another one since.
THEOREM ArpCacheIntact == ArpSpec => []CacheIntact
<1>1. ASSUME ArpInv PROVE HitIsLatest
  <2> SUFFICES ASSUME NEW addr \in Local, Lookup(addr) = "hit", NEW m \in LookedUp(addr)
               PROVE  heard[addr] = m /\ claim[m] = addr
    BY DEF HitIsLatest
  <2>1. Hop(addr) = addr /\ addr # NoIp
    BY ArpAssumption DEF Hop
  <2>2. PICK y \in First(IpRows(addr)) : arp[y].valid
    BY <2>1 DEF Lookup
  <2>3. PICK x \in First(IpRows(addr)) : m = arp[x].mac
    BY <2>1 DEF LookedUp
  <2>4. x \in Rows /\ y \in Rows /\ arp[x].ip = addr /\ arp[y].ip = addr
    BY <2>2, <2>3 DEF First, IpRows
  <2>5. x = y
    BY <1>1, <2>1, <2>4 DEF ArpInv, OneRowEach
  <2> QED BY <1>1, <2>1, <2>2, <2>3, <2>4, <2>5 DEF ArpInv, Latest
<1>2. ArpInv => CacheIntact
  BY <1>1 DEF ArpInv, CacheIntact
<1> QED BY <1>2, ArpAlways, PTL

\* A row that waits for an answer never gets more time, however often packets
\* for its address are sent: vARPAgeCache repeats a request a bounded number of
\* times.
THEOREM ArpCacheRequestsRunOut == ArpSpec => RequestsRunOut
<1> DEFINE Step == \A x \in Rows :
                     Waiting(x)' => arp'[x].age <= IF Waiting(x) /\ arp'[x].ip = arp[x].ip
                                                   THEN arp[x].age ELSE Retransmissions
<1>1. ASSUME ArpInv, [ArpNext]_arpVars PROVE [Step]_arpVars
  <2> SUFFICES ASSUME ArpNext PROVE Step
    BY <1>1
  <2> SUFFICES ASSUME NEW x \in Rows, Waiting(x)'
               PROVE  arp'[x].age <= IF Waiting(x) /\ arp'[x].ip = arp[x].ip
                                     THEN arp[x].age ELSE Retransmissions
    OBVIOUS
  <2>1. arp'[x].ip # NoIp /\ ~arp'[x].valid
    BY DEF Waiting
  <2>2. arp[x].age \in 0..255 /\ Retransmissions \in Nat
    BY <1>1, RowsTyped, RowFields, ArpAssumption DEF ArpInv
  <2>3. CASE arp'[x] = arp[x]
    BY <2>1, <2>2, <2>3 DEF Waiting
  <2>4. ASSUME NEW m \in Macs, NEW addr \in Ips, Hear(m, addr) PROVE arp'[x] = arp[x]
    <3>1. CASE addr \notin Local
      BY <2>4, <3>1 DEF Hear, arpVars
    <3>2. CASE addr \in Local
      <4>1. PICK y \in Rows : HeardIn(arp', y, m, addr)
        BY <1>1, <2>4, <3>2, RefreshedRows DEF Hear, ArpInv
      <4>2. arp'[y].valid /\ Empty.ip = NoIp
        BY <4>1 DEF HeardIn, Answered, Empty
      <4> QED BY <2>1, <4>1, <4>2 DEF HeardIn
    <3> QED BY <3>1, <3>2
  <2>5. ASSUME NEW addr \in Ips, Reserve(addr), arp'[x] # arp[x]
        PROVE  arp'[x].age = Retransmissions /\ arp'[x].ip # arp[x].ip
    BY <1>1, <2>5, ReservedRows DEF Reserve, ArpInv, Asked
  <2>6. ASSUME NEW y \in Rows, AgeRow(y), arp'[x] # arp[x]
        PROVE  arp'[x].age <= arp[x].age /\ arp'[x].ip = arp[x].ip /\ Waiting(x)
    <3>1. Older(arp', y) /\ x = y
      BY <1>1, <2>6, AgedRows DEF ArpInv, Older
    <3> QED BY <2>1, <3>1 DEF Older, Waiting
  <2> QED BY <2>2, <2>3, <2>4, <2>5, <2>6 DEF ArpNext
<1>2. ArpSpec => [][Step]_arpVars
  BY <1>1, ArpAlways, PTL DEF ArpSpec
<1> QED BY <1>2 DEF RequestsRunOut

\* An address loses its row only when its time is over, when its hardware
\* address answers for another IP address, or when no row was older.
THEOREM ArpCacheEvictsOldest == ArpSpec => EvictsOldest
<1> DEFINE Lost(x) == arp[x].ip # NoIp /\ ~(\E y \in Rows : arp'[y].ip = arp[x].ip)
           Reason(x) == \/ arp[x].age = 1
                        \/ arp[x].mac = arp'[x].mac /\ arp'[x].valid
                        \/ \A y \in Rows : arp[x].age <= arp[y].age
           Step == \A x \in Rows : Lost(x) => Reason(x)
<1>1. ASSUME ArpInv, [ArpNext]_arpVars PROVE [Step]_arpVars
  <2> SUFFICES ASSUME ArpNext, NEW x \in Rows, Lost(x) PROVE Reason(x)
    BY <1>1
  <2>1. arp'[x] # arp[x]
    OBVIOUS
  <2>2. ASSUME x \in OldestRow PROVE \A y \in Rows : arp[x].age <= arp[y].age
    BY <2>2 DEF OldestRow, First
  <2>3. ASSUME NEW m \in Macs, NEW addr \in Ips, Hear(m, addr) PROVE Reason(x)
    <3>1. addr \in Local
      BY <2>1, <2>3 DEF Hear, arpVars
    <3>2. PICK y \in Rows : HeardIn(arp', y, m, addr)
      BY <1>1, <2>3, <3>1, RefreshedRows DEF Hear, ArpInv
    <3>3. arp'[y].ip = addr /\ arp'[y].mac = m /\ arp'[y].valid
      BY <3>2 DEF HeardIn, Answered
    <3>4. x = y /\ arp[y].ip # addr
      BY <2>1, <3>2, <3>3 DEF HeardIn
    <3> QED BY <2>2, <3>2, <3>3, <3>4 DEF HeardIn
  <2>4. ASSUME NEW addr \in Ips, Reserve(addr) PROVE Reason(x)
    BY <1>1, <2>1, <2>2, <2>4, ReservedRows DEF Reserve, ArpInv, Asked
  <2>5. ASSUME NEW y \in Rows, AgeRow(y) PROVE Reason(x)
    <3>1. Older(arp', y)
      BY <1>1, <2>5, AgedRows DEF ArpInv
    <3> QED BY <2>1, <3>1 DEF Older
  <2> QED BY <2>3, <2>4, <2>5 DEF ArpNext
<1>2. ArpSpec => [][Step]_arpVars
  BY <1>1, ArpAlways, PTL DEF ArpSpec
<1> QED BY <1>2 DEF EvictsOldest

-----------------------------------------------------------------------------
(* The IP task *)

\* The events the IP task is sent, and what the frames hold that are on their way
EventTypes == {"networkDown", "arpTimer", "rx", "tx", "bind", "close"}
Events == [type : EventTypes, buf : Bufs \cup {NoBuf}]
FromWire == [kind : Received, ip : Ips, mac : Macs]
Filled == [kind : {"udpOut"}, ip : Ips, mac : {NoMac}]
ToSend == {"udpOut", "reply", "arpOut"}

IpStates ==
    [at : {"start", "timers", "wait", "end", "networkDown", "retry", "rx", "tx", "output",
           "arpTimer", "ask", "bind", "close"},
     buf : Bufs \cup {NoBuf}, row : 0..NumRows + 1, dest : Ips \cup {NoIp},
     back : {"end", "arpTimer"}]
AppStates == [at : {"unbound", "binding", "ready", "got", "post"},
              buf : Bufs \cup {NoBuf}, dest : Ips \cup {NoIp}]
PollStates == [at : {"none", "created", "drain", "obtained", "receive", "post", "failed"},
               i : Nat, next : Bufs \cup {NoBuf}, word : StackWord]
NetStates == [initialised : BOOLEAN, pending : BOOLEAN, arpActive : BOOLEAN,
              gratuitous : BOOLEAN, bound : BOOLEAN, length : EventLengths]

\* Where each task can be with a descriptor, with none, and in the pool
Calling == {"take", "unlink", "alloc"}
IpShape ==
    /\ ip \in IpStates
    /\ ip.buf \in Bufs <=> ip.at \in {"rx", "tx", "output"}
    /\ op["ip"].step \in Calling => ip.at = "ask"
AppShape ==
    /\ app \in AppStates
    /\ app.buf \in Bufs <=> app.at = "post"
    /\ app.at = "got" => app.dest \in Ips
    /\ op["app"].step \in Calling => app.at = "got"
PollShape ==
    /\ poll \in PollStates
    /\ poll.at = "obtained" => poll.next = NoBuf
    /\ poll.at = "post" => poll.next \in Bufs
    /\ op["poll"].step \in Calling => poll.at = "obtained"
Shape == /\ IpShape /\ AppShape /\ PollShape
         /\ stack \in NetStates /\ output \in Seq(Bufs) /\ packets \in Seq(Bufs)

\* An event queue: a descriptor comes with a frame and is there once, and so is
\* an event of some kinds.
Single == {"bind", "networkDown"}
EventsOK(e) ==
    /\ e \in Seq(Events)
    /\ \A j \in DOMAIN e : e[j].buf \in Bufs <=> e[j].type \in {"rx", "tx"}
    /\ \A i, j \in DOMAIN e : e[i].buf = e[j].buf /\ e[i].buf \in Bufs => i = j
    /\ \A i, j \in DOMAIN e : e[i].type = e[j].type /\ e[i].type \in Single => i = j
BufsIn(e) == {e[j].buf : j \in DOMAIN e} \ {NoBuf}

\* The places a descriptor can be in, and those that are there
Tasks == {"ip", "app", "poll"}
PlaceNames == Tasks \cup {"events", "output", "packets", "pool"}
Held(p) ==
    CASE p \in Tasks     -> InHand(p)
      [] p = "events"  -> BufsIn(events)
      [] p = "output"  -> Elements(output)
      [] p = "packets" -> Elements(packets)
      [] p = "pool"    -> Bufs \ pool.out

\* Each descriptor is in one place.
OnePlace == \A b \in Bufs : \E p \in PlaceNames : \A q \in PlaceNames : b \in Held(q) <=> q = p

\* The application waits for its bind event: the IP task does not move a task
\* that does something else.
BindWaits ==
    /\ \A i \in DOMAIN events : events[i].type = "bind" => app.at = "binding" /\ ip.at # "bind"
    /\ ip.at = "bind" => app.at = "binding"

\* The network is down once at a time, and the poll task is created once: the
\* event is in the queue, or waits for room in it, or is handled.
Down(e) == \E i \in DOMAIN e : e[i].type = "networkDown"
Handling == ip.at \in {"start", "networkDown", "retry"}
DownOnce ==
    /\ Down(events) => ~Handling /\ ~stack.pending
    /\ Handling => ~stack.pending
    /\ Down(events) \/ Handling \/ stack.pending => poll.at = "none"

\* What is in hand or in a queue holds what is expected there.
Frames ==
    /\ frame \in [Bufs -> Frame]
    /\ \A j \in DOMAIN events :
          /\ events[j].type = "rx" => frame[events[j].buf] \in FromWire
          /\ events[j].type = "tx" => frame[events[j].buf] \in Filled
    /\ \A j \in DOMAIN output : frame[output[j]].kind \in ToSend
    /\ \A j \in DOMAIN packets : frame[packets[j]].kind = "udp"
    /\ ip.at = "rx" => frame[ip.buf] \in FromWire
    /\ ip.at = "tx" => frame[ip.buf] \in Filled
    /\ ip.at = "output" => frame[ip.buf].kind \in ToSend
    /\ app.at = "post" => frame[app.buf] \in Filled
    /\ poll.at = "post" => frame[poll.next] \in FromWire

Queues == EventsOK(events) /\ Distinct(output) /\ Distinct(packets)
NetInv == PoolInv /\ ArpInv /\ Shape /\ Queues /\ OnePlace /\ BindWaits /\ DownOnce
          /\ Frames

-----------------------------------------------------------------------------
(* Places *)

\* What a task has in hand, by where it is
HandsAre ==
    /\ Held("ip") = IF ip.at \in {"rx", "tx", "output"} THEN {ip.buf}
                    ELSE IF ip.at = "ask" /\ op["ip"].step = "idle" /\ op["ip"].buf \in Bufs
                    THEN {op["ip"].buf} ELSE {}
    /\ Held("app") = IF app.at = "post" THEN {app.buf}
                     ELSE IF app.at = "got" /\ op["app"].step = "idle" /\ op["app"].buf \in Bufs
                     THEN {op["app"].buf} ELSE {}
    /\ Held("poll") = IF poll.at = "obtained"
                      THEN IF op["poll"].step = "idle" /\ op["poll"].buf \in Bufs
                           THEN {op["poll"].buf} ELSE {}
                      ELSE IF poll.next \in Bufs THEN {poll.next} ELSE {}
    /\ Held("events") = BufsIn(events)
    /\ Held("output") = Elements(output)
    /\ Held("packets") = Elements(packets)
    /\ Held("pool") = Bufs \ pool.out

LEMMA TheUsers == {"ip", "app", "poll"} \subseteq Users /\ NoBuf \notin Bufs
  BY IpTaskAssumption, NetBuffersAssumption

LEMMA HandsFound == PoolTypeOK /\ Shape => HandsAre
<1> SUFFICES ASSUME PoolTypeOK, Shape PROVE HandsAre
  OBVIOUS
<1>1. Held("ip") = InHand("ip") /\ Held("app") = InHand("app") /\ Held("poll") = InHand("poll")
  BY DEF Held, Tasks
<1>2. /\ InHand("ip") = ({ip.buf} \cup IF ip.at = "ask"
                                       THEN IF op["ip"].step = "idle" THEN {op["ip"].buf} ELSE {}
                                       ELSE {}) \ {NoBuf}
      /\ InHand("app") = ({app.buf} \cup IF app.at = "got"
                                         THEN IF op["app"].step = "idle" THEN {op["app"].buf} ELSE {}
                                         ELSE {}) \ {NoBuf}
      /\ InHand("poll") = ({poll.next} \cup IF poll.at = "obtained"
                                            THEN IF op["poll"].step = "idle" THEN {op["poll"].buf} ELSE {}
                                            ELSE {}) \ {NoBuf}
  BY DEF InHand
<1>3. /\ op["ip"].buf \in Bufs \cup {NoBuf} /\ op["app"].buf \in Bufs \cup {NoBuf}
      /\ op["poll"].buf \in Bufs \cup {NoBuf}
  BY TheUsers, PoolFields
<1>4. /\ ip.buf \in Bufs \cup {NoBuf} /\ app.buf \in Bufs \cup {NoBuf}
      /\ poll.next \in Bufs \cup {NoBuf}
      /\ ip.buf \in Bufs <=> ip.at \in {"rx", "tx", "output"}
      /\ app.buf \in Bufs <=> app.at = "post"
      /\ poll.at = "obtained" => poll.next = NoBuf
  BY DEF Shape, IpShape, AppShape, PollShape, IpStates, AppStates, PollStates
<1>5. Held("ip") = IF ip.at \in {"rx", "tx", "output"} THEN {ip.buf}
                    ELSE IF ip.at = "ask" /\ op["ip"].step = "idle" /\ op["ip"].buf \in Bufs
                    THEN {op["ip"].buf} ELSE {}
  BY <1>1, <1>2, <1>3, <1>4, TheUsers
<1>6. Held("app") = IF app.at = "post" THEN {app.buf}
                     ELSE IF app.at = "got" /\ op["app"].step = "idle" /\ op["app"].buf \in Bufs
                     THEN {op["app"].buf} ELSE {}
  BY <1>1, <1>2, <1>3, <1>4, TheUsers
<1>7. Held("poll") = IF poll.at = "obtained"
                      THEN IF op["poll"].step = "idle" /\ op["poll"].buf \in Bufs
                           THEN {op["poll"].buf} ELSE {}
                      ELSE IF poll.next \in Bufs THEN {poll.next} ELSE {}
  BY <1>1, <1>2, <1>3, <1>4, TheUsers
<1>8. /\ Held("events") = BufsIn(events)
      /\ Held("output") = Elements(output) /\ Held("packets") = Elements(packets)
      /\ Held("pool") = Bufs \ pool.out
  BY DEF Held, Tasks
<1> QED BY <1>5, <1>6, <1>7, <1>8 DEF HandsAre

LEMMA HandsNext == PoolTypeOK' /\ Shape' => HandsAre'
  BY HandsFound, PTL

LEMMA Stays ==
    ASSUME OnePlace, \A p \in PlaceNames : Held(p)' = Held(p)
    PROVE  OnePlace'
  BY DEF OnePlace, PlaceNames, Tasks

LEMMA MovesOne ==
    ASSUME OnePlace, NEW b, NEW p \in PlaceNames, NEW q \in PlaceNames, p # q,
           b \in Held(p), Held(p)' = Held(p) \ {b}, Held(q)' = Held(q) \cup {b},
           \A r \in PlaceNames \ {p, q} : Held(r)' = Held(r)
    PROVE  OnePlace'
<1> SUFFICES ASSUME NEW c \in Bufs
             PROVE  \E s \in PlaceNames : \A r \in PlaceNames : c \in Held(r)' <=> r = s
  BY DEF OnePlace, PlaceNames, Tasks
<1>1. PICK s \in PlaceNames : \A r \in PlaceNames : c \in Held(r) <=> r = s
  BY DEF OnePlace
<1>2. CASE c = b
  <2>1. \A r \in PlaceNames : c \in Held(r)' <=> r = q
    BY <1>1, <1>2
  <2> QED BY <2>1
<1>3. CASE c # b
  <2>1. \A r \in PlaceNames : c \in Held(r)' <=> r = s
    BY <1>1, <1>3
  <2> QED BY <2>1
<1> QED BY <1>2, <1>3

\* A descriptor that is in a place is in no other.
LEMMA OneOnly ==
    ASSUME OnePlace, NEW b \in Bufs, NEW p \in PlaceNames, b \in Held(p),
           NEW q \in PlaceNames, q # p
    PROVE  b \notin Held(q)
  BY DEF OnePlace

-----------------------------------------------------------------------------
(* The queues *)

LEMMA EventAdded ==
    ASSUME NEW e, EventsOK(e), NEW x \in Events, x.buf \in Bufs <=> x.type \in {"rx", "tx"},
           x.buf \notin BufsIn(e),
           x.type \in Single => \A j \in DOMAIN e : e[j].type # x.type
    PROVE  /\ EventsOK(Append(e, x))
           /\ BufsIn(Append(e, x)) = BufsIn(e) \cup ({x.buf} \ {NoBuf})
           /\ \A j \in DOMAIN Append(e, x) :
                 Append(e, x)[j] = x \/ \E i \in DOMAIN e : Append(e, x)[j] = e[i]
<1> DEFINE a == Append(e, x)
<1>1. /\ a \in Seq(Events) /\ DOMAIN e = 1..Len(e) /\ Len(e) \in Nat
      /\ DOMAIN a = 1..(Len(e) + 1)
      /\ \A i \in 1..Len(e) : a[i] = e[i] /\ e[i] \in Events
      /\ a[Len(e) + 1] = x
  BY DEF EventsOK
<1> HIDE DEF a
<1>2. \A j \in DOMAIN a : (j \in DOMAIN e /\ a[j] = e[j]) \/ (j = Len(e) + 1 /\ a[j] = x)
  BY <1>1
<1>3. \A j \in DOMAIN e : e[j].buf \in Bufs => e[j].buf # x.buf
  BY TheUsers DEF BufsIn
<1>4. \A j \in DOMAIN a : a[j].buf \in Bufs <=> a[j].type \in {"rx", "tx"}
  BY <1>2 DEF EventsOK
<1>5. \A i, j \in DOMAIN a : a[i].buf = a[j].buf /\ a[i].buf \in Bufs => i = j
  BY <1>2, <1>3 DEF EventsOK
<1>6. \A i, j \in DOMAIN a : a[i].type = a[j].type /\ a[i].type \in Single => i = j
  BY <1>2 DEF EventsOK
<1>7. BufsIn(a) = BufsIn(e) \cup ({x.buf} \ {NoBuf})
  <2>1. \A j \in DOMAIN e : j \in DOMAIN a /\ a[j] = e[j]
    BY <1>1
  <2>2. Len(e) + 1 \in DOMAIN a
    BY <1>1
  <2> QED BY <1>1, <1>2, <2>1, <2>2 DEF BufsIn
<1> QED BY <1>1, <1>2, <1>4, <1>5, <1>6, <1>7 DEF EventsOK, a

LEMMA EventTaken ==
    ASSUME NEW e, EventsOK(e), e # <<>>
    PROVE  /\ Head(e) \in Events /\ (Head(e).buf \in Bufs <=> Head(e).type \in {"rx", "tx"})
           /\ 1 \in DOMAIN e /\ Head(e) = e[1]
           /\ Head(e).buf \in Bufs => Head(e).buf \in BufsIn(e)
           /\ EventsOK(Tail(e))
           /\ BufsIn(Tail(e)) = BufsIn(e) \ {Head(e).buf}
           /\ \A j \in DOMAIN Tail(e) : \E i \in DOMAIN e : Tail(e)[j] = e[i]
           /\ Head(e).type \in Single => \A j \in DOMAIN Tail(e) : Tail(e)[j].type # Head(e).type
<1> DEFINE f == Tail(e)
<1>1. /\ f \in Seq(Events) /\ DOMAIN e = 1..Len(e) /\ Len(e) \in Nat /\ Len(e) > 0
      /\ DOMAIN f = 1..(Len(e) - 1) /\ Head(e) = e[1]
      /\ \A i \in 1..(Len(e) - 1) : f[i] = e[i + 1]
      /\ \A i \in 1..Len(e) : e[i] \in Events
  BY DEF EventsOK
<1> HIDE DEF f
<1>2. \A j \in DOMAIN f : j + 1 \in DOMAIN e /\ f[j] = e[j + 1] /\ j + 1 # 1 /\ j \in Nat
  BY <1>1
<1>3. 1 \in DOMAIN e
  BY <1>1
<1>4. \A j \in DOMAIN f : f[j].buf \in Bufs => f[j].buf # e[1].buf
  BY <1>2, <1>3 DEF EventsOK
<1>5. \A j \in DOMAIN f : f[j].buf \in Bufs <=> f[j].type \in {"rx", "tx"}
  BY <1>2 DEF EventsOK
<1>6. \A i, j \in DOMAIN f : f[i].buf = f[j].buf /\ f[i].buf \in Bufs => i = j
  BY <1>2 DEF EventsOK
<1>7. \A i, j \in DOMAIN f : f[i].type = f[j].type /\ f[i].type \in Single => i = j
  BY <1>2 DEF EventsOK
<1>8. BufsIn(f) = BufsIn(e) \ {e[1].buf}
  <2>1. ASSUME NEW j \in DOMAIN e, e[j].buf # e[1].buf
        PROVE  j - 1 \in DOMAIN f /\ f[j - 1] = e[j]
    BY <1>1, <2>1
  <2>2. \A j \in DOMAIN f : f[j].buf \in Bufs \cup {NoBuf}
    BY <1>1, <1>2 DEF Events
  <2>3. BufsIn(f) \subseteq BufsIn(e) \ {e[1].buf}
    BY <1>2, <1>4, <2>2 DEF BufsIn
  <2>4. BufsIn(e) \ {e[1].buf} \subseteq BufsIn(f)
    BY <2>1 DEF BufsIn
  <2> QED BY <2>3, <2>4
<1>9. Head(e).type \in Single => \A j \in DOMAIN f : f[j].type # Head(e).type
  BY <1>1, <1>2, <1>3 DEF EventsOK
<1>10. Head(e).buf \in Bufs => Head(e).buf \in BufsIn(e)
  BY <1>1, <1>3, TheUsers DEF BufsIn
<1>11. Head(e) \in Events /\ (Head(e).buf \in Bufs <=> Head(e).type \in {"rx", "tx"})
  BY <1>1, <1>3 DEF EventsOK
<1>12. EventsOK(f)
  BY <1>1, <1>5, <1>6, <1>7 DEF EventsOK
<1> QED BY <1>1, <1>2, <1>3, <1>8, <1>9, <1>10, <1>11, <1>12 DEF f

\* An event without a descriptor is posted, or is not because it does not fit, or
\* there is none: the descriptors in the queue are the same, and so are the events
\* of some types.
Quiet(T) ==
    /\ EventsOK(events') /\ BufsIn(events') = BufsIn(events)
    /\ \A j \in DOMAIN events' : events'[j].type \in T
          => \E i \in DOMAIN events : events'[j] = events[i]
Most == {"rx", "tx", "bind"}

LEMMA QuietPost ==
    ASSUME EventsOK(events), NEW type \in {"networkDown", "arpTimer", "close"},
           Post(Event(type, NoBuf)), type = "networkDown" => ~Down(events)
    PROVE  Quiet(EventTypes \ {type})
<1> DEFINE x == Event(type, NoBuf)
<1>1. x \in Events /\ x.buf = NoBuf /\ x.type = type /\ NoBuf \notin Bufs
  BY TheUsers DEF Event, Events, EventTypes
<1>2. NoBuf \notin BufsIn(events)
  BY DEF BufsIn
<1>3. events' = Append(events, x) \/ events' = events
  BY DEF Post
<1> HIDE DEF x
<1>4. CASE events' = Append(events, x)
  <2>1. x.type \in Single => \A j \in DOMAIN events : events[j].type # x.type
    BY <1>1 DEF Single, Down
  <2>2. /\ EventsOK(events') /\ BufsIn(events') = BufsIn(events) \cup ({x.buf} \ {NoBuf})
        /\ \A j \in DOMAIN events' : events'[j] = x \/ \E i \in DOMAIN events : events'[j] = events[i]
    BY <1>1, <1>2, <1>4, <2>1, EventAdded
  <2> QED BY <1>1, <2>2 DEF Quiet
<1>5. CASE events' = events
  BY <1>5 DEF Quiet
<1> QED BY <1>3, <1>4, <1>5

LEMMA QuietSame ==
    ASSUME EventsOK(events), events' = events PROVE Quiet(EventTypes)
  BY DEF Quiet

\* FreeRTOS_NetworkDown posts the event, or leaves it for later.
LEMMA DownPosted ==
    ASSUME EventsOK(events), Shape, ~Down(events), NetworkDown
    PROVE  /\ Quiet(Most) /\ (Down(events)' => ~stack'.pending)
           /\ stack' \in NetStates
<1>1. Quiet(EventTypes \ {"networkDown"})
  BY QuietPost DEF NetworkDown
<1>2. Quiet(Most)
  BY <1>1 DEF Quiet, Most, EventTypes
<1>3. /\ stack'.pending = ~HasRoom
      /\ stack' \in NetStates
  BY DEF NetworkDown, Shape, NetStates, HasRoom
<1>4. ~HasRoom => Down(events)' = Down(events)
  BY DEF NetworkDown, Post, Down
<1> QED BY <1>2, <1>3, <1>4

-----------------------------------------------------------------------------
(* Calls of the pool *)

LEMMA Gets ==
    ASSUME PoolTypeOK, NEW t \in Users, BeginGet(t)
    PROVE  /\ pool' = pool /\ op'[t].step = "take" /\ op[t].step = "idle"
           /\ \A u \in Users \ {t} : op'[u] = op[u]
  BY DEF PoolTypeOK, BeginGet

LEMMA Releases ==
    ASSUME PoolTypeOK, NEW t \in Users, NEW b \in Bufs, BeginRelease(t, b)
    PROVE  /\ pool'.out = pool.out \ {b} /\ op'[t].step = "free" /\ op[t].step = "idle"
           /\ \A u \in Users \ {t} : op'[u] = op[u]
           /\ Bufs \ pool'.out = (Bufs \ pool.out) \cup {b}
  BY DEF PoolTypeOK, BeginRelease

\* A release of a descriptor that is in a task's hands or in a queue is one the
\* pool allows.
LEMMA ReleasesOut ==
    ASSUME PoolInv, Shape, OnePlace, NEW t \in Users, NEW b \in Bufs,
           NEW p \in PlaceNames \ {"pool"}, b \in Held(p), BeginRelease(t, b)
    PROVE  PoolNext /\ PoolInv' /\ b \in pool.out
<1>1. b \notin Held("pool")
  BY OneOnly DEF PlaceNames
<1>2. b \in pool.out
  BY <1>1, HandsFound DEF HandsAre, PoolInv
<1>3. PoolNext
  BY <1>2 DEF PoolNext
<1> QED BY <1>2, <1>3, PoolInductive

LEMMA GetsKeeps ==
    ASSUME PoolInv, NEW t \in Users, BeginGet(t)
    PROVE  PoolNext /\ PoolInv'
  BY PoolInductive DEF PoolNext

-----------------------------------------------------------------------------
(* Steps of the IP task that touch no descriptor *)

\* What is shown of each step: it is one of the pool's, or leaves the pool
\* alone, and it keeps the invariant.
Kept == /\ [PoolNext]_poolVars /\ PoolInv'
        /\ Shape' /\ Queues' /\ OnePlace' /\ BindWaits' /\ DownOnce' /\ Frames'

LEMMA PoolSame ==
    ASSUME PoolInv, UNCHANGED poolVars
    PROVE  [PoolNext]_poolVars /\ PoolInv'
  BY PoolInductive

LEMMA QuietKeeps ==
    ASSUME NetInv, Quiet(Most), DownOnce', [PoolNext]_poolVars, PoolInv', Shape',
           UNCHANGED <<app, poll, output, packets, frame>>, pool'.out = pool.out,
           op'["app"] = op["app"], op'["poll"] = op["poll"],
           ip.at \notin {"rx", "tx", "output"},
           ip.at = "ask" => ~(op["ip"].step = "idle" /\ op["ip"].buf \in Bufs),
           ip'.at \notin {"rx", "tx", "output", "bind"},
           ip'.at = "ask" => op'["ip"].step # "idle"
    PROVE  Kept
<1>1. HandsAre /\ HandsAre'
  BY HandsFound, HandsNext DEF NetInv, PoolInv
<1>2. \A p \in PlaceNames : Held(p)' = Held(p)
  BY <1>1 DEF HandsAre, PlaceNames, Tasks, Quiet
<1>3. OnePlace'
  BY <1>2, Stays DEF NetInv
<1>4. Queues'
  BY DEF NetInv, Queues, Quiet
<1>5. BindWaits'
  BY DEF NetInv, BindWaits, Quiet, Most
<1>6. Frames'
  BY DEF NetInv, Frames, Quiet, Most
<1> QED BY <1>3, <1>4, <1>5, <1>6 DEF Kept

\* A step of the IP task leaves the other tasks where they are.
LEMMA IpGoes ==
    ASSUME NetInv, IpShape', stack' \in NetStates, UNCHANGED <<app, poll, output, packets>>,
           op'["app"] = op["app"], op'["poll"] = op["poll"]
    PROVE  Shape'
  BY DEF NetInv, Shape, AppShape, PollShape

\* The IP task has no descriptor, goes to another place, and calls nothing.
LEMMA IpEmpty ==
    ASSUME NetInv, IpAt(ip.at), ip.at \notin {"rx", "tx", "output"},
           NEW a \in {"timers", "wait", "end", "retry", "arpTimer"}, UNCHANGED poolVars,
           \/ ip' = [ip EXCEPT !.at = a] \/ ip' = [ip EXCEPT !.at = a, !.buf = NoBuf]
    PROVE  IpShape' /\ ip'.at = a
  BY TheUsers DEF NetInv, Shape, IpShape, IpStates, IpAt, Calling, poolVars

LEMMA StartKeeps == ASSUME NetInv, StartIpTask PROVE Kept
<1>1. Quiet(Most) /\ (Down(events)' => ~stack'.pending)
  BY DownPosted DEF StartIpTask, NetInv, Queues, DownOnce, Handling, IpAt
<1>2. IpShape' /\ ip.at \notin {"rx", "tx", "output", "ask"} /\ ip'.at = "timers"
  BY IpEmpty DEF StartIpTask, IpAt
<1>3. stack' \in NetStates
  BY DownPosted DEF StartIpTask, NetInv, Queues, DownOnce, Handling, IpAt, Shape
<1>4. UNCHANGED <<poolVars, app, poll, output, packets, frame>>
  BY DEF StartIpTask
<1>5. Shape'
  BY <1>2, <1>3, <1>4, IpGoes DEF poolVars
<1>6. DownOnce'
  BY <1>1, <1>2, <1>4 DEF StartIpTask, NetInv, DownOnce, Handling, IpAt
<1> QED BY <1>1, <1>2, <1>4, <1>5, <1>6, QuietKeeps, PoolSame DEF NetInv, poolVars

LEMMA TimersKeeps == ASSUME NetInv, CheckNetworkTimers PROVE Kept
<1>1. Quiet(Most) /\ (Down(events)' => Down(events))
  <2>1. Quiet(EventTypes \ {"arpTimer"})
    BY QuietPost, QuietSame DEF CheckNetworkTimers, ArpTimerExpires, NetInv, Queues, Quiet
  <2> QED BY <2>1 DEF Quiet, Most, EventTypes, Down
<1>2. IpShape' /\ ip.at \notin {"rx", "tx", "output", "ask"} /\ ip'.at = "wait"
  BY IpEmpty DEF CheckNetworkTimers, IpAt
<1>3. stack' \in NetStates
  BY DEF CheckNetworkTimers, NetInv, Shape, NetStates
<1>4. UNCHANGED <<poolVars, app, poll, output, packets, frame>>
  BY DEF CheckNetworkTimers
<1>5. Shape'
  BY <1>2, <1>3, <1>4, IpGoes DEF poolVars
<1>6. DownOnce'
  BY <1>1, <1>2, <1>4 DEF CheckNetworkTimers, NetInv, DownOnce, Handling, IpAt
<1> QED BY <1>1, <1>2, <1>4, <1>5, <1>6, QuietKeeps, PoolSame DEF NetInv, poolVars

LEMMA SleepKeeps == ASSUME NetInv, SleepTimesOut PROVE Kept
<1>1. Quiet(Most) /\ events' = events
  BY QuietSame DEF SleepTimesOut, NetInv, Queues, Quiet, Most, EventTypes
<1>2. IpShape' /\ ip.at \notin {"rx", "tx", "output", "ask"} /\ ip'.at = "end"
  BY IpEmpty DEF SleepTimesOut, IpAt
<1>3. stack' \in NetStates
  BY DEF SleepTimesOut, NetInv, Shape, NetStates
<1>4. UNCHANGED <<poolVars, app, poll, output, packets, frame>>
  BY DEF SleepTimesOut
<1>5. Shape'
  BY <1>2, <1>3, <1>4, IpGoes DEF poolVars
<1>6. DownOnce'
  BY <1>1, <1>2, <1>4 DEF SleepTimesOut, NetInv, DownOnce, Handling, IpAt, Down
<1> QED BY <1>1, <1>2, <1>4, <1>5, <1>6, QuietKeeps, PoolSame DEF NetInv, poolVars

LEMMA EndKeeps == ASSUME NetInv, EndOfLoop PROVE Kept
<1>1. Quiet(Most) /\ (Down(events)' => ~stack'.pending)
  BY DownPosted, QuietSame DEF EndOfLoop, NetInv, Queues, DownOnce, Quiet, Most, EventTypes
<1>2. IpShape' /\ ip.at \notin {"rx", "tx", "output", "ask"} /\ ip'.at = "timers"
  BY IpEmpty DEF EndOfLoop, IpAt
<1>3. stack' \in NetStates
  BY DownPosted DEF EndOfLoop, NetInv, Queues, DownOnce, Handling, IpAt, Shape
<1>4. UNCHANGED <<poolVars, app, poll, output, packets, frame>>
  BY DEF EndOfLoop
<1>5. Shape'
  BY <1>2, <1>3, <1>4, IpGoes DEF poolVars
<1>6. DownOnce'
  BY <1>1, <1>2, <1>4 DEF EndOfLoop, NetInv, DownOnce, Handling, IpAt
<1> QED BY <1>1, <1>2, <1>4, <1>5, <1>6, QuietKeeps, PoolSame DEF NetInv, poolVars

LEMMA FailsKeeps == ASSUME NetInv, NetworkFails PROVE Kept
<1>1. Quiet(Most) /\ events' = events
  BY QuietSame DEF NetworkFails, NetInv, Queues, Quiet, Most, EventTypes
<1>2. IpShape' /\ ip.at \notin {"rx", "tx", "output", "ask"} /\ ip'.at = "retry"
  BY IpEmpty DEF NetworkFails, IpAt
<1>3. stack' \in NetStates
  BY DEF NetworkFails, NetInv, Shape, NetStates
<1>4. UNCHANGED <<poolVars, app, poll, output, packets, frame>>
  BY DEF NetworkFails
<1>5. Shape'
  BY <1>2, <1>3, <1>4, IpGoes DEF poolVars
<1>6. DownOnce'
  BY <1>1, <1>2, <1>4 DEF NetworkFails, NetInv, DownOnce, Handling, IpAt, Down, Shape, NetStates
<1> QED BY <1>1, <1>2, <1>4, <1>5, <1>6, QuietKeeps, PoolSame DEF NetInv, poolVars

LEMMA RetryKeeps == ASSUME NetInv, RetryNetwork PROVE Kept
<1>1. Quiet(Most) /\ (Down(events)' => ~stack'.pending)
  BY DownPosted DEF RetryNetwork, NetInv, Queues, DownOnce, Handling, IpAt
<1>2. IpShape' /\ ip.at \notin {"rx", "tx", "output", "ask"} /\ ip'.at = "end"
  BY IpEmpty DEF RetryNetwork, IpAt
<1>3. stack' \in NetStates
  BY DownPosted DEF RetryNetwork, NetInv, Queues, DownOnce, Handling, IpAt, Shape
<1>4. UNCHANGED <<poolVars, app, poll, output, packets, frame>>
  BY DEF RetryNetwork
<1>5. Shape'
  BY <1>2, <1>3, <1>4, IpGoes DEF poolVars
<1>6. DownOnce'
  BY <1>1, <1>2, <1>4 DEF RetryNetwork, NetInv, DownOnce, Handling, IpAt
<1> QED BY <1>1, <1>2, <1>4, <1>5, <1>6, QuietKeeps, PoolSame DEF NetInv, poolVars

LEMMA SkipKeeps == ASSUME NetInv, SkipGratuitous PROVE Kept
<1>1. Quiet(Most) /\ events' = events
  BY QuietSame DEF SkipGratuitous, NetInv, Queues, Quiet, Most, EventTypes
<1>2. IpShape' /\ ip.at \notin {"rx", "tx", "output", "ask"} /\ ip'.at = "end"
  BY IpEmpty DEF SkipGratuitous, IpAt
<1>3. stack' \in NetStates
  BY DEF SkipGratuitous, NetInv, Shape, NetStates
<1>4. UNCHANGED <<poolVars, app, poll, output, packets, frame>>
  BY DEF SkipGratuitous
<1>5. Shape'
  BY <1>2, <1>3, <1>4, IpGoes DEF poolVars
<1>6. DownOnce'
  BY <1>1, <1>2, <1>4 DEF SkipGratuitous, NetInv, DownOnce, Handling, IpAt, Down
<1> QED BY <1>1, <1>2, <1>4, <1>5, <1>6, QuietKeeps, PoolSame DEF NetInv, poolVars

\* The poll task is created once, and has nothing yet.
LEMMA UpKeeps == ASSUME NetInv, NetworkUp PROVE Kept
<1>1. poll.at = "none" /\ ip.at = "networkDown" /\ ~stack.pending /\ ~Down(events)
  BY DEF NetInv, DownOnce, Handling, NetworkUp, IpAt
<1>2. poll'.at = "created" /\ poll'.next = poll.next /\ PollShape'
  BY <1>1 DEF NetworkUp, NetInv, Shape, PollShape, PollStates, Calling, poolVars
<1>3. Shape'
  <2>1. IpShape'
    BY IpEmpty DEF NetworkUp, IpAt
  <2>2. stack' \in NetStates
    BY DEF NetworkUp, NetInv, Shape, NetStates
  <2> QED BY <1>2, <2>1, <2>2 DEF NetworkUp, NetInv, Shape, AppShape, poolVars
<1>4. HandsAre /\ HandsAre' /\ [PoolNext]_poolVars /\ PoolInv'
  BY <1>3, HandsFound, HandsNext, PoolSame DEF NetInv, PoolInv, NetworkUp, poolVars
<1>5. ip'.at = "end" /\ stack'.pending = stack.pending
  BY IpEmpty DEF NetworkUp, NetInv, Shape, NetStates, IpAt
<1>6. \A p \in PlaceNames : Held(p)' = Held(p)
  BY <1>1, <1>2, <1>4, <1>5 DEF HandsAre, PlaceNames, Tasks, NetworkUp, poolVars
<1>7. OnePlace'
  BY <1>6, Stays DEF NetInv
<1>8. Queues'
  BY DEF NetInv, Queues, NetworkUp
<1>9. BindWaits' /\ DownOnce'
  BY <1>1, <1>5 DEF NetInv, BindWaits, DownOnce, Down, Handling, NetworkUp
<1>10. Frames'
  BY <1>2, <1>5 DEF NetInv, Frames, NetworkUp
<1> QED BY <1>3, <1>4, <1>7, <1>8, <1>9, <1>10 DEF Kept

LEMMA AgeKeepsAll == ASSUME NetInv, AgeNextRow PROVE Kept
<1>1. Quiet(Most) /\ events' = events
  BY QuietSame DEF AgeNextRow, NetInv, Queues, Quiet, Most, EventTypes
<1>2. arp[ip.row].ip \in Ips \cup {NoIp} /\ ip.row + 1 \in 0..NumRows + 1
  BY ArpAssumption DEF NetInv, ArpInv, ArpTypeOK, Ips, AgeNextRow, Rows
<1>3. ip.at = "arpTimer" /\ op["ip"].step = "idle"
  BY DEF AgeNextRow, IpAt
<1>4. CASE AsksAgain(ip.row)
  <2>1. /\ BeginGet("ip")
        /\ ip' = [ip EXCEPT !.at = "ask", !.row = @ + 1, !.dest = arp[ip.row].ip,
                            !.back = "arpTimer"]
    BY <1>4 DEF AgeNextRow
  <2>2. /\ pool' = pool /\ op'["ip"].step = "take" /\ op'["app"] = op["app"]
        /\ op'["poll"] = op["poll"]
    BY <2>1, Gets, TheUsers DEF NetInv, PoolInv
  <2>3. [PoolNext]_poolVars /\ PoolInv'
    BY <2>1, GetsKeeps, TheUsers DEF NetInv
  <2>3a. IpShape' /\ ip'.at = "ask"
    BY <1>2, <1>3, <2>1, TheUsers DEF NetInv, Shape, IpShape, IpStates
  <2>4. Shape'
    BY <2>2, <2>3a, IpGoes DEF AgeNextRow, NetInv, Shape
  <2>5. DownOnce'
    BY <1>1, <1>3, <2>3a DEF AgeNextRow, NetInv, DownOnce, Handling, Down
  <2> QED BY <1>1, <1>3, <2>2, <2>3, <2>4, <2>3a, <2>5, QuietKeeps DEF AgeNextRow
<1>5. CASE ~AsksAgain(ip.row)
  <2>1. ip' = [ip EXCEPT !.row = @ + 1] /\ UNCHANGED poolVars
    BY <1>5 DEF AgeNextRow
  <2>3. IpShape' /\ ip'.at = "arpTimer"
    BY <1>2, <1>3, <2>1, TheUsers DEF NetInv, Shape, IpShape, IpStates, Calling, poolVars
  <2>2. Shape'
    BY <2>1, <2>3, IpGoes DEF AgeNextRow, NetInv, Shape, poolVars
  <2>4. DownOnce'
    BY <1>1, <1>3, <2>3 DEF AgeNextRow, NetInv, DownOnce, Handling, Down
  <2>5. [PoolNext]_poolVars /\ PoolInv'
    BY <2>1, PoolSame DEF NetInv
  <2> QED BY <1>1, <1>3, <2>1, <2>2, <2>3, <2>4, <2>5, QuietKeeps DEF AgeNextRow, poolVars
<1> QED BY <1>4, <1>5

LEMMA GratuitousKeeps == ASSUME NetInv, SendGratuitous PROVE Kept
<1>1. Quiet(Most) /\ events' = events
  BY QuietSame DEF SendGratuitous, NetInv, Queues, Quiet, Most, EventTypes
<1>2. ip.at = "arpTimer" /\ op["ip"].step = "idle"
  BY DEF SendGratuitous, IpAt
<1>3. /\ pool' = pool /\ op'["ip"].step = "take" /\ op'["app"] = op["app"]
      /\ op'["poll"] = op["poll"]
  BY Gets, TheUsers DEF NetInv, PoolInv, SendGratuitous
<1>4. [PoolNext]_poolVars /\ PoolInv'
  BY GetsKeeps, TheUsers DEF NetInv, SendGratuitous
<1>6. IpShape' /\ ip'.at = "ask" /\ stack'.pending = stack.pending /\ stack' \in NetStates
  BY <1>2, <1>3, TheUsers DEF SendGratuitous, NetInv, Shape, IpShape, IpStates, NetStates
<1>5. Shape'
  BY <1>3, <1>6, IpGoes DEF SendGratuitous, NetInv
<1>7. DownOnce'
  BY <1>1, <1>2, <1>6 DEF SendGratuitous, NetInv, DownOnce, Handling, Down
<1> QED BY <1>1, <1>2, <1>3, <1>4, <1>5, <1>6, <1>7, QuietKeeps DEF SendGratuitous

-----------------------------------------------------------------------------
(* Steps of the IP task with a descriptor *)

LEMMA FrameSet ==
    ASSUME NetInv, NEW b \in Bufs, NEW p \in PlaceNames, b \in Held(p), NEW f \in Frame,
           frame' = [frame EXCEPT ![b] = f]
    PROVE  /\ frame' \in [Bufs -> Frame] /\ frame'[b] = f
           /\ \A q \in PlaceNames \ {p} : \A x \in Held(q) \cap Bufs : frame'[x] = frame[x]
<1>1. frame \in [Bufs -> Frame]
  BY DEF NetInv, Frames
<1>2. \A q \in PlaceNames \ {p} : b \notin Held(q)
  BY OneOnly DEF NetInv
<1> QED BY <1>1, <1>2

\* What is in the queues is there, for the facts about places.
LEMMA InQueues ==
    ASSUME NetInv
    PROVE  /\ \A j \in DOMAIN events : events[j].type \in {"rx", "tx"}
                 => events[j].buf \in Held("events") \cap Bufs
           /\ \A j \in DOMAIN output : output[j] \in Held("output") \cap Bufs
           /\ \A j \in DOMAIN packets : packets[j] \in Held("packets") \cap Bufs
           /\ app.at = "post" => app.buf \in Held("app") \cap Bufs
           /\ poll.at = "post" => poll.next \in Held("poll") \cap Bufs
           /\ ip.at \in {"rx", "tx", "output"} => ip.buf \in Held("ip") \cap Bufs
<1>1. HandsAre
  BY HandsFound DEF NetInv, PoolInv
<1>2. \A j \in DOMAIN events : events[j].type \in {"rx", "tx"} => events[j].buf \in Bufs
  BY DEF NetInv, Queues, EventsOK
<1>3. output \in Seq(Bufs) /\ packets \in Seq(Bufs)
  BY DEF NetInv, Shape
<1>4. \A s \in Seq(Bufs) : \A j \in DOMAIN s : s[j] \in Bufs
  OBVIOUS
<1>5. /\ app.at = "post" => app.buf \in Bufs
      /\ poll.at = "post" => poll.next \in Bufs
      /\ ip.at \in {"rx", "tx", "output"} => ip.buf \in Bufs
  BY DEF NetInv, Shape, IpShape, AppShape, PollShape
<1>6. /\ \A j \in DOMAIN output : output[j] \in Held("output") \cap Bufs
      /\ \A j \in DOMAIN packets : packets[j] \in Held("packets") \cap Bufs
  BY <1>1, <1>3, <1>4 DEF HandsAre, Elements
<1>7. \A j \in DOMAIN events : events[j].type \in {"rx", "tx"}
                 => events[j].buf \in Held("events") \cap Bufs
  BY <1>1, <1>2, TheUsers DEF HandsAre, BufsIn
<1>8. /\ app.at = "post" => app.buf \in Held("app") \cap Bufs
      /\ poll.at = "post" => poll.next \in Held("poll") \cap Bufs
      /\ ip.at \in {"rx", "tx", "output"} => ip.buf \in Held("ip") \cap Bufs
  BY <1>1, <1>5 DEF HandsAre
<1> QED BY <1>6, <1>7, <1>8

\* The IP task makes a frame to send in the buffer it has.
LEMMA IpFrame ==
    ASSUME NetInv, NEW b \in Bufs, Held("ip") = {b}, NEW f \in Frame, f.kind \in ToSend,
           frame' = [frame EXCEPT ![b] = f], Shape', ip'.at = "output", ip'.buf = b,
           UNCHANGED <<app, poll, events, output, packets, stack, poolVars>>
    PROVE  Kept
<1>1. HandsAre /\ HandsAre' /\ [PoolNext]_poolVars /\ PoolInv'
  BY HandsFound, HandsNext, PoolSame DEF NetInv, PoolInv, poolVars
<1>2. \A p \in PlaceNames : Held(p)' = Held(p)
  BY <1>1 DEF HandsAre, PlaceNames, Tasks, poolVars
<1>3. OnePlace'
  BY <1>2, Stays DEF NetInv
<1>4. Queues' /\ BindWaits' /\ DownOnce'
  BY DEF NetInv, Queues, BindWaits, DownOnce, Down, Handling
<1>5. /\ frame' \in [Bufs -> Frame] /\ frame'[b] = f
      /\ \A q \in PlaceNames \ {"ip"} : \A x \in Held(q) \cap Bufs : frame'[x] = frame[x]
  <2>1. "ip" \in PlaceNames
    BY DEF PlaceNames, Tasks
  <2> QED BY <2>1, FrameSet
<1>6. \A q \in {"events", "output", "packets", "app", "poll"} : q \in PlaceNames \ {"ip"}
  BY DEF PlaceNames, Tasks
<1>7. Frames'
  BY <1>5, <1>6, InQueues DEF NetInv, Frames
<1> QED BY <1>1, <1>3, <1>4, <1>7 DEF Kept

\* The IP task releases the descriptor it has.
LEMMA IpReleases ==
    ASSUME NetInv, ip.at \in {"rx", "tx"}, BeginRelease("ip", ip.buf),
           ip' = [ip EXCEPT !.at = "end", !.buf = NoBuf],
           UNCHANGED <<app, poll, events, output, packets, frame, stack>>
    PROVE  Kept
<1>1. ip.buf \in Bufs /\ "ip" \in Users /\ "ip" \in PlaceNames \ {"pool"}
      /\ "pool" \in PlaceNames /\ "app" \in Users /\ "poll" \in Users
  BY TheUsers DEF NetInv, Shape, IpShape, PlaceNames, Tasks
<1>2. HandsAre /\ Held("ip") = {ip.buf}
  BY HandsFound DEF NetInv, PoolInv, HandsAre
<1>3. /\ op'["ip"].step = "free"
      /\ op'["app"] = op["app"] /\ op'["poll"] = op["poll"]
      /\ Bufs \ pool'.out = (Bufs \ pool.out) \cup {ip.buf}
  BY <1>1, Releases DEF NetInv, PoolInv
<1>4. PoolNext /\ PoolInv'
  BY <1>1, <1>2, ReleasesOut DEF NetInv
<1>5. Shape' /\ ip'.at = "end"
  <2>1. IpShape' /\ ip'.at = "end"
    BY <1>3, TheUsers DEF NetInv, Shape, IpShape, IpStates, Calling
  <2> QED BY <1>3, <2>1, IpGoes DEF NetInv, Shape
<1>6. HandsAre' /\ ip'.at = "end"
  BY <1>4, <1>5, HandsNext DEF PoolInv
<1>7. /\ Held("ip")' = Held("ip") \ {ip.buf} /\ Held("pool")' = Held("pool") \cup {ip.buf}
      /\ \A r \in PlaceNames \ {"ip", "pool"} : Held(r)' = Held(r)
  BY <1>2, <1>3, <1>6 DEF HandsAre, PlaceNames, Tasks
<1>8. OnePlace'
  BY <1>1, <1>2, <1>7, MovesOne DEF NetInv
<1>9. Queues' /\ BindWaits' /\ DownOnce' /\ Frames'
  BY <1>6 DEF NetInv, Queues, BindWaits, DownOnce, Down, Handling, Frames
<1> QED BY <1>4, <1>5, <1>8, <1>9 DEF Kept

LEMMA ReceiveKeeps == ASSUME NetInv, ReceiveEvent PROVE Kept
<1> DEFINE x == Head(events)
<1>1. /\ ip.at = "wait" /\ op["ip"].step = "idle" /\ events' = Tail(events)
      /\ UNCHANGED <<poolVars, app, poll, output, packets, frame, stack>>
      /\ EventsOK(events) /\ events # <<>>
  BY DEF ReceiveEvent, IpAt, NetInv, Queues
<1>2. /\ x \in Events /\ (x.buf \in Bufs <=> x.type \in {"rx", "tx"})
      /\ 1 \in DOMAIN events /\ x = events[1]
      /\ x.buf \in Bufs => x.buf \in BufsIn(events)
      /\ EventsOK(events')
      /\ BufsIn(events') = BufsIn(events) \ {x.buf}
      /\ \A j \in DOMAIN events' : \E i \in DOMAIN events : events'[j] = events[i]
      /\ x.type \in Single => \A j \in DOMAIN events' : events'[j].type # x.type
  BY <1>1, EventTaken
<1>3. x.type \in EventTypes /\ x.buf \in Bufs \cup {NoBuf}
  BY <1>2 DEF Events
<1> HIDE DEF x
<1>4. IpShape' /\ ip'.at = x.type /\ ip'.buf = x.buf
  <2>1. ip' = [ip EXCEPT !.at = x.type, !.buf = x.buf,
                         !.row = IF x.type = "arpTimer" THEN 1 ELSE 0]
    BY DEF ReceiveEvent, x
  <2>2. 0 \in 0..NumRows + 1 /\ 1 \in 0..NumRows + 1
    BY ArpAssumption
  <2>3. ip' \in IpStates /\ ip'.at = x.type /\ ip'.buf = x.buf
    BY <1>3, <2>1, <2>2 DEF NetInv, Shape, IpShape, IpStates, EventTypes
  <2> QED BY <1>1, <1>2, <1>3, <2>3 DEF IpShape, EventTypes, poolVars, Calling
<1>5. Shape'
  BY <1>1, <1>4, IpGoes DEF NetInv, Shape, poolVars
<1>6. HandsAre /\ HandsAre' /\ [PoolNext]_poolVars /\ PoolInv'
  BY <1>1, <1>5, HandsFound, HandsNext, PoolSame DEF NetInv, PoolInv, poolVars
<1>7. OnePlace'
  <2>1. /\ Held("ip") = {} /\ Held("ip")' = IF x.buf \in Bufs THEN {x.buf} ELSE {}
        /\ Held("events") = BufsIn(events) /\ Held("events")' = BufsIn(events')
        /\ \A r \in PlaceNames \ {"ip", "events"} : Held(r)' = Held(r)
    BY <1>1, <1>2, <1>3, <1>4, <1>6 DEF HandsAre, PlaceNames, Tasks, poolVars, EventTypes
  <2>2. "ip" \in PlaceNames /\ "events" \in PlaceNames
    BY DEF PlaceNames, Tasks
  <2>3. CASE x.buf \in Bufs
    <3>1. x.buf \in Held("events") /\ Held("ip")' = Held("ip") \cup {x.buf}
          /\ Held("events")' = Held("events") \ {x.buf}
      BY <1>2, <2>1, <2>3
    <3> QED BY <2>1, <2>2, <3>1, MovesOne DEF NetInv
  <2>4. CASE x.buf \notin Bufs
    <3>1. BufsIn(events') = BufsIn(events)
      BY <1>2, <1>3, <2>4 DEF BufsIn
    <3>2. \A p \in PlaceNames : Held(p)' = Held(p)
      BY <2>1, <2>4, <3>1
    <3> QED BY <3>2, Stays DEF NetInv
  <2> QED BY <2>3, <2>4
<1>8. Queues'
  BY <1>1, <1>2 DEF NetInv, Queues
<1>9. BindWaits' /\ DownOnce'
  <2>1. BindWaits'
    BY <1>1, <1>2, <1>4 DEF NetInv, BindWaits, Single
  <2>2. /\ Down(events)' => Down(events) /\ x.type # "networkDown"
        /\ x.type = "networkDown" => Down(events)
    BY <1>2 DEF Down, Single
  <2>3. x.type \notin {"start", "retry"}
    BY <1>3 DEF EventTypes
  <2>4. DownOnce'
    BY <1>1, <1>4, <2>2, <2>3 DEF NetInv, DownOnce, Handling
  <2> QED BY <2>1, <2>4
<1>10. Frames'
  BY <1>1, <1>2, <1>3, <1>4 DEF NetInv, Frames, EventTypes
<1> QED BY <1>5, <1>6, <1>7, <1>8, <1>9, <1>10 DEF Kept

LEMMA ReleaseKeeps == ASSUME NetInv, ProcessAndRelease PROVE Kept
  BY IpReleases DEF ProcessAndRelease, Handles, IpAt, ReleaseAndEnd

LEMMA DropKeeps == ASSUME NetInv, DropPacket PROVE Kept
  BY IpReleases DEF DropPacket, IpAt, ReleaseAndEnd

\* The descriptor in hand at a frame or a packet
LEMMA InHandIs ==
    ASSUME NetInv, ip.at \in {"rx", "tx", "output"}
    PROVE  ip.buf \in Bufs /\ Held("ip") = {ip.buf} /\ frame[ip.buf] \in Frame
<1>1. HandsAre
  BY HandsFound DEF NetInv, PoolInv
<1> QED BY <1>1 DEF HandsAre, NetInv, Shape, IpShape, Frames

LEMMA SendOrAskKeeps ==
    ASSUME NetInv, NEW f \in Frame, f.kind \in ToSend, IpAt("tx") \/ IpAt("rx"),
           frame' = [frame EXCEPT ![ip.buf] = f],
           ip' = [ip EXCEPT !.at = "output", !.back = "end"],
           UNCHANGED <<app, poll, events, output, packets, stack, poolVars>>
    PROVE  Kept
<1>1. ip.buf \in Bufs /\ Held("ip") = {ip.buf}
  BY InHandIs DEF IpAt
<1>2. IpShape' /\ ip'.at = "output" /\ ip'.buf = ip.buf
  BY <1>1 DEF IpAt, NetInv, Shape, IpShape, IpStates, poolVars, Calling
<1>3. Shape'
  BY <1>2, IpGoes DEF NetInv, Shape, poolVars
<1> QED BY <1>1, <1>2, <1>3, IpFrame

LEMMA ReturnKeeps == ASSUME NetInv, ProcessAndReturn PROVE Kept
<1> DEFINE f == [ReceivedFrame EXCEPT !.kind = "reply"]
<1>1. IpAt("rx") /\ ReceivedFrame \in Frame
  BY InHandIs DEF ProcessAndReturn, Handles, IpAt, ReceivedFrame
<1>2. f \in Frame /\ f.kind \in ToSend
  BY <1>1 DEF Frame, ToSend
<1>3. frame' = [frame EXCEPT ![ip.buf] = f]
  BY DEF ProcessAndReturn, ReceivedFrame
<1> HIDE DEF f
<1> QED BY <1>1, <1>2, <1>3, SendOrAskKeeps DEF ProcessAndReturn

LEMMA HopIs == ASSUME NEW i \in Ips PROVE Hop(i) \in Local \cup {NoIp}
  BY ArpAssumption DEF Hop

LEMMA SendKeeps == ASSUME NetInv, SendPacket PROVE Kept
<1>1. IpAt("tx") /\ ReceivedFrame \in Filled
  BY DEF SendPacket, IpAt, NetInv, Frames, ReceivedFrame
<1>2. PICK m \in LookedUp(ReceivedFrame.ip) : SendOrAsk([ReceivedFrame EXCEPT !.mac = m])
  BY DEF SendPacket
<1>3. m \in Macs \cup {NoMac}
  BY <1>2 DEF LookedUp, First, IpRows, NetInv, ArpInv, ArpTypeOK
<1> DEFINE f == [ReceivedFrame EXCEPT !.mac = m]
<1>4. f \in Frame /\ f.kind \in ToSend
  BY <1>1, <1>3 DEF Frame, ToSend, Filled
<1> HIDE DEF f
<1>5. SendOrAsk(f)
  BY <1>2 DEF f
<1> QED BY <1>1, <1>4, <1>5, SendOrAskKeeps DEF SendPacket, SendOrAsk

LEMMA AskKeeps == ASSUME NetInv, AskForAddress PROVE Kept
<1> DEFINE f == [kind |-> "arpOut", ip |-> Hop(ReceivedFrame.ip), mac |-> NoMac]
<1>1. IpAt("tx") /\ ReceivedFrame \in Filled
  BY DEF AskForAddress, IpAt, NetInv, Frames, ReceivedFrame
<1>2. Hop(ReceivedFrame.ip) \in Ips \cup {NoIp}
  BY <1>1, HopIs DEF Filled, Ips
<1>3. f \in Frame /\ f.kind \in ToSend
  BY <1>2 DEF Frame, ToSend
<1>4. SendOrAsk(f)
  BY DEF AskForAddress
<1> HIDE DEF f
<1> QED BY <1>1, <1>3, <1>4, SendOrAskKeeps DEF AskForAddress, SendOrAsk

LEMMA AskAgainKeeps == ASSUME NetInv, AskAgain PROVE Kept
<1>1. ip.at = "ask" /\ op["ip"].step = "idle" /\ op["ip"].buf \in Bufs \cup {NoBuf}
      /\ UNCHANGED <<poolVars, app, poll, events, output, packets, stack>>
  BY TheUsers, PoolFields DEF AskAgain, IpAt, NetInv, PoolInv
<1>2. CASE op["ip"].buf = NoBuf
  <2>1. ip' = [ip EXCEPT !.at = ip.back] /\ frame' = frame
    BY <1>2 DEF AskAgain
  <2>2. IpShape' /\ ip'.at \in {"end", "arpTimer"}
    BY <1>1, <2>1, TheUsers DEF NetInv, Shape, IpShape, IpStates, poolVars, Calling
  <2>3. Shape'
    BY <1>1, <2>2, IpGoes DEF NetInv, Shape, poolVars
  <2>4. DownOnce'
    BY <1>1, <2>2 DEF NetInv, DownOnce, Handling, Down
  <2>5. Quiet(Most)
    BY <1>1, QuietSame DEF NetInv, Queues, Quiet, Most, EventTypes
  <2> QED BY <1>1, <1>2, <2>1, <2>2, <2>3, <2>4, <2>5, TheUsers, QuietKeeps, PoolSame
          DEF NetInv, poolVars
<1>3. CASE op["ip"].buf \in Bufs
  <2> DEFINE b == op["ip"].buf
             f == [kind |-> "arpOut", ip |-> ip.dest, mac |-> NoMac]
  <2>1. ip' = [ip EXCEPT !.at = "output", !.buf = b] /\ frame' = [frame EXCEPT ![b] = f]
    BY <1>3, TheUsers DEF AskAgain
  <2>2. HandsAre
    BY HandsFound DEF NetInv, PoolInv
  <2>3. b \in Bufs /\ Held("ip") = {b}
    BY <1>1, <1>3, <2>2 DEF HandsAre
  <2>4. ip.dest \in Ips \cup {NoIp}
    BY DEF NetInv, Shape, IpShape, IpStates
  <2>5. f \in Frame /\ f.kind \in ToSend
    BY <2>4 DEF Frame, ToSend
  <2> HIDE DEF b, f
  <2>6. IpShape' /\ ip'.at = "output" /\ ip'.buf = b
    BY <1>1, <2>1, <2>3 DEF NetInv, Shape, IpShape, IpStates, poolVars, Calling
  <2>7. Shape'
    BY <1>1, <2>6, IpGoes DEF NetInv, Shape, poolVars
  <2> QED BY <1>1, <2>1, <2>3, <2>5, <2>6, <2>7, IpFrame
<1> QED BY <1>1, <1>2, <1>3

\* There is room in the output queue: a descriptor in hand is not in it.
LEMMA FewerThanAll ==
    ASSUME NEW s \in Seq(Bufs), Distinct(s), NEW b \in Bufs, b \notin Elements(s)
    PROVE  Len(s) < Cardinality(Bufs)
<1> DEFINE n == Len(s)
           T == Bufs \ {b}
<1>1. n \in Nat /\ s \in [1..n -> T] /\ DOMAIN s = 1..n
  BY DEF Elements
<1>2. IsFiniteSet(T) /\ Cardinality(T) = Cardinality(Bufs) - 1 /\ Cardinality(Bufs) \in Nat
  BY NetBuffersAssumption, FS_RemoveElement, FS_CardinalityType
<1>3. IsFiniteSet(1..n) /\ Cardinality(1..n) = n
  <2>1. IsFiniteSet(1..n) /\ Cardinality(1..n) = IF 1 > n THEN 0 ELSE n - 1 + 1
    BY <1>1, FS_Interval
  <2> QED BY <1>1, <2>1
<1>4. \A i, j \in 1..n : i # j => s[i] # s[j]
  BY <1>1 DEF Distinct
<1> HIDE DEF n, T
<1>5. ~(Cardinality(T) < n)
  BY <1>1, <1>2, <1>3, <1>4, FS_PigeonHole
<1> QED BY <1>1, <1>2, <1>5 DEF n

LEMMA OutputKeeps == ASSUME NetInv, Output PROVE Kept
<1> DEFINE b == ip.buf
<1>1. /\ ip.at = "output" /\ op["ip"].step = "idle"
      /\ UNCHANGED <<poolVars, app, poll, events, packets, frame, stack>>
      /\ ip' = [ip EXCEPT !.at = ip.back, !.buf = NoBuf]
  BY DEF Output, IpAt
<1>2. b \in Bufs /\ Held("ip") = {b} /\ HandsAre
  BY <1>1, InHandIs, HandsFound DEF NetInv, PoolInv
<1>3. "ip" \in PlaceNames /\ "output" \in PlaceNames
  BY DEF PlaceNames, Tasks
<1>4. b \notin Elements(output)
  BY <1>2, <1>3, OneOnly DEF NetInv, HandsAre
<1>5. output \in Seq(Bufs) /\ Distinct(output)
  BY DEF NetInv, Shape, Queues
<1>6. output' = Append(output, b)
  BY <1>2, <1>4, <1>5, FewerThanAll DEF Output
<1> HIDE DEF b
<1>7. output' \in Seq(Bufs) /\ Distinct(output') /\ Elements(output') = Elements(output) \cup {b}
  BY <1>2, <1>4, <1>5, <1>6, DescriptorJoins
<1>8. IpShape' /\ ip'.at \in {"end", "arpTimer"}
  BY <1>1, TheUsers DEF NetInv, Shape, IpShape, IpStates, Calling, poolVars
<1>9. Shape'
  BY <1>1, <1>7, <1>8 DEF NetInv, Shape, AppShape, PollShape, poolVars
<1>10. HandsAre' /\ [PoolNext]_poolVars /\ PoolInv'
  BY <1>1, <1>9, HandsNext, PoolSame DEF NetInv, PoolInv
<1>11. /\ Held("ip")' = Held("ip") \ {b} /\ Held("output")' = Held("output") \cup {b}
       /\ \A r \in PlaceNames \ {"ip", "output"} : Held(r)' = Held(r)
  <2>1. Held("ip")' = {} /\ Held("output")' = Elements(output')
    BY <1>1, <1>8, <1>10 DEF HandsAre, poolVars
  <2>2. \A r \in PlaceNames \ {"ip", "output"} : Held(r)' = Held(r)
    BY <1>1, <1>2, <1>10 DEF HandsAre, PlaceNames, Tasks, poolVars
  <2> QED BY <1>2, <1>7, <2>1, <2>2 DEF HandsAre
<1>12. OnePlace'
  BY <1>2, <1>3, <1>11, MovesOne DEF NetInv
<1>13. Queues' /\ BindWaits' /\ DownOnce'
  BY <1>1, <1>7, <1>8 DEF NetInv, Queues, BindWaits, DownOnce, Down, Handling
<1>14. Frames'
  <2>1. frame[b].kind \in ToSend
    BY <1>1 DEF NetInv, Frames, b
  <2>2. \A j \in DOMAIN output' : output'[j] = b \/ \E i \in DOMAIN output : output'[j] = output[i]
    BY <1>7 DEF Elements
  <2>3. \A j \in DOMAIN output' : frame[output'[j]].kind \in ToSend
    BY <2>1, <2>2 DEF NetInv, Frames
  <2> QED BY <1>1, <1>8, <2>3 DEF NetInv, Frames
<1> QED BY <1>9, <1>10, <1>12, <1>13, <1>14 DEF Kept

LEMMA UDPKeeps == ASSUME NetInv, ProcessUDP PROVE Kept
<1>1. ip.at = "rx" /\ op["ip"].step = "idle" /\ frame[ip.buf].kind = "udp"
  BY DEF ProcessUDP, Handles, IpAt, ReceivedFrame
<1>2. CASE ~stack.bound
  BY <1>1, <1>2, IpReleases DEF ProcessUDP, ReleaseAndEnd
<1>3. CASE stack.bound
  <2> DEFINE b == ip.buf
  <2>1. /\ UNCHANGED <<poolVars, app, poll, events, output, frame, stack>>
        /\ packets' = Append(packets, b)
        /\ ip' = [ip EXCEPT !.at = "end", !.buf = NoBuf]
    BY <1>3 DEF ProcessUDP
  <2>2. b \in Bufs /\ Held("ip") = {b} /\ HandsAre
    BY <1>1, InHandIs, HandsFound DEF NetInv, PoolInv
  <2>3. "ip" \in PlaceNames /\ "packets" \in PlaceNames
    BY DEF PlaceNames, Tasks
  <2>4. b \notin Elements(packets)
    BY <2>2, <2>3, OneOnly DEF NetInv, HandsAre
  <2>5. packets \in Seq(Bufs) /\ Distinct(packets)
    BY DEF NetInv, Shape, Queues
  <2> HIDE DEF b
  <2>6. /\ packets' \in Seq(Bufs) /\ Distinct(packets')
        /\ Elements(packets') = Elements(packets) \cup {b}
    BY <2>1, <2>2, <2>4, <2>5, DescriptorJoins
  <2>7. IpShape' /\ ip'.at = "end"
    BY <1>1, <2>1, TheUsers DEF NetInv, Shape, IpShape, IpStates, Calling, poolVars
  <2>8. Shape'
    BY <2>1, <2>6, <2>7 DEF NetInv, Shape, AppShape, PollShape, poolVars
  <2>9. HandsAre' /\ [PoolNext]_poolVars /\ PoolInv'
    BY <2>1, <2>8, HandsNext, PoolSame DEF NetInv, PoolInv
  <2>10. /\ Held("ip")' = Held("ip") \ {b} /\ Held("packets")' = Held("packets") \cup {b}
         /\ \A r \in PlaceNames \ {"ip", "packets"} : Held(r)' = Held(r)
    <3>1. Held("ip")' = {} /\ Held("packets")' = Elements(packets')
      BY <2>1, <2>7, <2>9 DEF HandsAre, poolVars
    <3>2. \A r \in PlaceNames \ {"ip", "packets"} : Held(r)' = Held(r)
      BY <2>1, <2>2, <2>9 DEF HandsAre, PlaceNames, Tasks, poolVars
    <3> QED BY <2>2, <2>6, <3>1, <3>2 DEF HandsAre
  <2>11. OnePlace'
    BY <2>2, <2>3, <2>10, MovesOne DEF NetInv
  <2>12. Queues' /\ BindWaits' /\ DownOnce'
    BY <2>1, <2>6, <2>7 DEF NetInv, Queues, BindWaits, DownOnce, Down, Handling
  <2>13. Frames'
    <3>1. frame[b].kind = "udp"
      BY <1>1 DEF b
    <3>2. \A j \in DOMAIN packets' :
             packets'[j] = b \/ \E i \in DOMAIN packets : packets'[j] = packets[i]
      BY <2>6 DEF Elements
    <3>3. \A j \in DOMAIN packets' : frame[packets'[j]].kind = "udp"
      BY <3>1, <3>2 DEF NetInv, Frames
    <3> QED BY <2>1, <2>7, <3>3 DEF NetInv, Frames
  <2> QED BY <2>8, <2>9, <2>11, <2>12, <2>13 DEF Kept
<1> QED BY <1>2, <1>3

\* The application is told, which waits for that and has nothing.
LEMMA BindKeeps == ASSUME NetInv, BindSocket PROVE Kept
<1>1. /\ ip.at = "bind" /\ op["ip"].step = "idle" /\ app.at = "binding"
      /\ \A j \in DOMAIN events : events[j].type # "bind"
      /\ ip' = [ip EXCEPT !.at = "end"] /\ app' = [app EXCEPT !.at = "ready"]
      /\ stack' = [stack EXCEPT !.bound = TRUE]
      /\ UNCHANGED <<poolVars, poll, events, output, packets, frame>>
  BY DEF BindSocket, IpAt, NetInv, BindWaits
<1>2. IpShape' /\ ip'.at = "end"
  BY <1>1, TheUsers DEF NetInv, Shape, IpShape, IpStates, Calling, poolVars
<1>3. AppShape' /\ app'.at = "ready" /\ stack' \in NetStates /\ stack'.pending = stack.pending
  BY <1>1, TheUsers DEF NetInv, Shape, AppShape, AppStates, NetStates, Calling, poolVars
<1>4. Shape'
  BY <1>1, <1>2, <1>3 DEF NetInv, Shape, PollShape, poolVars
<1>5. HandsAre /\ HandsAre' /\ [PoolNext]_poolVars /\ PoolInv'
  BY <1>1, <1>4, HandsFound, HandsNext, PoolSame DEF NetInv, PoolInv, poolVars
<1>6. \A p \in PlaceNames : Held(p)' = Held(p)
  BY <1>1, <1>2, <1>3, <1>5 DEF HandsAre, PlaceNames, Tasks, poolVars
<1>7. OnePlace'
  BY <1>6, Stays DEF NetInv
<1>8. Queues' /\ BindWaits' /\ DownOnce'
  BY <1>1, <1>2, <1>3 DEF NetInv, Queues, BindWaits, DownOnce, Down, Handling
<1>9. Frames'
  BY <1>1, <1>2, <1>3 DEF NetInv, Frames
<1> QED BY <1>4, <1>5, <1>7, <1>8, <1>9 DEF Kept

\* A packet that waits at the socket is released, by the IP task or the
\* application.
LEMMA PacketReleased ==
    ASSUME NetInv, NEW t \in {"ip", "app"}, packets # <<>>, packets' = Tail(packets),
           BeginRelease(t, Head(packets)), UNCHANGED <<ip, app, poll, events, output, frame>>,
           t = "ip" => ip.at # "ask", t = "app" => app.at # "got",
           stack' \in NetStates, stack'.pending = stack.pending
    PROVE  Kept
<1> DEFINE b == Head(packets)
<1>1. packets \in Seq(Bufs) /\ Distinct(packets) /\ HandsAre /\ t \in Users
      /\ "packets" \in PlaceNames \ {"pool"} /\ "pool" \in PlaceNames
      /\ "ip" \in Users /\ "app" \in Users /\ "poll" \in Users
  BY HandsFound, TheUsers DEF NetInv, Shape, Queues, PoolInv, PlaceNames
<1>2. /\ packets' \in Seq(Bufs) /\ b \in Bufs /\ Distinct(packets')
      /\ Elements(packets') = Elements(packets) \ {b} /\ b \in Elements(packets)
  BY <1>1, HeadLeaves
<1>3. BeginRelease(t, b)
  OBVIOUS
<1> HIDE DEF b
<1>4. /\ op'[t].step = "free" /\ op[t].step = "idle"
      /\ \A u \in {"ip", "app", "poll"} \ {t} : op'[u] = op[u]
      /\ Bufs \ pool'.out = (Bufs \ pool.out) \cup {b}
  BY <1>1, <1>2, <1>3, Releases DEF NetInv, PoolInv
<1>5. PoolNext /\ PoolInv'
  BY <1>1, <1>2, <1>3, ReleasesOut DEF NetInv, HandsAre
<1>6. Shape'
  BY <1>2, <1>4 DEF NetInv, Shape, IpShape, AppShape, PollShape, Calling
<1>7. HandsAre'
  BY <1>5, <1>6, HandsNext DEF PoolInv
<1>8. /\ Held("packets")' = Held("packets") \ {b} /\ Held("pool")' = Held("pool") \cup {b}
      /\ \A r \in PlaceNames \ {"packets", "pool"} : Held(r)' = Held(r)
  BY <1>1, <1>2, <1>4, <1>7 DEF HandsAre, PlaceNames, Tasks
<1>9. OnePlace'
  BY <1>1, <1>2, <1>8, MovesOne DEF NetInv, HandsAre
<1>10. Queues' /\ BindWaits' /\ DownOnce'
  BY <1>2 DEF NetInv, Queues, BindWaits, DownOnce, Down, Handling
<1>11. Frames'
  <2>1. \A j \in DOMAIN packets' : \E i \in DOMAIN packets : packets'[j] = packets[i]
    BY <1>2 DEF Elements
  <2> QED BY <2>1 DEF NetInv, Frames
<1> QED BY <1>5, <1>6, <1>9, <1>10, <1>11 DEF Kept

LEMMA CloseKeeps == ASSUME NetInv, CloseSocket PROVE Kept
<1>1. /\ ip.at = "close" /\ op["ip"].step = "idle"
      /\ UNCHANGED <<app, poll, events, output, frame>>
      /\ stack' = [stack EXCEPT !.bound = FALSE]
  BY DEF CloseSocket, IpAt
<1>2. stack' \in NetStates /\ stack'.pending = stack.pending
  BY <1>1 DEF NetInv, Shape, NetStates
<1>3. CASE packets # <<>>
  BY <1>1, <1>2, <1>3, PacketReleased DEF CloseSocket
<1>4. CASE packets = <<>>
  <2>1. Quiet(Most) /\ events' = events
    BY <1>1, QuietSame DEF NetInv, Queues, Quiet, Most, EventTypes
  <2>2. ip' = [ip EXCEPT !.at = "end"] /\ UNCHANGED <<poolVars, packets>>
    BY <1>4 DEF CloseSocket
  <2>3. IpShape' /\ ip'.at = "end"
    BY <1>1, <2>2, IpEmpty DEF IpAt
  <2>4. Shape'
    BY <1>1, <1>2, <2>2, <2>3, IpGoes DEF poolVars
  <2>5. DownOnce'
    BY <1>1, <1>2, <2>1, <2>2, <2>3 DEF NetInv, DownOnce, Handling, Down
  <2> QED BY <1>1, <2>1, <2>2, <2>3, <2>4, <2>5, QuietKeeps, PoolSame DEF NetInv, poolVars
<1> QED BY <1>3, <1>4

-----------------------------------------------------------------------------
(* Steps of the application *)

LEMMA AppGoes ==
    ASSUME NetInv, AppShape', UNCHANGED <<ip, poll, stack, output, packets>>,
           op'["ip"] = op["ip"], op'["poll"] = op["poll"]
    PROVE  Shape'
  BY DEF NetInv, Shape, IpShape, PollShape

\* A step of the application that touches no descriptor
LEMMA AppQuiet ==
    ASSUME NetInv, Quiet(EventTypes \ {"close"}), [PoolNext]_poolVars, PoolInv', AppShape',
           UNCHANGED <<ip, poll, output, packets, frame, stack>>, pool'.out = pool.out,
           op'["ip"] = op["ip"], op'["poll"] = op["poll"],
           app.at \notin {"post", "binding"}, app'.at # "post",
           app.at = "got" => ~(op["app"].step = "idle" /\ op["app"].buf \in Bufs),
           app'.at = "got" => op'["app"].step # "idle"
    PROVE  Kept
<1>1. Shape'
  BY AppGoes
<1>2. HandsAre /\ HandsAre'
  BY <1>1, HandsFound, HandsNext DEF NetInv, PoolInv
<1>3. \A p \in PlaceNames : Held(p)' = Held(p)
  BY <1>2 DEF HandsAre, PlaceNames, Tasks, Quiet
<1>4. OnePlace'
  BY <1>3, Stays DEF NetInv
<1>5. Queues'
  BY DEF NetInv, Queues, Quiet
<1>6. BindWaits'
  BY DEF NetInv, BindWaits, Quiet, EventTypes
<1>7. DownOnce'
  BY DEF NetInv, DownOnce, Down, Handling, Quiet, EventTypes
<1>8. Frames'
  BY DEF NetInv, Frames, Quiet, EventTypes
<1> QED BY <1>1, <1>4, <1>5, <1>6, <1>7, <1>8 DEF Kept

LEMMA AppBindKeeps == ASSUME NetInv, AppBind PROVE Kept
<1> DEFINE x == Event("bind", NoBuf)
<1>1. /\ app.at = "unbound" /\ op["app"].step = "idle" /\ events' = Append(events, x)
      /\ app' = [app EXCEPT !.at = "binding"] /\ EventsOK(events)
      /\ UNCHANGED <<poolVars, ip, poll, output, packets, frame, stack>>
  BY DEF AppBind, AppAt, Post, NetInv, Queues
<1>2. ip.at # "bind" /\ \A j \in DOMAIN events : events[j].type # "bind"
  BY <1>1 DEF NetInv, BindWaits
<1>3. x \in Events /\ x.buf = NoBuf /\ x.type = "bind" /\ NoBuf \notin Bufs
      /\ NoBuf \notin BufsIn(events)
  BY TheUsers DEF Event, Events, EventTypes, BufsIn
<1> HIDE DEF x
<1>4. /\ EventsOK(events') /\ BufsIn(events') = BufsIn(events) \cup ({x.buf} \ {NoBuf})
      /\ \A j \in DOMAIN events' : events'[j] = x \/ \E i \in DOMAIN events : events'[j] = events[i]
  BY <1>1, <1>2, <1>3, EventAdded
<1>5. AppShape' /\ app'.at = "binding"
  BY <1>1 DEF NetInv, Shape, AppShape, AppStates, Calling, poolVars
<1>6. Shape'
  BY <1>1, <1>5, AppGoes DEF poolVars
<1>7. HandsAre /\ HandsAre' /\ [PoolNext]_poolVars /\ PoolInv'
  BY <1>1, <1>6, HandsFound, HandsNext, PoolSame DEF NetInv, PoolInv, poolVars
<1>8. \A p \in PlaceNames : Held(p)' = Held(p)
  <2>1. BufsIn(events)' = BufsIn(events)
    BY <1>3, <1>4
  <2> QED BY <1>1, <1>5, <1>7, <2>1 DEF HandsAre, PlaceNames, Tasks, poolVars
<1>9. OnePlace'
  BY <1>8, Stays DEF NetInv
<1>10. Queues'
  BY <1>1, <1>4 DEF NetInv, Queues
<1>11. BindWaits' /\ DownOnce'
  <2>1. Down(events)' => Down(events)
    BY <1>3, <1>4 DEF Down
  <2> QED BY <1>1, <1>2, <1>5, <2>1 DEF NetInv, BindWaits, DownOnce, Handling
<1>12. Frames'
  BY <1>1, <1>3, <1>4, <1>5 DEF NetInv, Frames
<1> QED BY <1>6, <1>7, <1>9, <1>10, <1>11, <1>12 DEF Kept

LEMMA AppSendKeeps == ASSUME NetInv, AppSendTo PROVE Kept
<1>1. PICK i \in Ips : app' = [app EXCEPT !.at = "got", !.dest = i]
  BY DEF AppSendTo
<1>2. /\ app.at = "ready" /\ op["app"].step = "idle" /\ BeginGet("app")
      /\ UNCHANGED <<ip, poll, events, output, packets, frame, stack>>
  BY DEF AppSendTo, AppAt
<1>3. /\ pool' = pool /\ op'["app"].step = "take" /\ op'["ip"] = op["ip"]
      /\ op'["poll"] = op["poll"]
  BY <1>2, Gets, TheUsers DEF NetInv, PoolInv
<1>4. [PoolNext]_poolVars /\ PoolInv'
  BY <1>2, GetsKeeps, TheUsers DEF NetInv
<1>5. AppShape' /\ app'.at = "got"
  BY <1>1, <1>2, <1>3 DEF NetInv, Shape, AppShape, AppStates
<1>6. Quiet(EventTypes \ {"close"})
  BY <1>2, QuietSame DEF NetInv, Queues, Quiet
<1> QED BY <1>2, <1>3, <1>4, <1>5, <1>6, AppQuiet

LEMMA AppCloseKeeps == ASSUME NetInv, AppClose PROVE Kept
<1>1. /\ app.at = "ready" /\ op["app"].step = "idle" /\ app' = [app EXCEPT !.at = "unbound"]
      /\ UNCHANGED <<poolVars, ip, poll, output, packets, frame, stack>>
  BY DEF AppClose, AppAt
<1>2. Quiet(EventTypes \ {"close"})
  BY QuietPost DEF AppClose, NetInv, Queues
<1>3. AppShape' /\ app'.at = "unbound"
  BY <1>1 DEF NetInv, Shape, AppShape, AppStates, Calling, poolVars
<1> QED BY <1>1, <1>2, <1>3, AppQuiet, PoolSame DEF NetInv, poolVars

LEMMA AppFillsKeeps == ASSUME NetInv, AppFillsBuffer PROVE Kept
<1>1. /\ app.at = "got" /\ op["app"].step = "idle" /\ op["app"].buf \in Bufs \cup {NoBuf}
      /\ UNCHANGED <<poolVars, ip, poll, events, output, packets, stack>>
  BY TheUsers, PoolFields DEF AppFillsBuffer, AppAt, NetInv, PoolInv
<1>2. CASE op["app"].buf = NoBuf
  <2>1. app' = [app EXCEPT !.at = "ready", !.dest = NoIp] /\ frame' = frame
    BY <1>2 DEF AppFillsBuffer
  <2>2. AppShape' /\ app'.at = "ready"
    BY <1>1, <2>1 DEF NetInv, Shape, AppShape, AppStates, Calling, poolVars
  <2>3. Quiet(EventTypes \ {"close"})
    BY <1>1, QuietSame DEF NetInv, Queues, Quiet
  <2> QED BY <1>1, <1>2, <2>1, <2>2, <2>3, AppQuiet, PoolSame, TheUsers DEF NetInv, poolVars
<1>3. CASE op["app"].buf \in Bufs
  <2> DEFINE b == op["app"].buf
             f == [kind |-> "udpOut", ip |-> app.dest, mac |-> NoMac]
  <2>1. /\ app' = [app EXCEPT !.at = "post", !.buf = b, !.dest = NoIp]
        /\ frame' = [frame EXCEPT ![b] = f]
    BY <1>3, TheUsers DEF AppFillsBuffer
  <2>2. HandsAre
    BY HandsFound DEF NetInv, PoolInv
  <2>3. b \in Bufs /\ Held("app") = {b} /\ "app" \in PlaceNames
    BY <1>1, <1>3, <2>2 DEF HandsAre, PlaceNames, Tasks
  <2>4. app.dest \in Ips
    BY <1>1 DEF NetInv, Shape, AppShape
  <2>5. f \in Frame /\ f \in Filled
    BY <2>4 DEF Frame, Filled
  <2> HIDE DEF b, f
  <2>6. AppShape' /\ app'.at = "post" /\ app'.buf = b
    BY <1>1, <2>1, <2>3 DEF NetInv, Shape, AppShape, AppStates, poolVars, Calling
  <2>7. Shape'
    BY <1>1, <2>6, AppGoes DEF poolVars
  <2>8. HandsAre' /\ [PoolNext]_poolVars /\ PoolInv'
    BY <1>1, <2>7, HandsNext, PoolSame DEF NetInv, PoolInv
  <2>9. \A p \in PlaceNames : Held(p)' = Held(p)
    BY <1>1, <2>2, <2>3, <2>6, <2>8 DEF HandsAre, PlaceNames, Tasks, poolVars
  <2>10. OnePlace'
    BY <2>9, Stays DEF NetInv
  <2>11. Queues' /\ BindWaits' /\ DownOnce'
    BY <1>1 DEF NetInv, Queues, BindWaits, DownOnce, Down, Handling
  <2>12. /\ frame' \in [Bufs -> Frame] /\ frame'[b] = f
         /\ \A q \in PlaceNames \ {"app"} : \A x \in Held(q) \cap Bufs : frame'[x] = frame[x]
    BY <2>1, <2>3, <2>5, FrameSet
  <2>13. \A q \in {"events", "output", "packets", "ip", "poll"} : q \in PlaceNames \ {"app"}
    BY DEF PlaceNames, Tasks
  <2>14. Frames'
    BY <1>1, <2>5, <2>6, <2>12, <2>13, InQueues DEF NetInv, Frames
  <2> QED BY <2>7, <2>8, <2>10, <2>11, <2>14 DEF Kept
<1> QED BY <1>1, <1>2, <1>3

\* A task passes the descriptor it has to the IP task.
LEMMA Passed ==
    ASSUME NetInv, NEW type \in {"rx", "tx"}, NEW b \in Bufs, NEW t \in {"app", "poll"},
           Held(t) = {b}, events' = Append(events, Event(type, b)),
           IF type = "rx" THEN frame[b] \in FromWire ELSE frame[b] \in Filled
    PROVE  /\ EventsOK(events') /\ BufsIn(events') = BufsIn(events) \cup {b}
           /\ Down(events)' => Down(events)
           /\ \A j \in DOMAIN events' : events'[j].type = "bind"
                => \E i \in DOMAIN events : events'[j] = events[i]
           /\ \A j \in DOMAIN events' :
                /\ events'[j].type = "rx" => frame[events'[j].buf] \in FromWire
                /\ events'[j].type = "tx" => frame[events'[j].buf] \in Filled
<1> DEFINE x == Event(type, b)
<1>1. x \in Events /\ x.buf = b /\ x.type = type /\ b # NoBuf
  BY TheUsers DEF Event, Events, EventTypes
<1>2. HandsAre /\ t \in PlaceNames /\ "events" \in PlaceNames /\ EventsOK(events) /\ t # "events"
  BY HandsFound DEF NetInv, PoolInv, Queues, PlaceNames, Tasks
<1>3. b \notin BufsIn(events)
  BY <1>2, OneOnly DEF NetInv, HandsAre
<1> HIDE DEF x
<1>4. type \notin Single
  BY DEF Single
<1>5. /\ EventsOK(events') /\ BufsIn(events') = BufsIn(events) \cup ({x.buf} \ {NoBuf})
      /\ \A j \in DOMAIN events' : events'[j] = x \/ \E i \in DOMAIN events : events'[j] = events[i]
  BY <1>1, <1>2, <1>3, <1>4, EventAdded DEF x
<1>6. \A j \in DOMAIN events' :
         /\ events'[j].type = "rx" => frame[events'[j].buf] \in FromWire
         /\ events'[j].type = "tx" => frame[events'[j].buf] \in Filled
  BY <1>1, <1>5 DEF NetInv, Frames
<1> QED BY <1>1, <1>5, <1>6 DEF Down, NetInv, Queues

LEMMA AppPostsKeeps == ASSUME NetInv, AppPosts PROVE Kept
<1> DEFINE b == app.buf
<1>1. /\ app.at = "post" /\ op["app"].step = "idle"
      /\ events' = Append(events, Event("tx", b))
      /\ app' = [app EXCEPT !.at = "ready", !.buf = NoBuf]
      /\ UNCHANGED <<poolVars, ip, poll, output, packets, frame, stack>>
  BY DEF AppPosts, AppAt, Post
<1>2. HandsAre /\ b \in Bufs /\ frame[b] \in Filled
  BY <1>1, HandsFound DEF NetInv, PoolInv, Shape, AppShape, Frames
<1>3. Held("app") = {b} /\ "app" \in PlaceNames /\ "events" \in PlaceNames
  BY <1>1, <1>2 DEF HandsAre, PlaceNames, Tasks
<1> HIDE DEF b
<1>4. /\ EventsOK(events') /\ BufsIn(events') = BufsIn(events) \cup {b}
      /\ Down(events)' => Down(events)
      /\ \A j \in DOMAIN events' : events'[j].type = "bind"
           => \E i \in DOMAIN events : events'[j] = events[i]
      /\ \A j \in DOMAIN events' :
           /\ events'[j].type = "rx" => frame[events'[j].buf] \in FromWire
           /\ events'[j].type = "tx" => frame[events'[j].buf] \in Filled
  BY <1>1, <1>2, <1>3, Passed
<1>5. AppShape' /\ app'.at = "ready"
  BY <1>1, TheUsers DEF NetInv, Shape, AppShape, AppStates, Calling, poolVars
<1>6. Shape'
  BY <1>1, <1>5, AppGoes DEF poolVars
<1>7. HandsAre' /\ [PoolNext]_poolVars /\ PoolInv'
  BY <1>1, <1>6, HandsNext, PoolSame DEF NetInv, PoolInv
<1>8. /\ Held("app")' = Held("app") \ {b} /\ Held("events")' = Held("events") \cup {b}
      /\ \A r \in PlaceNames \ {"app", "events"} : Held(r)' = Held(r)
  BY <1>1, <1>2, <1>3, <1>4, <1>5, <1>7 DEF HandsAre, PlaceNames, Tasks, poolVars
<1>9. OnePlace'
  BY <1>2, <1>3, <1>8, MovesOne DEF NetInv
<1>10. Queues' /\ BindWaits' /\ DownOnce'
  BY <1>1, <1>4, <1>5 DEF NetInv, Queues, BindWaits, DownOnce, Handling
<1>11. Frames'
  BY <1>1, <1>4, <1>5 DEF NetInv, Frames
<1> QED BY <1>6, <1>7, <1>9, <1>10, <1>11 DEF Kept

LEMMA AppGivesUpKeeps == ASSUME NetInv, AppGivesUp PROVE Kept
<1> DEFINE b == app.buf
<1>1. /\ app.at = "post" /\ op["app"].step = "idle" /\ BeginRelease("app", b)
      /\ app' = [app EXCEPT !.at = "ready", !.buf = NoBuf]
      /\ UNCHANGED <<ip, poll, events, output, packets, frame, stack>>
  BY DEF AppGivesUp, AppAt
<1>2. HandsAre /\ b \in Bufs
  BY <1>1, HandsFound DEF NetInv, PoolInv, Shape, AppShape
<1>3. /\ Held("app") = {b} /\ "app" \in PlaceNames \ {"pool"} /\ "pool" \in PlaceNames
      /\ "app" \in Users /\ "ip" \in Users /\ "poll" \in Users
  BY <1>1, <1>2, TheUsers DEF HandsAre, PlaceNames, Tasks
<1> HIDE DEF b
<1>4. /\ op'["app"].step = "free" /\ op'["ip"] = op["ip"] /\ op'["poll"] = op["poll"]
      /\ Bufs \ pool'.out = (Bufs \ pool.out) \cup {b}
  BY <1>1, <1>2, <1>3, Releases DEF NetInv, PoolInv
<1>5. PoolNext /\ PoolInv'
  BY <1>1, <1>2, <1>3, ReleasesOut DEF NetInv
<1>6. AppShape' /\ app'.at = "ready"
  BY <1>1, <1>4, TheUsers DEF NetInv, Shape, AppShape, AppStates, Calling
<1>7. Shape'
  BY <1>1, <1>4, <1>6, AppGoes
<1>8. HandsAre'
  BY <1>5, <1>7, HandsNext DEF PoolInv
<1>9. /\ Held("app")' = Held("app") \ {b} /\ Held("pool")' = Held("pool") \cup {b}
      /\ \A r \in PlaceNames \ {"app", "pool"} : Held(r)' = Held(r)
  BY <1>1, <1>2, <1>3, <1>4, <1>6, <1>8 DEF HandsAre, PlaceNames, Tasks
<1>10. OnePlace'
  BY <1>2, <1>3, <1>9, MovesOne DEF NetInv
<1>11. Queues' /\ BindWaits' /\ DownOnce' /\ Frames'
  BY <1>1, <1>6 DEF NetInv, Queues, BindWaits, DownOnce, Down, Handling, Frames
<1> QED BY <1>5, <1>7, <1>10, <1>11 DEF Kept

LEMMA AppReceiveKeeps == ASSUME NetInv, AppReceive PROVE Kept
<1>1. app.at = "ready" /\ stack' = stack /\ stack \in NetStates
  BY DEF AppReceive, AppAt, NetInv, Shape
<1> QED BY <1>1, PacketReleased DEF AppReceive

-----------------------------------------------------------------------------
(* Steps of the poll task *)

LEMMA PollGoes ==
    ASSUME NetInv, PollShape', UNCHANGED <<ip, app, stack, packets>>, output' \in Seq(Bufs),
           op'["ip"] = op["ip"], op'["app"] = op["app"]
    PROVE  Shape'
  BY DEF NetInv, Shape, IpShape, AppShape

\* A step of the poll task after which it has the descriptor it had, or none
\* as before
LEMMA PollQuiet ==
    ASSUME NetInv, [PoolNext]_poolVars, PoolInv', PollShape',
           UNCHANGED <<ip, app, events, output, packets, stack>>, pool'.out = pool.out,
           op'["ip"] = op["ip"], op'["app"] = op["app"], Held("poll")' = Held("poll"),
           poll.at # "none", frame' \in [Bufs -> Frame],
           \A q \in PlaceNames \ {"poll"} : \A x \in Held(q) \cap Bufs : frame'[x] = frame[x],
           poll'.at = "post" => frame'[poll'.next] \in FromWire
    PROVE  Kept
<1>1. Shape'
  BY PollGoes DEF NetInv, Shape
<1>2. HandsAre /\ HandsAre'
  BY <1>1, HandsFound, HandsNext DEF NetInv, PoolInv
<1>3. \A p \in PlaceNames : Held(p)' = Held(p)
  BY <1>2 DEF HandsAre, PlaceNames, Tasks
<1>4. OnePlace'
  BY <1>3, Stays DEF NetInv
<1>5. Queues' /\ BindWaits' /\ DownOnce'
  BY DEF NetInv, Queues, BindWaits, DownOnce, Down, Handling
<1>6. \A q \in {"events", "output", "packets", "ip", "app"} : q \in PlaceNames \ {"poll"}
  BY DEF PlaceNames, Tasks
<1>7. Frames'
  BY <1>6, InQueues DEF NetInv, Frames
<1> QED BY <1>1, <1>4, <1>5, <1>7 DEF Kept

LEMMA PollStartsKeeps == ASSUME NetInv, PollStarts PROVE Kept
<1>1. /\ poll.at = "created" /\ op["poll"].step = "idle" /\ poll' = [poll EXCEPT !.at = "drain"]
      /\ UNCHANGED <<poolVars, ip, app, events, output, packets, frame, stack>>
  BY DEF PollStarts, PollAt
<1>2. PollShape' /\ poll'.at = "drain" /\ poll'.next = poll.next
  BY <1>1 DEF NetInv, Shape, PollShape, PollStates, Calling, poolVars
<1>3. Shape'
  BY <1>1, <1>2, PollGoes DEF NetInv, Shape, poolVars
<1>4. HandsAre /\ HandsAre' /\ [PoolNext]_poolVars /\ PoolInv'
  BY <1>1, <1>3, HandsFound, HandsNext, PoolSame DEF NetInv, PoolInv, poolVars
<1>5. Held("poll")' = Held("poll")
  BY <1>1, <1>2, <1>4 DEF HandsAre
<1> QED BY <1>1, <1>2, <1>4, <1>5, PollQuiet DEF poolVars, NetInv, Frames

LEMMA NothingKeeps == ASSUME NetInv, NothingReceived PROVE Kept
<1>1. /\ poll.at = "receive" /\ op["poll"].step = "idle"
      /\ poll' = [poll EXCEPT !.at = "drain", !.i = 0]
      /\ UNCHANGED <<poolVars, ip, app, events, output, packets, frame, stack>>
  BY DEF NothingReceived, PollAt
<1>2. PollShape' /\ poll'.at = "drain" /\ poll'.next = poll.next
  BY <1>1 DEF NetInv, Shape, PollShape, PollStates, Calling, poolVars
<1>3. Shape'
  BY <1>1, <1>2, PollGoes DEF NetInv, Shape, poolVars
<1>4. HandsAre /\ HandsAre' /\ [PoolNext]_poolVars /\ PoolInv'
  BY <1>1, <1>3, HandsFound, HandsNext, PoolSame DEF NetInv, PoolInv, poolVars
<1>5. Held("poll")' = Held("poll")
  BY <1>1, <1>2, <1>4 DEF HandsAre
<1> QED BY <1>1, <1>2, <1>4, <1>5, PollQuiet DEF poolVars, NetInv, Frames

LEMMA FailedKeeps == ASSUME NetInv, ReceiveFails PROVE Kept
<1>1. /\ poll.at = "receive" /\ op["poll"].step = "idle"
      /\ poll' = [poll EXCEPT !.at = "failed"]
      /\ UNCHANGED <<poolVars, ip, app, events, output, packets, frame, stack>>
  BY DEF ReceiveFails, PollAt
<1>2. PollShape' /\ poll'.at = "failed" /\ poll'.next = poll.next
  BY <1>1 DEF NetInv, Shape, PollShape, PollStates, Calling, poolVars
<1>3. Shape'
  BY <1>1, <1>2, PollGoes DEF NetInv, Shape, poolVars
<1>4. HandsAre /\ HandsAre' /\ [PoolNext]_poolVars /\ PoolInv'
  BY <1>1, <1>3, HandsFound, HandsNext, PoolSame DEF NetInv, PoolInv, poolVars
<1>5. Held("poll")' = Held("poll")
  BY <1>1, <1>2, <1>4 DEF HandsAre
<1> QED BY <1>1, <1>2, <1>4, <1>5, PollQuiet DEF poolVars, NetInv, Frames

LEMMA ObtainedKeeps == ASSUME NetInv, NextAllocated PROVE Kept
<1>1. /\ poll.at = "obtained" /\ op["poll"].step = "idle"
      /\ op["poll"].buf \in Bufs \cup {NoBuf}
      /\ poll' = [poll EXCEPT !.at = "receive", !.next = op["poll"].buf]
      /\ UNCHANGED <<poolVars, ip, app, events, output, packets, frame, stack>>
  BY TheUsers, PoolFields DEF NextAllocated, PollAt, NetInv, PoolInv
<1>2. PollShape' /\ poll'.at = "receive" /\ poll'.next = op["poll"].buf
  BY <1>1 DEF NetInv, Shape, PollShape, PollStates, Calling, poolVars
<1>3. Shape'
  BY <1>1, <1>2, PollGoes DEF NetInv, Shape, poolVars
<1>4. HandsAre /\ HandsAre' /\ [PoolNext]_poolVars /\ PoolInv'
  BY <1>1, <1>3, HandsFound, HandsNext, PoolSame DEF NetInv, PoolInv, poolVars
<1>5. Held("poll")' = Held("poll")
  BY <1>1, <1>2, <1>4, TheUsers DEF HandsAre
<1> QED BY <1>1, <1>2, <1>4, <1>5, PollQuiet DEF poolVars, NetInv, Frames

LEMMA AllocateKeeps == ASSUME NetInv, AllocateNext PROVE Kept
<1>1. /\ poll.at = "drain" /\ op["poll"].step = "idle"
      /\ UNCHANGED <<ip, app, events, output, packets, frame, stack>>
  BY DEF AllocateNext, PollAt
<1>2. CASE poll.next = NoBuf /\ Len(pool.free) > Leave
  <2>1. BeginGet("poll") /\ poll' = [poll EXCEPT !.at = "obtained"]
    BY <1>2 DEF AllocateNext
  <2>2. /\ pool' = pool /\ op'["poll"].step = "take" /\ op'["ip"] = op["ip"]
        /\ op'["app"] = op["app"]
    BY <2>1, Gets, TheUsers DEF NetInv, PoolInv
  <2>3. [PoolNext]_poolVars /\ PoolInv'
    BY <2>1, GetsKeeps, TheUsers DEF NetInv
  <2>4. PollShape' /\ poll'.at = "obtained" /\ poll'.next = poll.next
    BY <1>1, <1>2, <2>1, <2>2 DEF NetInv, Shape, PollShape, PollStates
  <2>5. Shape'
    BY <1>1, <2>2, <2>4, PollGoes DEF NetInv, Shape
  <2>6. HandsAre /\ HandsAre'
    BY <2>3, <2>5, HandsFound, HandsNext DEF NetInv, PoolInv
  <2>7. Held("poll")' = Held("poll")
    BY <1>1, <1>2, <2>2, <2>4, <2>6, TheUsers DEF HandsAre
  <2> QED BY <1>1, <2>2, <2>3, <2>4, <2>7, PollQuiet DEF NetInv, Frames
<1>3. CASE ~(poll.next = NoBuf /\ Len(pool.free) > Leave)
  <2>1. poll' = [poll EXCEPT !.at = "receive"] /\ UNCHANGED poolVars
    BY <1>3 DEF AllocateNext
  <2>2. PollShape' /\ poll'.at = "receive" /\ poll'.next = poll.next
    BY <1>1, <2>1 DEF NetInv, Shape, PollShape, PollStates, Calling, poolVars
  <2>3. Shape'
    BY <1>1, <2>1, <2>2, PollGoes DEF NetInv, Shape, poolVars
  <2>4. HandsAre /\ HandsAre' /\ [PoolNext]_poolVars /\ PoolInv'
    BY <2>1, <2>3, HandsFound, HandsNext, PoolSame DEF NetInv, PoolInv, poolVars
  <2>5. Held("poll")' = Held("poll")
    BY <1>1, <2>2, <2>4 DEF HandsAre
  <2> QED BY <1>1, <2>1, <2>2, <2>4, <2>5, PollQuiet DEF NetInv, Frames, poolVars
<1> QED BY <1>2, <1>3

LEMMA FrameKeeps == ASSUME NetInv, ReceiveFrame PROVE Kept
<1> DEFINE b == poll.next
<1>1. PICK f \in Wire : frame' = [frame EXCEPT ![b] = f]
  BY DEF ReceiveFrame
<1>2. /\ poll.at = "receive" /\ op["poll"].step = "idle" /\ b # NoBuf
      /\ poll' = [poll EXCEPT !.at = "post"]
      /\ UNCHANGED <<poolVars, ip, app, events, output, packets, stack>>
  BY DEF ReceiveFrame, PollAt
<1>3. f \in FromWire /\ f \in Frame
  BY IpTaskAssumption DEF FromWire, Frame
<1>4. b \in Bufs /\ "poll" \in PlaceNames
  BY <1>2 DEF NetInv, Shape, PollShape, PollStates, PlaceNames, Tasks
<1>5. PollShape' /\ poll'.at = "post" /\ poll'.next = b
  BY <1>2, <1>4 DEF NetInv, Shape, PollShape, PollStates, Calling, poolVars
<1>6. Shape'
  BY <1>2, <1>5, PollGoes DEF NetInv, Shape, poolVars
<1>7. HandsAre /\ HandsAre' /\ [PoolNext]_poolVars /\ PoolInv'
  BY <1>2, <1>6, HandsFound, HandsNext, PoolSame DEF NetInv, PoolInv, poolVars
<1>8. Held("poll") = {b} /\ Held("poll")' = Held("poll")
  BY <1>2, <1>4, <1>5, <1>7 DEF HandsAre
<1> HIDE DEF b
<1>9. /\ frame' \in [Bufs -> Frame] /\ frame'[b] = f
      /\ \A q \in PlaceNames \ {"poll"} : \A x \in Held(q) \cap Bufs : frame'[x] = frame[x]
  BY <1>1, <1>3, <1>4, <1>8, FrameSet
<1> QED BY <1>2, <1>3, <1>5, <1>7, <1>8, <1>9, PollQuiet DEF poolVars

LEMMA PassKeeps == ASSUME NetInv, PassToIpTask PROVE Kept
<1> DEFINE b == poll.next
<1>1. /\ poll.at = "post" /\ op["poll"].step = "idle"
      /\ poll' = [poll EXCEPT !.at = "drain", !.i = 0, !.next = NoBuf]
      /\ UNCHANGED <<ip, app, output, packets, frame, stack>>
  BY DEF PassToIpTask, PollAt
<1>2. HandsAre /\ b \in Bufs /\ frame[b] \in FromWire
  BY <1>1, HandsFound DEF NetInv, PoolInv, Shape, PollShape, Frames
<1>3. /\ Held("poll") = {b} /\ "poll" \in PlaceNames \ {"pool"} /\ "events" \in PlaceNames
      /\ "pool" \in PlaceNames /\ "poll" \in Users /\ "ip" \in Users /\ "app" \in Users
      /\ b # NoBuf
  BY <1>1, <1>2, TheUsers DEF HandsAre, PlaceNames, Tasks
<1>4. CASE HasRoom
  <2>1. events' = Append(events, Event("rx", b)) /\ UNCHANGED poolVars
    BY <1>4 DEF PassToIpTask, Post
  <2> HIDE DEF b
  <2>2. /\ EventsOK(events') /\ BufsIn(events') = BufsIn(events) \cup {b}
        /\ Down(events)' => Down(events)
        /\ \A j \in DOMAIN events' : events'[j].type = "bind"
             => \E i \in DOMAIN events : events'[j] = events[i]
        /\ \A j \in DOMAIN events' :
             /\ events'[j].type = "rx" => frame[events'[j].buf] \in FromWire
             /\ events'[j].type = "tx" => frame[events'[j].buf] \in Filled
    BY <1>2, <1>3, <2>1, Passed
  <2>3. PollShape' /\ poll'.at = "drain" /\ poll'.next = NoBuf
    BY <1>1, <2>1, TheUsers DEF NetInv, Shape, PollShape, PollStates, Calling, poolVars
  <2>4. Shape'
    BY <1>1, <2>1, <2>3, PollGoes DEF NetInv, Shape, poolVars
  <2>5. HandsAre' /\ [PoolNext]_poolVars /\ PoolInv'
    BY <2>1, <2>4, HandsNext, PoolSame DEF NetInv, PoolInv
  <2>6. /\ Held("poll")' = Held("poll") \ {b} /\ Held("events")' = Held("events") \cup {b}
        /\ \A r \in PlaceNames \ {"poll", "events"} : Held(r)' = Held(r)
    BY <1>1, <1>2, <1>3, <2>1, <2>2, <2>3, <2>5, TheUsers DEF HandsAre, PlaceNames, Tasks, poolVars
  <2>7. OnePlace'
    BY <1>2, <1>3, <2>6, MovesOne DEF NetInv
  <2>8. Queues' /\ BindWaits' /\ DownOnce'
    BY <1>1, <2>2, <2>3 DEF NetInv, Queues, BindWaits, DownOnce, Handling
  <2>9. Frames'
    BY <1>1, <2>2, <2>3 DEF NetInv, Frames
  <2> QED BY <2>4, <2>5, <2>7, <2>8, <2>9 DEF Kept
<1>5. CASE ~HasRoom
  <2>1. events' = events /\ BeginRelease("poll", b)
    BY <1>5 DEF PassToIpTask, Post
  <2> HIDE DEF b
  <2>2. /\ op'["poll"].step = "free" /\ op'["ip"] = op["ip"] /\ op'["app"] = op["app"]
        /\ Bufs \ pool'.out = (Bufs \ pool.out) \cup {b}
    BY <1>2, <1>3, <2>1, Releases DEF NetInv, PoolInv
  <2>3. PoolNext /\ PoolInv'
    BY <1>2, <1>3, <2>1, ReleasesOut DEF NetInv
  <2>4. PollShape' /\ poll'.at = "drain" /\ poll'.next = NoBuf
    BY <1>1, <2>2, TheUsers DEF NetInv, Shape, PollShape, PollStates, Calling
  <2>5. Shape'
    BY <1>1, <2>2, <2>4, PollGoes DEF NetInv, Shape
  <2>6. HandsAre'
    BY <2>3, <2>5, HandsNext DEF PoolInv
  <2>7. /\ Held("poll")' = Held("poll") \ {b} /\ Held("pool")' = Held("pool") \cup {b}
        /\ \A r \in PlaceNames \ {"poll", "pool"} : Held(r)' = Held(r)
    BY <1>1, <1>2, <1>3, <2>1, <2>2, <2>4, <2>6, TheUsers DEF HandsAre, PlaceNames, Tasks
  <2>8. OnePlace'
    BY <1>2, <1>3, <2>7, MovesOne DEF NetInv
  <2>9. Queues' /\ BindWaits' /\ DownOnce' /\ Frames'
    BY <1>1, <2>1, <2>4 DEF NetInv, Queues, BindWaits, DownOnce, Down, Handling, Frames
  <2> QED BY <2>3, <2>5, <2>8, <2>9 DEF Kept
<1> QED BY <1>4, <1>5

\* The poll task releases what it sends, if the word next to the queued pointer
\* says so.
LEMMA SendFrameKeeps == ASSUME NetInv, SendFrame, StackWord = {TRUE} PROVE Kept
<1> DEFINE b == Head(output)
<1>1. /\ poll.at = "drain" /\ op["poll"].step = "idle" /\ poll.i < Len(output)
      /\ output' = Tail(output) /\ poll' = [poll EXCEPT !.i = @ + 1]
      /\ UNCHANGED <<ip, app, events, packets, frame, stack>>
  BY DEF SendFrame, PollAt
<1>2. /\ output \in Seq(Bufs) /\ Distinct(output) /\ HandsAre /\ poll.i \in Nat
      /\ poll.word = TRUE
      /\ "output" \in PlaceNames \ {"pool"} /\ "pool" \in PlaceNames
      /\ "ip" \in Users /\ "app" \in Users /\ "poll" \in Users
  BY HandsFound, TheUsers
     DEF NetInv, Shape, Queues, PoolInv, PlaceNames, PollShape, PollStates
<1>3. output # <<>>
  BY <1>1, <1>2
<1>4. /\ output' \in Seq(Bufs) /\ b \in Bufs /\ Distinct(output')
      /\ Elements(output') = Elements(output) \ {b} /\ b \in Elements(output)
  BY <1>1, <1>2, <1>3, HeadLeaves
<1>5. BeginRelease("poll", b)
  BY <1>2 DEF SendFrame
<1> HIDE DEF b
<1>6. /\ op'["poll"].step = "free" /\ op'["ip"] = op["ip"] /\ op'["app"] = op["app"]
      /\ Bufs \ pool'.out = (Bufs \ pool.out) \cup {b}
  BY <1>2, <1>4, <1>5, Releases DEF NetInv, PoolInv
<1>7. PoolNext /\ PoolInv'
  BY <1>2, <1>4, <1>5, ReleasesOut DEF NetInv, HandsAre
<1>8. PollShape' /\ poll'.at = "drain" /\ poll'.next = poll.next
  <2>1. poll \in PollStates /\ poll.i + 1 \in Nat
    BY <1>2 DEF NetInv, Shape, PollShape
  <2>2. poll' \in PollStates /\ poll'.at = "drain" /\ poll'.next = poll.next
    BY <1>1, <2>1 DEF PollStates
  <2> QED BY <1>6, <2>2 DEF PollShape, Calling
<1>9. Shape'
  BY <1>1, <1>4, <1>6, <1>8, PollGoes
<1>10. HandsAre'
  BY <1>7, <1>9, HandsNext DEF PoolInv
<1>11. /\ Held("output")' = Held("output") \ {b} /\ Held("pool")' = Held("pool") \cup {b}
       /\ \A r \in PlaceNames \ {"output", "pool"} : Held(r)' = Held(r)
  BY <1>1, <1>2, <1>4, <1>6, <1>8, <1>10 DEF HandsAre, PlaceNames, Tasks
<1>12. OnePlace'
  BY <1>2, <1>4, <1>11, MovesOne DEF NetInv, HandsAre
<1>13. Queues' /\ BindWaits' /\ DownOnce'
  BY <1>1, <1>4, <1>8 DEF NetInv, Queues, BindWaits, DownOnce, Down, Handling
<1>14. Frames'
  <2>1. \A j \in DOMAIN output' : \E i \in DOMAIN output : output'[j] = output[i]
    BY <1>4 DEF Elements
  <2> QED BY <1>1, <1>8, <2>1 DEF NetInv, Frames
<1> QED BY <1>7, <1>9, <1>12, <1>13, <1>14 DEF Kept

-----------------------------------------------------------------------------
(* Steps of the pool *)

\* Of the steps of a call only the last of an allocation changes who has what:
\* the task that called then has the descriptor.
LEMMA PoolStepKeeps ==
    ASSUME NetInv, NEW t \in Tasks, PoolStep(t), UNCHANGED ipVars
    PROVE  Kept
<1>1. UNCHANGED <<ip, app, poll, events, output, packets, frame, stack, budget>>
  BY DEF ipVars
<1>2. t \in Users /\ "ip" \in Users /\ "app" \in Users /\ "poll" \in Users
      /\ t \in PlaceNames /\ "pool" \in PlaceNames /\ t # "pool"
      /\ t \in {"ip", "app", "poll"}
  BY TheUsers DEF Tasks, PlaceNames
<1>3. PoolNext /\ PoolInv'
  BY <1>2, PoolInductive DEF PoolNext, NetInv
<1>4. op[t].step # "idle" /\ \A u \in Users \ {t} : op'[u] = op[u]
  BY <1>2 DEF PoolStep, Take, TakeTimesOut, Unlink, Alloc, AllocFails, FreePayload, Insert,
              Give, NetInv, PoolInv, PoolTypeOK
<1>5. op'[t].step \in Calling => op[t].step \in Calling
  BY <1>2 DEF PoolStep, Take, TakeTimesOut, Unlink, Alloc, AllocFails, FreePayload, Insert,
              Give, Idle, Calling, NetInv, PoolInv, PoolTypeOK
<1>6. Shape'
  BY <1>1, <1>2, <1>4, <1>5 DEF NetInv, Shape, IpShape, AppShape, PollShape
<1>7. HandsAre /\ HandsAre'
  BY <1>3, <1>6, HandsFound, HandsNext DEF NetInv, PoolInv
<1>8. Queues' /\ BindWaits' /\ DownOnce' /\ Frames'
  BY <1>1 DEF NetInv, Queues, BindWaits, DownOnce, Down, Handling, Frames
<1>9. \A r \in PlaceNames \ {t, "pool"} : Held(r)' = Held(r)
  BY <1>1, <1>2, <1>4, <1>7 DEF HandsAre, PlaceNames, Tasks
<1>10. CASE Alloc(t)
  <2> DEFINE b == op[t].buf
  <2>1. /\ op[t].step = "alloc" /\ b \in Bufs /\ b \notin pool.out
        /\ op'[t].step = "idle" /\ op'[t].buf = b /\ pool'.out = pool.out \cup {b}
    <3>1. op[t].step = "alloc" /\ b \in Bufs /\ Moving(t) = {b}
      BY <1>2, <1>10 DEF Alloc, NetInv, PoolInv, Carries, Moving
    <3>2. b \notin pool.out
      BY <1>2, <3>1 DEF NetInv, PoolInv, EachInOnePlace
    <3>3. op'[t].step = "idle" /\ op'[t].buf = b /\ pool'.out = pool.out \cup {b}
      BY <1>2, <1>10 DEF Alloc, NetInv, PoolInv, PoolTypeOK
    <3> QED BY <3>1, <3>2, <3>3
  <2> HIDE DEF b
  <2>2. /\ t = "ip" => ip.at = "ask"
        /\ t = "app" => app.at = "got"
        /\ t = "poll" => poll.at = "obtained"
    BY <2>1 DEF NetInv, Shape, IpShape, AppShape, PollShape, Calling
  <2>3. Held(t) = {} /\ Held(t)' = {b}
    BY <1>1, <1>2, <1>7, <2>1, <2>2 DEF HandsAre
  <2>4. Held("pool")' = Held("pool") \ {b} /\ b \in Held("pool")
    BY <1>7, <2>1 DEF HandsAre
  <2>5. Held(t)' = Held(t) \cup {b}
    BY <2>3
  <2>6. OnePlace'
    BY <1>2, <1>9, <2>4, <2>5, MovesOne DEF NetInv
  <2> QED BY <1>3, <1>6, <1>8, <2>6 DEF Kept
<1>11. CASE ~Alloc(t)
  <2>1. pool'.out = pool.out /\ (op'[t].step = "idle" => op'[t].buf = NoBuf)
    BY <1>2, <1>11 DEF PoolStep, Take, TakeTimesOut, Unlink, AllocFails, FreePayload, Insert,
                       Give, Idle, NetInv, PoolInv, PoolTypeOK
  <2>2. Held(t)' = Held(t) /\ Held("pool")' = Held("pool")
    BY <1>1, <1>2, <1>4, <1>7, <2>1, TheUsers DEF HandsAre
  <2>3. \A p \in PlaceNames : Held(p)' = Held(p)
    BY <1>9, <2>2
  <2>4. OnePlace'
    BY <2>3, Stays DEF NetInv
  <2> QED BY <1>3, <1>6, <1>8, <2>4 DEF Kept
<1> QED BY <1>10, <1>11

-----------------------------------------------------------------------------
(* Every step *)

LEMMA StepKeeps == ASSUME NetInv, NetNext, StackWord = {TRUE} PROVE Kept
<1>1. CASE PoolCall
  <2>1. PICK t \in Tasks : PoolStep(t)
    BY <1>1 DEF PoolCall, Tasks
  <2> QED BY <1>1, <2>1, PoolStepKeeps DEF PoolCall
<1>2. CASE IpStep
  BY <1>2, StartKeeps, TimersKeeps, ReceiveKeeps, SleepKeeps, EndKeeps, UpKeeps, FailsKeeps,
     RetryKeeps, ReleaseKeeps, ReturnKeeps, UDPKeeps, OutputKeeps, SendKeeps, AskKeeps,
     DropKeeps, AgeKeepsAll, GratuitousKeeps, SkipKeeps, AskAgainKeeps, BindKeeps, CloseKeeps
     DEF IpStep
<1>3. CASE AppStep
  BY <1>3, AppBindKeeps, AppSendKeeps, AppFillsKeeps, AppPostsKeeps, AppGivesUpKeeps,
     AppReceiveKeeps, AppCloseKeeps DEF AppStep
<1>4. CASE PollStep
  BY <1>4, PollStartsKeeps, SendFrameKeeps, AllocateKeeps, ObtainedKeeps, NothingKeeps,
     FailedKeeps, FrameKeeps, PassKeeps DEF PollStep
<1> QED BY <1>1, <1>2, <1>3, <1>4 DEF NetNext

\* A step that touches the ARP cache is one of its operations, with addresses a
\* frame or a packet can have.
LEMMA StepOfArp == ASSUME NetInv, NetNext PROVE [ArpNext]_arpVars
<1>1. ASSUME IpAt("rx") PROVE HearSender => [ArpNext]_arpVars
  <2>1. ReceivedFrame.mac \in Macs /\ ReceivedFrame.ip \in Ips
    BY <1>1 DEF NetInv, Frames, FromWire, ReceivedFrame, IpAt
  <2> QED BY <2>1 DEF HearSender, ArpNext
<1>2. CASE ProcessAndRelease
  BY <1>1, <1>2 DEF ProcessAndRelease, Handles
<1>3. CASE ProcessAndReturn
  BY <1>1, <1>3 DEF ProcessAndReturn, Handles
<1>4. CASE ProcessUDP
  BY <1>1, <1>4 DEF ProcessUDP, Handles
<1>5. CASE AskForAddress
  <2>1. ReceivedFrame.ip \in Ips /\ Reserve(ReceivedFrame.ip)
    BY <1>5 DEF AskForAddress, NetInv, Frames, Filled, ReceivedFrame, IpAt
  <2> QED BY <2>1 DEF ArpNext
<1>6. CASE AgeNextRow
  BY <1>6 DEF AgeNextRow, ArpNext
<1>7. CASE UNCHANGED arpVars
  BY <1>7
<1>8. \/ ProcessAndRelease \/ ProcessAndReturn \/ ProcessUDP \/ AskForAddress \/ AgeNextRow
      \/ UNCHANGED arpVars
  <2>1. PoolCall \/ AppStep \/ PollStep => UNCHANGED arpVars
    BY DEF PoolCall, AppStep, PollStep, AppBind, AppSendTo, AppFillsBuffer, AppPosts,
           AppGivesUp, AppReceive, AppClose, PollStarts, SendFrame, AllocateNext,
           NextAllocated, NothingReceived, ReceiveFails, ReceiveFrame, PassToIpTask
  <2>2. \/ StartIpTask \/ CheckNetworkTimers \/ ReceiveEvent \/ SleepTimesOut \/ EndOfLoop
        \/ NetworkUp \/ NetworkFails \/ RetryNetwork \/ Output \/ SendPacket \/ DropPacket
        \/ SendGratuitous \/ SkipGratuitous \/ AskAgain \/ BindSocket \/ CloseSocket
        => UNCHANGED arpVars
    BY DEF StartIpTask, CheckNetworkTimers, ReceiveEvent, SleepTimesOut, EndOfLoop, NetworkUp,
           NetworkFails, RetryNetwork, Output, SendPacket, DropPacket, SendGratuitous,
           SkipGratuitous, AskAgain, BindSocket, CloseSocket
  <2> QED BY <2>1, <2>2 DEF NetNext, IpStep
<1> QED BY <1>2, <1>3, <1>4, <1>5, <1>6, <1>7, <1>8

LEMMA NetInitially == InitIpTask => NetInv
<1> SUFFICES ASSUME InitIpTask PROVE NetInv
  OBVIOUS
<1>1. PoolInv /\ ArpInv
  BY PoolInitially, ArpInitially DEF InitIpTask
<1>2. /\ ip.at = "start" /\ ip.buf = NoBuf /\ app.at = "unbound" /\ app.buf = NoBuf
      /\ poll.at = "none" /\ poll.next = NoBuf /\ ~stack.pending
      /\ events = <<>> /\ output = <<>> /\ packets = <<>>
      /\ op = [t \in Users |-> Idle(NoBuf)] /\ pool.out = {}
  BY DEF InitIpTask, InitPool
<1>3. op["ip"].step = "idle" /\ op["app"].step = "idle" /\ op["poll"].step = "idle"
  BY <1>2, TheUsers DEF Idle
<1>4. IpShape
  <2>1. 0 \in 0..NumRows + 1
    BY ArpAssumption
  <2> QED BY <1>2, <1>3, <2>1, TheUsers DEF InitIpTask, IpShape, IpStates, Calling
<1>5. AppShape
  BY <1>2, <1>3, TheUsers DEF InitIpTask, AppShape, AppStates, Calling
<1>6. PollShape
  BY <1>2, <1>3, TheUsers DEF InitIpTask, PollShape, PollStates, Calling
<1>7. Shape
  <2>1. stack \in NetStates
    BY DEF InitIpTask, NetStates
  <2>2. output \in Seq(Bufs) /\ packets \in Seq(Bufs)
    BY <1>2
  <2> QED BY <1>4, <1>5, <1>6, <2>1, <2>2 DEF Shape
<1>8. HandsAre
  BY <1>1, <1>7, HandsFound DEF PoolInv
<1>9. DOMAIN events = {} /\ DOMAIN output = {} /\ DOMAIN packets = {} /\ events \in Seq(Events)
  BY <1>2
<1>10. OnePlace
  <2>1. \A q \in PlaceNames : Held(q) = IF q = "pool" THEN Bufs ELSE {}
    <3>1. Held("ip") = {} /\ Held("app") = {} /\ Held("poll") = {}
      BY <1>2, <1>8, TheUsers DEF HandsAre
    <3>2. Held("events") = {} /\ Held("output") = {} /\ Held("packets") = {}
      BY <1>8, <1>9 DEF HandsAre, BufsIn, Elements
    <3>3. Held("pool") = Bufs
      BY <1>2, <1>8 DEF HandsAre
    <3> QED BY <3>1, <3>2, <3>3 DEF PlaceNames, Tasks
  <2>2. "pool" \in PlaceNames
    BY DEF PlaceNames
  <2> QED BY <2>1, <2>2 DEF OnePlace
<1>11. Queues
  BY <1>9 DEF Queues, EventsOK, Distinct
<1>12. BindWaits /\ DownOnce
  BY <1>2, <1>9 DEF BindWaits, DownOnce, Down, Handling
<1>13. Frames
  <2>1. NoFrame \in Frame
    BY DEF NoFrame, Frame
  <2>2. frame \in [Bufs -> Frame]
    BY <2>1 DEF InitIpTask
  <2> QED BY <1>2, <1>9, <2>2 DEF Frames
<1> QED BY <1>1, <1>7, <1>10, <1>11, <1>12, <1>13 DEF NetInv

LEMMA NetInductive ==
    ASSUME NetInv, [NetNext]_netVars, StackWord = {TRUE}
    PROVE  NetInv' /\ [PoolNext]_poolVars /\ [ArpNext]_arpVars
<1>1. CASE NetNext
  BY <1>1, StepKeeps, StepOfArp, ArpInductive DEF Kept, NetInv
<1>2. CASE UNCHANGED netVars
  <2>1. UNCHANGED poolVars /\ UNCHANGED arpVars
    BY <1>2 DEF netVars
  <2>2. PoolInv' /\ ArpInv'
    BY <2>1, PoolInductive, ArpInductive DEF NetInv
  <2>3. UNCHANGED <<pool, op, ip, app, poll, events, output, packets, frame, stack, budget>>
    BY <1>2 DEF netVars, ipVars, poolVars
  <2>4. Shape' /\ Queues' /\ BindWaits' /\ DownOnce' /\ Frames'
    BY <2>3 DEF NetInv, Shape, IpShape, AppShape, PollShape, Queues, BindWaits, DownOnce, Down,
                Handling, Frames
  <2>5. HandsAre /\ HandsAre'
    BY <2>2, <2>4, HandsFound, HandsNext DEF NetInv, PoolInv
  <2>6. \A p \in PlaceNames : Held(p)' = Held(p)
    BY <2>3, <2>5 DEF HandsAre, PlaceNames, Tasks
  <2>7. OnePlace'
    BY <2>6, Stays DEF NetInv
  <2> QED BY <2>1, <2>2, <2>4, <2>7 DEF NetInv
<1> QED BY <1>1, <1>2

LEMMA NetAlways ==
    ASSUME StackWord = {TRUE} PROVE NetSpec => []NetInv
<1>1. NetInv /\ [NetNext]_netVars => NetInv'
  BY NetInductive
<1> QED BY <1>1, NetInitially, PTL DEF NetSpec

\* A descriptor is in one place, and there once.
LEMMA OneCounted == NetInv => EachHandedOnOnce
<1> SUFFICES ASSUME NetInv, NEW b \in Bufs
             PROVE  Places(b) = IF b \in pool.out THEN 1 ELSE 0
  BY DEF EachHandedOnOnce
<1> DEFINE T == {t \in {"ip", "app", "poll"} : b \in InHand(t)}
           E == {j \in DOMAIN events : events[j].buf = b}
           O == {j \in DOMAIN output : output[j] = b}
           P == {j \in DOMAIN packets : packets[j] = b}
<1>1. Places(b) = Cardinality(T) + Cardinality(E) + Cardinality(O) + Cardinality(P)
  BY DEF Places
<1>2. HandsAre /\ Queues /\ b # NoBuf
  BY HandsFound, TheUsers DEF NetInv, PoolInv
<1>3. PICK p \in PlaceNames : \A q \in PlaceNames : b \in Held(q) <=> q = p
  BY DEF NetInv, OnePlace
<1>4. T = IF p \in Tasks THEN {p} ELSE {}
  <2>1. \A t \in Tasks : Held(t) = InHand(t) /\ t \in PlaceNames
    BY DEF Held, Tasks, PlaceNames
  <2> QED BY <1>3, <2>1 DEF Tasks
<1>5. b \in pool.out <=> p # "pool"
  BY <1>2, <1>3 DEF HandsAre, PlaceNames
<1>6. E # {} <=> p = "events"
  BY <1>2, <1>3 DEF HandsAre, PlaceNames, BufsIn
<1>7. \A i, j \in E : i = j
  BY <1>2 DEF Queues, EventsOK
<1>8. (O # {} <=> p = "output") /\ \A i, j \in O : i = j
  BY <1>2, <1>3 DEF HandsAre, PlaceNames, Elements, Queues, Distinct
<1>9. (P # {} <=> p = "packets") /\ \A i, j \in P : i = j
  BY <1>2, <1>3 DEF HandsAre, PlaceNames, Elements, Queues, Distinct
<1> HIDE DEF T, E, O, P
<1>10. ASSUME NEW S, \A i, j \in S : i = j
       PROVE  Cardinality(S) = IF S # {} THEN 1 ELSE 0
  <2>1. CASE S = {}
    BY <2>1, FS_EmptySet
  <2>2. CASE S # {}
    <3>1. PICK x : x \in S
      BY <2>2
    <3>2. S = {x}
      BY <1>10, <3>1
    <3> QED BY <2>2, <3>2, FS_Singleton
  <2> QED BY <2>1, <2>2
<1>11. /\ Cardinality(E) = IF p = "events" THEN 1 ELSE 0
       /\ Cardinality(O) = IF p = "output" THEN 1 ELSE 0
       /\ Cardinality(P) = IF p = "packets" THEN 1 ELSE 0
  BY <1>6, <1>7, <1>8, <1>9, <1>10
<1>12. Cardinality(T) = IF p \in Tasks THEN 1 ELSE 0
  BY <1>4, FS_EmptySet, FS_Singleton
<1> QED BY <1>1, <1>3, <1>5, <1>11, <1>12 DEF PlaceNames, Tasks

LEMMA InvFrames == NetInv => QueuedFramesKept
<1> SUFFICES ASSUME NetInv PROVE QueuedFramesKept
  OBVIOUS
<1>1. poll \in [at : {"none", "created", "drain", "obtained", "receive", "post", "failed"},
                i : Nat, next : Bufs \cup {NoBuf}, word : BOOLEAN]
  BY IpTaskAssumption DEF NetInv, Shape, PollShape, PollStates
<1>2. IpTypeOK
  BY <1>1 DEF IpTypeOK, NetInv, Shape, IpShape, IpStates, AppShape, AppStates, Queues, EventsOK,
              Frames
<1>3. \A j \in DOMAIN events :
        /\ events[j].type = "rx" => frame[events[j].buf].kind \in Received
        /\ events[j].type = "tx" => frame[events[j].buf].kind = "udpOut"
  BY DEF NetInv, Frames, FromWire, Filled
<1> QED BY <1>2, <1>3 DEF QueuedFramesKept, NetInv, Frames, ToSend

-----------------------------------------------------------------------------
(* The theorems *)

\* Where the word next to each queued pointer reads as pdTRUE, no descriptor is
\* lost, used after it was passed on, or released twice: after any number of
\* frames, calls, refusals and timeouts, in any order of the three tasks, each
\* one that is out of the pool is in the hands of one task or in one queue.
THEOREM NetHandedOnOnce ==
    ASSUME StackWord = {TRUE} PROVE NetSpec => []EachHandedOnOnce
  BY NetAlways, OneCounted, PTL

\* Under the same condition, whoever takes a descriptor from a queue finds the
\* frame that was put there: no payload is reused while it waits.
THEOREM NetFramesKept ==
    ASSUME StackWord = {TRUE} PROVE NetSpec => []QueuedFramesKept
  BY NetAlways, InvFrames, PTL

\* The tasks use the pool as it has to be used: a call begins when the last one
\* has ended, and only what was handed out is released.
THEOREM NetImplementsPool ==
    ASSUME StackWord = {TRUE} PROVE NetSpec => PoolSpec
<1>1. NetInv /\ [NetNext]_netVars => [PoolNext]_poolVars
  BY NetInductive
<1>2. InitIpTask => InitPool
  BY DEF InitIpTask
<1> QED BY <1>1, <1>2, NetAlways, PTL DEF NetSpec, PoolSpec

\* The IP task drives its ARP cache by frames, packets and timer events with
\* addresses of the types the cache is for.
THEOREM NetImplementsArp ==
    ASSUME StackWord = {TRUE} PROVE NetSpec => ArpSpec
<1>1. NetInv /\ [NetNext]_netVars => [ArpNext]_arpVars
  BY NetInductive
<1>2. InitIpTask => InitArp
  BY DEF InitIpTask
<1> QED BY <1>1, <1>2, NetAlways, PTL DEF NetSpec, ArpSpec

\* So the pool stays intact and the cache tells the truth in the system the
\* three tasks make: what holds of each part for every user holds of these.
THEOREM NetPartsIntact ==
    ASSUME StackWord = {TRUE} PROVE NetSpec => [](PoolIntact /\ CacheIntact)
  BY NetImplementsPool, NetImplementsArp, PoolStaysIntact, ArpCacheIntact, PTL
=============================================================================
