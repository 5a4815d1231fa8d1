----------------------------- MODULE HeapBlocks -----------------------------
(***************************************************************************)
(* What heap_4.c promises: the heap is cut into blocks, each free or in    *)
(* use; the free block of lowest address that is large enough serves a     *)
(* request; a block that is freed is joined with its free neighbours.  A   *)
(* block is the interval from lo to hi, in units of portBYTE_ALIGNMENT     *)
(* bytes and with its header.                                              *)
(***************************************************************************)
EXTENDS HeapSize

VARIABLE heap   \* the blocks: [free, used]

Block(lo, hi) == [lo |-> lo, hi |-> hi]
Units(b) == b.hi - b.lo

Init == heap = [free |-> {Block(0, HeapEnd)}, used |-> {}]

FirstFit(s, n, b) ==
    /\ b \in s.free /\ Units(b) >= n
    /\ \A c \in s.free : Units(c) >= n => b.lo <= c.lo

\* n units of the block b, or all of it
Allocated(s, n, b) ==
    IF Units(b) - n > Spare
    THEN [free |-> (s.free \ {b}) \cup {Block(b.lo + n, b.hi)},
          used |-> s.used \cup {Block(b.lo, b.lo + n)}]
    ELSE [free |-> s.free \ {b}, used |-> s.used \cup {b}]

\* The free block that ends where b starts, or an empty interval there
Before(s, b) == LET c == {x \in s.free : x.hi = b.lo}
                IN  IF c = {} THEN {Block(b.lo, b.lo)} ELSE c
After(s, b) == LET c == {x \in s.free : x.lo = b.hi}
               IN  IF c = {} THEN {Block(b.hi, b.hi)} ELSE c

\* b joined with l before it and r after it
Released(s, b, l, r) ==
    [free |-> (s.free \ {l, r}) \cup {Block(l.lo, r.hi)}, used |-> s.used \ {b}]

\* Sets of states, so that a refinement evaluates its mapping once a step
Mallocs(s) ==
    UNION {{Allocated(s, n, b) : b \in {c \in s.free : FirstFit(s, n, c)}} :
             n \in 1..HeapEnd}
Frees(s) ==
    UNION {{Released(s, b, lr[1], lr[2]) : lr \in Before(s, b) \X After(s, b)} :
             b \in s.used}

Next == heap' \in Mallocs(heap) \cup Frees(heap)

Spec == Init /\ [][Next]_heap

-----------------------------------------------------------------------------
Apart(b, c) == b.hi <= c.lo \/ c.hi <= b.lo

\* Every unit of the heap is in exactly one block: prvInsertBlockIntoFreeList
\* and the split in pvPortMalloc neither lose memory nor share it out twice.
TiledBy(free, used) ==
    /\ free \cap used = {}
    /\ \A b \in free \cup used : b \in [lo : 0..HeapEnd, hi : 0..HeapEnd] /\ b.lo < b.hi
    /\ \A b, c \in free \cup used : b # c => Apart(b, c)
    /\ \A x \in 0..(HeapEnd - 1) : \E b \in free \cup used : b.lo <= x /\ x < b.hi

Tiled == TiledBy(heap.free, heap.used)

\* No two free blocks touch: vPortFree joins on both sides, and a block that
\* pvPortMalloc splits is followed by one in use.
Coalesced == \A b, c \in heap.free : b.hi # c.lo
=============================================================================
