------------------------------- MODULE Heap4 -------------------------------
(***************************************************************************)
(* heap_4.c: blocks with a header of two words in front of them, the free  *)
(* ones in a list by address from xStart to pxEnd.  pvPortMalloc and       *)
(* vPortFree work on it with the scheduler suspended, one task at a time,  *)
(* but with interrupts enabled: each call is a sequence of steps, and an   *)
(* interrupt handler that frees runs between them.                         *)
(***************************************************************************)
EXTENDS HeapSize, FiniteSets, FiniteSetsExt

CONSTANTS
    Requests,     \* the sizes asked for, in bytes
    MaxFreeing,   \* bound: the tasks that stand before vTaskSuspendAll in vPortFree
    InterruptsCalls  \* whether the handler that frees may interrupt a call

ListStart == -1                 \* the address of xStart
Null  == -2
Alignment == 8              \* portBYTE_ALIGNMENT, and the size of a header

ASSUME Heap4Assumption ==
    /\ Requests \subseteq Nat /\ MaxFreeing \in Nat /\ InterruptsCalls \in BOOLEAN

VARIABLES
    h,        \* the headers, xFreeBytesRemaining and its minimum, in units
    call,     \* the call that has suspended the scheduler
    owned,    \* the blocks of the application, and the bytes it asked for
    freeing,  \* the addresses whose xBlockAllocatedBit a vPortFree has cleared
    blocks    \* history: free and used blocks when last no call was in progress

heapVars == <<h, call, owned, freeing, blocks>>

Addresses == ListStart..HeapEnd
NoCall == [at |-> "idle"]

\* prvHeapInit.  It runs in the first pvPortMalloc, before anything is freed.
HeapInit ==
    [next |-> [a \in Addresses |-> CASE a = ListStart -> 0 [] a = 0 -> HeapEnd [] OTHER -> Null],
     size |-> [a \in Addresses |-> IF a = 0 THEN HeapEnd ELSE 0],
     allocated |-> {}, free |-> HeapEnd, minEver |-> HeapEnd]

BlockOf(m, a) == [lo |-> a, hi |-> a + m.size[a]]
Given == {o.at : o \in owned} \cup freeing

-----------------------------------------------------------------------------
(* The list *)

\* The addresses that the list leads to from xStart, step by step
Chain(m) ==
    LET at[i \in 0..(HeapEnd + 2)] ==
            IF i = 0 THEN ListStart
            ELSE LET a == at[i - 1] IN IF a = Null THEN Null ELSE m.next[a]
    IN  at

\* The first position of the list where P holds
Position(m, P(_)) == LET c == Chain(m) IN Min({i \in 0..(HeapEnd + 1) : P(c[i])})

FreeAddresses(m) == LET c == Chain(m) IN {c[i] : i \in 1..(HeapEnd + 2)} \ {Null, HeapEnd}

\* Header and request, rounded up: what xWantedSize becomes
Wanted(bytes) == IF bytes = 0 THEN 0 ELSE 1 + (bytes + Alignment - 1) \div Alignment

\* Mutant of FirstFit: the search goes on behind a block that is large enough.
LastFit(m, n) ==
    LET c == Chain(m)
        large == {i \in 1..HeapEnd : c[i] \in FreeAddresses(m) /\ m.size[c[i]] >= n}
    IN  IF large = {} THEN c[Position(m, LAMBDA a : a = HeapEnd) - 1] ELSE c[Max(large) - 1]

\* The block before the first that is large enough, or before pxEnd
FirstFit(m, n) ==
    LET Stop(a) == a \in 0..HeapEnd /\ (m.size[a] >= n \/ m.next[a] = Null)
    IN  Chain(m)[Position(m, Stop) - 1]

UnlinkBlock(m, prev, a) == [m EXCEPT !.next[prev] = m.next[a]]

\* Mutant of Splits: the remainder must be larger than two minimum blocks.
SplitsLate(m, a, n) == m.size[a] - n > 2 * Spare

Splits(m, a, n) == m.size[a] - n > Spare
Split(m, a, n) == [m EXCEPT !.size[a] = n, !.size[a + n] = m.size[a] - n]

\* Mutant of InsertBlock: never joined with the block in front.
InsertAfterOnly(m, a) ==
    LET before == Chain(m)[Position(m, LAMBDA x : x \in Addresses /\ m.next[x] >= a)]
        after  == m.next[before]
        joined == a + m.size[a] = after /\ after # HeapEnd
    IN  [m EXCEPT !.size[a] = @ + IF joined THEN m.size[after] ELSE 0,
                  !.next[a] = IF joined THEN m.next[after] ELSE after,
                  !.next[before] = a]

\* prvInsertBlockIntoFreeList
InsertBlock(m, a) ==
    LET before == Chain(m)[Position(m, LAMBDA x : x \in Addresses /\ m.next[x] >= a)]
        after  == m.next[before]
        first  == IF before + m.size[before] = a THEN before ELSE a
        size   == m.size[a] + IF first = before THEN m.size[before] ELSE 0
        joined == first + size = after /\ after # HeapEnd
        linked == [m EXCEPT
                     !.size[first] = size + IF joined THEN m.size[after] ELSE 0,
                     !.next[first] = IF joined THEN m.next[after] ELSE after]
    IN  IF first = before THEN linked ELSE [linked EXCEPT !.next[before] = a]

\* Mutant of Account: the minimum is taken before the block is subtracted.
AccountLate(m, a) ==
    [m EXCEPT !.free = @ - m.size[a],
              !.minEver = IF m.free < @ THEN m.free ELSE @,
              !.allocated = @ \cup {a}, !.next[a] = Null]

Account(m, a) ==
    LET left == m.free - m.size[a]
    IN  [m EXCEPT !.free = left,
                  !.minEver = IF left < @ THEN left ELSE @,
                  !.allocated = @ \cup {a}, !.next[a] = Null]

\* Mutant of CountBlock: the header is added to a size that has it already.
CountHeader(m, a) == [m EXCEPT !.free = @ + 1 + m.size[a]]

CountBlock(m, a) == [m EXCEPT !.free = @ + m.size[a]]

-----------------------------------------------------------------------------
(* pvPortMalloc *)

\* A request is refused on its size, or for want of a block.
MallocRefused(bytes) ==
    LET n == Wanted(bytes)
    IN  n = 0 \/ n > h.free \/ h.next[FirstFit(h, n)] = HeapEnd

MallocFind(bytes) ==
    LET n == Wanted(bytes)
        prev == FirstFit(h, n)
    IN  /\ call = NoCall /\ ~MallocRefused(bytes)
        /\ call' = [at |-> "unlink", bytes |-> bytes, prev |-> prev,
                    block |-> h.next[prev]]
        /\ UNCHANGED <<h, owned, freeing>>

\* The pointer to return is read from the list again, and not from pxBlock.
MallocUnlink ==
    /\ call.at = "unlink"
    /\ h' = UnlinkBlock(h, call.prev, call.block)
    /\ call' = [at |-> "split", bytes |-> call.bytes, block |-> call.block,
                return |-> h.next[call.prev]]
    /\ UNCHANGED <<owned, freeing>>

MallocSplit ==
    /\ call.at = "split"
    /\ IF Splits(h, call.block, Wanted(call.bytes))
       THEN /\ h' = Split(h, call.block, Wanted(call.bytes))
            /\ call' = [call EXCEPT !.at = "insert rest"]
       ELSE h' = h /\ call' = [call EXCEPT !.at = "account"]
    /\ UNCHANGED <<owned, freeing>>

MallocInsertRest ==
    /\ call.at = "insert rest"
    /\ h' = InsertBlock(h, call.block + Wanted(call.bytes))
    /\ call' = [call EXCEPT !.at = "account"]
    /\ UNCHANGED <<owned, freeing>>

\* Up to xTaskResumeAll and the return
MallocAccount ==
    /\ call.at = "account"
    /\ h' = Account(h, call.block)
    /\ owned' = owned \cup {[at |-> call.return, bytes |-> call.bytes]}
    /\ call' = NoCall
    /\ UNCHANGED freeing

-----------------------------------------------------------------------------
(* vPortFree: by a task, and by the handler of the USB interrupt.  The test  *)
(* on the header passes for every pointer that pvPortMalloc returned.        *)

FreeableHeader(o) == o.at \in h.allocated /\ h.next[o.at] = Null

FreeBegin(o) ==
    /\ call = NoCall /\ FreeableHeader(o) /\ Cardinality(freeing) < MaxFreeing
    /\ h' = [h EXCEPT !.allocated = @ \ {o.at}]
    /\ owned' = owned \ {o}
    /\ freeing' = freeing \cup {o.at}
    /\ UNCHANGED call

FreeCount(a) ==
    /\ call = NoCall
    /\ h' = CountBlock(h, a)
    /\ freeing' = freeing \ {a}
    /\ call' = [at |-> "insert freed", block |-> a]
    /\ UNCHANGED owned

FreeInsert ==
    /\ call.at = "insert freed"
    /\ h' = InsertBlock(h, call.block)
    /\ call' = NoCall
    /\ UNCHANGED <<owned, freeing>>

InterruptFree(o) ==
    /\ call # NoCall => InterruptsCalls
    /\ FreeableHeader(o)
    /\ h' = InsertBlock(CountBlock([h EXCEPT !.allocated = @ \ {o.at}], o.at), o.at)
    /\ owned' = owned \ {o}
    /\ UNCHANGED <<call, freeing>>

Blocks == [free |-> {BlockOf(h, a) : a \in FreeAddresses(h)},
           used |-> {BlockOf(h, a) : a \in Given}]

InitHeap ==
    /\ h = HeapInit /\ call = NoCall /\ owned = {} /\ freeing = {}
    /\ blocks = Blocks

Calls ==
    \/ \E bytes \in Requests : MallocFind(bytes)
    \/ MallocUnlink \/ MallocSplit \/ MallocInsertRest \/ MallocAccount
    \/ \E o \in owned : FreeBegin(o) \/ InterruptFree(o)
    \/ \E a \in freeing : FreeCount(a)
    \/ FreeInsert

HeapNext == Calls /\ blocks' = IF call' = NoCall THEN Blocks' ELSE blocks

HeapSpec == InitHeap /\ [][HeapNext]_heapVars

-----------------------------------------------------------------------------
(* Properties *)

Pointers == Addresses \cup {Null}

HeapTypeOK ==
    /\ h.next \in [Addresses -> Pointers] /\ h.size \in [Addresses -> 0..HeapEnd]
    /\ h.allocated \subseteq Addresses /\ h.free \in 0..HeapEnd /\ h.minEver \in 0..HeapEnd
    /\ owned \subseteq [at : Addresses, bytes : Requests]
    /\ freeing \subseteq Addresses
    /\ DOMAIN blocks = {"free", "used"}

\* Between the calls the list leads from xStart to pxEnd through rising
\* addresses, and no free block touches the next: what pvPortMalloc's search and
\* prvInsertBlockIntoFreeList both rely on.
FreeListOrdered ==
    call = NoCall =>
        /\ HeapEnd \in {Chain(h)[i] : i \in 1..(HeapEnd + 1)}
        /\ \A a \in FreeAddresses(h) : h.next[a] = HeapEnd \/ a + h.size[a] < h.next[a]

\* xFreeBytesRemaining, "the number of free bytes remaining" (heap_4.c:142), is
\* the size of the memory that the blocks of the list cover, and its minimum was
\* never above it.
FreeUnits ==
    LET free == FreeAddresses(h)
    IN  {x \in 0..(HeapEnd - 1) : \E a \in free : a <= x /\ x < a + h.size[a]}

FreeBytesCounted ==
    call = NoCall => h.free = Cardinality(FreeUnits) /\ h.minEver <= h.free

\* A block given out holds what was asked for behind its header, and wastes no
\* more than the remainder that pvPortMalloc does not split off.
BlocksFit ==
    \A o \in owned :
        /\ Alignment * (h.size[o.at] - 1) >= o.bytes
        /\ h.size[o.at] <= Wanted(o.bytes) + Spare

\* What the calls rely on and leave behind, at every remainder and alignment:
\* the ordered list without touching blocks, a count of the bytes in it, and
\* blocks that hold their request.
HeapIntact == HeapTypeOK /\ FreeListOrdered /\ FreeBytesCounted /\ BlocksFit

HB == INSTANCE HeapBlocks WITH heap <- blocks

\* Every call of a task and of the handler is one step of HeapBlocks, first fit
\* and joining included, or none.
ImplementsBlocks == HB!Spec
=============================================================================
