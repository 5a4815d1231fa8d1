------------------------------ MODULE HeapSize ------------------------------
(* The size of the heap, in units of portBYTE_ALIGNMENT bytes. *)
EXTENDS Integers

CONSTANTS
    HeapEnd,  \* the address of pxEnd, one past the last unit
    Spare     \* heapMINIMUM_BLOCK_SIZE: a remainder this small is not split off

ASSUME HeapSizeAssumption == HeapEnd \in Nat \ {0} /\ Spare \in Nat
=============================================================================
