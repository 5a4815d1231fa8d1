------------------------------ MODULE MCHeap4 ------------------------------
EXTENDS Heap4

\* Requests that end at, before and after an alignment boundary, the empty one,
\* and one larger than the heap
MCRequests == {0, 8, 9, 32, 1000}
=============================================================================
