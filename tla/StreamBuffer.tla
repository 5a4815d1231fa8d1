---------------------------- MODULE StreamBuffer ----------------------------
(***************************************************************************)
(* The circular buffers of a TCP socket: FreeRTOS_Stream_Buffer.c and its  *)
(* header, one operator per function, on a record with the fields of       *)
(* StreamBuffer_t.  Data lies from tail to head; a receive buffer also     *)
(* holds, up to front, data that came too early; in a transmit buffer mid  *)
(* parts the data that has a segment from the data that has none yet.      *)
(***************************************************************************)
EXTENDS Integers, Sequences

\* What a cell holds that nothing was written to.  Bytes are naturals.
NoByte == -1

\* A cleared buffer (vStreamBufferClear) of n cells
EmptyBuffer(n) == [length |-> n, tail |-> 0, mid |-> 0, head |-> 0, front |-> 0,
                   cells |-> [i \in 0..(n - 1) |-> NoByte]]

Smaller(a, b) == IF a < b THEN a ELSE b
Positive(n) == IF n > 0 THEN n ELSE 0

\* A position n cells on.  The code subtracts LENGTH at most once, which is the
\* remainder as long as n is no more than LENGTH.
Onward(b, position, n) == (position + n) % b.length

\* uxStreamBufferSpace, uxStreamBufferDistance
Space(b, lower, upper) == (b.length + upper - lower - 1) % b.length
Distance(b, lower, upper) == (b.length + upper - lower) % b.length

GetSpace(b) == Space(b, b.head, b.tail)
FrontSpace(b) == Space(b, b.front, b.tail)
GetSize(b) == Distance(b, b.tail, b.head)
MidSpace(b) == Distance(b, b.mid, b.head)

\* vStreamBufferMoveMid
MoveMid(b, n) == [b EXCEPT !.mid = Onward(b, @, Smaller(n, MidSpace(b)))]

\* xStreamBufferLessThenEqual: the order of positions, counted from the tail
LessThenEqual(b, left, right) ==
    IF (left < b.tail) # (right < b.tail) THEN right < b.tail ELSE left <= right

\* How much of n bytes uxStreamBufferAdd and uxStreamBufferGet handle
Fits(b, offset, n) == Smaller(Positive(GetSpace(b) - offset), n)
Available(b, offset, n) == Smaller(Positive(GetSize(b) - offset), n)

\* The cells after data was copied to them
Copied(b, at, data, n) ==
    [i \in DOMAIN b.cells |->
        LET k == Distance(b, at, i)
        IN  IF k < n /\ k < Len(data) THEN data[k + 1] ELSE b.cells[i]]

\* uxStreamBufferAdd.  With an offset the data is stored ahead of the head, and
\* the front is moved to where it begins.  Without data (a NULL pointer) the
\* head only moves over what is stored already.
Add(b, offset, data, n) ==
    LET count == Fits(b, offset, n)
        at    == Onward(b, b.head, offset)
        next  == IF offset = 0 THEN Onward(b, at, count) ELSE at
    IN  IF count = 0 THEN b
        ELSE [b EXCEPT !.cells = Copied(b, at, data, count),
                       !.head = IF offset = 0 THEN next ELSE @,
                       !.front = IF LessThenEqual(b, @, next) THEN next ELSE @]

\* Mutant of Peeked: the offset is forgotten.
PeekedTail(b, offset, n) ==
    [i \in 1..Available(b, offset, n) |-> b.cells[Onward(b, b.tail, i - 1)]]

\* uxStreamBufferGet: what it copies, and the buffer after it when it is not
\* told to peek
Peeked(b, offset, n) ==
    [i \in 1..Available(b, offset, n) |-> b.cells[Onward(b, b.tail, offset + i - 1)]]
Got(b, n) == [b EXCEPT !.tail = Onward(b, @, Available(b, 0, n))]
=============================================================================
