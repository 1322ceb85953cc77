---------------------------- MODULE ByteQueue ----------------------------
(***************************************************************************)
(* The index arithmetic of App/uart_stream/queue.c: a ring of size slots   *)
(* of which one is always left empty, so that head = tail means empty.     *)
(* Every operator takes the ring's size, because the driver owns two       *)
(* rings of different sizes.  Indices are uint16_t: IndexMod stands for    *)
(* 2^16, and a sum that reaches it wraps, as the cast in the code does.    *)
(***************************************************************************)
EXTENDS Integers

CONSTANT IndexMod

ASSUME IndexModAssumption == IndexMod \in Nat /\ IndexMod >= 4

\* (uint16_t)(a + b) for a, b that fit the width themselves.
AddU16(a, b) == IF a + b < IndexMod THEN a + b ELSE a + b - IndexMod

\* Mutant of QNext: an index equal to the size is let through.
QNextLate(i, size) == IF AddU16(i, 1) > size THEN 0 ELSE AddU16(i, 1)

\* An index one past the last slot goes back to slot 0.
QNext(i, size) == IF AddU16(i, 1) >= size THEN 0 ELSE AddU16(i, 1)

\* Bytes pending, from a snapshot of the two indices.
QUsed(head, tail, size) == IF head >= tail THEN head - tail ELSE size - tail + head

\* Mutant of QFree: the slot that must stay empty is counted as room.
QFreeWhole(head, tail, size) == size - QUsed(head, tail, size)

QFree(head, tail, size) == (size - 1) - QUsed(head, tail, size)

QEmpty(head, tail) == head = tail

QFull(head, tail, size) == QNext(head, size) = tail

\* The index published at the end of a block operation over n bytes.
QAdvance(i, n, size) ==
    IF AddU16(i, n) >= size THEN AddU16(i, n) - size ELSE AddU16(i, n)

\* memcpy in two parts: n bytes from index start run to the end of the buffer
\* (part 1) and the rest, if any, continue at slot 0 (part 2).
Part1(start, n, size) == IF size - start > n THEN n ELSE size - start

\* Mutant of BlockSlot: the second part starts at slot 1.
BlockSlotShifted(start, n, j, size) ==
    IF j < Part1(start, n, size) THEN start + j ELSE j - Part1(start, n, size) + 1

BlockSlot(start, n, j, size) ==
    IF j < Part1(start, n, size) THEN start + j ELSE j - Part1(start, n, size)

\* How many bytes of a request a block operation takes.
Clip(n, limit) == IF n > limit THEN limit ELSE n
==========================================================================
