----------------------------- MODULE ByteFifo -----------------------------
(***************************************************************************)
(* What App/uart_stream/queue.h promises its two users: a bounded FIFO of  *)
(* bytes.  The producer appends some bytes, as many as fit; the consumer   *)
(* takes some from the front.  Bytes are told apart by their position in   *)
(* the stream: the n-th byte ever accepted is the number n.                *)
(***************************************************************************)
EXTENDS Integers, Sequences

CONSTANT Capacity          \* bytes the queue can hold

VARIABLES pending,         \* bytes accepted and not yet taken, oldest first
          taken            \* bytes taken, oldest first

fifoVars == <<pending, taken>>

FifoInit == pending = << >> /\ taken = << >>

Accept(n) ==
    /\ Len(pending) + n <= Capacity
    /\ pending' = pending \o
            [k \in 1..n |-> Len(taken) + Len(pending) + k]
    /\ UNCHANGED taken

Take(n) ==
    /\ n <= Len(pending)
    /\ taken' = taken \o SubSeq(pending, 1, n)
    /\ pending' = SubSeq(pending, n + 1, Len(pending))

FifoNext == \E n \in 1..Capacity : Accept(n) \/ Take(n)

FifoSpec == FifoInit /\ [][FifoNext]_fifoVars
===========================================================================
