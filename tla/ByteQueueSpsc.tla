--------------------------- MODULE ByteQueueSpsc ---------------------------
(***************************************************************************)
(* One queue_t between its single producer and its single consumer, as     *)
(* queue.h allows it to be used: no lock is held over a block operation.   *)
(*                                                                         *)
(* The single-byte operations are one step each: the foreground forms hold *)
(* PRIMASK, and the _isr forms run where nobody but a higher interrupt can *)
(* preempt them.  A block operation is many steps: it snapshots both       *)
(* indices, copies a byte at a time, and publishes its own index last, and *)
(* the other side may do anything in between.                              *)
(*                                                                         *)
(* The n-th byte the queue accepts is the number n, so that loss,          *)
(* duplication and reordering all show in what the consumer got.           *)
(***************************************************************************)
EXTENDS ByteQueue, Sequences

CONSTANTS Size,       \* u16_size
          MaxBytes    \* bound: bytes the producer offers in a behaviour

ASSUME SizeAssumption == Size \in Nat /\ Size >= 2 /\ Size < IndexMod
ASSUME MaxBytesAssumption == MaxBytes \in Nat

VARIABLES buf,        \* p_u8_buffer
          head,       \* u16_head, written by the producer only
          tail,       \* u16_tail, written by the consumer only
          prod,       \* the producer's call in progress and its locals
          cons,       \* the consumer's call in progress and its locals
          accepted,   \* history: bytes the producer was told were stored
          got         \* history: bytes written to the consumer's memory

vars == <<buf, head, tail, prod, cons, accepted, got>>

Slots == 0..(Size - 1)
Used == QUsed(head, tail, Size)

\* No call in progress; the locals of a finished call are dead.
Idle == [pc |-> "idle", at |-> 0, n |-> 0, i |-> 0]
InCall(p) == p.pc = "copy"

\* Bytes the consumer has taken for good: those of a block operation still in
\* progress are in its memory but its tail has not moved past them.
Delivered == Len(got) - cons.i

Init ==
    /\ buf = [s \in Slots |-> 0]
    /\ head = 0 /\ tail = 0
    /\ prod = Idle /\ cons = Idle
    /\ accepted = 0
    /\ got = << >>

----------------------------------------------------------------------------
\* Mutant of Put: the full test is missing.
PutUnguarded ==
    /\ ~InCall(prod)
    /\ accepted < MaxBytes
    /\ buf' = [buf EXCEPT ![head] = accepted + 1]
    /\ head' = QNext(head, Size)
    /\ accepted' = accepted + 1
    /\ UNCHANGED <<tail, prod, cons, got>>

\* b_queue_put, under b_queue_enqueue and b_queue_enqueue_isr.
Put ==
    /\ ~InCall(prod)
    /\ accepted < MaxBytes
    /\ ~QFull(head, tail, Size)
    /\ buf' = [buf EXCEPT ![head] = accepted + 1]
    /\ head' = QNext(head, Size)
    /\ accepted' = accepted + 1
    /\ UNCHANGED <<tail, prod, cons, got>>

\* u16_queue_enqueue_multi up to the copy: snapshot, clip to the free space,
\* and return at once when nothing fits.
PutBlockBegin(len) ==
    LET n == Clip(len, QFree(head, tail, Size)) IN
    /\ ~InCall(prod)
    /\ accepted + len <= MaxBytes
    /\ n > 0
    /\ prod' = [pc |-> "copy", at |-> head, n |-> n, i |-> 0]
    /\ UNCHANGED <<buf, head, tail, cons, accepted, got>>

PutBlockCopy ==
    /\ InCall(prod) /\ prod.i < prod.n
    /\ buf' = [buf EXCEPT ![BlockSlot(prod.at, prod.n, prod.i, Size)] =
                              accepted + prod.i + 1]
    /\ prod' = [prod EXCEPT !.i = @ + 1]
    /\ UNCHANGED <<head, tail, cons, accepted, got>>

\* Mutant of PutBlockPublish: the copy is one byte short.
PutBlockPublishEarly ==
    /\ InCall(prod) /\ prod.i = prod.n - 1
    /\ head' = QAdvance(prod.at, prod.n, Size)
    /\ accepted' = accepted + prod.n
    /\ prod' = Idle
    /\ UNCHANGED <<buf, tail, cons, got>>

PutBlockPublish ==
    /\ InCall(prod) /\ prod.i = prod.n
    /\ head' = QAdvance(prod.at, prod.n, Size)
    /\ accepted' = accepted + prod.n
    /\ prod' = Idle
    /\ UNCHANGED <<buf, tail, cons, got>>

----------------------------------------------------------------------------
\* i16_queue_get, under i16_queue_dequeue and i16_queue_dequeue_isr.
Get ==
    /\ ~InCall(cons)
    /\ ~QEmpty(head, tail)
    /\ got' = Append(got, buf[tail])
    /\ tail' = QNext(tail, Size)
    /\ UNCHANGED <<buf, head, prod, cons, accepted>>

\* u16_queue_dequeue_multi up to the copy.
GetBlockBegin(maxLen) ==
    LET n == Clip(maxLen, Used) IN
    /\ ~InCall(cons)
    /\ n > 0
    /\ cons' = [pc |-> "copy", at |-> tail, n |-> n, i |-> 0]
    /\ UNCHANGED <<buf, head, tail, prod, accepted, got>>

GetBlockCopy ==
    /\ InCall(cons) /\ cons.i < cons.n
    /\ got' = Append(got, buf[BlockSlot(cons.at, cons.n, cons.i, Size)])
    /\ cons' = [cons EXCEPT !.i = @ + 1]
    /\ UNCHANGED <<buf, head, tail, prod, accepted>>

\* Mutant of GetBlockPublish: tail catches up with head as it is now, not with
\* the snapshot the bytes were copied under.
GetBlockPublishFresh ==
    /\ InCall(cons) /\ cons.i = cons.n
    /\ tail' = head
    /\ cons' = Idle
    /\ UNCHANGED <<buf, head, prod, accepted, got>>

GetBlockPublish ==
    /\ InCall(cons) /\ cons.i = cons.n
    /\ tail' = QAdvance(cons.at, cons.n, Size)
    /\ cons' = Idle
    /\ UNCHANGED <<buf, head, prod, accepted, got>>

----------------------------------------------------------------------------
Produce ==
    \/ Put
    \/ \E len \in 1..Size : PutBlockBegin(len)
    \/ PutBlockCopy
    \/ PutBlockPublish

Consume ==
    \/ Get
    \/ \E maxLen \in 1..Size : GetBlockBegin(maxLen)
    \/ GetBlockCopy
    \/ GetBlockPublish

Next == Produce \/ Consume

Spec == Init /\ [][Next]_vars

----------------------------------------------------------------------------
\* uint16_t sums of an index and a block length do not wrap.  Nothing in the
\* code enforces it: b_queue_init only rejects a size below 2.
BlockSumsFit == 2 * (Size - 1) < IndexMod

CallType == [pc : {"idle", "copy"}, at : Slots, n : 0..(Size - 1), i : 0..(Size - 1)]

\* Every variable holds a value of its C type, and no index leaves the buffer.
TypeOK ==
    /\ buf \in [Slots -> Nat]
    /\ head \in Slots /\ tail \in Slots
    /\ prod \in CallType /\ cons \in CallType
    /\ accepted \in Nat
    /\ got \in Seq(Nat)

\* The consumer's memory holds the stream from its first byte on: no byte
\* lost, doubled, reordered, or read before the producer wrote it, whatever
\* the two block operations do to each other (queue.h, "Neither can corrupt
\* the ring").
InOrder == \A k \in 1..Len(got) : got[k] = k

\* What the producer was told was stored is what was delivered plus what the
\* two indices say is pending: neither publication moves an index to a place
\* the other side's snapshot did not allow.
Conserved == accepted = Delivered + Used

\* A stale read of the opposite index is conservative: the room a block
\* operation counted on, or the bytes it counted on, are still there.
ConservativeProducer == InCall(prod) => prod.n <= QFree(head, tail, Size)
ConservativeConsumer == InCall(cons) => cons.n <= Used
SnapshotsConservative == ConservativeProducer /\ ConservativeConsumer

\* A slot that holds a byte the consumer has not been given is never written.
PendingSlots == {QAdvance(tail, k, Size) : k \in 0..(Used - 1)}
PendingNeverOverwritten ==
    [][\A s \in PendingSlots : buf'[s] = buf[s]]_vars

\* The queue is a bounded FIFO: a block operation takes effect at once, when
\* it publishes its index, and an operation that stores or takes nothing is a
\* stutter.
Fifo == INSTANCE ByteFifo WITH
            Capacity <- Size - 1,
            pending  <- [k \in 1..Used |-> buf[QAdvance(tail, k - 1, Size)]],
            taken    <- SubSeq(got, 1, Delivered)

ImplementsFifo == Fifo!FifoSpec
============================================================================
