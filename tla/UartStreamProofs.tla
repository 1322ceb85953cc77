-------------------------- MODULE UartStreamProofs --------------------------
(***************************************************************************)
(* Proofs about one UART stream instance, for every ring and FIFO size,    *)
(* every width of the indices and every number of bytes.  The only         *)
(* hypothesis is SumsFit: in both rings an index plus a block length fits  *)
(* the index type, which holds for rings of up to half its range.          *)
(*                                                                         *)
(* The argument is on the level of sequences: a ring stands for the        *)
(* sequence RingContents, an ISR or a foreground step moves the end of one *)
(* sequence to the front of the next, and what the properties speak of are *)
(* concatenations, which such a move leaves alone.                         *)
(***************************************************************************)
EXTENDS UartStream, SequenceTheorems, FiniteSetTheorems, TLAPS

Fits(size) == size \in Nat /\ size >= 2 /\ (size - 1) + (size - 1) < IndexMod
SumsFit == Fits(TxSize) /\ Fits(RxSize)

\* The values that buffers and FIFOs hold.
Bytes == 0..(MaxTx + MaxRx)

----------------------------------------------------------------------------
(* Index arithmetic.                                                       *)

LEMMA AdvanceIs ==
    ASSUME NEW size, Fits(size), NEW i \in 0..(size - 1), NEW n \in 0..(size - 1)
    PROVE  /\ QAdvance(i, n, size) = IF i + n >= size THEN i + n - size ELSE i + n
           /\ QAdvance(i, n, size) \in 0..(size - 1)
  BY IndexModAssumption DEF Fits, QAdvance, AddU16

LEMMA NextIs ==
    ASSUME NEW size, Fits(size), NEW i \in 0..(size - 1)
    PROVE  /\ QNext(i, size) = QAdvance(i, 1, size)
           /\ QNext(i, size) \in 0..(size - 1)
  BY IndexModAssumption DEF Fits, QNext, QAdvance, AddU16

LEMMA AdvanceNone ==
    ASSUME NEW size, Fits(size), NEW i \in 0..(size - 1)
    PROVE  QAdvance(i, 0, size) = i
  BY IndexModAssumption DEF Fits, QAdvance, AddU16

LEMMA UsedIs ==
    ASSUME NEW size, Fits(size), NEW h \in 0..(size - 1), NEW t \in 0..(size - 1)
    PROVE  /\ QUsed(h, t, size) \in 0..(size - 1)
           /\ QFree(h, t, size) = size - 1 - QUsed(h, t, size)
           /\ QFree(h, t, size) \in 0..(size - 1)
           /\ h = QAdvance(t, QUsed(h, t, size), size)
           /\ h = t <=> QUsed(h, t, size) = 0
           /\ QNext(h, size) = t <=> QFree(h, t, size) = 0
  BY IndexModAssumption DEF Fits, QAdvance, AddU16, QUsed, QFree, QNext

LEMMA NoneUsed ==
    ASSUME NEW size, Fits(size), NEW h \in 0..(size - 1), NEW t \in 0..(size - 1),
           QUsed(h, t, size) = 0
    PROVE  h = t
  BY DEF Fits, QUsed

LEMMA UsedAfter ==
    ASSUME NEW size, Fits(size), NEW h \in 0..(size - 1), NEW t \in 0..(size - 1),
           NEW n \in 0..(size - 1)
    PROVE  /\ n <= QFree(h, t, size) =>
                QUsed(QAdvance(h, n, size), t, size) = QUsed(h, t, size) + n
           /\ n <= QUsed(h, t, size) =>
                QUsed(h, QAdvance(t, n, size), size) = QUsed(h, t, size) - n
  BY IndexModAssumption DEF Fits, QAdvance, AddU16, QUsed, QFree

LEMMA AdvanceSum ==
    ASSUME NEW size, Fits(size), NEW i \in 0..(size - 1), NEW a \in 0..(size - 1),
           NEW b \in 0..(size - 1), a + b <= size - 1
    PROVE  QAdvance(QAdvance(i, a, size), b, size) = QAdvance(i, a + b, size)
  BY IndexModAssumption DEF Fits, QAdvance, AddU16

LEMMA AdvanceOneToOne ==
    ASSUME NEW size, Fits(size), NEW i \in 0..(size - 1), NEW a \in 0..(size - 1),
           NEW b \in 0..(size - 1), QAdvance(i, a, size) = QAdvance(i, b, size)
    PROVE  a = b
  BY IndexModAssumption DEF Fits, QAdvance, AddU16

LEMMA SlotIs ==
    ASSUME NEW size, Fits(size), NEW i \in 0..(size - 1), NEW n \in 0..(size - 1),
           NEW j \in 0..(n - 1)
    PROVE  BlockSlot(i, n, j, size) = QAdvance(i, j, size)
  BY IndexModAssumption DEF Fits, QAdvance, AddU16, BlockSlot, Part1

LEMMA Assoc ==
    ASSUME NEW a \in Seq(Bytes), NEW b \in Seq(Bytes), NEW c \in Seq(Bytes)
    PROVE  (a \o b) \o c = a \o (b \o c)
  BY ConcatAssociative

----------------------------------------------------------------------------
(* What the operations of queue.c do to the sequence a ring stands for.    *)

LEMMA ContentsIs ==
    ASSUME NEW size, Fits(size), NEW q \in RingType(size)
    PROVE  /\ q.head \in 0..(size - 1) /\ q.tail \in 0..(size - 1)
           /\ QUsed(q.head, q.tail, size) \in 0..(size - 1)
           /\ RingContents(q, size) \in Seq(Bytes)
           /\ Len(RingContents(q, size)) = QUsed(q.head, q.tail, size)
           /\ \A k \in 1..QUsed(q.head, q.tail, size) :
                 RingContents(q, size)[k] = q.buf[QAdvance(q.tail, k - 1, size)]
<1>1. q.head \in 0..(size - 1) /\ q.tail \in 0..(size - 1) /\ q.buf \in [0..(size - 1) -> Bytes]
  BY DEF RingType, Bytes
<1>2. QUsed(q.head, q.tail, size) \in 0..(size - 1)
  BY <1>1, UsedIs
<1> DEFINE u == QUsed(q.head, q.tail, size)
<1>3. u \in Nat /\ size \in Nat
  BY <1>2 DEF Fits
<1>4. \A k \in 1..u : k - 1 \in 0..(size - 1)
  BY <1>2, <1>3
<1>5. \A k \in 1..u : q.buf[QAdvance(q.tail, k - 1, size)] \in Bytes
  BY <1>1, <1>4, AdvanceIs
<1> HIDE DEF u
<1>6. [k \in 1..u |-> q.buf[QAdvance(q.tail, k - 1, size)]] \in Seq(Bytes)
  BY <1>3, <1>5
<1>7. RingContents(q, size) = [k \in 1..u |-> q.buf[QAdvance(q.tail, k - 1, size)]]
  BY DEF RingContents, u
<1>8. /\ Len(RingContents(q, size)) = u
      /\ \A k \in 1..u : RingContents(q, size)[k] = q.buf[QAdvance(q.tail, k - 1, size)]
  BY <1>3, <1>6, <1>7
<1> QED  BY <1>1, <1>2, <1>6, <1>7, <1>8 DEF u

\* Ring p is ring q with the bytes of s, which fit, published at the head.
Published(p, q, s, size) ==
    /\ s \in Seq(Bytes) /\ Len(s) \in 0..(size - 1)
    /\ Len(s) <= QFree(q.head, q.tail, size)
    /\ p.tail = q.tail /\ p.head = QAdvance(q.head, Len(s), size)
    /\ \A k \in 0..(QUsed(q.head, q.tail, size) - 1) :
          p.buf[QAdvance(q.tail, k, size)] = q.buf[QAdvance(q.tail, k, size)]
    /\ \A j \in 0..(Len(s) - 1) : p.buf[QAdvance(q.head, j, size)] = s[j + 1]

\* A block published at the head is appended to the contents.
LEMMA PublishedIn ==
    ASSUME NEW size, Fits(size), NEW q \in RingType(size), NEW p \in RingType(size),
           NEW s, Published(p, q, s, size)
    PROVE  RingContents(p, size) = RingContents(q, size) \o s
<1> DEFINE u == QUsed(q.head, q.tail, size)
           v == QUsed(p.head, p.tail, size)
           c == RingContents(q, size)
           d == RingContents(p, size)
           n == Len(s)
<1>0. /\ s \in Seq(Bytes) /\ n \in 0..(size - 1) /\ n <= QFree(q.head, q.tail, size)
      /\ p.tail = q.tail /\ p.head = QAdvance(q.head, n, size)
      /\ \A k \in 0..(u - 1) :
            p.buf[QAdvance(q.tail, k, size)] = q.buf[QAdvance(q.tail, k, size)]
      /\ \A j \in 0..(n - 1) : p.buf[QAdvance(q.head, j, size)] = s[j + 1]
  BY DEF Published
<1>1. /\ q.head \in 0..(size - 1) /\ q.tail \in 0..(size - 1) /\ u \in 0..(size - 1)
      /\ c \in Seq(Bytes) /\ Len(c) = u
      /\ \A k \in 1..u : c[k] = q.buf[QAdvance(q.tail, k - 1, size)]
  BY ContentsIs
<1>2. /\ v \in 0..(size - 1) /\ d \in Seq(Bytes) /\ Len(d) = v
      /\ \A k \in 1..v : d[k] = p.buf[QAdvance(q.tail, k - 1, size)]
  BY <1>0, ContentsIs
<1>3. v = u + n /\ u + n <= size - 1 /\ q.head = QAdvance(q.tail, u, size)
  <2>1. QFree(q.head, q.tail, size) = size - 1 - u /\ q.head = QAdvance(q.tail, u, size)
    BY <1>1, UsedIs
  <2>2. QUsed(QAdvance(q.head, n, size), q.tail, size) = u + n
    BY <1>0, <1>1, UsedAfter
  <2> QED  BY <1>0, <1>1, <2>1, <2>2 DEF Fits
<1> HIDE DEF u, v, c, d, n
<1>9. u \in Nat /\ n \in Nat /\ Len(s) = n
  BY <1>0, <1>1 DEF n
<1>4. ASSUME NEW k \in 1..(u + n) PROVE d[k] = (c \o s)[k]
  <2>1. CASE k <= u
    <3>1. k \in 1..u /\ k - 1 \in 0..(u - 1) /\ k \in 1..v
      BY <1>0, <1>1, <1>3, <2>1
    <3>2. (c \o s)[k] = c[k]
      BY <1>0, <1>1, <3>1 DEF n
    <3>3. p.buf[QAdvance(q.tail, k - 1, size)] = q.buf[QAdvance(q.tail, k - 1, size)]
      BY <1>0, <3>1
    <3> QED  BY <1>1, <1>2, <3>1, <3>2, <3>3
  <2>2. CASE k > u
    <3> DEFINE j == k - u - 1
    <3>1. /\ j \in 0..(n - 1) /\ j \in 0..(size - 1) /\ u + j = k - 1 /\ u + j <= size - 1
          /\ k \in 1..v /\ j + 1 = k - u /\ Len(c) = u /\ k \in 1..(Len(c) + Len(s))
      BY <1>0, <1>1, <1>3, <1>4, <2>2 DEF Fits, n
    <3>2. (c \o s)[k] = s[j + 1]
      BY <1>0, <1>1, <2>2, <3>1 DEF n
    <3>3. QAdvance(q.tail, k - 1, size) = QAdvance(q.head, j, size)
      BY <1>1, <1>3, <3>1, AdvanceSum
    <3>4. p.buf[QAdvance(q.head, j, size)] = s[j + 1]
      BY <1>0, <3>1
    <3> QED  BY <1>2, <3>1, <3>2, <3>3, <3>4
  <2>3. k \in Int /\ u \in Int
    BY <1>9
  <2>4. k <= u \/ k > u
    BY <2>3
  <2> QED  BY <2>1, <2>2, <2>4
<1>5. /\ c \o s \in Seq(Bytes) /\ Len(c \o s) = u + n /\ Len(d) = u + n /\ u + n \in Nat
  <2>1. s \in Seq(Bytes) /\ c \in Seq(Bytes)
    BY <1>0, <1>1
  <2>2. c \o s \in Seq(Bytes) /\ Len(c \o s) = Len(c) + Len(s)
    BY <2>1, ConcatProperties
  <2> QED  BY <1>1, <1>2, <1>3, <1>9, <2>2
<1>6. d = c \o s
  BY <1>2, <1>4, <1>5, SeqEqual
<1> QED  BY <1>6 DEF c, d

\* A block given up at the tail is cut off the front of the contents.
LEMMA PublishedOut ==
    ASSUME NEW size, Fits(size), NEW q \in RingType(size), NEW p \in RingType(size),
           NEW n \in 0..(size - 1), n <= QUsed(q.head, q.tail, size),
           p.buf = q.buf, p.head = q.head, p.tail = QAdvance(q.tail, n, size)
    PROVE  RingContents(p, size) = SubSeq(RingContents(q, size), n + 1, Len(RingContents(q, size)))
<1> DEFINE u == QUsed(q.head, q.tail, size)
           v == QUsed(p.head, p.tail, size)
           c == RingContents(q, size)
           d == RingContents(p, size)
<1>1. /\ q.head \in 0..(size - 1) /\ q.tail \in 0..(size - 1) /\ u \in 0..(size - 1)
      /\ c \in Seq(Bytes) /\ Len(c) = u
      /\ \A k \in 1..u : c[k] = q.buf[QAdvance(q.tail, k - 1, size)]
  BY ContentsIs
<1>2. /\ v \in 0..(size - 1) /\ d \in Seq(Bytes) /\ Len(d) = v
      /\ \A k \in 1..v : d[k] = q.buf[QAdvance(QAdvance(q.tail, n, size), k - 1, size)]
  BY ContentsIs
<1>3. v = u - n
  BY <1>1, UsedAfter
<1>4. u \in Nat /\ n \in Nat /\ n <= u /\ size \in Nat /\ u <= size - 1
  BY <1>1 DEF Fits
<1> HIDE DEF u, v, c, d
<1>5. ASSUME NEW k \in 1..(u - n) PROVE d[k] = c[n + k]
  <2>1. /\ k \in 1..v /\ k - 1 \in 0..(size - 1) /\ n + (k - 1) <= size - 1
        /\ n + k \in 1..u /\ n + (k - 1) = (n + k) - 1
    BY <1>3, <1>4, <1>5
  <2>2. QAdvance(QAdvance(q.tail, n, size), k - 1, size) = QAdvance(q.tail, n + (k - 1), size)
    BY <1>1, <2>1, AdvanceSum
  <2> QED  BY <1>1, <1>2, <2>1, <2>2
<1>6. /\ SubSeq(c, n + 1, u) \in Seq(Bytes) /\ Len(SubSeq(c, n + 1, u)) = u - n
      /\ \A k \in 1..(u - n) : SubSeq(c, n + 1, u)[k] = c[n + k]
  <2>1. \A i \in (n + 1)..u : c[i] \in Bytes
    BY <1>1, <1>4
  <2>2. n + 1 \in Int /\ u \in Int /\ u - (n + 1) + 1 = u - n
        /\ \A k \in 1..(u - n) : (n + 1) + k - 1 = n + k
    BY <1>4
  <2>3. /\ SubSeq(c, n + 1, u) \in Seq(Bytes)
        /\ Len(SubSeq(c, n + 1, u)) = IF n + 1 <= u THEN u - (n + 1) + 1 ELSE 0
        /\ \A k \in 1..(u - (n + 1) + 1) : SubSeq(c, n + 1, u)[k] = c[(n + 1) + k - 1]
    BY <2>1, <2>2, SubSeqProperties
  <2>4. IF n + 1 <= u THEN u - n = u - (n + 1) + 1 ELSE u - n = 0
    BY <1>4
  <2>5. Len(SubSeq(c, n + 1, u)) = u - n
    BY <2>3, <2>4
  <2>6. \A k \in 1..(u - n) : SubSeq(c, n + 1, u)[k] = c[n + k]
    BY <2>2, <2>3
  <2> QED  BY <2>3, <2>5, <2>6
<1>7. d = SubSeq(c, n + 1, u)
  BY <1>2, <1>3, <1>5, <1>6, SeqEqual
<1> QED  BY <1>1, <1>7 DEF c, d

\* b_queue_enqueue puts one byte behind the others.
LEMMA EnqueuedOne ==
    ASSUME NEW size, Fits(size), NEW q \in RingType(size), NEW x \in Bytes,
           ~QFull(q.head, q.tail, size)
    PROVE  /\ EnqueueOne(q, x, size) \in RingType(size)
           /\ RingContents(EnqueueOne(q, x, size), size) = RingContents(q, size) \o <<x>>
<1> DEFINE p == EnqueueOne(q, x, size)
           u == QUsed(q.head, q.tail, size)
<1>0. /\ q.head \in 0..(size - 1) /\ q.tail \in 0..(size - 1) /\ q.buf \in [0..(size - 1) -> Bytes]
      /\ size \in Nat /\ size >= 2 /\ 1 \in 0..(size - 1) /\ 0 \in 0..(size - 1)
  BY DEF RingType, Bytes, Fits
<1>1. q.head \in 0..(size - 1) /\ q.tail \in 0..(size - 1) /\ u \in 0..(size - 1)
  BY <1>0, UsedIs
<1>2. 1 <= QFree(q.head, q.tail, size) /\ QFree(q.head, q.tail, size) = size - 1 - u
      /\ q.head = QAdvance(q.tail, u, size)
  <2>1. QNext(q.head, size) # q.tail
    BY DEF QFull
  <2>2. QFree(q.head, q.tail, size) # 0
    BY <1>0, <2>1, UsedIs
  <2>3. /\ QFree(q.head, q.tail, size) = size - 1 - u /\ q.head = QAdvance(q.tail, u, size)
        /\ QFree(q.head, q.tail, size) \in 0..(size - 1)
    BY <1>0, UsedIs
  <2> HIDE DEF u
  <2> QED  BY <1>0, <1>1, <2>2, <2>3
<1>3. /\ p.head = QAdvance(q.head, 1, size) /\ p.tail = q.tail /\ p.head \in 0..(size - 1)
      /\ p.buf = [q.buf EXCEPT ![q.head] = x]
  BY <1>0, NextIs DEF EnqueueOne, RingType
<1>4. p \in RingType(size)
  BY <1>0, <1>3 DEF EnqueueOne, RingType, Bytes
<1>5. ASSUME NEW k \in 0..(u - 1)
      PROVE  p.buf[QAdvance(q.tail, k, size)] = q.buf[QAdvance(q.tail, k, size)]
  <2>1. k \in 0..(size - 1) /\ k # u
    <3> HIDE DEF u
    <3> QED  BY <1>0, <1>1, <1>5
  <2>2. QAdvance(q.tail, k, size) # QAdvance(q.tail, u, size)
    BY <1>1, <2>1, AdvanceOneToOne
  <2>3. QAdvance(q.tail, k, size) \in 0..(size - 1)
    BY <1>1, <2>1, AdvanceIs
  <2> QED  BY <1>0, <1>2, <1>3, <2>2, <2>3
<1>6. /\ <<x>> \in Seq(Bytes) /\ Len(<<x>>) = 1 /\ <<x>>[1] = x
      /\ QAdvance(q.head, 0, size) = q.head
  BY <1>1, AdvanceNone
<1>7. \A j \in 0..(1 - 1) : p.buf[QAdvance(q.head, j, size)] = <<x>>[j + 1]
  BY <1>0, <1>3, <1>6
<1>8. RingContents(p, size) = RingContents(q, size) \o <<x>>
  <2> HIDE DEF p
  <2>1. <<x>> \in Seq(Bytes) /\ Len(<<x>>) = 1 /\ 1 \in 0..(size - 1)
    BY <1>0, <1>6
  <2> DEFINE s == <<x>>
  <2>2. s \in Seq(Bytes) /\ Len(s) = 1 /\ \A j \in 0..(1 - 1) : p.buf[QAdvance(q.head, j, size)] = s[j + 1]
    BY <1>7, <2>1
  <2> HIDE DEF s
  <2>3. Published(p, q, s, size)
    BY <1>2, <1>3, <1>5, <2>1, <2>2 DEF Published
  <2>4. RingContents(p, size) = RingContents(q, size) \o s
    BY <1>4, <2>3, PublishedIn
  <2> QED  BY <2>4 DEF s
<1> QED  BY <1>4, <1>8 DEF p

\* b_queue_dequeue takes the oldest byte.
LEMMA DequeuedOne ==
    ASSUME NEW size, Fits(size), NEW q \in RingType(size), ~QEmpty(q.head, q.tail)
    PROVE  /\ DequeueOne(q, size) \in RingType(size)
           /\ RingContents(q, size) = <<q.buf[q.tail]>> \o RingContents(DequeueOne(q, size), size)
           /\ q.buf[q.tail] \in Bytes
<1> DEFINE p == DequeueOne(q, size)
           u == QUsed(q.head, q.tail, size)
           c == RingContents(q, size)
<1>0. /\ q.head \in 0..(size - 1) /\ q.tail \in 0..(size - 1) /\ q.buf \in [0..(size - 1) -> Bytes]
      /\ size \in Nat /\ size >= 2 /\ 1 \in 0..(size - 1) /\ 0 \in 0..(size - 1)
  BY DEF RingType, Bytes, Fits
<1>1. q.head \in 0..(size - 1) /\ q.tail \in 0..(size - 1) /\ u \in 0..(size - 1)
  BY <1>0, UsedIs
<1>2. 1 <= u
  <2>1. q.head # q.tail
    BY DEF QEmpty
  <2>2. u # 0
    BY <1>0, <2>1, NoneUsed
  <2> HIDE DEF u
  <2> QED  BY <1>0, <1>1, <2>2
<1>3. /\ p.head = q.head /\ p.buf = q.buf /\ p.tail = QAdvance(q.tail, 1, size)
      /\ p.tail \in 0..(size - 1) /\ p \in RingType(size)
  BY <1>0, NextIs DEF DequeueOne, RingType
<1>4. c \in Seq(Bytes) /\ Len(c) = u /\ c[1] = q.buf[QAdvance(q.tail, 0, size)]
  <2>1. 1 \in 1..u /\ 1 - 1 = 0
    BY <1>0, <1>1, <1>2
  <2> QED  BY <2>1, ContentsIs
<1>5. QAdvance(q.tail, 0, size) = q.tail
  BY <1>1, AdvanceNone
<1> HIDE DEF p, c
<1>6. RingContents(p, size) = SubSeq(c, 1 + 1, Len(c))
  BY <1>0, <1>2, <1>3, PublishedOut DEF c, u
<1> HIDE DEF u
<1>7. c # << >> /\ Head(c) = q.buf[q.tail] /\ c = <<Head(c)>> \o Tail(c)
  BY <1>1, <1>2, <1>4, <1>5
<1>8. Tail(c) = SubSeq(c, 2, Len(c))
  BY <1>1, <1>2, <1>4
<1> QED  BY <1>0, <1>3, <1>6, <1>7, <1>8 DEF p, c

\* u16_queue_enqueue_multi copies its block into the free slots past the head.
LEMMA CopiedIn ==
    ASSUME NEW size, Fits(size), NEW q \in RingType(size),
           NEW n \in 0..(size - 1), n <= QFree(q.head, q.tail, size),
           NEW x \in Nat, x + n <= MaxTx, MaxTx \in Nat, MaxRx \in Nat
    PROVE  /\ CopyIn(q, q.head, n, x, size) \in RingType(size)
           /\ RingContents(CopyIn(q, q.head, n, x, size), size) = RingContents(q, size)
           /\ CopyIn(q, q.head, n, x, size).head = q.head
           /\ CopyIn(q, q.head, n, x, size).tail = q.tail
           /\ \A j \in 0..(n - 1) :
                 CopyIn(q, q.head, n, x, size).buf[QAdvance(q.head, j, size)] = x + j + 1
<1> DEFINE p == CopyIn(q, q.head, n, x, size)
           u == QUsed(q.head, q.tail, size)
           Slot(j) == BlockSlot(q.head, n, j, size)
           Of(s) == CHOOSE j \in 0..(n - 1) : Slot(j) = s
           new == [s \in DOMAIN q.buf |->
                     IF \E j \in 0..(n - 1) : Slot(j) = s THEN x + 1 + Of(s) ELSE q.buf[s]]
<1>0. /\ q.head \in 0..(size - 1) /\ q.tail \in 0..(size - 1) /\ q.buf \in [0..(size - 1) -> Bytes]
      /\ size \in Nat /\ size >= 2 /\ n \in Nat /\ n <= size - 1
      /\ q = [buf |-> q.buf, head |-> q.head, tail |-> q.tail]
  BY DEF RingType, Bytes, Fits
<1>1. /\ u \in 0..(size - 1) /\ n <= size - 1 - u /\ q.head = QAdvance(q.tail, u, size)
  BY <1>0, UsedIs
<1>2. p = [q EXCEPT !.buf = new]
  BY DEF CopyIn
<1>3. p.buf = new /\ p.head = q.head /\ p.tail = q.tail
      /\ p = [buf |-> new, head |-> q.head, tail |-> q.tail]
  BY <1>0, <1>2
<1>4. ASSUME NEW j \in 0..(n - 1)
      PROVE  /\ Slot(j) = QAdvance(q.head, j, size) /\ Slot(j) \in 0..(size - 1)
             /\ j \in 0..(size - 1)
  <2>1. j \in 0..(size - 1)
    BY <1>0, <1>4
  <2> QED  BY <1>0, <1>4, <2>1, SlotIs, AdvanceIs
<1>5. ASSUME NEW j \in 0..(n - 1) PROVE Of(Slot(j)) = j
  <2>1. Of(Slot(j)) \in 0..(n - 1) /\ Slot(Of(Slot(j))) = Slot(j)
    OBVIOUS
  <2> DEFINE i == Of(Slot(j))
  <2> HIDE DEF i
  <2>2. i \in 0..(n - 1) /\ Slot(i) = Slot(j)
    BY <2>1 DEF i
  <2>3. QAdvance(q.head, i, size) = QAdvance(q.head, j, size)
    BY <1>4, <2>2
  <2>4. i = j
    BY <1>0, <1>4, <2>2, <2>3, AdvanceOneToOne
  <2> QED  BY <2>4 DEF i
<1>6. DOMAIN q.buf = 0..(size - 1)
  BY <1>0
<1> HIDE DEF Of
<1>7. ASSUME NEW j \in 0..(n - 1) PROVE new[QAdvance(q.head, j, size)] = x + j + 1
  <2>1. new[Slot(j)] = x + 1 + Of(Slot(j))
    BY <1>4, <1>6
  <2> QED  BY <1>0, <1>4, <1>5, <2>1
<1>8. ASSUME NEW s \in 0..(size - 1) PROVE new[s] \in Bytes
  <2>1. CASE \E j \in 0..(n - 1) : Slot(j) = s
    <3>1. PICK j \in 0..(n - 1) : Slot(j) = s
      BY <2>1
    <3>2. new[s] = x + j + 1
      BY <1>4, <1>7, <3>1
    <3>3. x + j + 1 \in Bytes
      <4>1. \A d, m, f, r, g \in Nat : g + m <= f /\ d \in 0..(m - 1) => g + d + 1 \in 0..(f + r)
        OBVIOUS
      <4>2. j \in Nat /\ n \in Nat /\ MaxTx \in Nat /\ MaxRx \in Nat /\ x \in Nat
        BY <1>0, <3>1
      <4> QED  BY <3>1, <4>1, <4>2 DEF Bytes
    <3> QED  BY <3>2, <3>3
  <2>2. CASE ~\E j \in 0..(n - 1) : Slot(j) = s
    BY <1>0, <1>6, <2>2
  <2> QED  BY <2>1, <2>2
<1>9. ASSUME NEW k \in 0..(u - 1)
      PROVE  new[QAdvance(q.tail, k, size)] = q.buf[QAdvance(q.tail, k, size)]
  <2> DEFINE s == QAdvance(q.tail, k, size)
  <2>1. k \in 0..(size - 1)
    <3> HIDE DEF u
    <3> QED  BY <1>0, <1>1, <1>9
  <2>2. s \in 0..(size - 1)
    BY <1>0, <2>1, AdvanceIs
  <2>3. ASSUME NEW j \in 0..(n - 1), Slot(j) = s PROVE FALSE
    <3> HIDE DEF u
    <3>1. u + j \in 0..(size - 1) /\ u + j <= size - 1 /\ k # u + j
      BY <1>0, <1>1, <1>9, <2>3
    <3>2. Slot(j) = QAdvance(q.tail, u + j, size)
      BY <1>0, <1>1, <1>4, <3>1, AdvanceSum
    <3> QED  BY <1>0, <2>1, <2>3, <3>1, <3>2, AdvanceOneToOne
  <2> QED  BY <1>6, <2>2, <2>3
<1>10. new \in [0..(size - 1) -> Bytes]
  <2> HIDE DEF new
  <2>1. new = [s \in 0..(size - 1) |-> new[s]]
    BY <1>6 DEF new
  <2> QED  BY <1>8, <2>1
<1> HIDE DEF new
<1>11. p \in RingType(size)
  BY <1>0, <1>3, <1>10 DEF RingType, Bytes
<1>12. RingContents(p, size) = RingContents(q, size)
  <2> HIDE DEF p, u
  <2>1. \A k \in 1..u : k - 1 \in 0..(u - 1)
    BY <1>1
  <2>2. \A k \in 1..u : p.buf[QAdvance(p.tail, k - 1, size)] = q.buf[QAdvance(q.tail, k - 1, size)]
    BY <1>3, <1>9, <2>1
  <2> QED  BY <1>3, <2>2 DEF RingContents, u
<1> QED  BY <1>3, <1>7, <1>11, <1>12

\* u16_queue_dequeue_multi copies out what an advance by n then gives up.
LEMMA CopiedOut ==
    ASSUME NEW size, Fits(size), NEW q \in RingType(size),
           NEW n \in 0..(size - 1), n <= QUsed(q.head, q.tail, size)
    PROVE  CopyOut(q, q.tail, n, size) = SubSeq(RingContents(q, size), 1, n)
<1> DEFINE u == QUsed(q.head, q.tail, size)
           c == RingContents(q, size)
<1>1. /\ q.head \in 0..(size - 1) /\ q.tail \in 0..(size - 1) /\ u \in 0..(size - 1)
      /\ c \in Seq(Bytes) /\ Len(c) = u
      /\ \A k \in 1..u : c[k] = q.buf[QAdvance(q.tail, k - 1, size)]
  BY ContentsIs
<1>2. u \in Nat /\ n \in Nat /\ n <= u /\ size \in Nat
  BY <1>1 DEF Fits
<1> HIDE DEF u, c
<1>3. ASSUME NEW k \in 1..n PROVE q.buf[BlockSlot(q.tail, n, k - 1, size)] = c[k] /\ c[k] \in Bytes
  <2>1. k - 1 \in 0..(n - 1) /\ k \in 1..u
    BY <1>2, <1>3
  <2>2. BlockSlot(q.tail, n, k - 1, size) = QAdvance(q.tail, k - 1, size)
    BY <1>1, <2>1, SlotIs
  <2> QED  BY <1>1, <2>1, <2>2
<1>4. CopyOut(q, q.tail, n, size) = [k \in 1..n |-> c[k]]
  BY <1>3 DEF CopyOut
<1>5. SubSeq(c, 1, n) = [k \in 1..n |-> c[k]]
  BY <1>1, <1>2
<1> QED  BY <1>4, <1>5 DEF c

----------------------------------------------------------------------------
(* The inductive invariant.                                                *)

Kinds == {"none", "byte", "byteBlocking", "multi", "multiBlocking", "flush",
          "busy", "rxMulti"}
IsrPcs == {"idle", "rx", "rxPoll", "tx", "txPoll", "disarm"}

TxType ==
    /\ tx \in RingType(TxSize)
    /\ txFifo \in Seq(Bytes) /\ shift \in Seq(Bytes) /\ wire \in Seq(Bytes)
    /\ Len(txFifo) <= FifoDepth /\ Len(shift) <= 1
    /\ accepted \in Nat
RxType ==
    /\ rx \in RingType(RxSize)
    /\ rxFifo \in Seq(Bytes) /\ got \in Seq(Bytes)
    /\ Len(rxFifo) <= FifoDepth /\ arrived \in 0..MaxRx
FgType ==
    /\ fg \in [kind : Kinds, pc : FgPcs, left : 0..MaxTx, at : Nat,
               n : 0..(MaxTx + RxSize), ok : BOOLEAN]
    /\ accepted + fg.left <= MaxTx
IsrType ==
    /\ isr \in [pc : IsrPcs, rxne : BOOLEAN, txe : BOOLEAN, err : BOOLEAN]
    /\ txeie \in BOOLEAN /\ tc \in BOOLEAN /\ ore \in BOOLEAN /\ errors \in Nat

\* What a snapshot of the USART said still holds when the ISR acts on it.
IsrInv ==
    /\ isr.pc = "rx" /\ isr.rxne => rxFifo # << >>
    /\ isr.pc \in {"rx", "tx"} /\ isr.txe => Len(txFifo) < FifoDepth
    /\ isr.pc # "disarm" /\ isr.err => ore

\* The block a transmit call has in hand lies in free slots past the head.
TxBlockInv ==
    /\ fg.kind = "byteBlocking" => fg.left \in {0, 1} /\ (fg.left = 0 => fg.pc = "arm")
    /\ Multi /\ fg.pc \in {"copy", "publish"} =>
          /\ fg.at = tx.head /\ fg.n \in 1..fg.left
          /\ fg.n <= QFree(tx.head, tx.tail, TxSize)
    /\ Multi /\ fg.pc = "publish" =>
          \A j \in 0..(fg.n - 1) : tx.buf[QAdvance(tx.head, j, TxSize)] = accepted + j + 1

\* The block a receive call has in hand is the front of the ring's contents.
RxBlockInv ==
    fg.kind = "rxMulti" /\ fg.pc \in {"copy", "publish"} =>
        /\ fg.at = rx.tail /\ fg.n \in 1..RxPending
        /\ fg.pc = "publish" =>
              /\ fg.n <= Len(got)
              /\ got = SubSeq(got, 1, Len(got) - fg.n)
                          \o SubSeq(RingContents(rx, RxSize), 1, fg.n)

\* Every accepted byte is in one of the four places it passes through.
TxCount == accepted = Len(wire) + Len(shift) + Len(txFifo) + TxPending

\* TC up means nothing on its way in the USART; a call that relies on the ring
\* having been empty finds it still empty.
DrainInv ==
    /\ tc => shift = << >> /\ txFifo = << >>
    /\ fg.pc = "tcRead" \/ (fg.pc \in {"tcWait", "tcClear"} /\ fg.ok) => TxPending = 0
    /\ fg.pc = "tcClear" /\ fg.ok => shift = << >> /\ txFifo = << >>

\* Each count, and an overrun still to be counted, stands for a dropped byte.
ErrorInv == errors + (IF ore THEN 1 ELSE 0) <= Cardinality(lost)

IInv ==
    /\ TxType /\ RxType /\ FgType /\ IsrType
    /\ IsrInv /\ TxBlockInv /\ RxBlockInv /\ TxCount /\ DrainInv
    /\ ErrorInv /\ RxStream /\ LossLeavesTrace

----------------------------------------------------------------------------
(* The transmit side: what each step does to the bytes on their way.       *)

Pend == shift \o txFifo \o RingContents(tx, TxSize)

TxSame == UNCHANGED <<tx, txFifo, shift, wire, accepted>>

LEMMA Bounds ==
    /\ MaxTx \in Nat /\ MaxRx \in Nat /\ FifoDepth \in Nat /\ FifoDepth >= 1
    /\ TxSize \in Nat /\ RxSize \in Nat
  BY UartAssumption, IndexModAssumption

LEMMA TxFacts ==
    ASSUME SumsFit, TxType
    PROVE  /\ Fits(TxSize) /\ tx.head \in 0..(TxSize - 1) /\ tx.tail \in 0..(TxSize - 1)
           /\ RingContents(tx, TxSize) \in Seq(Bytes)
           /\ Len(RingContents(tx, TxSize)) = TxPending
           /\ TxPending \in 0..(TxSize - 1) /\ TxPending \in Nat
           /\ QFree(tx.head, tx.tail, TxSize) = TxSize - 1 - TxPending
           /\ QFree(tx.head, tx.tail, TxSize) \in 0..(TxSize - 1)
           /\ QEmpty(tx.head, tx.tail) <=> TxPending = 0
           /\ Len(shift) \in Nat /\ Len(txFifo) \in Nat /\ Len(wire) \in Nat
<1>1. Fits(TxSize) /\ tx \in RingType(TxSize)
  BY DEF SumsFit, TxType
<1>2. /\ tx.head \in 0..(TxSize - 1) /\ tx.tail \in 0..(TxSize - 1)
      /\ RingContents(tx, TxSize) \in Seq(Bytes)
      /\ Len(RingContents(tx, TxSize)) = TxPending /\ TxPending \in 0..(TxSize - 1)
  BY <1>1, ContentsIs DEF TxPending
<1>3. /\ QFree(tx.head, tx.tail, TxSize) = TxSize - 1 - TxPending
      /\ QFree(tx.head, tx.tail, TxSize) \in 0..(TxSize - 1)
      /\ tx.head = tx.tail <=> TxPending = 0
  BY <1>1, <1>2, UsedIs DEF TxPending
<1>4. Len(shift) \in Nat /\ Len(txFifo) \in Nat /\ Len(wire) \in Nat
  BY DEF TxType
<1>5. QEmpty(tx.head, tx.tail) <=> TxPending = 0
  BY <1>3 DEF QEmpty
<1> QED  BY <1>1, <1>2, <1>3, <1>4, <1>5

LEMMA SameTx ==
    ASSUME TxType, TxCount, TxSame
    PROVE  /\ TxType' /\ TxCount' /\ Pend' = Pend /\ wire' = wire
           /\ TxPending' = TxPending
  BY DEF TxType, TxCount, TxSame, Pend, TxPending

LEMMA LoadTx ==
    ASSUME SumsFit, TxType, TxCount, ShiftLoad
    PROVE  TxType' /\ TxCount' /\ Pend' = Pend /\ wire' = wire /\ TxPending' = TxPending
<1>1. /\ shift = << >> /\ txFifo # << >> /\ shift' = <<Head(txFifo)>> /\ txFifo' = Tail(txFifo)
      /\ tx' = tx /\ wire' = wire /\ accepted' = accepted
  BY DEF ShiftLoad, rxVars
<1>2. txFifo \in Seq(Bytes) /\ Len(txFifo) <= FifoDepth /\ Len(txFifo) \in Nat
  BY DEF TxType
<1>3. /\ Head(txFifo) \in Bytes /\ Tail(txFifo) \in Seq(Bytes)
      /\ Len(Tail(txFifo)) = Len(txFifo) - 1 /\ txFifo = <<Head(txFifo)>> \o Tail(txFifo)
      /\ <<Head(txFifo)>> \in Seq(Bytes) /\ Len(<<Head(txFifo)>>) = 1 /\ << >> \o txFifo = txFifo
      /\ Len(shift) = 0
  BY <1>1, <1>2
<1>4. TxType'
  <2>1. Len(Tail(txFifo)) <= FifoDepth
    BY <1>2, <1>3, Bounds
  <2> QED  BY <1>1, <1>3, <2>1 DEF TxType
<1>5. Pend' = Pend
  BY <1>1, <1>3 DEF Pend
<1>6. TxPending' = TxPending
  BY <1>1 DEF TxPending
<1>7. Len(shift') = 1 /\ Len(txFifo') = Len(txFifo) - 1
  BY <1>1, <1>3
<1>8. TxCount'
  <2>1. TxPending \in Nat /\ Len(wire) \in Nat
    BY TxFacts
  <2>2. accepted = Len(wire) + 0 + Len(txFifo) + TxPending
    BY <1>3 DEF TxCount
  <2>3. accepted' = Len(wire) + 1 + (Len(txFifo) - 1) + TxPending
    BY <1>1, <1>2, <2>1, <2>2
  <2> QED  BY <1>1, <1>6, <1>7, <2>3 DEF TxCount
<1> QED  BY <1>1, <1>4, <1>5, <1>6, <1>8

LEMMA DoneTx ==
    ASSUME SumsFit, TxType, TxCount, ShiftDone
    PROVE  /\ TxType' /\ TxCount' /\ Len(shift) = 1 /\ shift' = << >>
           /\ Pend = shift \o Pend' /\ wire' = wire \o shift /\ TxPending' = TxPending
<1>1. /\ shift # << >> /\ wire' = wire \o shift /\ shift' = << >>
      /\ tx' = tx /\ txFifo' = txFifo /\ accepted' = accepted
  BY DEF ShiftDone, rxVars
<1>2. shift \in Seq(Bytes) /\ wire \in Seq(Bytes) /\ txFifo \in Seq(Bytes) /\ Len(shift) = 1
  <2>1. shift \in Seq(Bytes) /\ Len(shift) <= 1
    BY DEF TxType
  <2>2. Len(shift) # 0 /\ Len(shift) \in Nat
    BY <1>1, <2>1
  <2>3. \A l \in Nat : l <= 1 /\ l # 0 => l = 1
    OBVIOUS
  <2>4. Len(shift) = 1
    BY <2>1, <2>2, <2>3
  <2> QED  BY <2>1, <2>4 DEF TxType
<1>3. /\ wire \o shift \in Seq(Bytes) /\ Len(wire \o shift) = Len(wire) + 1
  <2>1. wire \o shift \in Seq(Bytes) /\ Len(wire \o shift) = Len(wire) + Len(shift)
    BY <1>2, ConcatProperties
  <2> QED  BY <1>2, <2>1
<1>4. TxType'
  <2>1. << >> \in Seq(Bytes) /\ Len(<< >>) <= 1
    OBVIOUS
  <2> QED  BY <1>1, <1>3, <2>1 DEF TxType
<1>5. TxPending' = TxPending
  BY <1>1 DEF TxPending
<1>6. Pend = shift \o Pend'
  <2>1. RingContents(tx, TxSize) \in Seq(Bytes)
    BY TxFacts
  <2>2. (shift \o txFifo) \o RingContents(tx, TxSize) = shift \o (txFifo \o RingContents(tx, TxSize))
    BY <1>2, <2>1, Assoc, Zenon
  <2>3. << >> \o txFifo = txFifo
    BY <1>2
  <2>4. Pend' = txFifo \o RingContents(tx, TxSize)
    BY <1>1, <2>3 DEF Pend
  <2> QED  BY <2>2, <2>4 DEF Pend
<1>7. TxCount'
  <2>1. TxPending \in Nat /\ Len(wire) \in Nat /\ Len(txFifo) \in Nat
    BY TxFacts
  <2>2. accepted = Len(wire) + 1 + Len(txFifo) + TxPending
    BY <1>2 DEF TxCount
  <2>3. accepted' = (Len(wire) + 1) + 0 + Len(txFifo) + TxPending
    BY <1>1, <2>1, <2>2
  <2>4. Len(wire') = Len(wire) + 1 /\ Len(shift') = 0 /\ Len(txFifo') = Len(txFifo)
    BY <1>1, <1>3
  <2> QED  BY <1>5, <2>3, <2>4 DEF TxCount
<1> QED  BY <1>1, <1>2, <1>4, <1>5, <1>6, <1>7

LEMMA GiveTx ==
    ASSUME SumsFit, TxType, TxCount, IsrInv, IsrGiveByte
    PROVE  /\ TxType' /\ TxCount' /\ Pend' = Pend /\ wire' = wire
           /\ TxPending > 0 /\ TxPending' = TxPending - 1
           /\ tx'.head = tx.head /\ tx'.buf = tx.buf
           /\ QFree(tx.head, tx.tail, TxSize) <= QFree(tx'.head, tx'.tail, TxSize)
<1> DEFINE x == tx.buf[tx.tail]
           r == RingContents(tx, TxSize)
           p == RingContents(DequeueOne(tx, TxSize), TxSize)
<1>1. /\ ~QEmpty(tx.head, tx.tail) /\ txFifo' = Append(txFifo, x) /\ tx' = DequeueOne(tx, TxSize)
      /\ shift' = shift /\ wire' = wire /\ accepted' = accepted
      /\ isr.pc = "tx" /\ isr.txe
  BY DEF IsrGiveByte, rxVars
<1>2. /\ Fits(TxSize) /\ tx \in RingType(TxSize) /\ txFifo \in Seq(Bytes) /\ shift \in Seq(Bytes)
      /\ Len(txFifo) < FifoDepth
  BY <1>1, TxFacts DEF TxType, IsrInv
<1>3. DequeueOne(tx, TxSize) \in RingType(TxSize) /\ r = <<x>> \o p /\ x \in Bytes
  BY <1>1, <1>2, DequeuedOne
<1>4. p \in Seq(Bytes) /\ Len(p) = TxPending'
  BY <1>1, <1>2, <1>3, ContentsIs DEF TxPending
<1>5. r \in Seq(Bytes) /\ Len(r) = TxPending /\ TxPending \in Nat /\ Len(wire) \in Nat
      /\ Len(shift) \in Nat /\ Len(txFifo) \in Nat
  BY TxFacts
<1>6. /\ <<x>> \in Seq(Bytes) /\ Len(<<x>>) = 1 /\ Append(txFifo, x) = txFifo \o <<x>>
      /\ Append(txFifo, x) \in Seq(Bytes) /\ Len(Append(txFifo, x)) = Len(txFifo) + 1
  BY <1>2, <1>3
<1> HIDE DEF x, r, p
<1>7. Len(r) = 1 + Len(p) /\ Len(p) \in Nat
  BY <1>3, <1>4, <1>6, ConcatProperties
<1>8. TxPending > 0 /\ TxPending' = TxPending - 1
  BY <1>4, <1>5, <1>7
<1>9. TxType'
  <2>1. Len(Append(txFifo, x)) <= FifoDepth
    BY <1>2, <1>5, <1>6, Bounds
  <2> QED  BY <1>1, <1>3, <1>6, <2>1 DEF TxType, x
<1>10. Pend' = Pend
  <2>1. shift \o (txFifo \o <<x>>) = (shift \o txFifo) \o <<x>>
    BY <1>2, <1>6, Assoc, Zenon
  <2>2. shift \o txFifo \in Seq(Bytes)
    BY <1>2, ConcatProperties
  <2>3. ((shift \o txFifo) \o <<x>>) \o p = (shift \o txFifo) \o (<<x>> \o p)
    BY <1>4, <1>6, <2>2, Assoc, Zenon
  <2>4. Pend' = (shift \o (txFifo \o <<x>>)) \o p
    BY <1>1, <1>6 DEF Pend, p, x
  <2>5. Pend = (shift \o txFifo) \o r
    BY DEF Pend, r
  <2> QED  BY <1>3, <2>1, <2>3, <2>4, <2>5
<1>11. TxCount'
  <2>1. accepted = Len(wire) + Len(shift) + Len(txFifo) + TxPending
    BY DEF TxCount
  <2>2. accepted = Len(wire) + Len(shift) + (Len(txFifo) + 1) + (TxPending - 1)
    BY <1>5, <2>1
  <2>3. Len(txFifo') = Len(txFifo) + 1
    BY <1>1, <1>6 DEF x
  <2> QED  BY <1>1, <1>8, <2>2, <2>3 DEF TxCount
<1>12. tx'.head = tx.head /\ tx'.buf = tx.buf
  BY <1>1, <1>2 DEF DequeueOne, RingType
<1>13. QFree(tx.head, tx.tail, TxSize) <= QFree(tx'.head, tx'.tail, TxSize)
  <2>1. QFree(tx.head, tx.tail, TxSize) = TxSize - 1 - TxPending /\ TxSize \in Nat
    BY TxFacts, Bounds
  <2>2. QFree(tx'.head, tx'.tail, TxSize) = TxSize - 1 - (TxPending - 1)
    BY <1>8 DEF QFree, TxPending
  <2> QED  BY <1>5, <2>1, <2>2
<1> QED  BY <1>1, <1>8, <1>9, <1>10, <1>11, <1>12, <1>13

LEMMA StoreTx ==
    ASSUME SumsFit, TxType, TxCount, StoreByte, accepted + 1 <= MaxTx
    PROVE  /\ TxType' /\ TxCount' /\ wire' = wire
           /\ Pend' = Pend \o <<accepted + 1>> /\ TxPending + 1 <= TxSize - 1
<1> DEFINE x == accepted + 1
           r == RingContents(tx, TxSize)
           q == EnqueueOne(tx, x, TxSize)
<1>1. /\ ~QFull(tx.head, tx.tail, TxSize) /\ tx' = q /\ accepted' = accepted + 1
      /\ txFifo' = txFifo /\ shift' = shift /\ wire' = wire
  BY DEF StoreByte
<1>2. /\ Fits(TxSize) /\ tx \in RingType(TxSize) /\ txFifo \in Seq(Bytes) /\ shift \in Seq(Bytes)
      /\ accepted \in Nat
  BY TxFacts DEF TxType
<1>3. x \in Bytes /\ <<x>> \in Seq(Bytes) /\ Len(<<x>>) = 1
  <2>1. \A a, m, k \in Nat : a + 1 <= m => a + 1 \in 0..(m + k)
    OBVIOUS
  <2>2. x \in Bytes
    BY <1>2, <2>1, Bounds DEF Bytes
  <2> HIDE DEF x
  <2> QED  BY <2>2
<1>4. q \in RingType(TxSize) /\ RingContents(q, TxSize) = r \o <<x>>
  BY <1>1, <1>2, <1>3, EnqueuedOne
<1>5. r \in Seq(Bytes) /\ Len(r) = TxPending /\ TxPending \in Nat /\ Len(wire) \in Nat
      /\ Len(shift) \in Nat /\ Len(txFifo) \in Nat
  BY TxFacts
<1> HIDE DEF x, r, q
<1>6. TxType'
  <2>1. accepted + 1 \in Nat
    BY <1>2
  <2> QED  BY <1>1, <1>4, <2>1 DEF TxType
<1>7. RingContents(tx', TxSize) = r \o <<x>> /\ TxPending' = TxPending + 1
  <2>1. Len(r \o <<x>>) = TxPending + 1
    BY <1>3, <1>5, ConcatProperties
  <2>2. Len(RingContents(q, TxSize)) = QUsed(q.head, q.tail, TxSize)
    BY <1>2, <1>4, ContentsIs
  <2> QED  BY <1>1, <1>4, <2>1, <2>2 DEF TxPending
<1>8. Pend' = Pend \o <<x>>
  <2>1. shift \o txFifo \in Seq(Bytes)
    BY <1>2, ConcatProperties
  <2>2. ((shift \o txFifo) \o r) \o <<x>> = (shift \o txFifo) \o (r \o <<x>>)
    BY <1>3, <1>5, <2>1, Assoc, Zenon
  <2>3. Pend' = (shift \o txFifo) \o (r \o <<x>>)
    BY <1>1, <1>7 DEF Pend
  <2> QED  BY <2>2, <2>3 DEF Pend, r
<1>9. TxCount'
  <2>1. accepted = Len(wire) + Len(shift) + Len(txFifo) + TxPending
    BY DEF TxCount
  <2>2. accepted + 1 = Len(wire) + Len(shift) + Len(txFifo) + (TxPending + 1)
    BY <1>5, <2>1
  <2> QED  BY <1>1, <1>7, <2>2 DEF TxCount
<1>10. TxPending + 1 <= TxSize - 1
  <2>1. TxType' => TxPending' <= TxSize - 1
    <3>1. tx' \in RingType(TxSize)
      BY <1>1, <1>4
    <3>2. QUsed(tx'.head, tx'.tail, TxSize) \in 0..(TxSize - 1)
      BY <1>2, <3>1, ContentsIs
    <3> QED  BY <3>2, Bounds DEF TxPending
  <2> QED  BY <1>6, <1>7, <2>1
<1> QED  BY <1>1, <1>6, <1>8, <1>9, <1>10 DEF x

LEMMA CopyTx ==
    ASSUME SumsFit, TxType, FgType, TxCount, TxBlockInv, CopyMulti
    PROVE  /\ TxType' /\ TxCount' /\ Pend' = Pend /\ wire' = wire /\ TxPending' = TxPending
           /\ tx'.head = tx.head /\ tx'.tail = tx.tail
           /\ \A j \in 0..(fg.n - 1) : tx'.buf[QAdvance(tx.head, j, TxSize)] = accepted + j + 1
<1> DEFINE q == CopyIn(tx, tx.head, fg.n, accepted, TxSize)
<1>1. /\ Multi /\ fg.pc = "copy" /\ tx' = CopyIn(tx, fg.at, fg.n, accepted, TxSize)
      /\ txFifo' = txFifo /\ shift' = shift /\ wire' = wire /\ accepted' = accepted
  BY DEF CopyMulti
<1>2. /\ fg.at = tx.head /\ fg.n \in 1..fg.left /\ fg.n <= QFree(tx.head, tx.tail, TxSize)
  BY <1>1 DEF TxBlockInv
<1>3. /\ fg.left \in Nat /\ accepted \in Nat /\ accepted + fg.left <= MaxTx
  BY DEF FgType, TxType
<1>4. /\ Fits(TxSize) /\ tx \in RingType(TxSize) /\ TxSize \in Nat /\ TxPending \in Nat
      /\ QFree(tx.head, tx.tail, TxSize) = TxSize - 1 - TxPending
      /\ QFree(tx.head, tx.tail, TxSize) \in 0..(TxSize - 1)
  BY TxFacts, Bounds DEF TxType
<1>5. fg.n \in 0..(TxSize - 1) /\ accepted + fg.n <= MaxTx
  <2>1. fg.n \in Nat /\ fg.n <= fg.left
    BY <1>2, <1>3
  <2>2. \A a, n, l, m \in Nat : n <= l /\ a + l <= m => a + n <= m
    OBVIOUS
  <2>3. accepted + fg.n <= MaxTx
    BY <1>3, <2>1, <2>2, Bounds
  <2> QED  BY <1>2, <1>4, <2>1, <2>3
<1>6. /\ q \in RingType(TxSize) /\ RingContents(q, TxSize) = RingContents(tx, TxSize)
      /\ q.head = tx.head /\ q.tail = tx.tail
      /\ \A j \in 0..(fg.n - 1) : q.buf[QAdvance(tx.head, j, TxSize)] = accepted + j + 1
  BY <1>2, <1>3, <1>4, <1>5, Bounds, CopiedIn
<1>7. tx' = q
  BY <1>1, <1>2
<1> HIDE DEF q
<1>8. TxType' /\ Pend' = Pend /\ TxPending' = TxPending /\ TxCount'
  BY <1>1, <1>6, <1>7 DEF TxType, Pend, TxPending, TxCount
<1> QED  BY <1>1, <1>6, <1>7, <1>8

LEMMA PublishTx ==
    ASSUME SumsFit, TxType, FgType, TxCount, TxBlockInv, PublishMulti
    PROVE  /\ TxType' /\ TxCount' /\ wire' = wire /\ fg.n \in 1..fg.left
           /\ Pend' = Pend \o [k \in 1..fg.n |-> accepted + k] /\ TxPending + fg.n <= TxSize - 1
<1> DEFINE n == fg.n
           s == [k \in 1..n |-> accepted + k]
           r == RingContents(tx, TxSize)
           q == [tx EXCEPT !.head = QAdvance(tx.head, n, TxSize)]
<1>1. /\ Multi /\ fg.pc = "publish" /\ tx' = [tx EXCEPT !.head = QAdvance(fg.at, fg.n, TxSize)]
      /\ accepted' = accepted + n
      /\ txFifo' = txFifo /\ shift' = shift /\ wire' = wire
  BY DEF PublishMulti
<1>2. /\ fg.at = tx.head /\ n \in 1..fg.left /\ n <= QFree(tx.head, tx.tail, TxSize)
      /\ \A j \in 0..(n - 1) : tx.buf[QAdvance(tx.head, j, TxSize)] = accepted + j + 1
  BY <1>1 DEF TxBlockInv
<1>3. /\ fg.left \in Nat /\ accepted \in Nat /\ accepted + fg.left <= MaxTx
      /\ txFifo \in Seq(Bytes) /\ shift \in Seq(Bytes)
  BY DEF FgType, TxType
<1>4. /\ Fits(TxSize) /\ tx \in RingType(TxSize) /\ TxSize \in Nat /\ TxPending \in Nat
      /\ tx.head \in 0..(TxSize - 1)
      /\ QFree(tx.head, tx.tail, TxSize) = TxSize - 1 - TxPending
      /\ QFree(tx.head, tx.tail, TxSize) \in 0..(TxSize - 1)
      /\ r \in Seq(Bytes) /\ Len(r) = TxPending
      /\ Len(shift) \in Nat /\ Len(txFifo) \in Nat /\ Len(wire) \in Nat
  BY TxFacts, Bounds DEF TxType
<1> HIDE DEF n
<1>5. n \in Nat /\ n \in 0..(TxSize - 1) /\ TxPending + n <= TxSize - 1
  BY <1>2, <1>3, <1>4
<1>6. /\ s \in Seq(Bytes) /\ Len(s) = n /\ \A j \in 0..(n - 1) : s[j + 1] = accepted + j + 1
  <2>1. \A a, l, b, c, d, k \in Nat : d <= l /\ a + l <= b /\ k \in 1..d => a + k \in 0..(b + c)
    OBVIOUS
  <2>2. n <= fg.left
    BY <1>2, <1>3
  <2>3. \A k \in 1..n : accepted + k \in Bytes
    BY <1>3, <1>5, <2>1, <2>2, Bounds DEF Bytes
  <2>4. \A j \in 0..(n - 1) : j + 1 \in 1..n /\ accepted + (j + 1) = accepted + j + 1
    BY <1>3, <1>5
  <2> QED  BY <1>5, <2>3, <2>4
<1>7. tx' = q
  BY <1>1, <1>2 DEF n
<1>8. /\ q.head = QAdvance(tx.head, n, TxSize) /\ q.tail = tx.tail /\ q.buf = tx.buf
      /\ q \in RingType(TxSize)
  <2>1. QAdvance(tx.head, n, TxSize) \in 0..(TxSize - 1)
    BY <1>4, <1>5, AdvanceIs
  <2> QED  BY <1>4, <2>1 DEF RingType
<1> HIDE DEF q, s, r
<1>9. Published(q, tx, s, TxSize)
  BY <1>2, <1>5, <1>6, <1>8 DEF Published
<1>10. RingContents(q, TxSize) = r \o s
  BY <1>4, <1>8, <1>9, PublishedIn DEF r
<1>11. RingContents(tx', TxSize) = r \o s /\ TxPending' = TxPending + n
  <2>1. Len(r \o s) = TxPending + n
    BY <1>4, <1>6, ConcatProperties
  <2>2. Len(RingContents(q, TxSize)) = QUsed(q.head, q.tail, TxSize)
    BY <1>4, <1>8, ContentsIs
  <2> QED  BY <1>7, <1>10, <2>1, <2>2 DEF TxPending
<1>12. TxType'
  <2>1. accepted + n \in Nat
    BY <1>3, <1>5
  <2> QED  BY <1>1, <1>7, <1>8, <2>1 DEF TxType
<1>13. Pend' = Pend \o s
  <2>1. shift \o txFifo \in Seq(Bytes)
    BY <1>3, ConcatProperties
  <2> DEFINE a == shift \o txFifo
  <2>2. a \in Seq(Bytes) /\ r \in Seq(Bytes) /\ s \in Seq(Bytes)
    BY <1>4, <1>6, <2>1
  <2> HIDE DEF a
  <2>4. (a \o r) \o s = a \o (r \o s)
    BY <2>2, Assoc, Zenon
  <2>3. Pend' = (shift \o txFifo) \o (r \o s)
    BY <1>1, <1>11 DEF Pend
  <2> QED  BY <2>3, <2>4 DEF Pend, r, a
<1>14. TxCount'
  <2>1. accepted = Len(wire) + Len(shift) + Len(txFifo) + TxPending
    BY DEF TxCount
  <2>2. accepted + n = Len(wire) + Len(shift) + Len(txFifo) + (TxPending + n)
    BY <1>4, <1>5, <2>1
  <2> QED  BY <1>1, <1>11, <2>2 DEF TxCount
<1> QED  BY <1>1, <1>2, <1>5, <1>12, <1>13, <1>14 DEF n, s

----------------------------------------------------------------------------
(* The receive side: what each step does to the bytes that arrived.        *)

Elems(h) == {h[i] : i \in 1..Len(h)}
Ordered(h) == \A i, j \in 1..Len(h) : i < j => h[i] < h[j]
RxHeld == Handed \o RingContents(rx, RxSize) \o rxFifo

\* RxStream, of a sequence.
Accounted(h, dropped, n) ==
    Ordered(h) /\ Elems(h) \cup dropped = 1..n /\ Elems(h) \cap dropped = {}

LEMMA StreamIs == RxStream <=> Accounted(RxHeld, lost, arrived)
  BY DEF RxStream, Accounted, Ordered, Elems, RxHeld

\* A byte newer than all the others goes at the end.
LEMMA OneMore ==
    ASSUME NEW h \in Seq(Bytes), NEW dropped, NEW n \in Nat, n + 1 \in Bytes,
           Accounted(h, dropped, n)
    PROVE  Accounted(h \o <<n + 1>>, dropped, n + 1)
<1> DEFINE g == h \o <<n + 1>>
           l == Len(h)
<1>1. l \in Nat /\ \A i \in 1..l : h[i] \in 1..n
  BY DEF Accounted, Elems
<1>2. <<n + 1>> \in Seq(Bytes) /\ Len(<<n + 1>>) = 1 /\ <<n + 1>>[1] = n + 1
  OBVIOUS
<1>3. g \in Seq(Bytes) /\ Len(g) = l + 1 /\ \A i \in 1..(l + 1) : g[i] = IF i <= l THEN h[i] ELSE <<n + 1>>[i - l]
  BY <1>2, ConcatProperties
<1> HIDE DEF g, l
<1>4. g[l + 1] = n + 1 /\ \A i \in 1..l : g[i] = h[i]
  <2>1. l + 1 \in 1..(l + 1) /\ ~(l + 1 <= l) /\ (l + 1) - l = 1
    BY <1>1
  <2>2. \A i \in 1..l : i \in 1..(l + 1) /\ i <= l
    BY <1>1
  <2> QED  BY <1>2, <1>3, <2>1, <2>2
<1>5. Ordered(g)
  <2> SUFFICES ASSUME NEW i \in 1..(l + 1), NEW j \in 1..(l + 1), i < j PROVE g[i] < g[j]
    BY <1>3 DEF Ordered
  <2>1. i \in 1..l
    BY <1>1
  <2>2. CASE j = l + 1
    BY <1>1, <1>4, <2>1, <2>2
  <2>3. CASE j \in 1..l
    <3>1. h[i] < h[j]
      BY <2>1, <2>3 DEF Accounted, Ordered, l
    <3> QED  BY <1>4, <2>1, <2>3, <3>1
  <2>4. j = l + 1 \/ j \in 1..l
    BY <1>1
  <2> QED  BY <2>2, <2>3, <2>4
<1>6. Elems(g) = Elems(h) \cup {n + 1}
  <2>1. 1..(l + 1) = 1..l \cup {l + 1}
    BY <1>1
  <2>2. Elems(g) = {g[i] : i \in 1..l} \cup {g[l + 1]}
    BY <1>3, <2>1 DEF Elems
  <2> QED  BY <1>4, <2>2 DEF Elems, l
<1>7. Elems(h) \cup dropped = 1..n /\ Elems(h) \cap dropped = {}
  BY DEF Accounted
<1>8. 1..(n + 1) = 1..n \cup {n + 1} /\ n + 1 \notin 1..n
  OBVIOUS
<1>9. Elems(g) \cup dropped = 1..(n + 1) /\ Elems(g) \cap dropped = {}
  BY <1>6, <1>7, <1>8
<1> QED  BY <1>5, <1>9 DEF Accounted, g

\* A byte taken out of the middle is one that is accounted for as dropped.
LEMMA OneLess ==
    ASSUME NEW a \in Seq(Bytes), NEW x \in Bytes, NEW b \in Seq(Bytes), NEW dropped,
           NEW n \in Nat, Accounted(a \o (<<x>> \o b), dropped, n)
    PROVE  Accounted(a \o b, dropped \cup {x}, n) /\ x \notin dropped /\ x \in 1..n
<1> DEFINE h == a \o (<<x>> \o b)
           g == a \o b
           l == Len(a)
           m == Len(b)
           c == <<x>> \o b
<1>1. l \in Nat /\ m \in Nat
  OBVIOUS
<1>2. <<x>> \in Seq(Bytes) /\ Len(<<x>>) = 1 /\ <<x>>[1] = x
  OBVIOUS
<1>3. /\ c \in Seq(Bytes) /\ Len(c) = m + 1
      /\ c[1] = x /\ \A i \in 1..m : c[i + 1] = b[i]
  OBVIOUS
<1> HIDE DEF l, m, c
<1>4. /\ h \in Seq(Bytes) /\ Len(h) = l + (m + 1)
      /\ \A i \in 1..(l + (m + 1)) : h[i] = IF i <= l THEN a[i] ELSE c[i - l]
  <2>1. /\ a \o c \in Seq(Bytes) /\ Len(a \o c) = Len(a) + Len(c)
        /\ \A i \in 1..(Len(a) + Len(c)) : (a \o c)[i] = IF i <= Len(a) THEN a[i] ELSE c[i - Len(a)]
    BY <1>3, ConcatProperties
  <2>2. h = a \o c
    BY DEF c
  <2> HIDE DEF h
  <2> QED  BY <1>3, <2>1, <2>2 DEF l
<1>5. /\ g \in Seq(Bytes) /\ Len(g) = l + m
      /\ \A i \in 1..(l + m) : g[i] = IF i <= l THEN a[i] ELSE b[i - l]
  BY ConcatProperties DEF l, m
<1> DEFINE F(i) == IF i <= l THEN i ELSE i + 1
<1> HIDE DEF h, g
<1>6. h[l + 1] = x /\ l + 1 \in 1..Len(h)
  <2>1. l + 1 \in 1..(l + (m + 1)) /\ ~(l + 1 <= l) /\ (l + 1) - l = 1
    BY <1>1
  <2> QED  BY <1>3, <1>4, <2>1
<1>7. ASSUME NEW i \in 1..(l + m)
      PROVE  F(i) \in 1..Len(h) /\ F(i) # l + 1 /\ g[i] = h[F(i)]
  <2>1. CASE i <= l
    <3>1. i \in 1..(l + (m + 1)) /\ i # l + 1
      BY <1>1, <2>1
    <3> QED  BY <1>4, <1>5, <2>1, <3>1
  <2>2. CASE ~(i <= l)
    <3>1. /\ i + 1 \in 1..(l + (m + 1)) /\ i + 1 # l + 1 /\ ~(i + 1 <= l)
          /\ i - l \in 1..m /\ (i + 1) - l = (i - l) + 1
      BY <1>1, <1>7, <2>2
    <3>2. h[i + 1] = c[(i + 1) - l]
      BY <1>4, <3>1
    <3>4. c[(i - l) + 1] = b[i - l]
      BY <1>3, <3>1
    <3>3. h[i + 1] = b[i - l]
      BY <3>1, <3>2, <3>4
    <3> QED  BY <1>4, <1>5, <2>2, <3>1, <3>3
  <2> QED  BY <2>1, <2>2
<1>8. ASSUME NEW i \in 1..(l + m), NEW j \in 1..(l + m), i < j PROVE F(i) < F(j)
  <2>1. i \in Int /\ j \in Int /\ l \in Int
    BY <1>1
  <2> QED  BY <1>8, <2>1
<1>9. ASSUME NEW k \in 1..Len(h), k # l + 1 PROVE \E i \in 1..(l + m) : F(i) = k
  <2>1. k \in 1..(l + (m + 1))
    BY <1>4
  <2>2. CASE k <= l
    <3>1. k \in 1..(l + m)
      BY <1>1, <2>1, <2>2
    <3> QED  BY <2>2, <3>1
  <2>3. CASE ~(k <= l)
    <3>1. k - 1 \in 1..(l + m) /\ ~(k - 1 <= l) /\ (k - 1) + 1 = k
      BY <1>1, <1>9, <2>1, <2>3
    <3> QED  BY <3>1
  <2> QED  BY <2>2, <2>3
<1> HIDE DEF F
<1>10. Ordered(h) /\ Elems(h) \cup dropped = 1..n /\ Elems(h) \cap dropped = {}
  BY DEF Accounted, h
<1>11. Ordered(g)
  BY <1>5, <1>7, <1>8, <1>10 DEF Ordered
<1>12. ASSUME NEW k \in 1..Len(h), k # l + 1 PROVE h[k] # x
  <2>1. \A i \in 1..Len(h) : h[i] \in Nat
    BY <1>4, Bounds DEF Bytes
  <2>2. h[k] < h[l + 1] \/ h[l + 1] < h[k]
    <3>1. k < l + 1 \/ l + 1 < k
      BY <1>1, <1>4, <1>12
    <3> QED  BY <1>6, <1>10, <3>1 DEF Ordered
  <2> QED  BY <1>6, <2>1, <2>2
<1>13. Elems(g) = Elems(h) \ {x} /\ x \in Elems(h)
  <2>1. Elems(g) \subseteq Elems(h) \ {x}
    BY <1>5, <1>7, <1>12 DEF Elems
  <2>2. Elems(h) \ {x} \subseteq Elems(g)
    <3>1. ASSUME NEW k \in 1..Len(h), h[k] # x PROVE h[k] \in Elems(g)
      <4>1. PICK i \in 1..(l + m) : F(i) = k
        BY <1>6, <1>9, <3>1
      <4> QED  BY <1>5, <1>7, <4>1 DEF Elems
    <3> QED  BY <3>1 DEF Elems
  <2>3. x \in Elems(h)
    BY <1>6 DEF Elems
  <2> QED  BY <2>1, <2>2, <2>3
<1>14. /\ Elems(g) \cup (dropped \cup {x}) = 1..n /\ Elems(g) \cap (dropped \cup {x}) = {}
       /\ x \notin dropped /\ x \in 1..n
  BY <1>10, <1>13
<1> QED  BY <1>11, <1>14 DEF Accounted, g

LEMMA RxFacts ==
    ASSUME SumsFit, RxType
    PROVE  /\ Fits(RxSize) /\ rx \in RingType(RxSize)
           /\ rx.head \in 0..(RxSize - 1) /\ rx.tail \in 0..(RxSize - 1)
           /\ RingContents(rx, RxSize) \in Seq(Bytes)
           /\ Len(RingContents(rx, RxSize)) = RxPending
           /\ RxPending \in 0..(RxSize - 1) /\ RxPending \in Nat
           /\ rxFifo \in Seq(Bytes) /\ got \in Seq(Bytes)
<1>1. Fits(RxSize) /\ rx \in RingType(RxSize) /\ rxFifo \in Seq(Bytes) /\ got \in Seq(Bytes)
  BY DEF SumsFit, RxType
<1>2. /\ rx.head \in 0..(RxSize - 1) /\ rx.tail \in 0..(RxSize - 1)
      /\ RingContents(rx, RxSize) \in Seq(Bytes)
      /\ Len(RingContents(rx, RxSize)) = RxPending /\ RxPending \in 0..(RxSize - 1)
  BY <1>1, ContentsIs DEF RxPending
<1> QED  BY <1>1, <1>2

LEMMA HandedIs ==
    ASSUME RxType, RxBlockInv
    PROVE  /\ Handed \in Seq(Bytes)
           /\ ~(fg.kind = "rxMulti" /\ fg.pc = "publish") => Handed = got
           /\ fg.kind = "rxMulti" /\ fg.pc = "publish" => Handed = SubSeq(got, 1, Len(got) - fg.n)
<1>1. got \in Seq(Bytes)
  BY DEF RxType
<1>2. ASSUME fg.kind = "rxMulti" /\ fg.pc = "publish"
      PROVE  SubSeq(got, 1, Len(got) - fg.n) \in Seq(Bytes)
  <2>1. fg.n \in 1..RxPending /\ fg.n <= Len(got)
    BY <1>2 DEF RxBlockInv
  <2>2. fg.n \in Int /\ fg.n >= 1 /\ Len(got) \in Nat
    BY <1>1, <2>1
  <2>3. Len(got) - fg.n \in Int /\ Len(got) - fg.n <= Len(got) /\ 1 \in Int
    BY <2>2
  <2>4. \A i \in 1..(Len(got) - fg.n) : i \in 1..Len(got)
    BY <2>2
  <2>5. \A i \in 1..(Len(got) - fg.n) : got[i] \in Bytes
    BY <1>1, <2>4
  <2> QED  BY <2>3, <2>5, SubSeqProperties
<1> QED  BY <1>1, <1>2 DEF Handed

RxSame ==
    /\ UNCHANGED <<rx, rxFifo, got, arrived, lost>>
    /\ \/ UNCHANGED fg
       \/ /\ ~(fg.kind = "rxMulti" /\ fg.pc = "publish")
          /\ ~(fg.kind = "rxMulti" /\ fg.pc = "publish")'

LEMMA SameRx ==
    ASSUME RxType, RxStream, RxSame PROVE RxType' /\ RxStream'
<1>1. Handed' = Handed
  BY DEF RxSame, Handed
<1>2. RxHeld' = RxHeld /\ lost' = lost /\ arrived' = arrived
  BY <1>1 DEF RxSame, RxHeld
<1>3. RxStream'
  BY <1>2, StreamIs DEF RxStream, Accounted, Ordered, Elems, RxHeld
<1> QED  BY <1>3 DEF RxType, RxSame

\* RxHeld as three sequences in a row, either way round.
LEMMA HeldIs ==
    ASSUME SumsFit, RxType, RxBlockInv
    PROVE  /\ RxHeld = Handed \o (RingContents(rx, RxSize) \o rxFifo)
           /\ Handed \o RingContents(rx, RxSize) \in Seq(Bytes)
           /\ RxHeld \in Seq(Bytes)
<1>1. /\ Handed \in Seq(Bytes) /\ RingContents(rx, RxSize) \in Seq(Bytes) /\ rxFifo \in Seq(Bytes)
  BY RxFacts, HandedIs
<1> QED  BY <1>1, ConcatAssociative, ConcatProperties DEF RxHeld

LEMMA ArriveRx ==
    ASSUME SumsFit, RxType, RxBlockInv, RxStream, Arrive
    PROVE  /\ RxType' /\ RxStream' /\ RxBlockInv'
           /\ \/ UNCHANGED <<ore, lost, untold>>
              \/ /\ ore' = TRUE /\ arrived + 1 \notin lost
                 /\ lost' = lost \cup {arrived + 1} /\ untold' = untold \cup {arrived + 1}
<1>1. /\ arrived < MaxRx /\ arrived' = arrived + 1
      /\ rx' = rx /\ got' = got /\ fg' = fg
  BY DEF Arrive
<1>2. /\ arrived \in Nat /\ arrived + 1 \in 0..MaxRx /\ rxFifo \in Seq(Bytes)
      /\ Len(rxFifo) <= FifoDepth /\ Len(rxFifo) \in Nat
  BY <1>1, Bounds DEF RxType
<1>3. arrived + 1 \in Bytes
  <2>1. \A a, r, t \in Nat : a <= r => a \in 0..(t + r)
    OBVIOUS
  <2> QED  BY <1>2, <2>1, Bounds DEF Bytes
<1>4. Accounted(RxHeld, lost, arrived) /\ RxHeld \in Seq(Bytes)
  BY StreamIs, HeldIs
<1>5. Handed' = Handed /\ RingContents(rx', RxSize) = RingContents(rx, RxSize)
  BY <1>1 DEF Handed
<1>6. RxBlockInv'
  BY <1>1 DEF RxBlockInv, RxPending
<1>7. CASE Len(rxFifo) < FifoDepth
  <2>1. rxFifo' = Append(rxFifo, arrived + 1) /\ UNCHANGED <<ore, lost, untold>>
    BY <1>7 DEF Arrive
  <2>2. /\ Append(rxFifo, arrived + 1) = rxFifo \o <<arrived + 1>>
        /\ Append(rxFifo, arrived + 1) \in Seq(Bytes)
        /\ Len(Append(rxFifo, arrived + 1)) = Len(rxFifo) + 1
    BY <1>2, <1>3
  <2>3. RxHeld' = RxHeld \o <<arrived + 1>>
    <3> DEFINE a == Handed \o RingContents(rx, RxSize)
               s == <<arrived + 1>>
    <3>1. a \in Seq(Bytes) /\ s \in Seq(Bytes) /\ rxFifo \in Seq(Bytes)
      BY <1>2, <1>3, HeldIs
    <3> HIDE DEF a, s
    <3>2. (a \o rxFifo) \o s = a \o (rxFifo \o s)
      BY <3>1, Assoc, Zenon
    <3>3. RxHeld' = a \o (rxFifo \o s)
      BY <1>5, <2>1, <2>2 DEF RxHeld, a, s
    <3> QED  BY <3>2, <3>3 DEF RxHeld, a, s
  <2>4. Accounted(RxHeld', lost', arrived')
    BY <1>1, <1>2, <1>3, <1>4, <2>1, <2>3, OneMore
  <2>5. RxStream'
    BY <2>4 DEF RxStream, Accounted, Ordered, Elems, RxHeld
  <2>6. RxType'
    BY <1>1, <1>2, <1>7, <2>1, <2>2, Bounds DEF RxType
  <2> QED  BY <1>6, <2>1, <2>5, <2>6
<1>8. CASE ~(Len(rxFifo) < FifoDepth)
  <2>1. /\ rxFifo' = rxFifo /\ ore' = TRUE
        /\ lost' = lost \cup {arrived + 1} /\ untold' = untold \cup {arrived + 1}
    BY <1>8 DEF Arrive
  <2>2. RxHeld' = RxHeld
    BY <1>5, <2>1 DEF RxHeld
  <2> DEFINE n == arrived + 1
  <2>3. 1..n = 1..arrived \cup {n} /\ n \notin 1..arrived
    BY <1>2
  <2>4. Elems(RxHeld) \cup lost = 1..arrived /\ Elems(RxHeld) \cap lost = {} /\ Ordered(RxHeld)
    BY <1>4 DEF Accounted
  <2>5. Elems(RxHeld) \cup (lost \cup {n}) = 1..n /\ Elems(RxHeld) \cap (lost \cup {n}) = {}
        /\ n \notin lost
    BY <2>3, <2>4
  <2>6. Accounted(RxHeld', lost', arrived')
    BY <1>1, <2>1, <2>2, <2>4, <2>5 DEF Accounted
  <2>7. RxStream'
    BY <2>6 DEF RxStream, Accounted, Ordered, Elems, RxHeld
  <2>8. RxType'
    BY <1>1, <1>2, <2>1 DEF RxType
  <2> QED  BY <1>6, <2>1, <2>5, <2>7, <2>8
<1> QED  BY <1>7, <1>8

LEMMA TakeRx ==
    ASSUME SumsFit, RxType, RxBlockInv, RxStream, IsrInv, IsrTakeByte
    PROVE  /\ RxType' /\ RxStream' /\ RxBlockInv'
           /\ \/ UNCHANGED <<errors, lost, untold>>
              \/ /\ errors' = errors + 1
                 /\ \E x : x \notin lost /\ lost' = lost \cup {x} /\ untold' = untold \cup {x}
<1> DEFINE x == Head(rxFifo)
           b == Tail(rxFifo)
           r == RingContents(rx, RxSize)
           q == EnqueueOne(rx, x, RxSize)
<1>1. /\ isr.pc = "rx" /\ isr.rxne /\ rxFifo' = b
      /\ arrived' = arrived /\ got' = got /\ fg' = fg
  BY DEF IsrTakeByte, txVars
<1>2. /\ Fits(RxSize) /\ rx \in RingType(RxSize) /\ r \in Seq(Bytes) /\ Len(r) = RxPending
      /\ RxPending \in Nat /\ rxFifo \in Seq(Bytes) /\ Handed \in Seq(Bytes)
      /\ rxFifo # << >> /\ Len(rxFifo) <= FifoDepth /\ arrived \in Nat
  BY <1>1, RxFacts, HandedIs DEF IsrInv, RxType
<1>3. /\ x \in Bytes /\ b \in Seq(Bytes) /\ rxFifo = <<x>> \o b /\ Len(b) = Len(rxFifo) - 1
      /\ <<x>> \in Seq(Bytes) /\ Len(<<x>>) = 1
  BY <1>2
<1> HIDE DEF x, b, r, q
<1>4. Len(b) <= FifoDepth
  BY <1>2, <1>3, Bounds
<1>5. Handed' = Handed
  BY <1>1 DEF Handed
<1>6. Accounted(RxHeld, lost, arrived)
  BY StreamIs
<1>7. CASE QFull(rx.head, rx.tail, RxSize)
  <2>1. /\ errors' = errors + 1 /\ rx' = rx
        /\ lost' = lost \cup {x} /\ untold' = untold \cup {x}
    BY <1>7 DEF IsrTakeByte, x
  <2> DEFINE a == Handed \o r
  <2>2. a \in Seq(Bytes)
    BY <1>2, ConcatProperties
  <2>3. RxHeld = a \o (<<x>> \o b)
    BY <1>3 DEF RxHeld, r
  <2>4. RxHeld' = a \o b
    BY <1>1, <1>5, <2>1 DEF RxHeld, r
  <2> HIDE DEF a
  <2>5. Accounted(a \o b, lost \cup {x}, arrived) /\ x \notin lost
    BY <1>2, <1>3, <1>6, <2>2, <2>3, OneLess
  <2>6. RxStream'
    <3>1. Accounted(RxHeld', lost', arrived')
      BY <1>1, <2>1, <2>4, <2>5
    <3> QED  BY <3>1 DEF RxStream, Accounted, Ordered, Elems, RxHeld
  <2>7. RxType' /\ RxBlockInv'
    BY <1>1, <1>3, <1>4, <2>1 DEF RxType, RxBlockInv, RxPending
  <2> QED  BY <2>1, <2>5, <2>6, <2>7
<1>8. CASE ~QFull(rx.head, rx.tail, RxSize)
  <2>1. rx' = q /\ UNCHANGED <<errors, lost, untold>>
    BY <1>8 DEF IsrTakeByte, x, q
  <2>2. q \in RingType(RxSize) /\ RingContents(q, RxSize) = r \o <<x>>
    BY <1>2, <1>3, <1>8, EnqueuedOne DEF q, r
  <2>3. /\ r \o <<x>> \in Seq(Bytes) /\ Len(r \o <<x>>) = RxPending + 1
    BY <1>2, <1>3, ConcatProperties
  <2>4. RxPending' = RxPending + 1 /\ rx'.tail = rx.tail
    <3>1. Len(RingContents(q, RxSize)) = QUsed(q.head, q.tail, RxSize)
      BY <1>2, <2>2, ContentsIs
    <3> QED  BY <1>2, <2>1, <2>2, <2>3, <3>1 DEF RxPending, q, EnqueueOne, RingType
  <2>5. RxHeld' = RxHeld
    <3> DEFINE s == <<x>>
    <3>1. s \in Seq(Bytes) /\ s \o b \in Seq(Bytes) /\ r \o s \in Seq(Bytes)
      BY <1>3, <2>3
    <3> HIDE DEF s
    <3>2. (Handed \o (r \o s)) \o b = ((Handed \o r) \o s) \o b
      BY <1>2, <3>1, Assoc, Zenon
    <3>3. Handed \o r \in Seq(Bytes)
      BY <1>2, ConcatProperties
    <3>4. ((Handed \o r) \o s) \o b = (Handed \o r) \o (s \o b)
      BY <1>3, <3>1, <3>3, Assoc, Zenon
    <3>5. RxHeld' = (Handed \o (r \o s)) \o b
      BY <1>1, <1>5, <2>1, <2>2 DEF RxHeld, s
    <3> QED  BY <1>3, <3>2, <3>4, <3>5 DEF RxHeld, r, s
  <2>6. RxStream'
    <3>1. Accounted(RxHeld', lost', arrived')
      BY <1>1, <1>6, <2>1, <2>5
    <3> QED  BY <3>1 DEF RxStream, Accounted, Ordered, Elems, RxHeld
  <2>7. RxType'
    BY <1>1, <1>3, <1>4, <2>1, <2>2 DEF RxType
  <2>8. RxBlockInv'
    <3> SUFFICES ASSUME fg.kind = "rxMulti", fg.pc \in {"copy", "publish"}
                 PROVE  /\ fg.at = rx'.tail /\ fg.n \in 1..RxPending'
                        /\ fg.pc = "publish" =>
                              /\ fg.n <= Len(got)
                              /\ got = SubSeq(got, 1, Len(got) - fg.n)
                                          \o SubSeq(RingContents(rx', RxSize), 1, fg.n)
      BY <1>1 DEF RxBlockInv, RxPending
    <3>1. /\ fg.at = rx.tail /\ fg.n \in 1..RxPending
          /\ fg.pc = "publish" =>
                /\ fg.n <= Len(got)
                /\ got = SubSeq(got, 1, Len(got) - fg.n) \o SubSeq(r, 1, fg.n)
      BY DEF RxBlockInv, r
    <3>2. fg.n \in 1..RxPending'
      BY <1>2, <2>4, <3>1
    <3>3. SubSeq(r \o <<x>>, 1, fg.n) = SubSeq(r, 1, fg.n)
      <4>1. fg.n \in 1..Len(r) /\ 1 \in 1..Len(r)
        BY <1>2, <3>1
      <4> QED  BY <1>2, <1>3, <4>1, SubSeqOfConcat1
    <3> QED  BY <2>1, <2>2, <2>4, <3>1, <3>2, <3>3
  <2> QED  BY <2>1, <2>6, <2>7, <2>8
<1> QED  BY <1>7, <1>8

LEMMA ByteRx ==
    ASSUME SumsFit, RxType, RxBlockInv, RxStream, RxByte
    PROVE  RxType' /\ RxStream' /\ RxBlockInv'
<1> DEFINE x == rx.buf[rx.tail]
           s == <<x>>
           r == RingContents(rx, RxSize)
           p == RingContents(DequeueOne(rx, RxSize), RxSize)
<1>1. /\ fg.kind = "none" /\ fg.pc = "idle" /\ ~QEmpty(rx.head, rx.tail)
      /\ got' = Append(got, x) /\ rx' = DequeueOne(rx, RxSize)
      /\ rxFifo' = rxFifo /\ arrived' = arrived /\ lost' = lost /\ fg' = fg
  BY DEF RxByte, Fg
<1>2. /\ Fits(RxSize) /\ rx \in RingType(RxSize) /\ r \in Seq(Bytes) /\ got \in Seq(Bytes)
      /\ rxFifo \in Seq(Bytes)
  BY RxFacts
<1>3. DequeueOne(rx, RxSize) \in RingType(RxSize) /\ r = <<x>> \o p /\ x \in Bytes
  BY <1>1, <1>2, DequeuedOne
<1>4. p \in Seq(Bytes)
  BY <1>2, <1>3, ContentsIs
<1> HIDE DEF x, r, p
<1>5. /\ s \in Seq(Bytes) /\ Append(got, x) = got \o s /\ Append(got, x) \in Seq(Bytes)
      /\ got \o s \in Seq(Bytes)
  BY <1>2, <1>3
<1> HIDE DEF s
<1>6. Handed = got /\ Handed' = got'
  BY <1>1, HandedIs DEF Handed
<1>7. RxHeld' = RxHeld
  <2>1. (got \o s) \o p = got \o (s \o p)
    BY <1>2, <1>4, <1>5, Assoc, Zenon
  <2>2. RxHeld' = ((got \o s) \o p) \o rxFifo
    BY <1>1, <1>5, <1>6 DEF RxHeld, p
  <2>3. RxHeld = (got \o (s \o p)) \o rxFifo
    BY <1>3, <1>6 DEF RxHeld, r, s
  <2> QED  BY <2>1, <2>2, <2>3
<1>8. RxStream'
  <2>1. Accounted(RxHeld', lost', arrived')
    BY <1>1, <1>7, StreamIs
  <2> QED  BY <2>1 DEF RxStream, Accounted, Ordered, Elems, RxHeld
<1>9. RxType' /\ RxBlockInv'
  BY <1>1, <1>3, <1>5 DEF RxType, RxBlockInv
<1> QED  BY <1>8, <1>9

LEMMA CopyRx ==
    ASSUME SumsFit, RxType, RxBlockInv, RxStream, RxCopy, fg \in [kind : Kinds, pc : FgPcs,
           left : 0..MaxTx, at : Nat, n : 0..(MaxTx + RxSize), ok : BOOLEAN]
    PROVE  RxType' /\ RxStream' /\ RxBlockInv'
<1> DEFINE n == fg.n
           r == RingContents(rx, RxSize)
           s == SubSeq(r, 1, n)
<1>1. /\ fg.kind = "rxMulti" /\ fg.pc = "copy" /\ got' = got \o CopyOut(rx, fg.at, n, RxSize)
      /\ fg' = [fg EXCEPT !.pc = "publish"]
      /\ rx' = rx /\ rxFifo' = rxFifo /\ arrived' = arrived /\ lost' = lost
  BY DEF RxCopy, Fg, Goto
<1>2. fg.at = rx.tail /\ n \in 1..RxPending
  BY <1>1 DEF RxBlockInv
<1>3. /\ Fits(RxSize) /\ rx \in RingType(RxSize) /\ r \in Seq(Bytes) /\ Len(r) = RxPending
      /\ RxPending \in 0..(RxSize - 1) /\ RxPending \in Nat /\ RxSize \in Nat
      /\ got \in Seq(Bytes) /\ rxFifo \in Seq(Bytes)
  BY RxFacts, Bounds
<1>4. fg'.kind = "rxMulti" /\ fg'.pc = "publish" /\ fg'.n = n /\ fg'.at = fg.at
  BY <1>1
<1> HIDE DEF n, r
<1>5. n \in Nat /\ n \in 0..(RxSize - 1) /\ n <= RxPending /\ n >= 1
  BY <1>2, <1>3
<1>6. CopyOut(rx, fg.at, n, RxSize) = s
  BY <1>2, <1>3, <1>5, CopiedOut DEF RxPending, r
<1>7. s \in Seq(Bytes) /\ Len(s) = n
  BY <1>3, <1>5
<1> HIDE DEF s
<1>8. /\ got' = got \o s /\ got' \in Seq(Bytes) /\ Len(got') = Len(got) + n /\ Len(got) \in Nat
  <2>1. got \o s \in Seq(Bytes) /\ Len(got \o s) = Len(got) + Len(s)
    BY <1>3, <1>7, ConcatProperties
  <2>2. got' = got \o s
    BY <1>1, <1>6
  <2> QED  BY <1>3, <1>7, <2>1, <2>2
<1>9. SubSeq(got', 1, Len(got') - n) = got
  <2>1. Len(got') - n = Len(got)
    BY <1>5, <1>8
  <2>2. SubSeq(got \o s, 1, Len(got)) = got
    BY <1>3, <1>7
  <2> QED  BY <1>8, <2>1, <2>2
<1>10. Handed = got /\ Handed' = got
  <2>1. Handed = got
    BY <1>1, HandedIs
  <2> QED  BY <1>4, <1>9, <2>1 DEF Handed
<1>11. RxHeld' = RxHeld
  BY <1>1, <1>10 DEF RxHeld
<1>12. RxStream'
  <2>1. Accounted(RxHeld', lost', arrived')
    BY <1>1, <1>11, StreamIs
  <2> QED  BY <2>1 DEF RxStream, Accounted, Ordered, Elems, RxHeld
<1>13. RxBlockInv'
  <2>1. n <= Len(got')
    BY <1>5, <1>8
  <2>2. got' = SubSeq(got', 1, Len(got') - n) \o SubSeq(RingContents(rx', RxSize), 1, n)
    BY <1>1, <1>8, <1>9 DEF s, r
  <2>3. fg.at = rx'.tail /\ n \in 1..RxPending'
    BY <1>1, <1>2 DEF RxPending
  <2> QED  BY <1>4, <2>1, <2>2, <2>3 DEF RxBlockInv
<1>14. RxType'
  BY <1>1, <1>8 DEF RxType
<1> QED  BY <1>12, <1>13, <1>14

LEMMA PublishRx ==
    ASSUME SumsFit, RxType, RxBlockInv, RxStream, RxPublish
    PROVE  RxType' /\ RxStream' /\ RxBlockInv'
<1> DEFINE n == fg.n
           r == RingContents(rx, RxSize)
           h == Handed
           s == SubSeq(r, 1, n)
           t == SubSeq(r, n + 1, Len(r))
           p == [rx EXCEPT !.tail = QAdvance(fg.at, n, RxSize)]
<1>1. /\ fg.kind = "rxMulti" /\ fg.pc = "publish" /\ rx' = p /\ fg' = Idle
      /\ rxFifo' = rxFifo /\ arrived' = arrived /\ lost' = lost /\ got' = got
  BY DEF RxPublish, Fg, Return
<1>2. fg.at = rx.tail /\ n \in 1..RxPending /\ got = h \o s
  BY <1>1, HandedIs DEF RxBlockInv
<1>3. /\ Fits(RxSize) /\ rx \in RingType(RxSize) /\ r \in Seq(Bytes) /\ Len(r) = RxPending
      /\ RxPending \in 0..(RxSize - 1) /\ RxPending \in Nat /\ RxSize \in Nat
      /\ rx.tail \in 0..(RxSize - 1)
      /\ h \in Seq(Bytes) /\ rxFifo \in Seq(Bytes)
  BY RxFacts, HandedIs, Bounds
<1> HIDE DEF n, r, h, p
<1>4. n \in Nat /\ n \in 0..(RxSize - 1) /\ n <= RxPending /\ n >= 1
  BY <1>2, <1>3
<1>5. p.buf = rx.buf /\ p.head = rx.head /\ p.tail = QAdvance(rx.tail, n, RxSize) /\ p \in RingType(RxSize)
  <2>1. QAdvance(rx.tail, n, RxSize) \in 0..(RxSize - 1)
    BY <1>3, <1>4, AdvanceIs
  <2> QED  BY <1>2, <1>3, <2>1 DEF p, RingType
<1>6. RingContents(p, RxSize) = t
  <2>1. n <= QUsed(rx.head, rx.tail, RxSize)
    BY <1>4 DEF RxPending
  <2> QED  BY <1>3, <1>4, <1>5, <2>1, PublishedOut DEF r
<1>7. s \in Seq(Bytes) /\ t \in Seq(Bytes) /\ s \o t = r
  <2>1. 1 \in 1..(Len(r) + 1) /\ n \in (1 - 1)..Len(r) /\ Len(r) \in n..Len(r)
    BY <1>3, <1>4
  <2>2. SubSeq(r, 1, n) \o SubSeq(r, n + 1, Len(r)) = SubSeq(r, 1, Len(r))
    BY <1>3, <2>1, ConcatAdjacentSubSeq
  <2>3. SubSeq(r, 1, Len(r)) = r
    BY <1>3, SubSeqFull
  <2>4. s \in Seq(Bytes) /\ t \in Seq(Bytes)
    <3>1. (\A i \in 1..n : r[i] \in Bytes) /\ (\A i \in (n + 1)..Len(r) : r[i] \in Bytes)
      BY <1>3, <1>4
    <3>2. 1 \in Int /\ n \in Int /\ n + 1 \in Int /\ Len(r) \in Int
      BY <1>3, <1>4
    <3> QED  BY <3>1, <3>2, SubSeqProperties
  <2> QED  BY <2>2, <2>3, <2>4
<1> HIDE DEF s, t
<1>8. Handed' = h \o s
  BY <1>1, <1>2 DEF Handed, Idle
<1>9. RxHeld' = RxHeld
  <2>1. (h \o s) \o t = h \o r
    <3>0. h \in Seq(Bytes) /\ s \in Seq(Bytes) /\ t \in Seq(Bytes)
      BY <1>3, <1>7
    <3>1. (h \o s) \o t = h \o (s \o t)
      BY <3>0, Assoc, Zenon
    <3> QED  BY <1>7, <3>1
  <2>2. RxHeld' = ((h \o s) \o t) \o rxFifo
    BY <1>1, <1>6, <1>8 DEF RxHeld
  <2> QED  BY <2>1, <2>2 DEF RxHeld, h, r
<1>10. RxStream'
  <2>1. Accounted(RxHeld', lost', arrived')
    BY <1>1, <1>9, StreamIs
  <2> QED  BY <2>1 DEF RxStream, Accounted, Ordered, Elems, RxHeld
<1>11. RxType' /\ RxBlockInv'
  BY <1>1, <1>5 DEF RxType, RxBlockInv, Idle
<1> QED  BY <1>10, <1>11

----------------------------------------------------------------------------
(* The calls and the interrupt service keep their shape.                   *)

FgRecord == [kind : Kinds, pc : FgPcs, left : 0..MaxTx, at : Nat,
             n : 0..(MaxTx + RxSize), ok : BOOLEAN]

LEMMA OneField ==
    ASSUME NEW r \in FgRecord
    PROVE  /\ \A v \in Kinds : LET s == [r EXCEPT !.kind = v] IN
                 /\ s \in FgRecord /\ s.kind = v /\ s.pc = r.pc /\ s.left = r.left
                 /\ s.at = r.at /\ s.n = r.n /\ s.ok = r.ok
           /\ \A v \in FgPcs : LET s == [r EXCEPT !.pc = v] IN
                 /\ s \in FgRecord /\ s.kind = r.kind /\ s.pc = v /\ s.left = r.left
                 /\ s.at = r.at /\ s.n = r.n /\ s.ok = r.ok
           /\ \A v \in 0..MaxTx : LET s == [r EXCEPT !.left = v] IN
                 /\ s \in FgRecord /\ s.kind = r.kind /\ s.pc = r.pc /\ s.left = v
                 /\ s.at = r.at /\ s.n = r.n /\ s.ok = r.ok
           /\ \A v \in Nat : LET s == [r EXCEPT !.at = v] IN
                 /\ s \in FgRecord /\ s.kind = r.kind /\ s.pc = r.pc /\ s.left = r.left
                 /\ s.at = v /\ s.n = r.n /\ s.ok = r.ok
           /\ \A v \in 0..(MaxTx + RxSize) : LET s == [r EXCEPT !.n = v] IN
                 /\ s \in FgRecord /\ s.kind = r.kind /\ s.pc = r.pc /\ s.left = r.left
                 /\ s.at = r.at /\ s.n = v /\ s.ok = r.ok
  BY DEF FgRecord

LEMMA Zeroes == 0 \in 0..MaxTx /\ 0 \in 0..(MaxTx + RxSize) /\ 0 \in Nat
  BY Bounds

LEMMA IdleIs ==
    /\ Idle \in FgRecord /\ Idle.kind = "none" /\ Idle.pc = "idle"
    /\ Idle.left = 0 /\ Idle.at = 0 /\ Idle.n = 0 /\ Idle.ok = TRUE
  BY Zeroes DEF Idle, FgRecord, Kinds, FgPcs

LEMMA Names ==
    /\ "none" \in Kinds /\ "byte" \in Kinds /\ "byteBlocking" \in Kinds
    /\ "multi" \in Kinds /\ "multiBlocking" \in Kinds /\ "flush" \in Kinds
    /\ "busy" \in Kinds /\ "rxMulti" \in Kinds
    /\ "idle" \in FgPcs /\ "try" \in FgPcs /\ "copy" \in FgPcs
    /\ "publish" \in FgPcs /\ "arm" \in FgPcs /\ "again" \in FgPcs
    /\ "drain" \in FgPcs /\ "tcWait" \in FgPcs /\ "tcClear" \in FgPcs
    /\ "tcRead" \in FgPcs
  BY DEF Kinds, FgPcs

LEMMA CallIs ==
    ASSUME NEW kind \in Kinds, NEW pc \in FgPcs, NEW left \in 0..MaxTx
    PROVE  /\ Call(kind, pc, left) \in FgRecord
           /\ Call(kind, pc, left).kind = kind /\ Call(kind, pc, left).pc = pc
           /\ Call(kind, pc, left).left = left /\ Call(kind, pc, left).n = 0
           /\ Call(kind, pc, left).ok = TRUE
<1> DEFINE a == [Idle EXCEPT !.kind = kind]
           b == [a EXCEPT !.pc = pc]
           c == [b EXCEPT !.left = left]
<1>1. Call(kind, pc, left) = c
  BY DEF Call
<1>2. a \in FgRecord /\ a.kind = kind /\ a.n = 0 /\ a.ok = TRUE
  BY IdleIs, OneField
<1> HIDE DEF a
<1>3. b \in FgRecord /\ b.kind = kind /\ b.pc = pc /\ b.n = 0 /\ b.ok = TRUE
  BY <1>2, OneField
<1> HIDE DEF b
<1>4. /\ c \in FgRecord /\ c.kind = kind /\ c.pc = pc /\ c.left = left
      /\ c.n = 0 /\ c.ok = TRUE
  BY <1>3, OneField
<1> QED  BY <1>1, <1>4

\* The calls that offer nothing, and the one that offers one byte.
LEMMA CallOffers ==
    ASSUME NEW kind \in Kinds, NEW pc \in FgPcs
    PROVE  /\ Call(kind, pc, 0) \in FgRecord /\ Call(kind, pc, 0).kind = kind
           /\ Call(kind, pc, 0).pc = pc /\ Call(kind, pc, 0).left = 0
           /\ Call(kind, pc, 0).n = 0 /\ Call(kind, pc, 0).ok = TRUE
<1>1. PICK l \in 0..MaxTx : l = 0
  BY Zeroes
<1>2. /\ Call(kind, pc, l) \in FgRecord
      /\ Call(kind, pc, l).kind = kind /\ Call(kind, pc, l).pc = pc
      /\ Call(kind, pc, l).left = l /\ Call(kind, pc, l).n = 0
      /\ Call(kind, pc, l).ok = TRUE
  BY CallIs
<1> QED  BY <1>1, <1>2

LEMMA CallOffersOne ==
    ASSUME NEW kind \in Kinds, NEW pc \in FgPcs, 1 \in 0..MaxTx
    PROVE  /\ Call(kind, pc, 1) \in FgRecord /\ Call(kind, pc, 1).kind = kind
           /\ Call(kind, pc, 1).pc = pc /\ Call(kind, pc, 1).left = 1
<1>1. PICK l \in 0..MaxTx : l = 1
  OBVIOUS
<1>2. /\ Call(kind, pc, l) \in FgRecord
      /\ Call(kind, pc, l).kind = kind /\ Call(kind, pc, l).pc = pc
      /\ Call(kind, pc, l).left = l /\ Call(kind, pc, l).n = 0
      /\ Call(kind, pc, l).ok = TRUE
  BY CallIs
<1> QED  BY <1>1, <1>2

\* How a call takes a block in hand, and gives it up.
Taken(r, at, n) == [[r EXCEPT !.at = at] EXCEPT !.n = n]
Started(r, pc, at, n) == Taken([r EXCEPT !.pc = pc], at, n)
Went(r, pc, left) == [[r EXCEPT !.pc = pc] EXCEPT !.left = left]
GivenUp(r, pc, left) == Taken(Went(r, pc, left), 0, 0)

LEMMA TakenIs ==
    ASSUME NEW r \in FgRecord, NEW at \in Nat, NEW n \in 0..(MaxTx + RxSize)
    PROVE  /\ Taken(r, at, n) \in FgRecord /\ Taken(r, at, n).kind = r.kind
           /\ Taken(r, at, n).pc = r.pc /\ Taken(r, at, n).left = r.left
           /\ Taken(r, at, n).at = at /\ Taken(r, at, n).n = n /\ Taken(r, at, n).ok = r.ok
<1> DEFINE g == [r EXCEPT !.at = at]
           h == [g EXCEPT !.n = n]
<1>1. /\ g \in FgRecord /\ g.kind = r.kind /\ g.pc = r.pc /\ g.left = r.left /\ g.at = at
      /\ g.ok = r.ok
  BY OneField
<1> HIDE DEF g
<1>2. /\ h \in FgRecord /\ h.kind = r.kind /\ h.pc = r.pc /\ h.left = r.left /\ h.at = at
      /\ h.n = n /\ h.ok = r.ok
  BY <1>1, OneField
<1>3. Taken(r, at, n) = h
  BY DEF Taken, g
<1> HIDE DEF h
<1> QED  BY <1>2, <1>3

LEMMA StartedIs ==
    ASSUME NEW r \in FgRecord, NEW pc \in FgPcs, NEW at \in Nat, NEW n \in 0..(MaxTx + RxSize)
    PROVE  /\ Started(r, pc, at, n) \in FgRecord /\ Started(r, pc, at, n).kind = r.kind
           /\ Started(r, pc, at, n).pc = pc /\ Started(r, pc, at, n).left = r.left
           /\ Started(r, pc, at, n).at = at /\ Started(r, pc, at, n).n = n
           /\ Started(r, pc, at, n).ok = r.ok
<1> DEFINE a == [r EXCEPT !.pc = pc]
<1>1. a \in FgRecord /\ a.kind = r.kind /\ a.pc = pc /\ a.left = r.left /\ a.ok = r.ok
  BY OneField
<1>2. Started(r, pc, at, n) = Taken(a, at, n)
  BY DEF Started
<1> HIDE DEF a
<1> QED  BY <1>1, <1>2, TakenIs

LEMMA WentIs ==
    ASSUME NEW r \in FgRecord, NEW pc \in FgPcs, NEW left \in 0..MaxTx
    PROVE  /\ Went(r, pc, left) \in FgRecord /\ Went(r, pc, left).kind = r.kind
           /\ Went(r, pc, left).pc = pc /\ Went(r, pc, left).left = left
           /\ Went(r, pc, left).ok = r.ok
<1> DEFINE a == [r EXCEPT !.pc = pc]
           b == [a EXCEPT !.left = left]
<1>1. a \in FgRecord /\ a.kind = r.kind /\ a.pc = pc /\ a.ok = r.ok
  BY OneField
<1> HIDE DEF a
<1>2. b \in FgRecord /\ b.kind = r.kind /\ b.pc = pc /\ b.left = left /\ b.ok = r.ok
  BY <1>1, OneField
<1>3. Went(r, pc, left) = b
  BY DEF Went, a
<1> HIDE DEF b
<1> QED  BY <1>2, <1>3

LEMMA GivenUpIs ==
    ASSUME NEW r \in FgRecord, NEW pc \in FgPcs, NEW left \in 0..MaxTx
    PROVE  /\ GivenUp(r, pc, left) \in FgRecord /\ GivenUp(r, pc, left).kind = r.kind
           /\ GivenUp(r, pc, left).pc = pc /\ GivenUp(r, pc, left).left = left
           /\ GivenUp(r, pc, left).ok = r.ok
<1>1. /\ Went(r, pc, left) \in FgRecord /\ Went(r, pc, left).kind = r.kind
      /\ Went(r, pc, left).pc = pc /\ Went(r, pc, left).left = left /\ Went(r, pc, left).ok = r.ok
  BY WentIs
<1> QED  BY <1>1, TakenIs, Zeroes DEF GivenUp

LEMMA GotoIs ==
    ASSUME fg \in FgRecord, NEW pc \in FgPcs, Goto(pc)
    PROVE  /\ fg' \in FgRecord /\ fg'.kind = fg.kind /\ fg'.pc = pc /\ fg'.left = fg.left
           /\ fg'.at = fg.at /\ fg'.n = fg.n /\ fg'.ok = fg.ok
  BY OneField DEF Goto

\* A block call starts with what it was asked to send.
LEMMA TxMultiIs ==
    ASSUME NEW len \in 1..MaxTx, TxMulti(len)
    PROVE  /\ fg.kind = "none" /\ accepted' = accepted /\ accepted + len <= MaxTx
           /\ fg' \in FgRecord /\ fg'.kind \in {"multi", "multiBlocking"}
           /\ fg'.pc = "try" /\ fg'.left = len
<1>1. /\ fg.kind = "none" /\ accepted' = accepted /\ accepted + len <= MaxTx
      /\ \E kind \in {"multi", "multiBlocking"} : fg' = Call(kind, "try", len)
  BY DEF TxMulti, txVars, Fg, Offers
<1>2. PICK k \in {"multi", "multiBlocking"} : fg' = Call(k, "try", len)
  BY <1>1
<1>3. len \in 0..MaxTx
  BY Bounds
<1>4. k \in Kinds /\ "try" \in FgPcs
  BY Names
<1>5. /\ Call(k, "try", len) \in FgRecord
      /\ Call(k, "try", len).kind = k /\ Call(k, "try", len).pc = "try"
      /\ Call(k, "try", len).left = len /\ Call(k, "try", len).n = 0
      /\ Call(k, "try", len).ok = TRUE
  BY <1>3, <1>4, CallIs
<1> QED  BY <1>1, <1>2, <1>5

LEMMA CallStepType ==
    ASSUME SumsFit, IInv, FgCall PROVE FgType'
<1>1. /\ fg \in FgRecord /\ accepted \in Nat /\ accepted + fg.left <= MaxTx /\ MaxTx \in Nat
      /\ RxSize \in Nat /\ TxSize \in Nat
  BY Bounds DEF IInv, FgType, TxType, FgRecord
<1>2. CASE UNCHANGED fg /\ UNCHANGED accepted
  BY <1>1, <1>2 DEF FgType, FgRecord
<1>3. CASE TxByte
  <2>1. fg' = Call("byte", "arm", 0) /\ accepted' = accepted + 1 /\ accepted + 1 <= MaxTx
    BY <1>3 DEF TxByte, StoreByte, Offers
  <2>3. "byte" \in Kinds /\ "arm" \in FgPcs /\ 0 \in 0..MaxTx
    BY Zeroes, Names
  <2>2. fg' \in FgRecord /\ fg'.left = 0
    BY <2>1, <2>3, CallOffers
  <2> QED  BY <1>1, <2>1, <2>2 DEF FgType, FgRecord
<1>4. CASE TxByteBlocking
  <2>1. fg' = Call("byteBlocking", "try", 1) /\ accepted' = accepted /\ accepted + 1 <= MaxTx
    BY <1>4 DEF TxByteBlocking, txVars, Offers
  <2>2. 1 \in 0..MaxTx
    BY <1>1, <2>1
  <2>4. "byteBlocking" \in Kinds /\ "try" \in FgPcs
    BY Names
  <2>3. fg' \in FgRecord /\ fg'.left = 1
    BY <2>1, <2>2, <2>4, CallOffersOne
  <2> QED  BY <1>1, <2>1, <2>3 DEF FgType, FgRecord
<1>5. ASSUME NEW len \in 1..MaxTx, TxMulti(len) PROVE FgType'
  <2>1. accepted' = accepted /\ accepted + len <= MaxTx /\ fg' \in FgRecord /\ fg'.left = len
    BY <1>5, TxMultiIs
  <2> QED  BY <1>1, <2>1 DEF FgType, FgRecord
<1>6. CASE Flush \/ IsTxBusy
  <2>1. accepted' = accepted /\ (fg' = fg \/ \E kind \in Kinds, pc \in FgPcs : fg' = Call(kind, pc, 0))
    BY <1>6 DEF Flush, IsTxBusy, txVars, Kinds, FgPcs
  <2>2. ASSUME NEW kind \in Kinds, NEW pc \in FgPcs, fg' = Call(kind, pc, 0)
        PROVE  fg' \in FgRecord /\ fg'.left = 0
    BY <2>2, CallOffers
  <2> QED  BY <1>1, <1>2, <2>1, <2>2 DEF FgType, FgRecord
<1>7. ASSUME NEW len \in 1..RxSize, RxMulti(len) PROVE FgType'
  <2> DEFINE n == Clip(len, RxPending)
  <2>1. /\ accepted' = accepted
        /\ fg' = [Call("rxMulti", "copy", 0) EXCEPT !.at = rx.tail, !.n = n]
    BY <1>7 DEF RxMulti, txVars
  <2>2. n \in 0..RxSize /\ rx.tail \in Nat
    BY <1>1, RxFacts DEF IInv, Clip
  <2> HIDE DEF n
  <2> DEFINE r == Call("rxMulti", "copy", 0)
  <2>6. "rxMulti" \in Kinds /\ "copy" \in FgPcs /\ 0 \in 0..MaxTx
    BY Zeroes, Names
  <2>3. r \in FgRecord /\ r.left = 0
    BY <2>6, CallOffers
  <2> HIDE DEF r
  <2>4. n \in 0..(MaxTx + RxSize) /\ fg' = Taken(r, rx.tail, n)
    BY <1>1, <2>1, <2>2 DEF r, Taken
  <2>5. fg' \in FgRecord /\ fg'.left = 0
    BY <2>2, <2>3, <2>4, TakenIs
  <2> QED  BY <1>1, <2>1, <2>5 DEF FgType, FgRecord
<1>8. CASE RxByte \/ ClearErrorCount
  BY <1>2, <1>8 DEF RxByte, ClearErrorCount, txVars
<1> QED  BY <1>3, <1>4, <1>5, <1>6, <1>7, <1>8 DEF FgCall

\* A step of a call in progress: where it goes, and what it leaves to offer.
LEMMA ContinueStepType ==
    ASSUME SumsFit, IInv, FgContinue PROVE FgType'
<1>1. /\ fg \in FgRecord /\ accepted \in Nat /\ accepted + fg.left <= MaxTx /\ MaxTx \in Nat
      /\ RxSize \in Nat /\ TxSize \in Nat /\ fg.left \in Nat
  BY Bounds DEF IInv, FgType, TxType, FgRecord
<1>2. ASSUME fg' \in FgRecord, accepted' = accepted, fg'.left = fg.left \/ fg'.left = 0
      PROVE  FgType'
  BY <1>1, <1>2 DEF FgType, FgRecord
<1>3. ASSUME NEW pc \in FgPcs, NEW b \in BOOLEAN, fg' = [fg EXCEPT !.pc = pc, !.ok = b]
      PROVE  fg' \in FgRecord /\ fg'.left = fg.left
  BY <1>1, <1>3 DEF FgRecord
<1>4. ASSUME NEW pc \in FgPcs, Goto(pc) PROVE fg' \in FgRecord /\ fg'.left = fg.left
  BY <1>1, <1>4, GotoIs
<1>5. Return => fg' \in FgRecord /\ fg'.left = 0
  BY IdleIs DEF Return
<1>6. CASE TryByte
  <2>1. CASE StoreByte /\ fg' = [fg EXCEPT !.pc = "arm", !.left = 0]
    <3>1. fg.left = 1
      BY <1>6 DEF TryByte, Fg, IInv, TxBlockInv
    <3>2. accepted' = accepted + 1 /\ accepted + 1 <= MaxTx
      BY <1>1, <2>1, <3>1 DEF StoreByte
    <3>3. fg' \in FgRecord /\ fg'.left = 0
      <4>1. fg' = Went(fg, "arm", 0)
        BY <2>1 DEF Went
      <4>2. "arm" \in FgPcs /\ 0 \in 0..MaxTx
        BY Zeroes, Names
      <4> QED  BY <1>1, <4>1, <4>2, WentIs
    <3> QED  BY <1>1, <3>2, <3>3 DEF FgType, FgRecord
  <2>2. CASE Goto("arm") /\ UNCHANGED accepted
    BY <1>2, <1>4, <2>2 DEF FgPcs
  <2> QED  BY <1>6, <2>1, <2>2 DEF TryByte, txVars
<1>7. CASE TryMulti
  <2> DEFINE n == Clip(fg.left, QFree(tx.head, tx.tail, TxSize))
  <2>1. /\ accepted' = accepted
        /\ fg' = IF n > 0 THEN [fg EXCEPT !.pc = "copy", !.at = tx.head, !.n = n]
                 ELSE IF fg.kind = "multi" THEN Idle ELSE [fg EXCEPT !.pc = "arm"]
    BY <1>7 DEF TryMulti, txVars
  <2>2. n \in 0..MaxTx /\ tx.head \in Nat
    <3>1. QFree(tx.head, tx.tail, TxSize) \in Nat /\ tx.head \in Nat
      BY <1>1, TxFacts DEF IInv
    <3>2. fg.left <= MaxTx
      BY <1>1 DEF FgRecord
    <3> QED  BY <1>1, <3>1, <3>2 DEF Clip
  <2> HIDE DEF n
  <2>3. n \in 0..(MaxTx + RxSize)
    BY <1>1, <2>2
  <2>4. fg' \in FgRecord /\ (fg'.left = fg.left \/ fg'.left = 0)
    <3>1. "arm" \in FgPcs /\ "copy" \in FgPcs
      BY DEF FgPcs
    <3>2. CASE fg' = Idle
      BY <3>2, IdleIs
    <3>3. CASE fg' = [fg EXCEPT !.pc = "arm"]
      BY <1>4, <3>1, <3>3 DEF Goto
    <3>4. CASE fg' = [fg EXCEPT !.pc = "copy", !.at = tx.head, !.n = n]
      <4>1. fg' = Started(fg, "copy", tx.head, n)
        BY <3>4 DEF Started, Taken
      <4> DEFINE h == tx.head
      <4>3. h \in Nat /\ fg' = Started(fg, "copy", h, n) /\ "copy" \in FgPcs
        BY <2>2, <3>1, <4>1
      <4> HIDE DEF h
      <4>4. fg \in FgRecord /\ h \in Nat /\ n \in 0..(MaxTx + RxSize) /\ "copy" \in FgPcs
        BY <1>1, <2>3, <4>3
      <4>5. Started(fg, "copy", h, n) \in FgRecord /\ Started(fg, "copy", h, n).left = fg.left
        BY <4>4, StartedIs
      <4>2. fg' \in FgRecord /\ fg'.left = fg.left
        BY <4>3, <4>5
      <4> QED  BY <4>2
    <3> QED  BY <2>1, <3>2, <3>3, <3>4
  <2> QED  BY <1>2, <2>1, <2>4
<1>8. CASE PublishMulti
  <2>1. /\ accepted' = accepted + fg.n
        /\ fg' = [fg EXCEPT !.pc = "arm", !.left = @ - fg.n, !.at = 0, !.n = 0]
    BY <1>8 DEF PublishMulti
  <2>2. fg.n \in 1..fg.left
    BY <1>8 DEF PublishMulti, IInv, TxBlockInv
  <2> DEFINE m == fg.left - fg.n
  <2>3. m \in 0..MaxTx /\ (accepted + fg.n) + m <= MaxTx
    BY <1>1, <2>2
  <2> HIDE DEF m
  <2>4. fg' \in FgRecord /\ fg'.left = m
    <3>1. fg' = GivenUp(fg, "arm", m)
      BY <2>1 DEF m, GivenUp, Went, Taken
    <3>2. "arm" \in FgPcs
      BY DEF FgPcs
    <3> QED  BY <1>1, <2>3, <3>1, <3>2, GivenUpIs
  <2> QED  BY <2>1, <2>3, <2>4 DEF FgType, FgRecord
<1>9. CASE CopyMulti \/ FlushDrained \/ FlushTcSeen \/ RxCopy
  <2>1. accepted' = accepted /\ \E pc \in FgPcs : Goto(pc)
    BY <1>9 DEF CopyMulti, FlushDrained, FlushTcSeen, RxCopy, txVars, FgPcs
  <2> QED  BY <1>2, <1>4, <2>1
<1>10. CASE ArmTx \/ TryAgain \/ FlushClearTc \/ IsTxBusyTc \/ RxPublish
  <2>1. accepted' = accepted /\ (Return \/ \E pc \in FgPcs : Goto(pc))
    BY <1>10 DEF ArmTx, TryAgain, FlushClearTc, IsTxBusyTc, RxPublish, txVars, FgPcs
  <2> QED  BY <1>2, <1>4, <1>5, <2>1
<1>11. CASE FlushTcTimeout
  <2>1. accepted' = accepted /\ fg' = [fg EXCEPT !.pc = "tcClear", !.ok = FALSE]
    BY <1>11 DEF FlushTcTimeout, txVars
  <2> QED  BY <1>2, <1>3, <2>1 DEF FgPcs
<1>12. CASE FlushRearm
  <2>1. accepted' = accepted /\ (fg' = fg \/ fg' = [fg EXCEPT !.pc = "tcWait", !.ok = FALSE])
    BY <1>12 DEF FlushRearm
  <2> QED  BY <1>1, <1>2, <1>3, <2>1 DEF FgPcs
<1> QED  BY <1>6, <1>7, <1>8, <1>9, <1>10, <1>11, <1>12 DEF FgContinue

LEMMA FgStepType == ASSUME SumsFit, IInv, Next PROVE FgType'
<1>1. CASE Usart \/ IsrStep
  <2>1. fg' = fg /\ accepted' = accepted
    BY <1>1 DEF Usart, ShiftLoad, ShiftDone, Arrive, IsrStep, IsrEnter, IsrTakeByte, IsrRxPoll,
                IsrRxDone, IsrGiveByte, IsrTxPoll, IsrErrors, IsrDisarm, txVars
  <2> QED  BY <2>1 DEF IInv, FgType
<1> QED  BY <1>1, CallStepType, ContinueStepType DEF Next


\* The registers and the ISR's own state; what a snapshot said still holds.
LEMMA IsrStepType == ASSUME SumsFit, IInv, Next PROVE IsrType' /\ IsrInv'
<1> DEFINE IsrRecord == [pc : IsrPcs, rxne : BOOLEAN, txe : BOOLEAN, err : BOOLEAN]
<1>1. /\ isr \in IsrRecord /\ txeie \in BOOLEAN /\ tc \in BOOLEAN /\ ore \in BOOLEAN
      /\ errors \in Nat
      /\ isr.pc = "rx" /\ isr.rxne => rxFifo # << >>
      /\ isr.pc \in {"rx", "tx"} /\ isr.txe => Len(txFifo) < FifoDepth
      /\ isr.pc # "disarm" /\ isr.err => ore
  BY DEF IInv, IsrType, IsrInv
<1>2. ASSUME NEW pc \in {"rx", "tx"}, isr' = ReadIsr(pc),
             UNCHANGED <<rxFifo, txFifo, ore, errors, txeie, tc>>
      PROVE  IsrType' /\ IsrInv'
  <2>1. isr' = [pc |-> pc, rxne |-> rxFifo # << >>, txe |-> Len(txFifo) < FifoDepth, err |-> ore]
    BY <1>2 DEF ReadIsr
  <2>2. (rxFifo # << >>) \in BOOLEAN /\ (Len(txFifo) < FifoDepth) \in BOOLEAN
    OBVIOUS
  <2>3. isr' \in IsrRecord
    BY <1>1, <1>2, <2>1, <2>2 DEF IsrPcs
  <2>4. /\ isr'.rxne <=> rxFifo # << >>
        /\ isr'.txe <=> Len(txFifo) < FifoDepth
        /\ isr'.err <=> ore
    BY <1>1, <2>1
  <2>5. IsrType'
    BY <1>1, <1>2, <2>3 DEF IsrType
  <2>6. IsrInv'
    BY <1>2, <2>4 DEF IsrInv
  <2> QED  BY <2>5, <2>6
<1>3. ASSUME NEW pc \in IsrPcs, isr' = [isr EXCEPT !.pc = pc]
      PROVE  /\ isr' \in IsrRecord /\ isr'.pc = pc /\ isr'.rxne = isr.rxne
             /\ isr'.txe = isr.txe /\ isr'.err = isr.err
  BY <1>1, <1>3
<1>4. IsrIdle \in IsrRecord /\ IsrIdle.pc = "idle" /\ IsrIdle.err = FALSE
  BY DEF IsrIdle, IsrPcs
<1> HIDE DEF IsrRecord
<1>5. CASE UNCHANGED <<isr, rxFifo, txFifo>> /\ txeie' \in BOOLEAN /\ tc' \in BOOLEAN
           /\ ore' = ore /\ errors' \in Nat
  BY <1>1, <1>5 DEF IsrType, IsrInv, IsrRecord
<1>6. CASE ShiftLoad
  <2>1. UNCHANGED <<isr, rxFifo, txeie, tc, ore, errors>> /\ txFifo # << >> /\ txFifo' = Tail(txFifo)
    BY <1>6 DEF ShiftLoad, rxVars
  <2>2. Len(txFifo') = Len(txFifo) - 1 /\ Len(txFifo) \in Nat /\ FifoDepth \in Nat
    BY <2>1, Bounds DEF IInv, TxType
  <2>3. Len(txFifo) < FifoDepth => Len(txFifo') < FifoDepth
    BY <2>2
  <2> QED  BY <1>1, <2>1, <2>3 DEF IsrType, IsrInv, IsrRecord
<1>7. CASE ShiftDone
  <2>1. (txFifo = << >>) \in BOOLEAN
    OBVIOUS
  <2> QED  BY <1>1, <1>5, <1>7, <2>1 DEF ShiftDone, rxVars
<1>8. CASE Arrive
  <2>1. /\ UNCHANGED <<isr, txFifo, txeie, tc, errors>>
        /\ (rxFifo' = Append(rxFifo, arrived + 1) /\ ore' = ore) \/ (rxFifo' = rxFifo /\ ore' = TRUE)
    BY <1>8 DEF Arrive, txVars
  <2>2. rxFifo \in Seq(Bytes)
    BY DEF IInv, RxType
  <2>3. Append(rxFifo, arrived + 1) # << >>
    BY <2>2
  <2> QED  BY <1>1, <2>1, <2>3 DEF IsrType, IsrInv, IsrRecord
<1>9. CASE IsrEnter \/ IsrRxPoll \/ IsrTxPoll
  <2>1. /\ isr' = ReadIsr("rx") \/ isr' = ReadIsr("tx")
        /\ UNCHANGED <<rxFifo, txFifo, ore, errors, txeie, tc>>
    BY <1>9 DEF IsrEnter, IsrRxPoll, IsrTxPoll, txVars, rxVars
  <2> QED  BY <1>2, <2>1
<1>10. CASE IsrTakeByte
  <2>1. /\ isr' = [isr EXCEPT !.pc = "rxPoll"] /\ UNCHANGED <<txFifo, ore, txeie, tc>>
        /\ errors' = errors \/ errors' = errors + 1
        /\ isr.pc = "rx"
    BY <1>10 DEF IsrTakeByte, txVars
  <2>2. isr' \in IsrRecord /\ isr'.pc = "rxPoll" /\ isr'.err = isr.err
    BY <1>3, <2>1 DEF IsrPcs
  <2> QED  BY <1>1, <2>1, <2>2 DEF IsrType, IsrInv, IsrRecord
<1>11. CASE IsrRxDone
  <2>1. /\ isr' = [isr EXCEPT !.pc = "tx"] /\ isr.pc = "rx"
        /\ UNCHANGED <<rxFifo, txFifo, ore, errors, txeie, tc>>
    BY <1>11 DEF IsrRxDone, txVars, rxVars
  <2>2. isr' \in IsrRecord /\ isr'.pc = "tx" /\ isr'.err = isr.err /\ isr'.txe = isr.txe
    BY <1>3, <2>1 DEF IsrPcs
  <2> QED  BY <1>1, <2>1, <2>2 DEF IsrType, IsrInv, IsrRecord
<1>12. CASE IsrGiveByte
  <2>1. /\ isr' = [isr EXCEPT !.pc = "txPoll"] /\ isr.pc = "tx" /\ tc' = FALSE
        /\ UNCHANGED <<rxFifo, ore, errors, txeie>>
    BY <1>12 DEF IsrGiveByte, rxVars
  <2>2. isr' \in IsrRecord /\ isr'.pc = "txPoll" /\ isr'.err = isr.err
    BY <1>3, <2>1 DEF IsrPcs
  <2> QED  BY <1>1, <2>1, <2>2 DEF IsrType, IsrInv, IsrRecord
<1>13. CASE IsrErrors
  <2>3. (ore' = FALSE /\ errors' = errors + 1) \/ (ore' = ore /\ errors' = errors)
    BY <1>13 DEF IsrErrors
  <2>5. ore' \in BOOLEAN
    BY <1>1, <2>3
  <2>6. errors' \in Nat
    BY <1>1, <2>3
  <2>4. ore' \in BOOLEAN /\ errors' \in Nat
    BY <2>5, <2>6
  <2>1. /\ isr' = [isr EXCEPT !.pc = "disarm"] /\ UNCHANGED <<txeie, tc>>
        /\ ore' \in BOOLEAN /\ errors' \in Nat
    BY <1>13, <2>4 DEF IsrErrors, txVars
  <2>2. isr' \in IsrRecord /\ isr'.pc = "disarm"
    BY <1>3, <2>1 DEF IsrPcs
  <2> QED  BY <1>1, <2>1, <2>2 DEF IsrType, IsrInv, IsrRecord
<1>14. CASE IsrDisarm
  <2>1. /\ isr' = IsrIdle /\ UNCHANGED <<tc, ore, errors>>
        /\ txeie' = (txeie /\ ~QEmpty(tx.head, tx.tail))
    BY <1>14 DEF IsrDisarm, rxVars
  <2>2. txeie' \in BOOLEAN
    BY <2>1
  <2> QED  BY <1>1, <1>4, <2>1, <2>2 DEF IsrType, IsrInv, IsrRecord
<1>15. CASE FgCall
  <2>1. UNCHANGED <<isr, rxFifo, txFifo, tc, ore>> /\ (txeie' = txeie \/ txeie' = TRUE)
        /\ (errors' = errors \/ errors' = 0)
    BY <1>15 DEF FgCall, TxByte, StoreByte, TxByteBlocking, TxMulti, Flush, IsTxBusy, RxByte,
                 RxMulti, ClearErrorCount, txVars, rxVars
  <2>2. txeie' \in BOOLEAN /\ tc' \in BOOLEAN
    BY <1>1, <2>1
  <2>3. errors' \in Nat
    BY <1>1, <2>1
  <2> QED  BY <1>5, <2>1, <2>2, <2>3
<1>16. CASE FgContinue
  <2>1. UNCHANGED <<isr, rxFifo, txFifo, errors, ore>> /\ (txeie' = txeie \/ txeie' = TRUE)
        /\ (tc' = tc \/ tc' = FALSE)
    BY <1>16 DEF FgContinue, TryByte, StoreByte, TryMulti, CopyMulti, PublishMulti, ArmTx, TryAgain,
                 FlushDrained, FlushRearm, FlushTcSeen, FlushTcTimeout, FlushClearTc, IsTxBusyTc,
                 RxCopy, RxPublish, txVars, rxVars
  <2> QED  BY <1>1, <1>5, <2>1
<1> QED  BY <1>6, <1>7, <1>8, <1>9, <1>10, <1>11, <1>12, <1>13, <1>14, <1>15, <1>16
         DEF Next, Usart, IsrStep


----------------------------------------------------------------------------
(* What a step does to each side, over all actions.                        *)

LEMMA TxCases ==
    ASSUME SumsFit, IInv, Next
    PROVE  \/ TxSame \/ ShiftLoad \/ ShiftDone \/ IsrGiveByte \/ CopyMulti \/ PublishMulti
           \/ StoreByte /\ accepted + 1 <= MaxTx
<1>1. CASE Usart \/ IsrStep
  BY <1>1 DEF Usart, Arrive, IsrStep, IsrEnter, IsrTakeByte, IsrRxPoll, IsrRxDone, IsrTxPoll,
              IsrErrors, IsrDisarm, txVars, TxSame
<1>2. CASE FgCall
  BY <1>2 DEF FgCall, TxByte, Offers, TxByteBlocking, TxMulti, Flush, IsTxBusy, RxByte,
              RxMulti, ClearErrorCount, txVars, TxSame
<1>3. CASE TryByte
  <2>1. fg.left = 1 /\ accepted \in Nat /\ accepted + fg.left <= MaxTx
    BY <1>3 DEF TryByte, Fg, IInv, TxBlockInv, TxType, FgType
  <2>2. accepted + 1 <= MaxTx
    BY <2>1
  <2> QED  BY <1>3, <2>2 DEF TryByte, txVars, TxSame
<1>4. CASE FgContinue /\ ~TryByte
  BY <1>4 DEF FgContinue, TryMulti, ArmTx, TryAgain, FlushDrained, FlushRearm, FlushTcSeen,
              FlushTcTimeout, FlushClearTc, IsTxBusyTc, RxCopy, RxPublish, txVars, TxSame
<1> QED  BY <1>1, <1>2, <1>3, <1>4 DEF Next

LEMMA TxStepType == ASSUME SumsFit, IInv, Next PROVE TxType' /\ TxCount'
<1>1. TxType /\ TxCount /\ FgType /\ TxBlockInv /\ IsrInv
  BY DEF IInv
<1> QED  BY <1>1, TxCases, SameTx, LoadTx, DoneTx, GiveTx, StoreTx, CopyTx, PublishTx

NoRxBlock == ~(fg.kind = "rxMulti" /\ fg.pc \in {"copy", "publish"})
RxQuiet ==
    /\ UNCHANGED <<rx, rxFifo, got, arrived, lost>>
    /\ UNCHANGED fg \/ (NoRxBlock /\ NoRxBlock')

LEMMA QuietRx ==
    ASSUME RxType, RxBlockInv, RxStream, RxQuiet
    PROVE  RxType' /\ RxStream' /\ RxBlockInv'
<1>1. RxSame
  BY DEF RxQuiet, RxSame, NoRxBlock
<1>2. ASSUME UNCHANGED fg PROVE RxBlockInv'
  BY <1>2 DEF RxQuiet, RxBlockInv, RxPending
<1>3. ASSUME NoRxBlock' PROVE RxBlockInv'
  BY <1>3 DEF NoRxBlock, RxBlockInv
<1> QED  BY <1>1, <1>2, <1>3, SameRx DEF RxQuiet

\* A receive call takes the front of what is pending in hand.
LEMMA MultiRx ==
    ASSUME SumsFit, RxType, RxBlockInv, RxStream, NEW len \in 1..RxSize, RxMulti(len)
    PROVE  RxType' /\ RxStream' /\ RxBlockInv'
<1> DEFINE n == Clip(len, RxPending)
           c == Call("rxMulti", "copy", 0)
           h == rx.tail
<1>1. /\ fg.kind = "none" /\ RxPending > 0 /\ fg' = [c EXCEPT !.at = h, !.n = n]
      /\ UNCHANGED <<rx, rxFifo, got, arrived, lost>>
  BY DEF RxMulti, Fg, rxVars
<1>2. /\ RxPending \in Nat /\ h \in Nat /\ RxPending <= RxSize /\ RxSize \in Nat /\ MaxTx \in Nat
  BY RxFacts, Bounds
<1>3. n \in 1..RxPending /\ n \in 0..(MaxTx + RxSize)
  BY <1>1, <1>2 DEF Clip
<1>4. c \in FgRecord /\ c.kind = "rxMulti" /\ c.pc = "copy"
  <2>1. "rxMulti" \in Kinds /\ "copy" \in FgPcs
    BY Names
  <2> QED  BY <2>1, CallOffers
<1>5. fg' = Taken(c, h, n)
  BY <1>1 DEF Taken
<1> HIDE DEF n, c, h
<1>6. fg'.kind = "rxMulti" /\ fg'.pc = "copy" /\ fg'.at = h /\ fg'.n = n
  BY <1>2, <1>3, <1>4, <1>5, TakenIs
<1>7. RxSame
  BY <1>1, <1>6 DEF RxSame
<1>8. RxBlockInv'
  <2>1. rx'.tail = h /\ RxPending' = RxPending
    BY <1>1 DEF h, RxPending
  <2> QED  BY <1>3, <1>6, <2>1 DEF RxBlockInv
<1> QED  BY <1>7, <1>8, SameRx

LEMMA RxCases ==
    ASSUME SumsFit, IInv, Next
    PROVE  \/ RxQuiet \/ Arrive \/ IsrTakeByte \/ RxByte \/ RxCopy \/ RxPublish
           \/ \E len \in 1..RxSize : RxMulti(len)
<1>0. fg \in FgRecord
  BY DEF IInv, FgType, FgRecord
<1>1. CASE Usart \/ IsrStep
  BY <1>1 DEF Usart, ShiftLoad, ShiftDone, IsrStep, IsrEnter, IsrRxPoll, IsrRxDone, IsrGiveByte,
              IsrTxPoll, IsrErrors, IsrDisarm, rxVars, RxQuiet
<1>2. CASE TxByte
  <2>1. fg.kind = "none" /\ fg' = Call("byte", "arm", 0) /\ UNCHANGED <<rx, rxFifo, got, arrived, lost>>
    BY <1>2 DEF TxByte, StoreByte, Fg, rxVars
  <2>2. fg'.kind = "byte"
    <3>1. "byte" \in Kinds /\ "arm" \in FgPcs
      BY Names
    <3> QED  BY <2>1, <3>1, CallOffers
  <2> QED  BY <2>1, <2>2 DEF RxQuiet, NoRxBlock
<1>3. CASE TxByteBlocking
  <2>1. /\ fg.kind = "none" /\ fg' = Call("byteBlocking", "try", 1) /\ accepted + 1 <= MaxTx
        /\ UNCHANGED <<rx, rxFifo, got, arrived, lost>>
    BY <1>3 DEF TxByteBlocking, Offers, Fg, rxVars
  <2>2. 1 \in 0..MaxTx
    BY <2>1, Bounds DEF IInv, TxType
  <2>3. fg'.kind = "byteBlocking"
    <3>1. "byteBlocking" \in Kinds /\ "try" \in FgPcs
      BY Names
    <3> QED  BY <2>1, <2>2, <3>1, CallOffersOne
  <2> QED  BY <2>1, <2>3 DEF RxQuiet, NoRxBlock
<1>4. ASSUME NEW len \in 1..MaxTx, TxMulti(len) PROVE RxQuiet
  <2>1. UNCHANGED <<rx, rxFifo, got, arrived, lost>>
    BY <1>4 DEF TxMulti, rxVars
  <2>2. fg.kind = "none" /\ fg'.pc = "try"
    BY <1>4, TxMultiIs
  <2> QED  BY <2>1, <2>2 DEF RxQuiet, NoRxBlock
<1>5. CASE Flush \/ IsTxBusy
  <2>1. /\ fg.kind = "none" /\ UNCHANGED <<rx, rxFifo, got, arrived, lost>>
        /\ fg' = fg \/ fg' = Call("flush", "drain", 0) \/ fg' = Call("busy", "tcRead", 0)
    BY <1>5 DEF Flush, IsTxBusy, Fg, rxVars
  <2>2. fg' = fg \/ fg'.kind = "flush" \/ fg'.kind = "busy"
    <3>1. "flush" \in Kinds /\ "busy" \in Kinds /\ "drain" \in FgPcs /\ "tcRead" \in FgPcs
      BY Names
    <3>2. Call("flush", "drain", 0).kind = "flush" /\ Call("busy", "tcRead", 0).kind = "busy"
      BY <3>1, CallOffers
    <3> QED  BY <2>1, <3>2
  <2> QED  BY <2>1, <2>2 DEF RxQuiet, NoRxBlock
<1>6. CASE ClearErrorCount
  BY <1>6 DEF ClearErrorCount, RxQuiet
<1>7. CASE TryByte
  <2>1. fg.kind = "byteBlocking" /\ UNCHANGED <<rx, rxFifo, got, arrived, lost>>
        /\ (fg' = [fg EXCEPT !.pc = "arm", !.left = 0] \/ Goto("arm"))
    BY <1>7 DEF TryByte, StoreByte, Fg, rxVars
  <2>2. fg' = Went(fg, "arm", 0) => fg'.pc = "arm"
    <3>1. PICK l \in 0..MaxTx : l = 0
      BY Zeroes
    <3>2. Went(fg, "arm", l).pc = "arm"
      BY <1>0, Names, WentIs
    <3> QED  BY <3>1, <3>2
  <2>3. fg'.pc = "arm"
    BY <1>0, <2>1, <2>2, GotoIs, Names DEF Went
  <2> QED  BY <2>1, <2>3 DEF RxQuiet, NoRxBlock
<1>8. CASE TryMulti \/ ArmTx \/ TryAgain \/ FlushDrained \/ FlushTcSeen \/ FlushClearTc
           \/ IsTxBusyTc \/ CopyMulti \/ PublishMulti \/ FlushRearm \/ FlushTcTimeout
  <2>1. UNCHANGED <<rx, rxFifo, got, arrived, lost>>
    BY <1>8 DEF TryMulti, ArmTx, TryAgain, FlushDrained, FlushTcSeen, FlushClearTc, IsTxBusyTc,
                CopyMulti, PublishMulti, FlushRearm, FlushTcTimeout, rxVars
  <2>2. NoRxBlock
    BY <1>8 DEF TryMulti, ArmTx, TryAgain, FlushDrained, FlushTcSeen, FlushClearTc, IsTxBusyTc,
                CopyMulti, PublishMulti, FlushRearm, FlushTcTimeout, Multi, Fg, NoRxBlock
  <2>3. CASE TryMulti \/ CopyMulti \/ PublishMulti
    <3>1. fg.kind # "rxMulti"
      BY <2>3 DEF TryMulti, CopyMulti, PublishMulti, Multi
    <3>2. fg'.kind = fg.kind \/ fg'.kind = "none"
      <4>1. Idle.kind = "none"
        BY IdleIs
      <4>2. CASE CopyMulti
        BY <1>0, <4>2, GotoIs, Names DEF CopyMulti
      <4>3. CASE PublishMulti
        BY <1>0, <4>3 DEF PublishMulti, FgRecord
      <4>4. CASE TryMulti
        BY <1>0, <4>1, <4>4 DEF TryMulti, FgRecord
      <4> QED  BY <2>3, <4>2, <4>3, <4>4
    <3> QED  BY <2>1, <2>2, <3>1, <3>2 DEF RxQuiet, NoRxBlock
  <2>4. CASE ArmTx \/ TryAgain \/ FlushDrained \/ FlushTcSeen \/ FlushClearTc \/ IsTxBusyTc
    <3>1. Return \/ Goto("again") \/ Goto("try") \/ Goto("tcWait") \/ Goto("tcClear")
      BY <2>4 DEF ArmTx, TryAgain, FlushDrained, FlushTcSeen, FlushClearTc, IsTxBusyTc
    <3>2. fg'.pc \in {"idle", "again", "try", "tcWait", "tcClear"}
      BY <1>0, <3>1, GotoIs, Names, IdleIs DEF Return
    <3> QED  BY <2>1, <2>2, <3>2 DEF RxQuiet, NoRxBlock
  <2>5. CASE FlushRearm \/ FlushTcTimeout
    <3>1. fg.kind = "flush" /\ (fg' = fg \/ fg'.pc \in {"tcWait", "tcClear"})
      BY <1>0, <2>5 DEF FlushRearm, FlushTcTimeout, Fg, FgRecord
    <3> QED  BY <2>1, <2>2, <3>1 DEF RxQuiet, NoRxBlock
  <2> QED  BY <1>8, <2>3, <2>4, <2>5
<1> QED  BY <1>1, <1>2, <1>3, <1>4, <1>5, <1>6, <1>7, <1>8 DEF Next, FgCall, FgContinue

LEMMA RxStepType == ASSUME SumsFit, IInv, Next PROVE RxType' /\ RxStream' /\ RxBlockInv'
<1>1. RxType /\ RxBlockInv /\ RxStream /\ IsrInv /\ fg \in FgRecord
  BY DEF IInv, FgType, FgRecord
<1>2. RxCopy => RxType' /\ RxStream' /\ RxBlockInv'
  BY <1>1, CopyRx DEF FgRecord
<1> QED  BY <1>1, <1>2, RxCases, QuietRx, ArriveRx, TakeRx, ByteRx, PublishRx, MultiRx

\* Where the foreground goes when it makes a call.
LEMMA CallGoes ==
    ASSUME SumsFit, IInv, FgCall
    PROVE  \/ fg' = fg /\ TxSame
           \/ fg'.kind \in {"byte", "flush", "rxMulti"} /\ fg'.pc \in {"arm", "drain", "copy"}
           \/ fg'.kind = "byteBlocking" /\ fg'.pc = "try" /\ fg'.left = 1
           \/ fg'.kind \in {"multi", "multiBlocking"} /\ fg'.pc = "try"
           \/ /\ IsTxBusy /\ TxSame /\ QEmpty(tx.head, tx.tail)
              /\ fg'.kind = "busy" /\ fg'.pc = "tcRead"
<1>1. CASE TxByte
  <2>1. fg' = Call("byte", "arm", 0)
    BY <1>1 DEF TxByte
  <2>2. "byte" \in Kinds /\ "arm" \in FgPcs
    BY Names
  <2>3. fg'.kind = "byte" /\ fg'.pc = "arm"
    BY <2>1, <2>2, CallOffers
  <2> QED  BY <2>3
<1>2. CASE TxByteBlocking
  <2>1. fg' = Call("byteBlocking", "try", 1) /\ accepted + 1 <= MaxTx
    BY <1>2 DEF TxByteBlocking, Offers
  <2>2. 1 \in 0..MaxTx /\ "byteBlocking" \in Kinds /\ "try" \in FgPcs
    BY <2>1, Bounds, Names DEF IInv, TxType
  <2>3. fg'.kind = "byteBlocking" /\ fg'.pc = "try" /\ fg'.left = 1
    BY <2>1, <2>2, CallOffersOne
  <2> QED  BY <2>3
<1>3. ASSUME NEW len \in 1..MaxTx, TxMulti(len)
      PROVE  fg'.kind \in {"multi", "multiBlocking"} /\ fg'.pc = "try"
  BY <1>3, TxMultiIs
<1>4. CASE Flush
  <2>1. fg' = Call("flush", "drain", 0)
    BY <1>4 DEF Flush
  <2>2. "flush" \in Kinds /\ "drain" \in FgPcs
    BY Names
  <2>3. fg'.kind = "flush" /\ fg'.pc = "drain"
    BY <2>1, <2>2, CallOffers
  <2> QED  BY <2>3
<1>5. CASE IsTxBusy
  <2>1. TxSame /\ IF QEmpty(tx.head, tx.tail) THEN fg' = Call("busy", "tcRead", 0) ELSE fg' = fg
    BY <1>5 DEF IsTxBusy, txVars, TxSame
  <2>2. "busy" \in Kinds /\ "tcRead" \in FgPcs
    BY Names
  <2>3. Call("busy", "tcRead", 0).kind = "busy" /\ Call("busy", "tcRead", 0).pc = "tcRead"
    BY <2>2, CallOffers
  <2> QED  BY <1>5, <2>1, <2>3
<1>6. CASE RxByte \/ ClearErrorCount
  BY <1>6 DEF RxByte, ClearErrorCount, txVars, TxSame
<1>7. ASSUME NEW len \in 1..RxSize, RxMulti(len)
      PROVE  fg'.kind = "rxMulti" /\ fg'.pc = "copy"
  <2> DEFINE n == Clip(len, RxPending)
             c == Call("rxMulti", "copy", 0)
             h == rx.tail
  <2>1. fg' = [c EXCEPT !.at = h, !.n = n] /\ RxPending > 0
    BY <1>7 DEF RxMulti
  <2>2. RxPending \in Nat /\ RxPending <= RxSize /\ RxSize \in Nat /\ MaxTx \in Nat /\ h \in Nat
    BY RxFacts, Bounds DEF IInv
  <2>3. n \in 0..(MaxTx + RxSize)
    BY <2>2 DEF Clip
  <2>4. "rxMulti" \in Kinds /\ "copy" \in FgPcs
    BY Names
  <2>5. c \in FgRecord /\ c.kind = "rxMulti" /\ c.pc = "copy"
    BY <2>4, CallOffers
  <2>6. fg' = Taken(c, h, n)
    BY <2>1 DEF Taken
  <2> HIDE DEF n, c, h
  <2> QED  BY <2>2, <2>3, <2>5, <2>6, TakenIs
<1> QED  BY <1>1, <1>2, <1>3, <1>4, <1>5, <1>6, <1>7 DEF FgCall

\* Where a call in progress goes.
LEMMA ContinueGoes ==
    ASSUME SumsFit, IInv, FgContinue
    PROVE  \/ fg' = fg /\ TxSame
           \/ fg' = Idle
           \/ /\ fg'.kind = "byteBlocking" /\ fg'.left \in {0, 1}
              /\ fg'.left = 0 => fg'.pc = "arm"
              /\ fg'.pc \in {"arm", "again", "try"}
           \/ fg'.kind # "byteBlocking" /\ fg'.pc \in {"arm", "again", "try"}
           \/ /\ TryMulti /\ fg'.kind = fg.kind /\ fg'.pc = "copy" /\ fg'.left = fg.left
              /\ fg'.at = tx.head /\ fg'.n > 0
              /\ fg'.n = Clip(fg.left, QFree(tx.head, tx.tail, TxSize))
           \/ CopyMulti
           \/ fg'.kind = "rxMulti" /\ fg'.pc = "publish"
           \/ /\ TxSame /\ fg'.kind = "flush" /\ fg'.pc \in {"tcWait", "tcClear"}
              /\ fg'.ok => (FlushDrained \/ FlushTcSeen) /\ fg.ok
<1>1. /\ fg \in FgRecord /\ fg.left \in Nat
      /\ fg.kind = "byteBlocking" => fg.left \in {0, 1} /\ (fg.left = 0 => fg.pc = "arm")
  BY DEF IInv, FgType, TxBlockInv, FgRecord
<1>2. CASE TryByte
  <2>1. fg.kind = "byteBlocking" /\ fg.pc = "try" /\ fg.left = 1
    BY <1>1, <1>2 DEF TryByte, Fg
  <2>2. CASE Goto("arm")
    <3>1. fg'.kind = fg.kind /\ fg'.pc = "arm" /\ fg'.left = fg.left
      BY <1>1, <2>2, Names, GotoIs
    <3> QED  BY <2>1, <3>1
  <2>3. CASE fg' = [fg EXCEPT !.pc = "arm", !.left = 0]
    <3>1. PICK l \in 0..MaxTx : l = 0
      BY Zeroes
    <3>2. Went(fg, "arm", l).kind = fg.kind /\ Went(fg, "arm", l).pc = "arm" /\ Went(fg, "arm", l).left = l
      <4>1. "arm" \in FgPcs
        BY Names
      <4> QED  BY <1>1, <4>1, WentIs
    <3>3. fg' = Went(fg, "arm", l)
      BY <2>3, <3>1 DEF Went
    <3> QED  BY <2>1, <3>1, <3>2, <3>3
  <2> QED  BY <1>2, <2>2, <2>3 DEF TryByte
<1>3. CASE TryMulti
  <2> DEFINE n == Clip(fg.left, QFree(tx.head, tx.tail, TxSize))
             h == tx.head
  <2>1. /\ fg.kind # "byteBlocking"
        /\ fg' = IF n > 0 THEN [fg EXCEPT !.pc = "copy", !.at = h, !.n = n]
                 ELSE IF fg.kind = "multi" THEN Idle ELSE [fg EXCEPT !.pc = "arm"]
    BY <1>3 DEF TryMulti, Multi
  <2>2. n \in 0..(MaxTx + RxSize) /\ h \in Nat
    <3>1. QFree(tx.head, tx.tail, TxSize) \in Nat /\ h \in Nat /\ MaxTx \in Nat /\ RxSize \in Nat
      BY TxFacts, Bounds DEF IInv
    <3>2. fg.left \in 0..MaxTx
      BY <1>1 DEF FgRecord
    <3> QED  BY <3>1, <3>2 DEF Clip
  <2>5. /\ fg \in FgRecord /\ "copy" \in FgPcs /\ "arm" \in FgPcs
    BY <1>1, Names
  <2> HIDE DEF n, h
  <2>3. CASE n > 0
    <3>1. fg' = Started(fg, "copy", h, n)
      BY <2>1, <2>3 DEF Started, Taken
    <3>2. /\ fg'.kind = fg.kind /\ fg'.pc = "copy" /\ fg'.left = fg.left /\ fg'.at = h
          /\ fg'.n = n
      BY <2>2, <2>5, <3>1, StartedIs
    <3> QED  BY <1>3, <2>3, <3>2 DEF n, h
  <2>4. CASE ~(n > 0)
    <3>1. fg' = Idle \/ Goto("arm")
      BY <2>1, <2>4 DEF Goto
    <3>2. Goto("arm") => fg'.kind = fg.kind /\ fg'.pc = "arm"
      BY <2>5, GotoIs
    <3> QED  BY <2>1, <3>1, <3>2
  <2> QED  BY <2>3, <2>4
<1>4. CASE PublishMulti
  <2>1. /\ fg.kind # "byteBlocking" /\ fg.kind \in Kinds
        /\ fg' = [fg EXCEPT !.pc = "arm", !.left = @ - fg.n, !.at = 0, !.n = 0]
    BY <1>1, <1>4 DEF PublishMulti, Multi, FgRecord
  <2>2. fg'.kind = fg.kind /\ fg'.pc = "arm"
    BY <1>1, <2>1 DEF FgRecord
  <2> QED  BY <2>1, <2>2
<1>5. CASE ArmTx \/ TryAgain
  <2>1. fg' = Idle \/ (fg.left # 0 /\ Goto("again")) \/ (fg.pc = "again" /\ Goto("try"))
    BY <1>5 DEF ArmTx, TryAgain, Return
  <2>2. ASSUME NEW pc \in {"again", "try"}, Goto(pc)
        PROVE  fg'.kind = fg.kind /\ fg'.pc = pc /\ fg'.left = fg.left
    <3>1. pc \in FgPcs
      BY Names
    <3> QED  BY <1>1, <2>2, <3>1, GotoIs
  <2>3. ASSUME NEW pc \in {"again", "try"}, Goto(pc), fg.kind = "byteBlocking" => fg.left = 1
        PROVE  \/ fg'.kind = "byteBlocking" /\ fg'.left = 1 /\ fg'.pc = pc
               \/ fg'.kind # "byteBlocking" /\ fg'.pc = pc
    BY <2>2, <2>3
  <2>4. (fg.left # 0 \/ fg.pc = "again") /\ fg.kind = "byteBlocking" => fg.left = 1
    BY <1>1
  <2> QED  BY <2>1, <2>3, <2>4
<1>6. CASE FlushDrained \/ FlushTcSeen
  <2>1. fg.kind = "flush" /\ TxSame /\ (Goto("tcWait") \/ Goto("tcClear"))
    BY <1>6 DEF FlushDrained, FlushTcSeen, Fg, txVars, TxSame
  <2>2. fg'.kind = fg.kind /\ fg'.pc \in {"tcWait", "tcClear"} /\ fg'.ok = fg.ok
    <3>1. "tcWait" \in FgPcs /\ "tcClear" \in FgPcs
      BY Names
    <3>2. ASSUME NEW pc \in {"tcWait", "tcClear"}, Goto(pc)
          PROVE  fg'.kind = fg.kind /\ fg'.pc = pc /\ fg'.ok = fg.ok
      BY <1>1, <3>1, <3>2, GotoIs
    <3> QED  BY <2>1, <3>2
  <2> QED  BY <1>6, <2>1, <2>2
<1>7. CASE FlushRearm \/ FlushTcTimeout
  <2>1. fg.kind = "flush" /\ TxSame
        /\ \/ fg' = fg
           \/ fg' = [fg EXCEPT !.pc = "tcWait", !.ok = FALSE]
           \/ fg' = [fg EXCEPT !.pc = "tcClear", !.ok = FALSE]
    BY <1>7 DEF FlushRearm, FlushTcTimeout, Fg, txVars, TxSame
  <2>2. fg' = fg \/ (fg'.kind = fg.kind /\ fg'.pc \in {"tcWait", "tcClear"} /\ fg'.ok = FALSE)
    BY <1>1, <2>1 DEF FgRecord
  <2> QED  BY <2>1, <2>2
<1>8. CASE FlushClearTc \/ IsTxBusyTc \/ RxPublish
  BY <1>8 DEF FlushClearTc, IsTxBusyTc, RxPublish, Return
<1>9. CASE RxCopy
  <2>1. fg.kind = "rxMulti" /\ Goto("publish")
    BY <1>9 DEF RxCopy, Fg
  <2>2. "publish" \in FgPcs
    BY Names
  <2>3. fg'.kind = fg.kind /\ fg'.pc = "publish"
    BY <1>1, <2>1, <2>2, GotoIs
  <2> QED  BY <2>1, <2>3
<1> QED  BY <1>2, <1>3, <1>4, <1>5, <1>6, <1>7, <1>8, <1>9 DEF FgContinue

----------------------------------------------------------------------------
(* The block in hand, the drained USART, the error count.                  *)

LEMMA TxBlockStep == ASSUME SumsFit, IInv, Next PROVE TxBlockInv'
<1>1. /\ TxType /\ TxCount /\ FgType /\ IsrInv /\ TxBlockInv /\ fg \in FgRecord
      /\ fg.left \in Nat /\ accepted \in Nat
  BY DEF IInv, FgType, FgRecord, TxType
<1>2. /\ QFree(tx.head, tx.tail, TxSize) \in Nat
  BY <1>1, TxFacts
<1>3. ASSUME fg' = fg, tx'.head = tx.head, tx'.buf = tx.buf, accepted' = accepted,
             QFree(tx'.head, tx'.tail, TxSize) \in Nat,
             QFree(tx.head, tx.tail, TxSize) <= QFree(tx'.head, tx'.tail, TxSize)
      PROVE  TxBlockInv'
  <2>1. ASSUME Multi, fg.pc \in {"copy", "publish"}
        PROVE  fg.n <= QFree(tx'.head, tx'.tail, TxSize)
    <3>1. fg.n \in 1..fg.left /\ fg.n <= QFree(tx.head, tx.tail, TxSize)
      BY <1>1, <2>1 DEF TxBlockInv
    <3>2. fg.n \in Nat
      BY <1>1, <3>1
    <3>3. \A a, b, c \in Nat : a <= b /\ b <= c => a <= c
      OBVIOUS
    <3> QED  BY <1>2, <1>3, <3>1, <3>2, <3>3
  <2> QED  BY <1>1, <1>3, <2>1 DEF TxBlockInv, Multi
<1>4. ASSUME fg' = fg, TxSame PROVE TxBlockInv'
  BY <1>1, <1>4 DEF TxBlockInv, Multi, TxSame
<1>5. ASSUME fg'.kind # "byteBlocking", Multi' => fg'.pc \notin {"copy", "publish"}
      PROVE  TxBlockInv'
  BY <1>5 DEF TxBlockInv
<1>6. ASSUME fg'.kind = "byteBlocking", fg'.left \in {0, 1}, fg'.left = 0 => fg'.pc = "arm"
      PROVE  TxBlockInv'
  BY <1>6 DEF TxBlockInv, Multi
<1>7. fg' = Idle => TxBlockInv'
  BY <1>5, IdleIs DEF Multi
<1>8. CASE IsrGiveByte
  <2>1. fg' = fg /\ accepted' = accepted
    BY <1>8 DEF IsrGiveByte
  <2>2. /\ tx'.head = tx.head /\ tx'.buf = tx.buf /\ TxType'
        /\ QFree(tx.head, tx.tail, TxSize) <= QFree(tx'.head, tx'.tail, TxSize)
    BY <1>1, <1>8, GiveTx
  <2>3. QFree(tx'.head, tx'.tail, TxSize) \in Nat
    <3>1. tx' \in RingType(TxSize) /\ Fits(TxSize)
      BY <2>2 DEF TxType, SumsFit
    <3>2. /\ tx'.head \in 0..(TxSize - 1) /\ tx'.tail \in 0..(TxSize - 1)
      BY <3>1 DEF RingType
    <3>3. QFree(tx'.head, tx'.tail, TxSize) \in 0..(TxSize - 1)
      BY <3>1, <3>2, UsedIs
    <3> QED  BY <3>3, Bounds
  <2> QED  BY <1>3, <2>1, <2>2, <2>3
<1>9. CASE Usart \/ IsrStep
  <2>1. CASE ~IsrGiveByte
    <3>1. fg' = fg /\ tx' = tx /\ accepted' = accepted
      BY <1>9, <2>1 DEF Usart, ShiftLoad, ShiftDone, Arrive, IsrStep, IsrEnter, IsrTakeByte,
                  IsrRxPoll, IsrRxDone, IsrTxPoll, IsrErrors, IsrDisarm, txVars
    <3>2. QFree(tx.head, tx.tail, TxSize) <= QFree(tx.head, tx.tail, TxSize)
      BY <1>2
    <3> QED  BY <1>2, <1>3, <3>1, <3>2
  <2> QED  BY <1>8, <2>1
<1>10. CASE FgCall
  <2>1. ASSUME fg'.kind = "byteBlocking", fg'.pc = "try", fg'.left = 1 PROVE TxBlockInv'
    BY <1>6, <2>1
  <2>2. ASSUME \/ fg'.kind \in {"byte", "flush", "rxMulti"} \/ fg'.kind = "busy"
               \/ fg'.kind \in {"multi", "multiBlocking"} /\ fg'.pc = "try"
        PROVE  TxBlockInv'
    BY <1>5, <2>2 DEF Multi
  <2> QED  BY <1>4, <1>10, <2>1, <2>2, CallGoes
<1>11. CASE TryMulti /\ fg'.kind = fg.kind /\ fg'.pc = "copy" /\ fg'.left = fg.left
            /\ fg'.at = tx.head /\ fg'.n > 0
            /\ fg'.n = Clip(fg.left, QFree(tx.head, tx.tail, TxSize))
  <2>1. Multi /\ fg.kind # "byteBlocking" /\ tx' = tx
    BY <1>11 DEF TryMulti, Multi, txVars
  <2> DEFINE n == Clip(fg.left, QFree(tx.head, tx.tail, TxSize))
  <2>2. n > 0 => n \in 1..fg.left /\ n <= QFree(tx.head, tx.tail, TxSize)
    BY <1>1, <1>2 DEF Clip
  <2>3. fg'.n \in 1..fg'.left /\ fg'.n <= QFree(tx'.head, tx'.tail, TxSize)
    BY <1>11, <2>1, <2>2
  <2> QED  BY <1>11, <2>1, <2>3 DEF TxBlockInv
<1>12. CASE CopyMulti
  <2>1. Multi /\ fg.pc = "copy" /\ Goto("publish") /\ accepted' = accepted
    BY <1>12 DEF CopyMulti
  <2>2. /\ fg'.kind = fg.kind /\ fg'.pc = "publish" /\ fg'.left = fg.left
        /\ fg'.at = fg.at /\ fg'.n = fg.n
    <3>1. "publish" \in FgPcs
      BY Names
    <3> QED  BY <1>1, <2>1, <3>1, GotoIs
  <2>3. /\ tx'.head = tx.head /\ tx'.tail = tx.tail
        /\ \A j \in 0..(fg.n - 1) : tx'.buf[QAdvance(tx.head, j, TxSize)] = accepted + j + 1
    BY <1>1, <1>12, CopyTx
  <2>4. /\ fg.at = tx.head /\ fg.n \in 1..fg.left /\ fg.n <= QFree(tx.head, tx.tail, TxSize)
        /\ fg.kind # "byteBlocking"
    BY <1>1, <2>1 DEF TxBlockInv, Multi
  <2> QED  BY <2>1, <2>2, <2>3, <2>4 DEF TxBlockInv
<1>13. CASE FgContinue
  <2>1. ASSUME \/ fg'.kind # "byteBlocking" /\ fg'.pc \in {"arm", "again", "try"}
               \/ fg'.kind = "rxMulti" \/ fg'.kind = "flush"
        PROVE  TxBlockInv'
    BY <1>5, <2>1 DEF Multi
  <2> QED  BY <1>4, <1>6, <1>7, <1>11, <1>12, <1>13, <2>1, ContinueGoes
<1> QED  BY <1>9, <1>10, <1>13 DEF Next

\* A call that found the ring empty, and then TC up, finds the USART still empty
\* when it says so: nothing but a byte from the ring makes it busy.
LEMMA DrainStep == ASSUME SumsFit, IInv, Next PROVE DrainInv'
<1>1. /\ TxType /\ TxCount /\ FgType /\ IsrInv /\ TxBlockInv /\ DrainInv /\ fg \in FgRecord
      /\ tc \in BOOLEAN
  BY DEF IInv, FgType, FgRecord, IsrType
<1> DEFINE Clear == shift = << >> /\ txFifo = << >>
           Seen(f) == f.pc = "tcRead" \/ (f.pc \in {"tcWait", "tcClear"} /\ f.ok)
           Sent(f) == f.pc = "tcClear" /\ f.ok
<1>2. (tc => Clear) /\ (Seen(fg) => TxPending = 0) /\ (Sent(fg) => Clear)
  BY <1>1 DEF DrainInv
<1>3. ASSUME tc' => Clear', Seen(fg') => TxPending' = 0, Sent(fg') => Clear'
      PROVE  DrainInv'
  BY <1>3 DEF DrainInv
<1>4. Sent(fg) => Seen(fg)
  OBVIOUS
<1>5. TxSame => TxPending' = TxPending /\ (Clear' <=> Clear)
  BY DEF TxSame, TxPending
<1> HIDE DEF Clear, Seen, Sent
<1>6. CASE ShiftLoad
  <2>1. txFifo # << >> /\ tc' = tc /\ fg' = fg /\ TxPending' = TxPending
    BY <1>6 DEF ShiftLoad, TxPending
  <2>2. ~Clear
    BY <2>1 DEF Clear
  <2> QED  BY <1>2, <1>3, <2>1, <2>2
<1>7. CASE ShiftDone
  <2>1. shift # << >> /\ shift' = << >> /\ txFifo' = txFifo /\ tc' = (txFifo = << >>)
        /\ fg' = fg /\ TxPending' = TxPending
    BY <1>7 DEF ShiftDone, TxPending
  <2>2. ~Clear /\ (tc' => Clear')
    BY <2>1 DEF Clear
  <2> QED  BY <1>2, <1>3, <2>1, <2>2
<1>8. CASE IsrGiveByte
  <2>1. tc' = FALSE /\ fg' = fg
    BY <1>8 DEF IsrGiveByte
  <2>2. TxPending > 0 /\ TxPending \in Nat
    BY <1>1, <1>8, GiveTx, TxFacts
  <2>3. TxPending # 0
    BY <2>2
  <2>4. ~Seen(fg) /\ ~Sent(fg)
    BY <1>2, <1>4, <2>3
  <2> QED  BY <1>3, <2>1, <2>4
<1>9. CASE (Usart \/ IsrStep) /\ ~ShiftLoad /\ ~ShiftDone /\ ~IsrGiveByte
  <2>1. TxSame /\ tc' = tc /\ fg' = fg
    BY <1>9 DEF Usart, Arrive, IsrStep, IsrEnter, IsrTakeByte, IsrRxPoll, IsrRxDone, IsrTxPoll,
                IsrErrors, IsrDisarm, txVars, TxSame
  <2> QED  BY <1>2, <1>3, <1>5, <2>1
<1>10. ASSUME FgCall \/ FgContinue PROVE (tc' => tc) /\ (Clear' <=> Clear)
  <2>1. (tc' = tc \/ tc' = FALSE) /\ shift' = shift /\ txFifo' = txFifo
    BY <1>10 DEF FgCall, TxByte, StoreByte, TxByteBlocking, TxMulti, Flush, IsTxBusy, RxByte,
                 RxMulti, ClearErrorCount, FgContinue, TryByte, TryMulti, CopyMulti, PublishMulti,
                 ArmTx, TryAgain, FlushDrained, FlushRearm, FlushTcSeen, FlushTcTimeout,
                 FlushClearTc, IsTxBusyTc, RxCopy, RxPublish, txVars
  <2> QED  BY <2>1 DEF Clear
<1>11. ASSUME FgCall \/ FgContinue, fg'.pc \notin {"tcRead", "tcWait", "tcClear"}
       PROVE  DrainInv'
  <2>1. ~Seen(fg') /\ ~Sent(fg')
    BY <1>11 DEF Seen, Sent
  <2> QED  BY <1>2, <1>3, <1>10, <1>11, <2>1
<1>12. ASSUME FgCall \/ FgContinue, fg' = fg, TxSame PROVE DrainInv'
  BY <1>2, <1>3, <1>5, <1>10, <1>12
<1>13. CASE FgCall
  <2>1. CASE IsTxBusy /\ TxSame /\ QEmpty(tx.head, tx.tail) /\ fg'.pc = "tcRead"
    <3>1. TxPending' = 0
      BY <1>1, <1>5, <2>1, TxFacts
    <3>2. ~Sent(fg')
      BY <2>1 DEF Sent
    <3> QED  BY <1>2, <1>3, <1>10, <1>13, <3>1, <3>2
  <2> QED  BY <1>11, <1>12, <1>13, <2>1, CallGoes
<1>14. CASE FgContinue
  <2>1. CASE fg' = Idle
    BY <1>11, <1>14, <2>1, IdleIs
  <2>2. CASE CopyMulti
    <3>1. fg'.pc = "publish"
      <4>1. "publish" \in FgPcs /\ Goto("publish")
        BY <2>2, Names DEF CopyMulti
      <4> QED  BY <1>1, <4>1, GotoIs
    <3> QED  BY <1>11, <1>14, <3>1
  <2>3. CASE /\ TxSame /\ fg'.kind = "flush" /\ fg'.pc \in {"tcWait", "tcClear"}
             /\ fg'.ok => (FlushDrained \/ FlushTcSeen) /\ fg.ok
    <3>1. CASE ~fg'.ok
      <4>1. ~Seen(fg') /\ ~Sent(fg')
        BY <2>3, <3>1 DEF Seen, Sent
      <4> QED  BY <1>2, <1>3, <1>10, <1>14, <4>1
    <3>2. CASE FlushDrained
      <4>1. QEmpty(tx.head, tx.tail) /\ Goto("tcWait")
        BY <3>2 DEF FlushDrained
      <4>2. fg'.pc = "tcWait"
        <5>1. "tcWait" \in FgPcs
          BY Names
        <5> QED  BY <1>1, <4>1, <5>1, GotoIs
      <4>3. TxPending' = 0 /\ ~Sent(fg')
        BY <1>1, <1>5, <2>3, <4>1, <4>2, TxFacts DEF Sent
      <4> QED  BY <1>2, <1>3, <1>10, <1>14, <4>3
    <3>3. CASE FlushTcSeen /\ fg.ok
      <4>1. tc /\ fg.pc = "tcWait"
        BY <3>3 DEF FlushTcSeen, Fg
      <4>2. Clear /\ TxPending = 0
        BY <1>2, <3>3, <4>1 DEF Seen
      <4> QED  BY <1>3, <1>5, <2>3, <4>2
    <3> QED  BY <2>3, <3>1, <3>2, <3>3
  <2> QED  BY <1>11, <1>12, <1>14, <2>1, <2>2, <2>3, ContinueGoes
<1> QED  BY <1>6, <1>7, <1>8, <1>9, <1>13, <1>14 DEF Next

LEMMA LostFinite ==
    ASSUME RxType, RxStream
    PROVE  /\ IsFiniteSet(lost) /\ Cardinality(lost) \in Nat /\ Cardinality(lost) <= arrived
           /\ \A x : x \notin lost => Cardinality(lost \cup {x}) = Cardinality(lost) + 1
<1>1. arrived \in Nat
  BY Bounds DEF RxType
<1>2. IsFiniteSet(1..arrived) /\ Cardinality(1..arrived) = arrived
  <2>1. /\ IsFiniteSet(1..arrived)
        /\ Cardinality(1..arrived) = IF 1 > arrived THEN 0 ELSE arrived - 1 + 1
    BY <1>1, FS_Interval
  <2> QED  BY <1>1, <2>1
<1>3. lost \subseteq 1..arrived
  BY StreamIs DEF Accounted
<1>4. IsFiniteSet(lost) /\ Cardinality(lost) <= arrived
  BY <1>2, <1>3, FS_Subset
<1>5. Cardinality(lost) \in Nat
  BY <1>4, FS_CardinalityType
<1>6. ASSUME NEW x, x \notin lost PROVE Cardinality(lost \cup {x}) = Cardinality(lost) + 1
  BY <1>4, <1>6, FS_AddElement
<1> QED  BY <1>4, <1>5, <1>6

\* Each drop raises the count or the flag, each count stands for a drop, and
\* only the foreground forgets.
LEMMA ErrorStep == ASSUME SumsFit, IInv, Next PROVE ErrorInv' /\ LossLeavesTrace'
<1>1. /\ RxType /\ RxStream /\ RxBlockInv /\ IsrInv /\ ErrorInv /\ LossLeavesTrace
      /\ errors \in Nat /\ ore \in BOOLEAN /\ Cardinality(lost) \in Nat
  BY LostFinite DEF IInv, IsrType
<1>2. \A x : x \notin lost => Cardinality(lost \cup {x}) = Cardinality(lost) + 1
  BY <1>1, LostFinite
<1>3. errors + (IF ore THEN 1 ELSE 0) <= Cardinality(lost)
  BY <1>1 DEF ErrorInv
<1>4. CASE UNCHANGED <<errors, ore, lost, untold>>
  BY <1>1, <1>4 DEF ErrorInv, LossLeavesTrace
<1>5. CASE Arrive
  <2>1. errors' = errors
    BY <1>5 DEF Arrive
  <2>2. CASE ore' = TRUE /\ arrived + 1 \notin lost /\ lost' = lost \cup {arrived + 1}
    <3>1. Cardinality(lost') = Cardinality(lost) + 1
      BY <1>2, <2>2
    <3>2. errors' + 1 <= Cardinality(lost')
      BY <1>1, <1>3, <2>1, <3>1
    <3> QED  BY <2>2, <3>2 DEF ErrorInv, LossLeavesTrace
  <2> QED  BY <1>1, <1>4, <1>5, <2>1, <2>2, ArriveRx
<1>6. CASE IsrTakeByte
  <2>1. ore' = ore
    BY <1>6 DEF IsrTakeByte
  <2>2. ASSUME NEW x, x \notin lost, lost' = lost \cup {x}, errors' = errors + 1
        PROVE  ErrorInv' /\ LossLeavesTrace'
    <3>1. Cardinality(lost') = Cardinality(lost) + 1
      BY <1>2, <2>2
    <3>2. errors' + (IF ore' THEN 1 ELSE 0) <= Cardinality(lost') /\ errors' > 0
      BY <1>1, <1>3, <2>1, <2>2, <3>1
    <3> QED  BY <3>2 DEF ErrorInv, LossLeavesTrace
  <2> QED  BY <1>1, <1>4, <1>6, <2>1, <2>2, TakeRx
<1>7. CASE IsrErrors
  <2>1. UNCHANGED <<lost, untold>> /\ isr.pc = "tx"
        /\ IF isr.err THEN ore' = FALSE /\ errors' = errors + 1 ELSE UNCHANGED <<ore, errors>>
    BY <1>7 DEF IsrErrors
  <2>2. CASE isr.err
    <3>1. ore /\ ore' = FALSE /\ errors' = errors + 1
      BY <1>1, <2>1, <2>2 DEF IsrInv
    <3>2. errors' <= Cardinality(lost) /\ errors' > 0 /\ errors' \in Nat
      BY <1>1, <1>3, <3>1
    <3>3. errors' + (IF ore' THEN 1 ELSE 0) <= Cardinality(lost')
      BY <2>1, <3>1, <3>2
    <3> QED  BY <3>2, <3>3 DEF ErrorInv, LossLeavesTrace
  <2> QED  BY <1>4, <2>1, <2>2
<1>8. CASE ClearErrorCount
  <2>1. errors' = 0 /\ untold' = {} /\ ore' = ore /\ lost' = lost
    BY <1>8 DEF ClearErrorCount
  <2>2. 0 + (IF ore THEN 1 ELSE 0) <= Cardinality(lost)
    BY <1>1, <1>3
  <2> QED  BY <2>1, <2>2 DEF ErrorInv, LossLeavesTrace
<1>9. CASE Usart \/ IsrStep
  <2>1. \/ UNCHANGED <<errors, ore, lost, untold>> \/ Arrive \/ IsrTakeByte \/ IsrErrors
    BY <1>9 DEF Usart, ShiftLoad, ShiftDone, IsrStep, IsrEnter, IsrRxPoll, IsrRxDone, IsrGiveByte,
                IsrTxPoll, IsrDisarm, rxVars
  <2> QED  BY <1>4, <1>5, <1>6, <1>7, <2>1
<1>10. CASE FgCall
  <2>1. \/ UNCHANGED <<errors, ore, lost, untold>> \/ ClearErrorCount
    BY <1>10 DEF FgCall, TxByte, StoreByte, TxByteBlocking, TxMulti, Flush, IsTxBusy, RxByte,
                 RxMulti, rxVars
  <2> QED  BY <1>4, <1>8, <2>1
<1>11. CASE FgContinue
  <2>1. UNCHANGED <<errors, ore, lost, untold>>
    BY <1>11 DEF FgContinue, TryByte, StoreByte, TryMulti, CopyMulti, PublishMulti, ArmTx, TryAgain,
                 FlushDrained, FlushRearm, FlushTcSeen, FlushTcTimeout, FlushClearTc, IsTxBusyTc,
                 RxCopy, RxPublish, rxVars
  <2> QED  BY <1>4, <2>1
<1> QED  BY <1>9, <1>10, <1>11 DEF Next

----------------------------------------------------------------------------
(* The invariant holds, and what follows from it.                          *)

\* A ring as the initialisation leaves it.
LEMMA EmptyRing ==
    ASSUME NEW size, Fits(size)
    PROVE  LET q == [buf |-> [s \in 0..(size - 1) |-> 0], head |-> 0, tail |-> 0]
           IN  q \in RingType(size) /\ QUsed(q.head, q.tail, size) = 0 /\ RingContents(q, size) = << >>
<1> DEFINE q == [buf |-> [s \in 0..(size - 1) |-> 0], head |-> 0, tail |-> 0]
<1>1. 0 \in 0..(size - 1) /\ 0 \in Bytes
  BY Bounds DEF Fits, Bytes
<1>2. q \in RingType(size) /\ q.head = 0 /\ q.tail = 0
  BY <1>1 DEF RingType, Bytes
<1> HIDE DEF q
<1>3. QUsed(q.head, q.tail, size) = 0
  BY <1>2 DEF QUsed
<1>4. RingContents(q, size) \in Seq(Bytes) /\ Len(RingContents(q, size)) = 0
  BY <1>2, <1>3, ContentsIs
<1>5. RingContents(q, size) = << >>
  BY <1>4
<1> QED  BY <1>2, <1>3, <1>5 DEF q

LEMMA InitIInv == ASSUME SumsFit, Init PROVE IInv
<1>1. /\ fg = Idle /\ isr = IsrIdle /\ txeie = FALSE /\ errors = 0 /\ tc = TRUE /\ ore = FALSE
      /\ txFifo = << >> /\ shift = << >> /\ rxFifo = << >> /\ wire = << >> /\ got = << >>
      /\ accepted = 0 /\ arrived = 0 /\ lost = {} /\ untold = {}
  BY DEF Init
<1>2. tx \in RingType(TxSize) /\ TxPending = 0 /\ RingContents(tx, TxSize) = << >>
  BY EmptyRing DEF Init, SumsFit, TxPending
<1>3. rx \in RingType(RxSize) /\ RxPending = 0 /\ RingContents(rx, RxSize) = << >>
  BY EmptyRing DEF Init, SumsFit, RxPending
<1>4. << >> \in Seq(Bytes) /\ Len(<< >>) = 0
  OBVIOUS
<1>5. TxType /\ TxCount
  BY <1>1, <1>2, <1>4, Bounds DEF TxType, TxCount
<1>6. RxType
  BY <1>1, <1>3, <1>4, Bounds DEF RxType
<1>7. FgType
  <2>1. Idle \in FgRecord /\ Idle.left = 0
    BY IdleIs
  <2>2. 0 + 0 <= MaxTx
    BY Bounds
  <2> QED  BY <1>1, <2>1, <2>2 DEF FgType, FgRecord
<1>8. IsrType /\ IsrInv
  BY <1>1 DEF IsrType, IsrInv, IsrIdle, IsrPcs
<1>9. TxBlockInv /\ RxBlockInv
  BY <1>1, IdleIs DEF TxBlockInv, RxBlockInv, Multi
<1>10. DrainInv
  BY <1>1, IdleIs DEF DrainInv
<1>11. RxStream
  <2>1. RxHeld = << >>
    BY <1>1, <1>3, IdleIs DEF RxHeld, Handed
  <2>2. 1..0 = {}
    OBVIOUS
  <2>3. Elems(<< >>) = {} /\ Ordered(<< >>)
    BY <1>4, <2>2 DEF Elems, Ordered
  <2>4. Accounted(RxHeld, lost, arrived)
    BY <1>1, <2>1, <2>2, <2>3 DEF Accounted
  <2> QED  BY <2>4, StreamIs
<1>12. ErrorInv /\ LossLeavesTrace
  <2>1. Cardinality({}) = 0
    BY FS_EmptySet
  <2> QED  BY <1>1, <2>1 DEF ErrorInv, LossLeavesTrace
<1> QED  BY <1>5, <1>6, <1>7, <1>8, <1>9, <1>10, <1>11, <1>12 DEF IInv

LEMMA StepKeepsIInv == ASSUME SumsFit, IInv, [Next]_vars PROVE IInv'
<1>1. CASE Next
  BY <1>1, TxStepType, RxStepType, FgStepType, IsrStepType, TxBlockStep, DrainStep, ErrorStep
     DEF IInv
<1>2. CASE UNCHANGED vars
  <2> DEFINE same == UNCHANGED <<tx, txeie, txFifo, shift, tc, wire, accepted,
                                 rx, errors, rxFifo, ore, arrived, got, lost, untold, fg, isr>>
  <2>1. same
    BY <1>2 DEF vars, txVars, rxVars
  <2>2. TxType' /\ TxCount' /\ FgType' /\ IsrType' /\ IsrInv' /\ DrainInv' /\ ErrorInv'
        /\ LossLeavesTrace'
    BY <2>1 DEF IInv, TxType, TxCount, TxPending, FgType, IsrType, IsrInv, DrainInv, ErrorInv,
                LossLeavesTrace
  <2>3. TxBlockInv'
    BY <2>1 DEF IInv, TxBlockInv, Multi
  <2>4. RxQuiet
    BY <2>1 DEF RxQuiet
  <2>5. RxType' /\ RxStream' /\ RxBlockInv'
    BY <2>4, QuietRx DEF IInv
  <2> QED  BY <2>2, <2>3, <2>5 DEF IInv
<1> QED  BY <1>1, <1>2

\* What the runs check and all that is needed to know it is kept by every step
\* of both sides of the stream, whatever the interrupt finds half done.
THEOREM UartInvariant == ASSUME SumsFit PROVE Spec => []IInv
<1>1. Init => IInv
  BY InitIInv
<1>2. IInv /\ [Next]_vars => IInv'
  BY StepKeepsIInv
<1> QED  BY <1>1, <1>2, PTL DEF Spec

\* Every variable holds a value of its C or register type, and no index, FIFO
\* or count leaves its range.
THEOREM UartTypeCorrect == ASSUME SumsFit PROVE Spec => []TypeOK
<1>1. IInv => TypeOK
  <2> SUFFICES ASSUME IInv PROVE TypeOK
    OBVIOUS
  <2>1. TxType /\ RxType /\ FgType /\ IsrType /\ fg \in FgRecord
    BY DEF IInv, FgType, FgRecord
  <2>2. errors \in Nat /\ ErrorInv /\ Cardinality(lost) \in Nat /\ Cardinality(lost) <= arrived
        /\ ore \in BOOLEAN
    BY <2>1, LostFinite DEF IInv, IsrType
  <2>3. arrived \in Nat /\ arrived <= MaxRx
    BY <2>1, Bounds DEF RxType
  <2>4. errors \in 0..(2 * MaxRx)
    <3>1. errors <= Cardinality(lost)
      BY <2>2 DEF ErrorInv
    <3> QED  BY <2>2, <2>3, <3>1, Bounds
  <2>5. accepted \in 0..MaxTx
    <3>1. accepted \in Nat /\ fg.left \in Nat /\ accepted + fg.left <= MaxTx
      BY <2>1 DEF TxType, FgType
    <3> QED  BY <3>1, Bounds
  <2>6. fg.pc \in FgPcs /\ fg.left \in 0..MaxTx /\ fg.n \in 0..(MaxTx + RxSize)
    BY <2>1 DEF FgRecord
  <2>7. isr.pc \in {"idle", "rx", "rxPoll", "tx", "txPoll", "disarm"}
    BY <2>1 DEF IsrType, IsrPcs
  <2> QED  BY <2>1, <2>4, <2>5, <2>6, <2>7 DEF TypeOK, TxType, RxType, IsrType
<1> QED  BY <1>1, UartInvariant, PTL

\* A flush none of whose limits expired, and an is_tx_busy about to answer
\* "idle", speak the truth: every accepted byte has left the shift register,
\* although the ring and TC were read at two moments with the ISR in between.
THEOREM UartDoneMeansOnWire == ASSUME SumsFit PROVE Spec => []DoneMeansOnWire
<1>1. IInv => DoneMeansOnWire
  <2> SUFFICES ASSUME IInv, (fg.pc = "tcClear" /\ fg.ok) \/ (fg.pc = "tcRead" /\ tc)
               PROVE  Len(wire) = accepted
    BY DEF DoneMeansOnWire
  <2>1. shift = << >> /\ txFifo = << >> /\ TxPending = 0
    BY DEF IInv, DrainInv
  <2>2. accepted = Len(wire) + 0 + 0 + 0 /\ wire \in Seq(Bytes)
    BY <2>1 DEF IInv, TxCount, TxType
  <2> QED  BY <2>2
<1> QED  BY <1>1, UartInvariant, PTL

\* Received bytes are handed over in the order of their arrival, and none is
\* lost but those dropped at a full ring or a full FIFO.
THEOREM UartRxStream == ASSUME SumsFit PROVE Spec => []RxStream
<1>1. IInv => RxStream
  BY DEF IInv
<1> QED  BY <1>1, UartInvariant, PTL

\* No drop goes untold: the error count, or the overrun flag that will raise
\* it, says so until the foreground clears the count.
THEOREM UartLossLeavesTrace == ASSUME SumsFit PROVE Spec => []LossLeavesTrace
<1>1. IInv => LossLeavesTrace
  BY DEF IInv
<1> QED  BY <1>1, UartInvariant, PTL

----------------------------------------------------------------------------
(* Transmission implements the FIFO.                                       *)

Room == (TxSize - 1) + FifoDepth + 1

LEMMA PendIs ==
    ASSUME SumsFit, TxType, TxCount
    PROVE  /\ Pend \in Seq(Bytes) /\ Len(Pend) = Len(shift) + Len(txFifo) + TxPending
           /\ Len(wire) + Len(Pend) = accepted /\ accepted \in Nat
           /\ Len(Pend) \in Nat /\ Len(wire) \in Nat /\ Room \in Nat /\ Room >= 1
           /\ \A n \in Nat : TxPending + n <= TxSize - 1 => Len(Pend) + n <= Room
<1>1. /\ RingContents(tx, TxSize) \in Seq(Bytes) /\ Len(RingContents(tx, TxSize)) = TxPending
      /\ TxPending \in Nat /\ Len(shift) \in Nat /\ Len(txFifo) \in Nat /\ Len(wire) \in Nat
      /\ shift \in Seq(Bytes) /\ txFifo \in Seq(Bytes) /\ accepted \in Nat
      /\ Len(shift) <= 1 /\ Len(txFifo) <= FifoDepth
  BY TxFacts DEF TxType
<1>2. shift \o txFifo \in Seq(Bytes) /\ Len(shift \o txFifo) = Len(shift) + Len(txFifo)
  BY <1>1, ConcatProperties
<1>3. /\ Pend \in Seq(Bytes) /\ Len(Pend) = (Len(shift) + Len(txFifo)) + TxPending
  <2> DEFINE a == shift \o txFifo
             r == RingContents(tx, TxSize)
  <2>1. a \in Seq(Bytes) /\ r \in Seq(Bytes)
    BY <1>1, <1>2
  <2> HIDE DEF a, r
  <2>2. a \o r \in Seq(Bytes) /\ Len(a \o r) = Len(a) + Len(r)
    BY <2>1, ConcatProperties
  <2>3. Pend = a \o r /\ Len(a) = Len(shift) + Len(txFifo) /\ Len(r) = TxPending
    BY <1>1, <1>2 DEF Pend, a, r
  <2> QED  BY <2>2, <2>3
<1>4. Room \in Nat /\ Room >= 1
  BY Bounds DEF Room, SumsFit, Fits
<1>5. ASSUME NEW n \in Nat, TxPending + n <= TxSize - 1 PROVE Len(Pend) + n <= Room
  <2>1. \A s, f, p, d, z, m \in Nat :
           s <= 1 /\ f <= d /\ p + m <= z - 1 => ((s + f) + p) + m <= (z - 1) + d + 1
    OBVIOUS
  <2> QED  BY <1>1, <1>3, <1>5, <2>1, Bounds DEF Room
<1>6. Len(wire) + Len(Pend) = accepted
  BY <1>1, <1>3 DEF TxCount
<1> QED  BY <1>1, <1>3, <1>4, <1>5, <1>6

LEMMA AcceptsTx ==
    ASSUME SumsFit, TxType, TxCount, NEW n \in Nat \ {0}, TxPending + n <= TxSize - 1,
           wire' = wire, Pend' = Pend \o [k \in 1..n |-> accepted + k]
    PROVE  TxStream!FifoNext
<1>1. Len(Pend) + n <= Room /\ n \in 1..Room
  BY PendIs
<1>2. [k \in 1..n |-> Len(wire) + Len(Pend) + k] = [k \in 1..n |-> accepted + k]
  BY PendIs
<1>3. TxStream!Accept(n)
  BY <1>1, <1>2 DEF TxStream!Accept, Pend, Room
<1> QED  BY <1>1, <1>3 DEF TxStream!FifoNext, Room

LEMMA TakesTx ==
    ASSUME SumsFit, TxType, TxCount, ShiftDone
    PROVE  TxStream!FifoNext
<1>1. /\ Len(shift) = 1 /\ Pend = shift \o Pend' /\ wire' = wire \o shift
      /\ shift' = << >> /\ shift \in Seq(Bytes)
  BY DoneTx DEF TxType
<1>2. Pend \in Seq(Bytes) /\ Room \in Nat /\ Room >= 1
  BY PendIs
<1>3. Pend' \in Seq(Bytes)
  <2>1. txFifo' = txFifo /\ tx' = tx /\ txFifo \in Seq(Bytes) /\ << >> \o txFifo = txFifo
    BY DEF ShiftDone, TxType
  <2>2. RingContents(tx, TxSize) \in Seq(Bytes)
    BY TxFacts
  <2>3. Pend' = txFifo \o RingContents(tx, TxSize)
    BY <1>1, <2>1 DEF Pend
  <2> QED  BY <2>1, <2>2, <2>3, ConcatProperties
<1> DEFINE p == Pend
           q == Pend'
<1> HIDE DEF p, q
<1>4. /\ p = shift \o q /\ p \in Seq(Bytes) /\ q \in Seq(Bytes)
  BY <1>1, <1>2, <1>3 DEF p, q
<1>5. /\ SubSeq(p, 1, 1) = shift /\ SubSeq(p, 1 + 1, Len(p)) = q /\ 1 <= Len(p)
  <2>0. shift \in Seq(Bytes) /\ q \in Seq(Bytes)
    BY <1>1, <1>4
  <2>9. /\ Len(shift \o q) = Len(shift) + Len(q)
        /\ \A i \in 1..(Len(shift) + Len(q)) :
              (shift \o q)[i] = IF i <= Len(shift) THEN shift[i] ELSE q[i - Len(shift)]
    BY <2>0, ConcatProperties
  <2>1. Len(p) = 1 + Len(q) /\ Len(q) \in Nat
    BY <1>1, <1>4, <2>9
  <2>2. 1 \in 1..Len(shift) /\ SubSeq(shift, 1, 1) = shift
    BY <1>1, SubSeqFull
  <2>3. SubSeq(p, 1, 1) = SubSeq(shift, 1, 1)
    BY <1>1, <1>4, <2>2, SubSeqOfConcat1
  <2>4. Len(SubSeq(p, 1 + 1, Len(p))) = Len(q) /\ SubSeq(p, 1 + 1, Len(p)) \in Seq(Bytes)
    BY <1>4, <2>1
  <2>5. ASSUME NEW k \in 1..Len(q) PROVE SubSeq(p, 1 + 1, Len(p))[k] = q[k]
    <3>1. k + 1 \in 1..Len(p) /\ ~(k + 1 <= 1) /\ (k + 1) - 1 = k
      BY <2>1
    <3>2. p[k + 1] = q[k]
      BY <1>1, <1>4, <2>1, <3>1, ConcatProperties
    <3>3. SubSeq(p, 1 + 1, Len(p))[k] = p[k + 1]
      BY <1>4, <2>1, <3>1
    <3> QED  BY <3>2, <3>3
  <2>6. SubSeq(p, 1 + 1, Len(p)) = q
    BY <1>4, <2>4, <2>5, SeqEqual
  <2> QED  BY <2>1, <2>2, <2>3, <2>6
<1>6. TxStream!Take(1)
  BY <1>1, <1>5 DEF TxStream!Take, p, q, Pend
<1> QED  BY <1>2, <1>6 DEF TxStream!FifoNext, Room

\* A step takes the oldest byte from the stream, or accepts one or a block
\* behind the others, or moves bytes along within it, which nobody sees.
LEMMA StepRefinesTxStream ==
    ASSUME SumsFit, IInv, [Next]_vars
    PROVE  [TxStream!FifoNext]_(TxStream!fifoVars)
<1>1. TxType /\ TxCount /\ FgType /\ TxBlockInv /\ IsrInv /\ fg.left \in Nat
  BY DEF IInv, FgType
<1>2. ASSUME Pend' = Pend, wire' = wire PROVE [TxStream!FifoNext]_(TxStream!fifoVars)
  BY <1>2 DEF TxStream!fifoVars, Pend
<1>3. CASE StoreByte /\ accepted + 1 <= MaxTx
  <2>1. /\ wire' = wire /\ Pend' = Pend \o <<accepted + 1>> /\ TxPending + 1 <= TxSize - 1
    BY <1>1, <1>3, StoreTx
  <2>2. PICK n \in Nat \ {0} : n = 1
    OBVIOUS
  <2>3. <<accepted + 1>> = [k \in 1..n |-> accepted + k]
    BY <2>2
  <2>4. Pend' = Pend \o [k \in 1..n |-> accepted + k] /\ TxPending + n <= TxSize - 1
    BY <2>1, <2>2, <2>3
  <2> QED  BY <1>1, <2>1, <2>4, AcceptsTx
<1>4. CASE PublishMulti
  <2> DEFINE n == fg.n
  <2>1. /\ wire' = wire /\ n \in 1..fg.left
        /\ Pend' = Pend \o [k \in 1..n |-> accepted + k] /\ TxPending + n <= TxSize - 1
    BY <1>1, <1>4, PublishTx
  <2>2. n \in Nat \ {0}
    BY <1>1, <2>1
  <2> HIDE DEF n
  <2> QED  BY <1>1, <2>1, <2>2, AcceptsTx
<1>5. CASE ShiftDone
  BY <1>1, <1>5, TakesTx
<1>6. CASE TxSame \/ ShiftLoad \/ IsrGiveByte \/ CopyMulti
  BY <1>1, <1>2, <1>6, SameTx, LoadTx, GiveTx, CopyTx
<1>7. CASE UNCHANGED vars
  <2>1. TxSame
    BY <1>7 DEF vars, txVars, TxSame
  <2> QED  BY <1>6, <2>1
<1> QED  BY <1>3, <1>4, <1>5, <1>6, <1>7, TxCases

\* From the calls to the line, transmission is one bounded FIFO (ByteFifo): the
\* ring, the USART's FIFO, the shift register, the ISR between them and the
\* four calls add nothing to it, drop nothing and reorder nothing.
THEOREM UartTxImplementsFifo == ASSUME SumsFit PROVE Spec => TxImplementsFifo
<1>1. Init => TxStream!FifoInit
  <2> SUFFICES ASSUME Init PROVE TxStream!FifoInit
    OBVIOUS
  <2>1. shift = << >> /\ txFifo = << >> /\ wire = << >> /\ RingContents(tx, TxSize) = << >>
    BY EmptyRing DEF Init, SumsFit
  <2>2. << >> \o << >> = << >>
    OBVIOUS
  <2> QED  BY <2>1, <2>2 DEF TxStream!FifoInit
<1>2. IInv /\ [Next]_vars => [TxStream!FifoNext]_(TxStream!fifoVars)
  BY StepRefinesTxStream
<1> QED  BY <1>1, <1>2, UartInvariant, PTL DEF Spec, TxImplementsFifo, TxStream!FifoSpec

=============================================================================
