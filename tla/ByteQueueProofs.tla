-------------------------- MODULE ByteQueueProofs --------------------------
(***************************************************************************)
(* Proofs about one byte queue, for every ring size, every index width and *)
(* every number of bytes offered.  The only hypothesis is BlockSumsFit:    *)
(* the sum of an index and a block length fits the index type.             *)
(***************************************************************************)
EXTENDS ByteQueueSpsc, SequenceTheorems, TLAPS

\* The inductive strengthening.  Stored says where every pending byte is;
\* ProdCopied says the same of the bytes a block enqueue has copied and not
\* yet published, which lie in the free slots just past head.
Stored == \A k \in 0..(Used - 1) :
              buf[QAdvance(tail, k, Size)] = Delivered + k + 1

ProdCopied ==
    InCall(prod) =>
        /\ prod.at = head /\ 1 <= prod.n /\ prod.n <= QFree(head, tail, Size)
        /\ prod.i <= prod.n
        /\ \A j \in 0..(prod.i - 1) :
               buf[QAdvance(head, j, Size)] = accepted + j + 1

ConsCopied ==
    /\ InCall(cons) => /\ cons.at = tail /\ 1 <= cons.n /\ cons.n <= Used
                       /\ cons.i <= cons.n
    /\ ~InCall(cons) => cons.i = 0
    /\ cons.i <= Len(got)

IInv == /\ TypeOK /\ InOrder /\ Conserved
        /\ Stored /\ ProdCopied /\ ConsCopied

----------------------------------------------------------------------------
\* Index arithmetic: with BlockSumsFit the 16-bit sum is the plain sum, and
\* advancing is addition modulo the ring size.
LEMMA AdvanceIsModular ==
    ASSUME BlockSumsFit, NEW i \in Slots, NEW n \in Slots
    PROVE  /\ QAdvance(i, n, Size) = IF i + n >= Size THEN i + n - Size ELSE i + n
           /\ QAdvance(i, n, Size) \in Slots
  BY SizeAssumption, IndexModAssumption
     DEF BlockSumsFit, Slots, QAdvance, AddU16

\* One step of a single-byte operation is an advance by one.
LEMMA NextIsAdvance ==
    ASSUME NEW i \in Slots
    PROVE  /\ QNext(i, Size) = IF i + 1 = Size THEN 0 ELSE i + 1
           /\ QNext(i, Size) \in Slots
           /\ BlockSumsFit => QNext(i, Size) = QAdvance(i, 1, Size)
  BY SizeAssumption, IndexModAssumption
     DEF BlockSumsFit, Slots, QNext, QAdvance, AddU16

\* The two-part memcpy visits the slots an advance from its start would.
LEMMA BlockSlotIsAdvance ==
    ASSUME BlockSumsFit, NEW i \in Slots, NEW n \in Slots, NEW j \in 0..(n - 1)
    PROVE  /\ BlockSlot(i, n, j, Size) = QAdvance(i, j, Size)
           /\ BlockSlot(i, n, j, Size) \in Slots
  BY SizeAssumption, IndexModAssumption
     DEF BlockSumsFit, Slots, QAdvance, AddU16, BlockSlot, Part1

\* Bytes pending never exceed what the ring can hold, and head is where an
\* advance of tail by that many ends.
LEMMA UsedBounds ==
    ASSUME BlockSumsFit, NEW h \in Slots, NEW t \in Slots
    PROVE  /\ QUsed(h, t, Size) \in Slots
           /\ QFree(h, t, Size) \in Slots
           /\ h = QAdvance(t, QUsed(h, t, Size), Size)
  BY SizeAssumption, IndexModAssumption
     DEF BlockSumsFit, Slots, QAdvance, AddU16, QUsed, QFree

\* Moving head forward by n adds n pending bytes; moving tail takes n away.
LEMMA UsedAfterAdvance ==
    ASSUME BlockSumsFit, NEW h \in Slots, NEW t \in Slots, NEW n \in Slots
    PROVE  /\ n <= QFree(h, t, Size) =>
                QUsed(QAdvance(h, n, Size), t, Size) = QUsed(h, t, Size) + n
           /\ n <= QUsed(h, t, Size) =>
                QUsed(h, QAdvance(t, n, Size), Size) = QUsed(h, t, Size) - n
  BY SizeAssumption, IndexModAssumption
     DEF BlockSumsFit, Slots, QAdvance, AddU16, QUsed, QFree

\* Advances compose, and two different short advances end in different slots.
LEMMA AdvanceTwice ==
    ASSUME BlockSumsFit, NEW i \in Slots, NEW a \in Slots, NEW b \in Slots,
           NEW c \in Slots, c = a + b
    PROVE  QAdvance(QAdvance(i, a, Size), b, Size) = QAdvance(i, c, Size)
  BY SizeAssumption, IndexModAssumption
     DEF BlockSumsFit, Slots, QAdvance, AddU16

LEMMA AdvanceInjective ==
    ASSUME BlockSumsFit, NEW i \in Slots, NEW a \in Slots, NEW b \in Slots,
           QAdvance(i, a, Size) = QAdvance(i, b, Size)
    PROVE  a = b
  BY SizeAssumption, IndexModAssumption
     DEF BlockSumsFit, Slots, QAdvance, AddU16

----------------------------------------------------------------------------
LEMMA InitIInv == ASSUME Init PROVE IInv
  BY SizeAssumption
     DEF Init, IInv, TypeOK, InOrder, Conserved, Stored, ProdCopied, ConsCopied,
         Idle, InCall, CallType, Slots, Used, QUsed, Delivered

\* Appending one number to the consumer's memory.
LEMMA AppendOne ==
    ASSUME NEW s \in Seq(Nat), NEW x \in Nat
    PROVE  /\ Append(s, x) \in Seq(Nat) /\ Len(Append(s, x)) = Len(s) + 1
           /\ \A k \in 1..Len(s) : Append(s, x)[k] = s[k]
           /\ Append(s, x)[Len(s) + 1] = x
  OBVIOUS

\* The stream so far extended by its next number is still the stream.
LEMMA InOrderExtends ==
    ASSUME got \in Seq(Nat), InOrder, got' = Append(got, Len(got) + 1)
    PROVE  /\ got' \in Seq(Nat) /\ Len(got') = Len(got) + 1 /\ InOrder'
<1>1. /\ got' \in Seq(Nat) /\ Len(got') = Len(got) + 1 /\ Len(got) \in Nat
      /\ \A k \in 1..Len(got) : got'[k] = got[k]
      /\ got'[Len(got) + 1] = Len(got) + 1
  BY AppendOne
<1>2. ASSUME NEW k \in 1..(Len(got) + 1) PROVE got'[k] = k
  <2>1. CASE k = Len(got) + 1
    BY <2>1, <1>1
  <2>2. CASE k # Len(got) + 1
    <3>1. k \in 1..Len(got)
      BY <2>2, <1>1
    <3> QED  BY <3>1, <1>1 DEF InOrder
  <2> QED  BY <2>1, <2>2
<1> QED  BY <1>1, <1>2 DEF InOrder

\* What every step may use of the state it starts from: the ranges of the
\* indices and of the calls' locals, and the counts.
LEMMA IndexFacts ==
    ASSUME BlockSumsFit, IInv
    PROVE  /\ Size \in Nat /\ Size >= 2 /\ 0 \in Slots /\ 1 \in Slots
           /\ head \in Slots /\ tail \in Slots
           /\ prod.n \in Slots /\ prod.i \in Slots
           /\ cons.n \in Slots /\ cons.i \in Slots
           /\ Used \in Slots /\ Used \in Int /\ Used <= Size - 1
           /\ QFree(head, tail, Size) = Size - 1 - Used
<1>1. /\ Size \in Nat /\ Size >= 2 /\ 0 \in Slots /\ 1 \in Slots
      /\ head \in Slots /\ tail \in Slots
  BY SizeAssumption DEF IInv, TypeOK, Slots
<1>2. /\ prod.n \in Slots /\ prod.i \in Slots
      /\ cons.n \in Slots /\ cons.i \in Slots
  BY DEF IInv, TypeOK, CallType, Slots
<1>3. Used \in Slots /\ QFree(head, tail, Size) = Size - 1 - Used
  BY <1>1, UsedBounds DEF Used, QFree
<1>4. Used \in Int /\ Used <= Size - 1
  BY <1>1, <1>3 DEF Slots
<1> QED  BY <1>1, <1>2, <1>3, <1>4

LEMMA HeadPastUsed ==
    ASSUME BlockSumsFit, IInv PROVE head = QAdvance(tail, Used, Size)
  BY UsedBounds, IndexFacts DEF Used

LEMMA CountFacts ==
    ASSUME BlockSumsFit, IInv
    PROVE  /\ accepted \in Nat /\ Len(got) \in Nat /\ Used \in Int
           /\ prod.i \in Nat /\ prod.n \in Nat /\ cons.i \in Nat /\ cons.n \in Nat
           /\ Delivered = Len(got) - cons.i /\ Delivered \in Int
           /\ accepted = Delivered + Used
<1>1. prod.i \in Nat /\ prod.n \in Nat /\ cons.i \in Nat /\ cons.n \in Nat
  BY IndexFacts DEF Slots
<1>2. accepted \in Nat /\ Len(got) \in Nat
  BY DEF IInv, TypeOK
<1>3. /\ Delivered = Len(got) - cons.i /\ Delivered \in Int
      /\ accepted = Delivered + Used
  BY <1>1, <1>2 DEF IInv, Conserved, Delivered
<1> QED  BY <1>1, <1>2, <1>3, IndexFacts

\* A byte stored at head leaves the pending bytes alone and becomes the last.
LEMMA PutKeepsIInv == ASSUME BlockSumsFit, IInv, Put PROVE IInv'
<1>1. /\ buf' = [buf EXCEPT ![head] = accepted + 1] /\ head' = QNext(head, Size)
      /\ accepted' = accepted + 1 /\ UNCHANGED <<tail, prod, cons, got>>
      /\ ~InCall(prod)
  BY DEF Put
<1>2. head' = QAdvance(head, 1, Size) /\ head' \in Slots
  BY <1>1, NextIsAdvance, IndexFacts
<1>3. 1 <= QFree(head, tail, Size)
  <2>1. QNext(head, Size) # tail
    BY IndexFacts DEF Put, QFull
  <2>2. QNext(head, Size) = IF head + 1 = Size THEN 0 ELSE head + 1
    BY NextIsAdvance, IndexFacts
  <2> QED  BY <2>1, <2>2, IndexFacts DEF QFree, QUsed, Slots
<1>4. Used + 1 \in Slots /\ Used' = Used + 1
  <2>1. Used + 1 \in Slots
    BY <1>3, IndexFacts DEF Slots
  <2>2. QUsed(head', tail, Size) = QUsed(head, tail, Size) + 1
    BY <1>2, <1>3, UsedAfterAdvance, IndexFacts
  <2> QED  BY <2>1, <2>2, <1>1 DEF Used
<1>5. Delivered' = Delivered
  BY <1>1 DEF Delivered
<1>6. TypeOK'
  BY <1>1, <1>2 DEF IInv, TypeOK
<1>7. Stored'
  <2> SUFFICES ASSUME NEW k \in 0..Used
               PROVE  buf'[QAdvance(tail, k, Size)] = Delivered + k + 1
    BY <1>1, <1>4, <1>5, IndexFacts DEF Stored, Slots
  <2>1. k \in Slots
    BY <1>4, IndexFacts DEF Slots
  <2>2. QAdvance(tail, k, Size) \in Slots
    BY <2>1, AdvanceIsModular, IndexFacts
  <2>3. CASE k = Used
    <3>1. buf'[head] = accepted + 1
      BY <1>1 DEF IInv, TypeOK
    <3> QED  BY <3>1, <2>3, CountFacts, HeadPastUsed
  <2>4. CASE k # Used
    <3>1. k \in 0..(Used - 1)
      BY <2>4, IndexFacts DEF Slots
    <3>2. QAdvance(tail, k, Size) # head
      BY <2>1, <2>4, AdvanceInjective, HeadPastUsed, IndexFacts
    <3>3. buf'[QAdvance(tail, k, Size)] = buf[QAdvance(tail, k, Size)]
      BY <3>2, <2>2, <1>1
    <3> QED  BY <3>1, <3>3 DEF IInv, Stored
  <2> QED  BY <2>3, <2>4
<1>8. InOrder' /\ ProdCopied'
  BY <1>1 DEF IInv, InOrder, ProdCopied, InCall
<1>8a. Conserved'
  BY <1>1, <1>4, <1>5, CountFacts DEF Conserved
<1>9. ConsCopied'
  <2>1. cons.n \in Int /\ Used \in Int
    BY IndexFacts DEF Slots
  <2> QED  BY <2>1, <1>1, <1>4, IndexFacts DEF IInv, ConsCopied, InCall
<1> QED  BY <1>6, <1>7, <1>8, <1>8a, <1>9 DEF IInv

LEMMA PutBlockBeginKeepsIInv ==
  ASSUME BlockSumsFit, IInv, NEW len \in 1..Size, PutBlockBegin(len) PROVE IInv'
<1> DEFINE m == Clip(len, QFree(head, tail, Size))
<1>1. /\ prod' = [pc |-> "copy", at |-> head, n |-> m, i |-> 0] /\ m > 0
      /\ UNCHANGED <<buf, head, tail, cons, accepted, got>>
  BY DEF PutBlockBegin
<1>2. m \in Slots /\ 1 <= m /\ m <= QFree(head, tail, Size)
  BY <1>1, IndexFacts DEF Clip, Slots
<1>3. prod' \in CallType
  BY <1>1, <1>2, IndexFacts DEF CallType, Slots
<1>4. TypeOK'
  BY <1>1, <1>3 DEF IInv, TypeOK
<1>5. ProdCopied'
  BY <1>1, <1>2, IndexFacts DEF ProdCopied, InCall, Slots
<1>6. InOrder' /\ Conserved' /\ Stored' /\ ConsCopied'
  BY <1>1, IndexFacts DEF IInv, InOrder, Conserved, Stored, ConsCopied, Used, Delivered, InCall
<1> QED  BY <1>4, <1>5, <1>6 DEF IInv

\* The slot written lies past head, where no pending byte is.
LEMMA PutBlockCopyKeepsIInv == ASSUME BlockSumsFit, IInv, PutBlockCopy PROVE IInv'
<1> DEFINE i == prod.i
           slot == QAdvance(head, i, Size)
<1>1. /\ prod.at = head /\ prod.n <= Size - 1 - Used /\ prod.n \in Slots
      /\ i \in 0..(prod.n - 1) /\ i \in Slots /\ i + 1 \in Slots
  BY IndexFacts DEF IInv, PutBlockCopy, ProdCopied, Slots
<1>2. slot \in Slots
  BY <1>1, AdvanceIsModular, IndexFacts
<1>3. /\ buf' = [buf EXCEPT ![slot] = accepted + i + 1]
      /\ UNCHANGED <<head, tail, cons, accepted, got>>
  <2>1. BlockSlot(prod.at, prod.n, i, Size) = slot
    BY <1>1, BlockSlotIsAdvance, IndexFacts
  <2> QED  BY <2>1 DEF PutBlockCopy
<1>4. /\ prod' \in CallType /\ prod'.i = i + 1 /\ prod'.at = head
      /\ prod'.n = prod.n /\ prod'.pc = prod.pc
  <2>1. prod \in CallType
    BY DEF IInv, TypeOK
  <2>2. prod' = [prod EXCEPT !.i = i + 1]
    BY DEF PutBlockCopy
  <2> QED  BY <2>1, <2>2, <1>1, IndexFacts DEF CallType, Slots
<1>5. accepted + i + 1 \in Nat
  BY CountFacts
<1>6. TypeOK'
  BY <1>2, <1>3, <1>4, <1>5 DEF IInv, TypeOK
<1>7. Used' = Used /\ Delivered' = Delivered
  BY <1>3 DEF Used, Delivered
<1>8. Stored'
  <2> SUFFICES ASSUME NEW k \in 0..(Used - 1)
               PROVE  buf'[QAdvance(tail, k, Size)] = Delivered + k + 1
    BY <1>3, <1>7 DEF Stored
  <2>1. k \in Slots /\ Used + i \in Slots /\ k # Used + i /\ Used + i < Size
    BY <1>1, IndexFacts DEF Slots
  <2>2. slot = QAdvance(tail, Used + i, Size)
    <3>1. tail \in Slots /\ Used \in Slots
      BY IndexFacts
    <3> QED  BY <3>1, <1>1, <2>1, AdvanceTwice, HeadPastUsed
  <2>3. QAdvance(tail, k, Size) \in Slots
    BY <2>1, AdvanceIsModular, IndexFacts
  <2>4. QAdvance(tail, k, Size) # slot
    BY <2>1, <2>2, AdvanceInjective, IndexFacts
  <2>5. buf'[QAdvance(tail, k, Size)] = buf[QAdvance(tail, k, Size)]
    BY <2>3, <2>4, <1>3
  <2> QED  BY <2>5 DEF IInv, Stored
<1>9. ProdCopied'
  <2>1. ASSUME NEW j \in 0..i
        PROVE  buf'[QAdvance(head, j, Size)] = accepted + j + 1
    <3>1. j \in Slots
      BY <1>1, IndexFacts DEF Slots
    <3>2. QAdvance(head, j, Size) \in Slots
      BY <3>1, AdvanceIsModular, IndexFacts
    <3>3. CASE j = i
      BY <3>3, <1>2, <1>3 DEF IInv, TypeOK
    <3>4. CASE j # i
      <4>1. QAdvance(head, j, Size) # slot
        BY <3>1, <3>4, <1>1, AdvanceInjective, IndexFacts
      <4>2. j \in 0..(i - 1)
        BY <3>4, <1>1, IndexFacts DEF Slots
      <4>3. buf'[QAdvance(head, j, Size)] = buf[QAdvance(head, j, Size)]
        BY <4>1, <3>2, <1>3
      <4> QED  BY <4>2, <4>3 DEF IInv, ProdCopied, PutBlockCopy
    <3> QED  BY <3>3, <3>4
  <2>2. 1 <= prod.n /\ i + 1 <= prod.n /\ i + 1 - 1 = i
    BY <1>1, IndexFacts DEF Slots
  <2>3. prod.n <= QFree(head, tail, Size)
    BY <1>1, IndexFacts
  <2>4. head' = head /\ tail' = tail /\ accepted' = accepted
    BY <1>3
  <2>5. InCall(prod) /\ prod.i + 1 - 1 = prod.i
    BY <1>1, CountFacts DEF PutBlockCopy
  <2>6. prod'.i - 1 = i
    BY <1>4, CountFacts
  <2> QED  BY <2>1, <2>2, <2>3, <2>4, <2>6, <1>4 DEF ProdCopied
<1>10. InOrder' /\ Conserved' /\ ConsCopied'
  BY <1>3, <1>7, IndexFacts DEF IInv, InOrder, Conserved, ConsCopied, InCall
<1> QED  BY <1>6, <1>8, <1>9, <1>10 DEF IInv

\* Publishing turns the copied bytes into pending ones.
LEMMA PutBlockPublishKeepsIInv ==
  ASSUME BlockSumsFit, IInv, PutBlockPublish PROVE IInv'
<1> DEFINE n == prod.n
<1>1. /\ prod.at = head /\ n \in Slots /\ 1 <= n /\ n <= Size - 1 - Used
      /\ prod.i = n /\ Used + n \in Slots
  BY IndexFacts DEF IInv, PutBlockPublish, ProdCopied, Slots
<1>2. /\ head' = QAdvance(head, n, Size) /\ accepted' = accepted + n
      /\ prod' = Idle /\ UNCHANGED <<buf, tail, cons, got>>
  BY <1>1 DEF PutBlockPublish
<1>3. head' \in Slots /\ Used' = Used + n
  <2>1. head \in Slots /\ tail \in Slots /\ n <= QFree(head, tail, Size)
    BY <1>1, IndexFacts
  <2> QED  BY <2>1, <1>1, <1>2, AdvanceIsModular, UsedAfterAdvance DEF Used
<1>4. Delivered' = Delivered
  BY <1>2 DEF Delivered
<1>5. Idle \in CallType /\ ~InCall(Idle)
  BY IndexFacts DEF Idle, CallType, Slots, InCall
<1>6. TypeOK'
  <2>1. accepted' \in Nat
    BY <1>2, CountFacts
  <2> QED  BY <2>1, <1>2, <1>3, <1>5 DEF IInv, TypeOK
<1>7. Stored'
  <2> SUFFICES ASSUME NEW k \in 0..(Used + n - 1)
               PROVE  buf[QAdvance(tail, k, Size)] = Delivered + k + 1
    <3>1. Used' - 1 = Used + n - 1
      BY <1>3, CountFacts
    <3> QED  BY <3>1, <1>2, <1>4 DEF Stored
  <2>1. CASE k < Used
    <3>1. k \in 0..(Used - 1)
      BY <2>1, IndexFacts DEF Slots
    <3> QED  BY <3>1 DEF IInv, Stored
  <2>2. CASE k >= Used
    <3> DEFINE j == k - Used
    <3>1. j \in 0..(n - 1) /\ j \in Slots /\ k \in Slots /\ k = Used + j
      BY <2>2, <1>1, IndexFacts DEF Slots
    <3>2. QAdvance(tail, k, Size) = QAdvance(head, j, Size)
      <4>1. tail \in Slots /\ Used \in Slots
        BY IndexFacts
      <4> QED  BY <3>1, <4>1, AdvanceTwice, HeadPastUsed
    <3>3. buf[QAdvance(head, j, Size)] = accepted + j + 1
      BY <3>1, <1>1 DEF IInv, ProdCopied, PutBlockPublish
    <3> QED  BY <3>1, <3>2, <3>3, CountFacts
  <2> QED  BY <2>1, <2>2, IndexFacts DEF Slots
<1>8. InOrder' /\ ProdCopied'
  BY <1>2, <1>5 DEF IInv, InOrder, ProdCopied
<1>9. Conserved'
  <2>1. n \in Int /\ Used \in Int /\ Delivered \in Int
        /\ accepted = Delivered + Used
    BY CountFacts
  <2>2. accepted' = Delivered' + Used'
    BY <2>1, <1>2, <1>3, <1>4
  <2> QED  BY <2>2 DEF Conserved
<1>10. ConsCopied'
  <2>1. cons.n \in Int /\ Used \in Int /\ n \in Int
    BY IndexFacts DEF Slots
  <2> QED  BY <2>1, <1>1, <1>2, <1>3, IndexFacts DEF IInv, ConsCopied
<1> QED  BY <1>6, <1>7, <1>8, <1>9, <1>10 DEF IInv

----------------------------------------------------------------------------
\* Taking a byte from the front leaves what the producer has copied within the
\* free slots, for there are only more of those.
LEMMA LessUsedKeepsProdCopied ==
    ASSUME BlockSumsFit, IInv, UNCHANGED <<buf, head, prod, accepted>>,
           tail' \in Slots, Used' \in Slots, Used' <= Used
    PROVE  ProdCopied'
<1>1. QFree(head, tail', Size) = Size - 1 - Used'
  BY IndexFacts DEF QFree, Used
<1>2. QFree(head, tail, Size) <= QFree(head, tail', Size)
      /\ QFree(head, tail, Size) \in Int /\ QFree(head, tail', Size) \in Int
  BY <1>1, IndexFacts DEF Slots
<1>3. prod.n \in Int
  BY IndexFacts DEF Slots
<1> QED  BY <1>2, <1>3 DEF IInv, ProdCopied

\* Taking the byte at tail delivers the next number of the stream.
LEMMA GetKeepsIInv == ASSUME BlockSumsFit, IInv, Get PROVE IInv'
<1>1. /\ got' = Append(got, buf[tail]) /\ tail' = QNext(tail, Size)
      /\ UNCHANGED <<buf, head, prod, cons, accepted>> /\ head # tail
  BY DEF Get, QEmpty
<1>2. tail' = QAdvance(tail, 1, Size) /\ tail' \in Slots
  BY <1>1, NextIsAdvance, IndexFacts
<1>3. 1 <= Used
  BY <1>1, IndexFacts DEF Used, QUsed, Slots
<1>4. Used' = Used - 1 /\ Used' \in Slots /\ Used' <= Used
  BY <1>1, <1>2, <1>3, UsedAfterAdvance, IndexFacts DEF Used, Slots
<1>5. cons.i = 0 /\ ~InCall(cons) /\ Delivered = Len(got)
  <2>1. cons.i = 0 /\ ~InCall(cons)
    BY DEF Get, IInv, ConsCopied
  <2> QED  BY <2>1, CountFacts
<1>6. buf[tail] = Len(got) + 1
  <2>1. tail = QAdvance(tail, 0, Size)
    BY AdvanceIsModular, IndexFacts DEF Slots
  <2>2. 0 \in 0..(Used - 1)
    BY <1>3, IndexFacts DEF Slots
  <2> QED  BY <2>1, <2>2, <1>5 DEF IInv, Stored
<1>7. got' \in Seq(Nat) /\ Len(got') = Len(got) + 1 /\ InOrder'
  BY <1>1, <1>6, InOrderExtends DEF IInv, TypeOK
<1>8. Delivered' = Delivered + 1
  BY <1>1, <1>5, <1>7, CountFacts DEF Delivered
<1>9. TypeOK'
  BY <1>1, <1>2, <1>7 DEF IInv, TypeOK
<1>11. Conserved'
  BY <1>1, <1>4, <1>8, CountFacts DEF Conserved
<1>12. Stored'
  <2> SUFFICES ASSUME NEW k \in 0..(Used - 1 - 1)
               PROVE  buf[QAdvance(tail', k, Size)] = Delivered + 1 + k + 1
    BY <1>1, <1>4, <1>8 DEF Stored
  <2>1. k \in Slots /\ 1 + k \in Slots /\ 1 + k \in 0..(Used - 1)
    BY IndexFacts DEF Slots
  <2>2. QAdvance(QAdvance(tail, 1, Size), k, Size) = QAdvance(tail, 1 + k, Size)
    <3>1. tail \in Slots /\ 1 \in Slots
      BY IndexFacts
    <3> QED  BY <3>1, <2>1, AdvanceTwice
  <2>3. buf[QAdvance(tail, 1 + k, Size)] = Delivered + (1 + k) + 1
    BY <2>1 DEF IInv, Stored
  <2> QED  BY <2>2, <2>3, <1>2, CountFacts
<1>13. ProdCopied'
  BY <1>1, <1>2, <1>4, LessUsedKeepsProdCopied, IndexFacts
<1>14. ConsCopied'
  BY <1>1, <1>5, <1>7, CountFacts DEF ConsCopied
<1> QED  BY <1>9, <1>7, <1>11, <1>12, <1>13, <1>14 DEF IInv

LEMMA GetBlockBeginKeepsIInv ==
  ASSUME BlockSumsFit, IInv, NEW maxLen \in 1..Size, GetBlockBegin(maxLen)
  PROVE  IInv'
<1> DEFINE m == Clip(maxLen, Used)
<1>1. /\ cons' = [pc |-> "copy", at |-> tail, n |-> m, i |-> 0] /\ m > 0
      /\ UNCHANGED <<buf, head, tail, prod, accepted, got>>
      /\ ~InCall(cons)
  BY DEF GetBlockBegin
<1>2. m \in Slots /\ 1 <= m /\ m <= Used
  BY <1>1, IndexFacts DEF Clip, Slots
<1>3. cons' \in CallType
  BY <1>1, <1>2, IndexFacts DEF CallType, Slots
<1>4. TypeOK'
  BY <1>1, <1>3 DEF IInv, TypeOK
<1>5. Used' = Used /\ Delivered' = Delivered
  BY <1>1, IndexFacts DEF Used, Delivered, IInv, ConsCopied
<1>6. ConsCopied'
  <2>1. cons'.at = tail' /\ cons'.n = m /\ cons'.i = 0 /\ InCall(cons')
    BY <1>1 DEF InCall
  <2>2. 0 <= m /\ 0 <= Len(got')
    BY <1>1, <1>2, CountFacts DEF Slots
  <2> QED  BY <2>1, <2>2, <1>2, <1>5, IndexFacts DEF ConsCopied
<1>7. InOrder' /\ Conserved' /\ Stored' /\ ProdCopied'
  BY <1>1, <1>5 DEF IInv, InOrder, Conserved, Stored, ProdCopied, InCall
<1> QED  BY <1>4, <1>6, <1>7 DEF IInv

LEMMA GetBlockCopyKeepsIInv == ASSUME BlockSumsFit, IInv, GetBlockCopy PROVE IInv'
<1> DEFINE i == cons.i
<1>1. /\ cons.at = tail /\ cons.n \in Slots /\ i \in 0..(cons.n - 1)
      /\ i + 1 \in Slots /\ i \in Slots /\ i \in 0..(Used - 1)
  <2>1. cons.at = tail /\ cons.n <= Used /\ i < cons.n
    BY DEF IInv, GetBlockCopy, ConsCopied
  <2> QED  BY <2>1, IndexFacts DEF Slots
<1>2. BlockSlot(cons.at, cons.n, i, Size) = QAdvance(tail, i, Size)
  BY <1>1, BlockSlotIsAdvance, IndexFacts
<1>3. /\ got' = Append(got, buf[QAdvance(tail, i, Size)])
      /\ UNCHANGED <<buf, head, tail, prod, accepted>>
  BY <1>2 DEF GetBlockCopy
<1>4. buf[QAdvance(tail, i, Size)] = Len(got) + 1
  BY <1>1, CountFacts DEF IInv, Stored
<1>5. /\ cons' \in CallType /\ cons'.i = i + 1 /\ cons'.at = tail
      /\ cons'.n = cons.n /\ cons'.pc = cons.pc
  <2>1. cons \in CallType
    BY DEF IInv, TypeOK
  <2>2. cons' = [cons EXCEPT !.i = i + 1]
    BY DEF GetBlockCopy
  <2> QED  BY <2>1, <2>2, <1>1, IndexFacts DEF CallType, Slots
<1>6. got' \in Seq(Nat) /\ Len(got') = Len(got) + 1 /\ InOrder'
  BY <1>3, <1>4, InOrderExtends DEF IInv, TypeOK
<1>7. Used' = Used /\ Delivered' = Delivered
  <2>1. Used' = Used
    BY <1>3 DEF Used
  <2>2. Delivered' = (Len(got) + 1) - (i + 1)
    BY <1>5, <1>6 DEF Delivered
  <2> QED  BY <2>1, <2>2, CountFacts
<1>8. TypeOK'
  BY <1>3, <1>5, <1>6 DEF IInv, TypeOK
<1>10. Conserved' /\ Stored' /\ ProdCopied'
  BY <1>3, <1>7 DEF IInv, Conserved, Stored, ProdCopied, InCall
<1>11. ConsCopied'
  <2>1. InCall(cons) /\ cons.n <= Used /\ i + 1 <= cons.n /\ 1 <= cons.n
        /\ i + 1 <= Len(got) + 1
    BY <1>1, CountFacts DEF IInv, GetBlockCopy, ConsCopied
  <2> QED  BY <2>1, <1>3, <1>5, <1>6, <1>7, IndexFacts DEF ConsCopied, InCall
<1> QED  BY <1>8, <1>6, <1>10, <1>11 DEF IInv

LEMMA GetBlockPublishKeepsIInv ==
  ASSUME BlockSumsFit, IInv, GetBlockPublish PROVE IInv'
<1> DEFINE n == cons.n
<1>1. /\ cons.at = tail /\ n \in Slots /\ 1 <= n /\ n <= Used /\ cons.i = n
      /\ Used - n \in Slots /\ Used - n <= Used
  BY IndexFacts DEF IInv, GetBlockPublish, ConsCopied, Slots
<1>2. /\ tail' = QAdvance(tail, n, Size) /\ cons' = Idle
      /\ UNCHANGED <<buf, head, prod, accepted, got>>
  BY <1>1 DEF GetBlockPublish
<1>3. tail' \in Slots /\ Used' = Used - n
  <2>1. head \in Slots /\ tail \in Slots /\ n \in Slots
    BY IndexFacts
  <2> QED  BY <2>1, <1>1, <1>2, AdvanceIsModular, UsedAfterAdvance DEF Used
<1>4. Idle \in CallType /\ ~InCall(Idle) /\ Idle.i = 0
  BY IndexFacts DEF Idle, CallType, Slots, InCall
<1>5. Delivered' = Delivered + n
  BY <1>1, <1>2, <1>4, IndexFacts DEF Delivered, Slots
<1>6. TypeOK'
  BY <1>2, <1>3, <1>4 DEF IInv, TypeOK
<1>7. InOrder'
  BY <1>2 DEF IInv, InOrder
<1>8. Conserved'
  BY <1>2, <1>3, <1>5, CountFacts DEF Conserved
<1>9. Stored'
  <2> SUFFICES ASSUME NEW k \in 0..(Used - n - 1)
               PROVE  buf[QAdvance(tail', k, Size)] = Delivered + n + k + 1
    BY <1>2, <1>3, <1>5 DEF Stored
  <2>1. k \in Slots /\ n + k \in Slots /\ n + k \in 0..(Used - 1)
    BY <1>1, IndexFacts DEF Slots
  <2>2. QAdvance(QAdvance(tail, n, Size), k, Size) = QAdvance(tail, n + k, Size)
    <3>1. tail \in Slots
      BY IndexFacts
    <3>2. n \in Slots
      BY IndexFacts
    <3> DEFINE c == n + k
    <3>3. k \in Slots /\ c \in Slots /\ c = n + k
      BY <2>1
    <3> HIDE DEF n, c
    <3>4. QAdvance(QAdvance(tail, n, Size), k, Size) = QAdvance(tail, c, Size)
      BY <3>1, <3>2, <3>3, AdvanceTwice
    <3> QED  BY <3>3, <3>4
  <2>3. buf[QAdvance(tail, n + k, Size)] = Delivered + (n + k) + 1
    BY <2>1 DEF IInv, Stored
  <2> QED  BY <2>2, <2>3, <1>2, CountFacts
<1>10. ProdCopied'
  BY <1>1, <1>2, <1>3, LessUsedKeepsProdCopied, IndexFacts
<1>11. ConsCopied'
  BY <1>2, <1>4, IndexFacts DEF ConsCopied
<1> QED  BY <1>6, <1>7, <1>8, <1>9, <1>10, <1>11 DEF IInv

----------------------------------------------------------------------------
LEMMA StepKeepsIInv == ASSUME BlockSumsFit, IInv, [Next]_vars PROVE IInv'
<1>1. CASE Next
  BY <1>1, PutKeepsIInv, PutBlockBeginKeepsIInv, PutBlockCopyKeepsIInv,
     PutBlockPublishKeepsIInv, GetKeepsIInv, GetBlockBeginKeepsIInv,
     GetBlockCopyKeepsIInv, GetBlockPublishKeepsIInv
     DEF Next, Produce, Consume
<1>2. CASE UNCHANGED vars
  BY <1>2 DEF vars, IInv, TypeOK, InOrder, Conserved, Stored, ProdCopied,
              ConsCopied, InCall, Used, Delivered
<1> QED  BY <1>1, <1>2

\* The strengthening holds in every reachable state of every instance.
THEOREM QueueInvariant == ASSUME BlockSumsFit PROVE Spec => []IInv
<1>1. Init => IInv
  BY InitIInv
<1>2. IInv /\ [Next]_vars => IInv'
  BY StepKeepsIInv
<1> QED  BY <1>1, <1>2, PTL DEF Spec

\* Every variable keeps its type and no index leaves the buffer (queue.c, all
\* eight operations).
THEOREM QueueTypeOK == ASSUME BlockSumsFit PROVE Spec => []TypeOK
<1>1. IInv => TypeOK
  BY DEF IInv
<1> QED  BY <1>1, QueueInvariant, PTL

\* What the consumer got is the stream the producer offered, in order and
\* without loss or repetition, however block operations interleave.
THEOREM QueueInOrder == ASSUME BlockSumsFit PROVE Spec => []InOrder
<1>1. IInv => InOrder
  BY DEF IInv
<1> QED  BY <1>1, QueueInvariant, PTL

\* Accepted bytes are delivered or pending, never both and never neither.
THEOREM QueueConserved == ASSUME BlockSumsFit PROVE Spec => []Conserved
<1>1. IInv => Conserved
  BY DEF IInv
<1> QED  BY <1>1, QueueInvariant, PTL

\* A stale snapshot of the other side's index only ever understates the room
\* or the bytes there are.
THEOREM QueueSnapshotsConservative ==
    ASSUME BlockSumsFit PROVE Spec => []SnapshotsConservative
<1>1. IInv => SnapshotsConservative
  BY DEF IInv, ProdCopied, ConsCopied, SnapshotsConservative,
         ConservativeProducer, ConservativeConsumer
<1> QED  BY <1>1, QueueInvariant, PTL

\* A store into a slot that is not pending leaves every pending byte alone.
LEMMA StoreOutsidePending ==
    ASSUME BlockSumsFit, IInv, NEW i \in Slots, Used + i \in Slots, NEW v,
           buf' = [buf EXCEPT ![QAdvance(tail, Used + i, Size)] = v]
    PROVE  \A s \in PendingSlots : buf'[s] = buf[s]
<1> SUFFICES ASSUME NEW k \in 0..(Used - 1)
             PROVE  buf'[QAdvance(tail, k, Size)] = buf[QAdvance(tail, k, Size)]
  BY DEF PendingSlots
<1>1. k \in Slots /\ k # Used + i
  BY IndexFacts DEF Slots
<1>2. QAdvance(tail, k, Size) \in Slots
  BY <1>1, AdvanceIsModular, IndexFacts
<1>3. QAdvance(tail, k, Size) # QAdvance(tail, Used + i, Size)
  BY <1>1, AdvanceInjective, IndexFacts
<1>4. buf \in [Slots -> Nat]
  BY DEF IInv, TypeOK
<1> QED  BY <1>2, <1>3, <1>4

LEMMA StepSparesPending ==
    ASSUME BlockSumsFit, IInv, [Next]_vars
    PROVE  \A s \in PendingSlots : buf'[s] = buf[s]
<1>1. CASE Put
  <2>1. Used + 0 = Used /\ 0 \in Slots /\ Used \in Slots
    BY IndexFacts
  <2>2. buf' = [buf EXCEPT ![QAdvance(tail, Used + 0, Size)] = accepted + 1]
    BY <1>1, <2>1, HeadPastUsed DEF Put
  <2> QED  BY <2>1, <2>2, StoreOutsidePending
<1>2. CASE PutBlockCopy
  <2>1. /\ prod.at = head /\ prod.n \in Slots /\ prod.i \in 0..(prod.n - 1)
        /\ prod.i \in Slots /\ Used + prod.i \in Slots
    BY <1>2, IndexFacts DEF IInv, PutBlockCopy, ProdCopied, Slots
  <2>2. BlockSlot(prod.at, prod.n, prod.i, Size) = QAdvance(head, prod.i, Size)
    BY <2>1, BlockSlotIsAdvance, IndexFacts
  <2>3. QAdvance(head, prod.i, Size) = QAdvance(tail, Used + prod.i, Size)
    <3>1. tail \in Slots /\ Used \in Slots
      BY IndexFacts
    <3> QED  BY <3>1, <2>1, AdvanceTwice, HeadPastUsed
  <2>4. buf' = [buf EXCEPT ![QAdvance(tail, Used + prod.i, Size)] =
                                accepted + prod.i + 1]
    BY <1>2, <2>2, <2>3 DEF PutBlockCopy
  <2> QED  BY <2>1, <2>4, StoreOutsidePending
<1>3. CASE \/ \E len \in 1..Size : PutBlockBegin(len)
           \/ PutBlockPublish \/ Consume \/ UNCHANGED vars
  BY <1>3 DEF PutBlockBegin, PutBlockPublish, Consume, Get, GetBlockBegin,
              GetBlockCopy, GetBlockPublish, vars
<1> QED  BY <1>1, <1>2, <1>3 DEF Next, Produce

\* No step of either side, of a single-byte or a block operation, changes a
\* byte that is pending when the step is taken.
THEOREM QueuePendingNeverOverwritten ==
    ASSUME BlockSumsFit PROVE Spec => PendingNeverOverwritten
<1>1. IInv /\ [Next]_vars => [\A s \in PendingSlots : buf'[s] = buf[s]]_vars
  BY StepSparesPending
<1> QED  BY <1>1, QueueInvariant, PTL DEF Spec, PendingNeverOverwritten

----------------------------------------------------------------------------
(* The queue implements a bounded FIFO.  Its abstract state is two runs of *)
(* the stream: what has been taken, and what is pending after it.          *)

Run(from, n) == [k \in 1..n |-> from + k]

LEMMA RunIs ==
    ASSUME NEW a \in Nat, NEW n \in Nat
    PROVE  Run(a, n) \in Seq(Nat) /\ Len(Run(a, n)) = n /\ \A k \in 1..n : Run(a, n)[k] = a + k
<1>1. \A k \in 1..n : a + k \in Nat
  OBVIOUS
<1> QED  BY <1>1 DEF Run

\* Two runs with nothing between them are one, and a run can be cut anywhere.
LEMMA RunsJoin ==
    ASSUME NEW a \in Nat, NEW m \in Nat, NEW n \in Nat
    PROVE  Run(a, m) \o Run(a + m, n) = Run(a, m + n)
<1>1. /\ a + m \in Nat /\ m + n \in Nat
  OBVIOUS
<1>2. /\ Run(a, m) \in Seq(Nat) /\ Len(Run(a, m)) = m /\ \A k \in 1..m : Run(a, m)[k] = a + k
      /\ Run(a + m, n) \in Seq(Nat) /\ Len(Run(a + m, n)) = n
      /\ \A k \in 1..n : Run(a + m, n)[k] = a + m + k
      /\ Run(a, m + n) \in Seq(Nat) /\ Len(Run(a, m + n)) = m + n
      /\ \A k \in 1..(m + n) : Run(a, m + n)[k] = a + k
  BY <1>1, RunIs
<1> DEFINE p == Run(a, m)
           q == Run(a + m, n)
<1>2a. p \in Seq(Nat) /\ q \in Seq(Nat) /\ Len(p) = m /\ Len(q) = n
  BY <1>2
<1> HIDE DEF p, q
<1>3. /\ p \o q \in Seq(Nat) /\ Len(p \o q) = m + n
      /\ \A k \in 1..(m + n) : (p \o q)[k] = IF k <= m THEN p[k] ELSE q[k - m]
  BY <1>2a, ConcatProperties
<1>4. ASSUME NEW k \in 1..(m + n) PROVE (p \o q)[k] = a + k
  <2>1. CASE k <= m
    BY <1>2, <1>3, <2>1 DEF p
  <2>2. CASE ~(k <= m)
    <3>1. k - m \in 1..n /\ a + m + (k - m) = a + k
      BY <2>2
    <3> QED  BY <1>2, <1>3, <2>2, <3>1 DEF q
  <2> QED  BY <2>1, <2>2
<1>5. \A k \in 1..(m + n) : (p \o q)[k] = Run(a, m + n)[k]
  BY <1>2, <1>4
<1>6. p \o q = Run(a, m + n)
  BY <1>2, <1>3, <1>5, SeqEqual
<1> QED  BY <1>6 DEF p, q

LEMMA RunCut ==
    ASSUME NEW a \in Nat, NEW m \in Nat, NEW n \in Nat, n <= m
    PROVE  /\ SubSeq(Run(a, m), 1, n) = Run(a, n)
           /\ SubSeq(Run(a, m), n + 1, m) = Run(a + n, m - n)
<1>1. /\ Run(a, m) \in Seq(Nat) /\ Len(Run(a, m)) = m /\ \A k \in 1..m : Run(a, m)[k] = a + k
      /\ Run(a, n) \in Seq(Nat) /\ Len(Run(a, n)) = n /\ \A k \in 1..n : Run(a, n)[k] = a + k
  BY RunIs
<1>2. a + n \in Nat /\ m - n \in Nat
  OBVIOUS
<1>3. /\ Run(a + n, m - n) \in Seq(Nat) /\ Len(Run(a + n, m - n)) = m - n
      /\ \A k \in 1..(m - n) : Run(a + n, m - n)[k] = a + n + k
  BY <1>2, RunIs
<1> DEFINE r == Run(a, m)
<1> HIDE DEF r
<1>4. SubSeq(r, 1, n) = Run(a, n)
  <2>1. /\ SubSeq(r, 1, n) \in Seq(Nat) /\ Len(SubSeq(r, 1, n)) = n
        /\ \A k \in 1..n : SubSeq(r, 1, n)[k] = r[k]
    BY <1>1 DEF r
  <2>2. \A k \in 1..n : SubSeq(r, 1, n)[k] = Run(a, n)[k]
    BY <1>1, <2>1 DEF r
  <2> QED  BY <1>1, <2>1, <2>2, SeqEqual
<1>5. SubSeq(r, n + 1, m) = Run(a + n, m - n)
  <2>1. /\ SubSeq(r, n + 1, m) \in Seq(Nat) /\ Len(SubSeq(r, n + 1, m)) = m - n
        /\ \A k \in 1..(m - n) : SubSeq(r, n + 1, m)[k] = r[n + k]
    BY <1>1, <1>2 DEF r
  <2>2. ASSUME NEW k \in 1..(m - n) PROVE SubSeq(r, n + 1, m)[k] = Run(a + n, m - n)[k]
    <3>1. n + k \in 1..m /\ a + (n + k) = a + n + k
      OBVIOUS
    <3> QED  BY <1>1, <1>3, <2>1, <3>1 DEF r
  <2> QED  BY <1>3, <2>1, <2>2, SeqEqual
<1> QED  BY <1>4, <1>5 DEF r

\* What the ring and the consumer's memory hold, as runs.
LEMMA TakenIsRun ==
    ASSUME NEW g \in Seq(Nat), NEW d \in Nat, d <= Len(g), \A k \in 1..Len(g) : g[k] = k
    PROVE  SubSeq(g, 1, d) = Run(0, d)
<1>1. /\ SubSeq(g, 1, d) \in Seq(Nat) /\ Len(SubSeq(g, 1, d)) = d
      /\ \A k \in 1..d : SubSeq(g, 1, d)[k] = g[k]
  OBVIOUS
<1>2. Run(0, d) \in Seq(Nat) /\ Len(Run(0, d)) = d /\ \A k \in 1..d : Run(0, d)[k] = 0 + k
  BY RunIs
<1>3. \A k \in 1..d : SubSeq(g, 1, d)[k] = Run(0, d)[k]
  <2>1. ASSUME NEW k \in 1..d PROVE k \in 1..Len(g) /\ 0 + k = k
    OBVIOUS
  <2> QED  BY <1>1, <1>2, <2>1
<1> QED  BY <1>1, <1>2, <1>3, SeqEqual

Pending == [k \in 1..Used |-> buf[QAdvance(tail, k - 1, Size)]]
Taken == SubSeq(got, 1, Delivered)

\* The counts of a state, where the invariant holds.
Counted(d, u) == d \in Nat /\ u \in Nat /\ u <= Size - 1

LEMMA ViewIs ==
    ASSUME BlockSumsFit, IInv
    PROVE  Counted(Delivered, Used) /\ Pending = Run(Delivered, Used) /\ Taken = Run(0, Delivered)
<1>1. Delivered \in Nat /\ Used \in Nat /\ Delivered <= Len(got) /\ Used <= Size - 1
  BY CountFacts, IndexFacts DEF IInv, ConsCopied, Slots
<1>2. Pending = Run(Delivered, Used)
  <2>1. \A k \in 0..(Used - 1) : buf[QAdvance(tail, k, Size)] = Delivered + k + 1
    BY DEF IInv, Stored
  <2>2. ASSUME NEW k \in 1..Used PROVE buf[QAdvance(tail, k - 1, Size)] = Delivered + k
    <3>1. k - 1 \in 0..(Used - 1) /\ Delivered + (k - 1) + 1 = Delivered + k
      BY <1>1
    <3> QED  BY <2>1, <3>1
  <2> QED  BY <2>2 DEF Pending, Run
<1>3. Taken = Run(0, Delivered)
  BY <1>1, TakenIsRun DEF Taken, IInv, TypeOK, InOrder
<1> QED  BY <1>1, <1>2, <1>3 DEF Counted

LEMMA ViewAfter ==
    ASSUME BlockSumsFit, IInv'
    PROVE  Counted(Delivered', Used') /\ Pending' = Run(Delivered', Used') /\ Taken' = Run(0, Delivered')
<1>1. head' \in Slots /\ tail' \in Slots /\ Used' \in Slots
  BY UsedBounds DEF IInv, TypeOK, Used
<1>2. /\ Len(got') \in Nat /\ cons'.i \in Nat /\ cons'.i <= Len(got')
      /\ Delivered' = Len(got') - cons'.i
  BY SizeAssumption DEF IInv, TypeOK, ConsCopied, CallType, Delivered
<1>3. Delivered' \in Nat /\ Used' \in Nat /\ Delivered' <= Len(got') /\ Used' <= Size - 1
  BY <1>1, <1>2, SizeAssumption DEF Slots
<1>4. Pending' = Run(Delivered', Used')
  <2>1. \A k \in 0..(Used' - 1) : buf'[QAdvance(tail', k, Size)] = Delivered' + k + 1
    BY DEF IInv, Stored
  <2>2. ASSUME NEW k \in 1..Used' PROVE buf'[QAdvance(tail', k - 1, Size)] = Delivered' + k
    <3>1. \A d, u \in Nat : \A j \in 1..u : j - 1 \in 0..(u - 1) /\ d + (j - 1) + 1 = d + j
      OBVIOUS
    <3>2. k - 1 \in 0..(Used' - 1) /\ Delivered' + (k - 1) + 1 = Delivered' + k
      BY <1>3, <3>1
    <3> QED  BY <2>1, <3>2
  <2> QED  BY <2>2 DEF Pending, Run
<1>5. Taken' = Run(0, Delivered')
  BY <1>3, TakenIsRun DEF Taken, IInv, TypeOK, InOrder
<1> QED  BY <1>3, <1>4, <1>5 DEF Counted


\* A step accepts some bytes, or delivers some, or does neither.
Moves(n) ==
    \/ Used' = Used + n /\ Delivered' = Delivered
    \/ n <= Used /\ Used' = Used - n /\ Delivered' = Delivered + n

LEMMA ProduceMoves ==
    ASSUME BlockSumsFit, IInv, Produce \/ UNCHANGED vars
    PROVE  \/ Used' = Used /\ Delivered' = Delivered
           \/ \E n \in 1..(Size - 1) : Moves(n)
<1>1. CASE Put
  <2>1. head' = QAdvance(head, 1, Size) /\ UNCHANGED <<tail, cons, got>>
    BY <1>1, NextIsAdvance, IndexFacts DEF Put
  <2>2. 1 <= QFree(head, tail, Size)
    <3>1. QNext(head, Size) # tail
      BY <1>1, IndexFacts DEF Put, QFull
    <3>2. QNext(head, Size) = IF head + 1 = Size THEN 0 ELSE head + 1
      BY NextIsAdvance, IndexFacts
    <3> QED  BY <3>1, <3>2, IndexFacts DEF QFree, QUsed, Slots
  <2>3. QUsed(head', tail, Size) = QUsed(head, tail, Size) + 1
    BY <2>1, <2>2, UsedAfterAdvance, IndexFacts
  <2>4. 1 \in 1..(Size - 1) /\ Moves(1)
    BY <2>1, <2>3, IndexFacts DEF Moves, Used, Delivered
  <2> QED  BY <2>4
<1>2. CASE PutBlockPublish
  <2>1. /\ prod.at = head /\ prod.n \in Slots /\ 1 <= prod.n /\ prod.n <= QFree(head, tail, Size)
        /\ prod.n \in 1..(Size - 1)
    BY <1>2, IndexFacts DEF IInv, PutBlockPublish, ProdCopied, Slots
  <2>2. head' = QAdvance(head, prod.n, Size) /\ UNCHANGED <<tail, cons, got>>
    BY <1>2, <2>1 DEF PutBlockPublish
  <2>3. QUsed(head', tail, Size) = QUsed(head, tail, Size) + prod.n
    BY <2>1, <2>2, UsedAfterAdvance, IndexFacts
  <2>4. Moves(prod.n)
    BY <2>2, <2>3 DEF Moves, Used, Delivered
  <2> QED  BY <2>1, <2>4
<1>3. CASE PutBlockCopy \/ UNCHANGED vars
  BY <1>3 DEF PutBlockCopy, vars, Used, Delivered
<1>4. ASSUME NEW len \in 1..Size, PutBlockBegin(len) PROVE Used' = Used /\ Delivered' = Delivered
  BY <1>4 DEF PutBlockBegin, Used, Delivered
<1> QED  BY <1>1, <1>2, <1>3, <1>4 DEF Produce

LEMMA ConsumeMoves ==
    ASSUME BlockSumsFit, IInv, Consume
    PROVE  \/ Used' = Used /\ Delivered' = Delivered
           \/ \E n \in 1..(Size - 1) : Moves(n)
<1>1. CASE Get
  <2>1. /\ tail' = QAdvance(tail, 1, Size) /\ UNCHANGED <<head, cons>> /\ head # tail
        /\ got' = Append(got, buf[tail])
    BY <1>1, NextIsAdvance, IndexFacts DEF Get, QEmpty
  <2>2. 1 <= Used
    BY <2>1, IndexFacts DEF Used, QUsed, Slots
  <2>3. Used' = Used - 1
    BY <2>1, <2>2, UsedAfterAdvance, IndexFacts DEF Used
  <2>4. buf[tail] \in Nat
    BY IndexFacts DEF IInv, TypeOK
  <2>5. Len(got') = Len(got) + 1
    BY <2>1, <2>4, AppendOne DEF IInv, TypeOK
  <2>6. Delivered' = Delivered + 1
    <3>1. Delivered' = Len(got') - cons.i
      BY <2>1 DEF Delivered
    <3> QED  BY <2>5, <3>1, CountFacts
  <2>7. 1 \in 1..(Size - 1) /\ Moves(1)
    BY <2>2, <2>3, <2>6, IndexFacts DEF Moves
  <2> QED  BY <2>7
<1>2. CASE GetBlockPublish
  <2>1. /\ cons.at = tail /\ cons.n \in Slots /\ 1 <= cons.n /\ cons.n <= Used /\ cons.i = cons.n
        /\ cons.n \in 1..(Size - 1)
    BY <1>2, IndexFacts DEF IInv, GetBlockPublish, ConsCopied, Slots
  <2>2. tail' = QAdvance(tail, cons.n, Size) /\ cons' = Idle /\ UNCHANGED <<head, got>>
    BY <1>2, <2>1 DEF GetBlockPublish
  <2>3. Used' = Used - cons.n
    BY <2>1, <2>2, UsedAfterAdvance, IndexFacts DEF Used
  <2>4. Delivered' = Len(got) /\ Delivered = Len(got) - cons.n
    BY <2>1, <2>2, CountFacts DEF Delivered, Idle
  <2>5. Delivered' = Delivered + cons.n
    BY <2>4, CountFacts
  <2> QED  BY <2>1, <2>3, <2>5 DEF Moves
<1>3. CASE GetBlockCopy
  <2>1. cons'.i = cons.i + 1 /\ UNCHANGED <<head, tail>>
    BY <1>3 DEF GetBlockCopy, IInv, TypeOK, CallType
  <2>2. Len(got') = Len(got) + 1
    BY <1>3 DEF GetBlockCopy, IInv, TypeOK
  <2>3. Delivered' = (Len(got) + 1) - (cons.i + 1)
    BY <2>1, <2>2 DEF Delivered
  <2>4. Delivered' = Delivered
    BY <2>3, CountFacts
  <2> QED  BY <2>1, <2>4 DEF Used
<1>4. ASSUME NEW maxLen \in 1..Size, GetBlockBegin(maxLen)
      PROVE  Used' = Used /\ Delivered' = Delivered
  BY <1>4 DEF GetBlockBegin, Used, Delivered, IInv, ConsCopied
<1> QED  BY <1>1, <1>2, <1>3, <1>4 DEF Consume

LEMMA StepRefinesFifo ==
    ASSUME BlockSumsFit, IInv, IInv', [Next]_vars
    PROVE  [Fifo!FifoNext]_(Fifo!fifoVars)
<1>1. /\ Counted(Delivered, Used) /\ Pending = Run(Delivered, Used) /\ Taken = Run(0, Delivered)
      /\ Counted(Delivered', Used') /\ Pending' = Run(Delivered', Used')
      /\ Taken' = Run(0, Delivered')
  BY ViewIs, ViewAfter
<1>2. CASE Used' = Used /\ Delivered' = Delivered
  BY <1>1, <1>2 DEF Fifo!fifoVars, Pending, Taken
<1>3. ASSUME NEW n \in 1..(Size - 1), Moves(n) PROVE Fifo!Accept(n) \/ Fifo!Take(n)
  <2> DEFINE d == Delivered
             u == Used
             e == Delivered'
             v == Used'
  <2>1. d \in Nat /\ u \in Nat /\ e \in Nat /\ v \in Nat /\ v <= Size - 1 /\ n \in Nat
    BY <1>1 DEF Counted
  <2>2. /\ Run(d, u) \in Seq(Nat) /\ Len(Run(d, u)) = u /\ Run(0, d) \in Seq(Nat) /\ Len(Run(0, d)) = d
    BY <2>1, RunIs
  <2>3. CASE v = u + n /\ e = d
    <3>1. Run(d, v) = Run(d, u) \o Run(d + u, n)
      BY <2>1, <2>3, RunsJoin
    <3>2. Pending' = Pending \o [k \in 1..n |-> Len(Taken) + Len(Pending) + k] /\ Taken' = Taken
      BY <1>1, <2>2, <2>3, <3>1 DEF Run
    <3>3. Len(Pending) + n <= Size - 1
      BY <1>1, <2>1, <2>2, <2>3
    <3> QED  BY <3>2, <3>3 DEF Fifo!Accept, Pending, Taken
  <2>4. CASE n <= u /\ v = u - n /\ e = d + n
    <3> HIDE DEF d, u, e, v
    <3>1. SubSeq(Run(d, u), 1, n) = Run(d, n) /\ SubSeq(Run(d, u), n + 1, u) = Run(d + n, u - n)
      <4>1. d \in Nat /\ u \in Nat /\ n \in Nat /\ n <= u
        BY <2>1, <2>4
      <4> QED  BY <4>1, RunCut
    <3>2. Run(0, e) = Run(0, d) \o Run(d, n)
      <4>1. 0 \in Nat /\ d \in Nat /\ n \in Nat /\ 0 + d = d
        BY <2>1
      <4>2. Run(0, d) \o Run(0 + d, n) = Run(0, d + n)
        BY <4>1, RunsJoin
      <4> QED  BY <2>4, <4>1, <4>2
    <3>3. Taken' = Taken \o SubSeq(Pending, 1, n)
      BY <1>1, <3>1, <3>2 DEF d, u, e
    <3>4. Pending' = SubSeq(Pending, n + 1, Len(Pending))
      BY <1>1, <2>2, <2>4, <3>1 DEF d, u, e, v
    <3>5. n <= Len(Pending)
      BY <1>1, <2>2, <2>4 DEF d, u
    <3> QED  BY <3>3, <3>4, <3>5 DEF Fifo!Take, Pending, Taken
  <2> QED  BY <1>3, <2>3, <2>4 DEF Moves
<1>4. CASE (Used' = Used /\ Delivered' = Delivered) \/ \E n \in 1..(Size - 1) : Moves(n)
  BY <1>2, <1>3, <1>4 DEF Fifo!FifoNext
<1> QED  BY <1>4, ProduceMoves, ConsumeMoves DEF Next

\* The ring between two block operations that interleave is a bounded FIFO whose
\* operations take effect at once, when they publish their index (queue.h).
THEOREM QueueImplementsFifo == ASSUME BlockSumsFit PROVE Spec => ImplementsFifo
<1>1. Init => Fifo!FifoInit
  <2> SUFFICES ASSUME Init PROVE Fifo!FifoInit
    OBVIOUS
  <2>1. Used = 0 /\ Delivered = 0 /\ got = << >>
    BY DEF Init, Used, QUsed, Delivered, Idle
  <2> QED  BY <2>1 DEF Fifo!FifoInit
<1>2. IInv /\ IInv' /\ [Next]_vars => [Fifo!FifoNext]_(Fifo!fifoVars)
  BY StepRefinesFifo
<1> QED  BY <1>1, <1>2, QueueInvariant, PTL DEF Spec, ImplementsFifo, Fifo!FifoSpec

=============================================================================
