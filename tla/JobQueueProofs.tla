--------------------------- MODULE JobQueueProofs ---------------------------
(***************************************************************************)
(* Proofs about gx_job_queue, for every size, every ceiling of u8_full and *)
(* any interleaving of the interrupts that add with the polling: it        *)
(* implements the bounded FIFO with a loss counter, although one byte is   *)
(* both its full flag and that counter.                                    *)
(***************************************************************************)
EXTENDS MicStream, TLAPS

Slot == 0..(JobSlots - 1)

\* An initialized queue.  The last conjunct is what lets u8_full tell a full
\* ring from an empty one.
Ring(q) ==
    /\ q \in [slot : [Slot -> Job], head : Slot, tail : Slot,
              full : 0..FullMax, size : {JobSlots}]
    /\ q.full # 0 => q.head = q.tail

----------------------------------------------------------------------------
\* What the operators do to a ring.

LEMMA NextSlotInRing ==
    ASSUME NEW q, Ring(q), NEW i \in Slot
    PROVE  /\ NextSlot(q, i) = IF i = JobSlots - 1 THEN 0 ELSE i + 1
           /\ NextSlot(q, i) \in Slot
  BY JobSlotsAssumption DEF Ring, Slot, NextSlot

LEMMA CountInRing ==
    ASSUME NEW q, Ring(q)
    PROVE  /\ PendingCount(q) \in 0..JobSlots
           /\ PendingCount(q) = JobSlots <=> q.full # 0
           /\ PendingCount(q) = IF q.full # 0 THEN JobSlots
                                ELSE IF q.head >= q.tail THEN q.head - q.tail
                                ELSE JobSlots - q.tail + q.head
  BY JobSlotsAssumption, FullMaxAssumption DEF Ring, Slot, PendingCount

LEMMA SlotInRing ==
    ASSUME NEW q, Ring(q), NEW k \in Slot
    PROVE  /\ SlotAfter(q, k) = IF q.tail + k < JobSlots THEN q.tail + k
                                ELSE q.tail + k - JobSlots
           /\ SlotAfter(q, k) \in Slot
  BY JobSlotsAssumption DEF Ring, Slot, SlotAfter

LEMMA SlotsDiffer ==
    ASSUME NEW q, Ring(q), NEW k \in Slot, NEW l \in Slot, k # l
    PROVE  SlotAfter(q, k) # SlotAfter(q, l)
<1>1. q.tail \in 0..(JobSlots - 1) /\ k \in 0..(JobSlots - 1) /\ l \in 0..(JobSlots - 1)
  BY DEF Ring, Slot
<1>2. /\ SlotAfter(q, k) = IF q.tail + k < JobSlots THEN q.tail + k ELSE q.tail + k - JobSlots
      /\ SlotAfter(q, l) = IF q.tail + l < JobSlots THEN q.tail + l ELSE q.tail + l - JobSlots
  BY SlotInRing
<1> QED  BY <1>1, <1>2, JobSlotsAssumption

LEMMA ArrayIsSeq ==
    ASSUME NEW n \in Nat, NEW S, NEW f \in [1..n -> S]
    PROVE  f \in Seq(S) /\ Len(f) = n
  OBVIOUS

LEMMA SameElements ==
    ASSUME NEW S, NEW s \in Seq(S), NEW t \in Seq(S), Len(s) = Len(t),
           \A k \in 1..Len(s) : s[k] = t[k]
    PROVE  s = t
  OBVIOUS

LEMMA TailIsShift ==
    ASSUME NEW S, NEW s \in Seq(S), s # << >>
    PROVE  /\ Tail(s) \in Seq(S) /\ Len(Tail(s)) = Len(s) - 1
           /\ \A k \in 1..(Len(s) - 1) : Tail(s)[k] = s[k + 1]
  OBVIOUS

LEMMA PendingIsSeq ==
    ASSUME NEW q, Ring(q)
    PROVE  /\ Pending(q) \in Seq(Job)
           /\ Len(Pending(q)) = PendingCount(q)
           /\ \A k \in 1..PendingCount(q) : Pending(q)[k] = q.slot[SlotAfter(q, k - 1)]
<1>1. PendingCount(q) \in Nat /\ PendingCount(q) <= JobSlots
  BY CountInRing, JobSlotsAssumption
<1>2. ASSUME NEW k \in 1..PendingCount(q) PROVE q.slot[SlotAfter(q, k - 1)] \in Job
  <2>1. k - 1 \in Slot
    BY <1>1, JobSlotsAssumption DEF Slot
  <2>2. SlotAfter(q, k - 1) \in Slot
    BY <2>1, SlotInRing
  <2> QED  BY <2>2 DEF Ring
<1>3. Pending(q) \in [1..PendingCount(q) -> Job]
  BY <1>2 DEF Pending
<1>4. Pending(q) \in Seq(Job) /\ Len(Pending(q)) = PendingCount(q)
  BY <1>1, <1>3, ArrayIsSeq
<1> QED  BY <1>4 DEF Pending

LEMMA SamePending ==
    ASSUME NEW q, NEW r, Ring(q), Ring(r), r.slot = q.slot, r.tail = q.tail,
           PendingCount(r) = PendingCount(q)
    PROVE  Pending(r) = Pending(q)
<1>1. r.size = q.size
  BY DEF Ring
<1> QED  BY <1>1 DEF Pending, SlotAfter

\* An add to a ring that is not full appends its job, and marks the ring full
\* exactly when it has filled it.
LEMMA AddAccepts ==
    ASSUME NEW q, Ring(q), q.full = 0, NEW job \in Job
    PROVE  /\ Ring(JobAdd(q, job))
           /\ PendingCount(q) < JobSlots
           /\ Pending(JobAdd(q, job)) = Append(Pending(q), job)
           /\ LostCount(q) = 0 /\ LostCount(JobAdd(q, job)) = 0
<1> DEFINE r == JobAdd(q, job)
           n == PendingCount(q)
<1>0. /\ q.head \in 0..(JobSlots - 1) /\ q.tail \in 0..(JobSlots - 1) /\ JobSlots \in Nat /\ JobSlots >= 1
      /\ q.slot \in [Slot -> Job] /\ Slot = 0..(JobSlots - 1)
  BY JobSlotsAssumption DEF Ring, Slot
<1>1. r = [q EXCEPT !.slot[q.head] = job, !.head = NextSlot(q, q.head),
                    !.full = IF NextSlot(q, q.head) = q.tail THEN 1 ELSE 0]
  BY JobSlotsAssumption DEF JobAdd, Ring
<1>2. NextSlot(q, q.head) = (IF q.head = JobSlots - 1 THEN 0 ELSE q.head + 1)
      /\ NextSlot(q, q.head) \in Slot
  BY NextSlotInRing DEF Ring
<1>3. /\ r.slot = [q.slot EXCEPT ![q.head] = job] /\ r.slot \in [Slot -> Job]
      /\ r.head = NextSlot(q, q.head) /\ r.tail = q.tail /\ r.size = JobSlots
      /\ r.full = IF NextSlot(q, q.head) = q.tail THEN 1 ELSE 0
  BY <1>1, <1>2 DEF Ring
<1>4. Ring(r)
  <2>1. r \in [slot : [Slot -> Job], head : Slot, tail : Slot,
                full : 0..FullMax, size : {JobSlots}]
    <3>1. r = [slot |-> r.slot, head |-> r.head, tail |-> r.tail, full |-> r.full,
               size |-> r.size]
      BY <1>1 DEF Ring
    <3>2. r.full \in 0..FullMax /\ r.head \in Slot /\ r.tail \in Slot
      BY <1>0, <1>2, <1>3, FullMaxAssumption
    <3> QED  BY <3>1, <3>2, <1>3
  <2>2. r.full # 0 => r.head = r.tail
    BY <1>3
  <2> QED  BY <2>1, <2>2 DEF Ring
<1>5. n \in 0..(JobSlots - 1) /\ SlotAfter(q, n) = q.head
  <2>1. n \in 0..(JobSlots - 1) /\ n = (IF q.head >= q.tail THEN q.head - q.tail
                                                     ELSE JobSlots - q.tail + q.head)
    BY CountInRing, JobSlotsAssumption
  <2>2. SlotAfter(q, n) = IF q.tail + n < JobSlots THEN q.tail + n ELSE q.tail + n - JobSlots
    BY <2>1, SlotInRing DEF Slot
  <2> QED  BY <2>1, <2>2, JobSlotsAssumption DEF Ring, Slot
<1>6. PendingCount(r) = n + 1
  <2>1. PendingCount(r) = IF r.full # 0 THEN JobSlots
                          ELSE IF r.head >= r.tail THEN r.head - r.tail
                          ELSE JobSlots - r.tail + r.head
    BY <1>4, CountInRing
  <2>2. n = IF q.head >= q.tail THEN q.head - q.tail ELSE JobSlots - q.tail + q.head
    BY CountInRing
  <2>3. CASE NextSlot(q, q.head) = q.tail
    <3>1. PendingCount(r) = JobSlots
      BY <2>1, <2>3, <1>3
    <3>2. n + 1 = JobSlots
      BY <2>2, <2>3, <1>2, <1>0
    <3> QED  BY <3>1, <3>2
  <2>4. CASE NextSlot(q, q.head) # q.tail
    <3>1. PendingCount(r) = IF NextSlot(q, q.head) >= q.tail
                            THEN NextSlot(q, q.head) - q.tail
                            ELSE JobSlots - q.tail + NextSlot(q, q.head)
      BY <2>1, <2>4, <1>3
    <3>2. CASE q.head = JobSlots - 1
      <4>1. NextSlot(q, q.head) = 0
        BY <3>2, <1>2
      <4>2. PendingCount(r) = JobSlots - q.tail
        BY <3>1, <4>1, <2>4, <1>0
      <4>3. n = JobSlots - 1 - q.tail
        BY <3>2, <2>2, <1>0
      <4> QED  BY <4>2, <4>3, <1>0
    <3>3. CASE q.head # JobSlots - 1
      <4>1. NextSlot(q, q.head) = q.head + 1
        BY <3>3, <1>2
      <4>2. CASE q.head >= q.tail
        BY <4>1, <4>2, <3>1, <2>2, <1>0
      <4>3. CASE q.head < q.tail
        <5>1. PendingCount(r) = JobSlots - q.tail + (q.head + 1)
          BY <4>1, <4>3, <3>1, <2>4, <1>0
        <5>2. n = JobSlots - q.tail + q.head
          BY <4>3, <2>2, <1>0
        <5> QED  BY <5>1, <5>2, <1>0
      <4> QED  BY <4>2, <4>3, <1>0
    <3> QED  BY <3>2, <3>3
  <2> QED  BY <2>3, <2>4
<1>7. ASSUME NEW k \in 1..(n + 1)
      PROVE  Pending(r)[k] = Append(Pending(q), job)[k]
  <2>1. k - 1 \in Slot /\ n \in Slot
    BY <1>5, <1>0
  <2>2. SlotAfter(r, k - 1) = SlotAfter(q, k - 1) /\ SlotAfter(q, k - 1) \in Slot
    BY <2>1, <1>3, <1>4, SlotInRing
  <2>3. Pending(r)[k] = r.slot[SlotAfter(q, k - 1)]
    BY <1>4, <1>6, <2>2, PendingIsSeq
  <2>4. CASE k = n + 1
    <3>1. Pending(r)[k] = job
      BY <2>3, <2>4, <1>3, <1>5, <2>2 DEF Ring
    <3> QED  BY <3>1, <2>4, <1>5, PendingIsSeq
  <2>5. CASE k # n + 1
    <3>1. k \in 1..n
      BY <2>5, <1>5
    <3>2. SlotAfter(q, k - 1) # q.head
      <4>1. SlotAfter(q, k - 1) # SlotAfter(q, n)
        BY <2>1, <3>1, <1>0, <1>5, SlotsDiffer
      <4> QED  BY <4>1, <1>5
    <3>3. Pending(r)[k] = q.slot[SlotAfter(q, k - 1)]
      BY <2>3, <1>3, <3>2, <2>2 DEF Ring
    <3> QED  BY <3>1, <3>3, <1>5, PendingIsSeq
  <2> QED  BY <2>4, <2>5
<1>8. Pending(r) = Append(Pending(q), job)
  <2>1. /\ Pending(r) \in Seq(Job) /\ Len(Pending(r)) = n + 1
        /\ Pending(q) \in Seq(Job) /\ Len(Pending(q)) = n
    BY <1>4, <1>6, PendingIsSeq
  <2>2. Append(Pending(q), job) \in Seq(Job) /\ Len(Append(Pending(q), job)) = n + 1
    BY <2>1
  <2> QED  BY <2>1, <2>2, <1>7, SameElements
<1>9. LostCount(q) = 0 /\ LostCount(r) = 0
  BY <1>3 DEF LostCount, Overflowed
<1> QED  BY <1>0, <1>4, <1>5, <1>8, <1>9

\* An add to a full ring only counts, up to the ceiling.
LEMMA AddRefuses ==
    ASSUME NEW q, Ring(q), q.full # 0, NEW job
    PROVE  /\ Ring(JobAdd(q, job))
           /\ PendingCount(q) = JobSlots
           /\ Pending(JobAdd(q, job)) = Pending(q)
           /\ LostCount(JobAdd(q, job)) = IF LostCount(q) < FullMax - 1
                                         THEN LostCount(q) + 1 ELSE LostCount(q)
<1> DEFINE r == JobAdd(q, job)
<1>1. r = [q EXCEPT !.full = IF @ < FullMax THEN @ + 1 ELSE @]
  BY JobSlotsAssumption DEF JobAdd, Ring
<1>2. q.full \in 1..FullMax
  BY FullMaxAssumption DEF Ring
<1>3. /\ r = [q EXCEPT !.full = r.full]
      /\ r.full = IF q.full < FullMax THEN q.full + 1 ELSE q.full
      /\ r.full \in 1..FullMax
      /\ r.slot = q.slot /\ r.head = q.head /\ r.tail = q.tail
  BY <1>1, <1>2, FullMaxAssumption DEF Ring
<1>4. Ring(r)
  BY <1>2, <1>3, FullMaxAssumption DEF Ring
<1>5. PendingCount(q) = JobSlots /\ PendingCount(r) = JobSlots
  BY <1>2, <1>3, <1>4, CountInRing
<1>6. Pending(r) = Pending(q)
  BY <1>3, <1>4, <1>5, SamePending
<1>7. LostCount(r) = IF LostCount(q) < FullMax - 1 THEN LostCount(q) + 1 ELSE LostCount(q)
  BY <1>2, <1>3, FullMaxAssumption DEF LostCount, Overflowed
<1> QED  BY <1>4, <1>5, <1>6, <1>7

\* A report leaves the ring as full as it was, with nothing left to report.
LEMMA ReportKeepsJobs ==
    ASSUME NEW q, Ring(q), Overflowed(q)
    PROVE  /\ Ring(ReportLost(q))
           /\ Pending(ReportLost(q)) = Pending(q)
           /\ LostCount(q) > 0 /\ LostCount(ReportLost(q)) = 0
<1> DEFINE r == ReportLost(q)
<1>1. q.full \in 2..FullMax
  BY FullMaxAssumption DEF Ring, Overflowed
<1>2. r = [q EXCEPT !.full = 1] /\ r.full = 1
      /\ r.slot = q.slot /\ r.head = q.head /\ r.tail = q.tail
  BY DEF ReportLost, Ring
<1>3. Ring(r)
  BY <1>1, <1>2, FullMaxAssumption DEF Ring
<1>4. PendingCount(q) = JobSlots /\ PendingCount(r) = JobSlots
  <2>1. q.full # 0 /\ r.full # 0
    BY <1>1, <1>2
  <2>2. PendingCount(q) = JobSlots
    BY <2>1, CountInRing
  <2>3. PendingCount(r) = JobSlots
    BY <2>1, <1>3, CountInRing
  <2> QED  BY <2>2, <2>3
<1>5. Pending(r) = Pending(q)
  BY <1>2, <1>3, <1>4, SamePending
<1>6. LostCount(q) > 0 /\ LostCount(r) = 0
  BY <1>1, <1>2 DEF LostCount, Overflowed
<1> QED  BY <1>3, <1>5, <1>6

\* A fetch takes the oldest job and no other.
LEMMA TakeRemovesOldest ==
    ASSUME NEW q, Ring(q), JobReady(q)
    PROVE  /\ Ring(TakeJob(q))
           /\ Pending(q) # << >> /\ Pending(TakeJob(q)) = Tail(Pending(q))
           /\ LostCount(q) = 0 /\ LostCount(TakeJob(q)) = 0
<1> DEFINE r == TakeJob(q)
           n == PendingCount(q)
<1>0. /\ q.head \in 0..(JobSlots - 1) /\ q.tail \in 0..(JobSlots - 1) /\ JobSlots \in Nat /\ JobSlots >= 1
      /\ q.full \in {0, 1} /\ (q.full = 1 => q.head = q.tail)
      /\ (q.full = 0 => q.head # q.tail)
  BY JobSlotsAssumption, FullMaxAssumption DEF Ring, Slot, JobReady, Overflowed
<1>1. NextSlot(q, q.tail) = (IF q.tail = JobSlots - 1 THEN 0 ELSE q.tail + 1)
      /\ NextSlot(q, q.tail) \in Slot
  BY NextSlotInRing DEF Ring
<1>2. /\ r = [q EXCEPT !.tail = NextSlot(q, q.tail), !.full = 0]
      /\ r.slot = q.slot /\ r.head = q.head /\ r.tail = NextSlot(q, q.tail) /\ r.full = 0
  BY DEF TakeJob, Ring
<1>3. Ring(r)
  <2>1. r = [slot |-> q.slot, head |-> q.head, tail |-> NextSlot(q, q.tail), full |-> 0,
             size |-> JobSlots]
    BY <1>2 DEF Ring
  <2>2. q.slot \in [Slot -> Job] /\ q.head \in Slot /\ 0 \in 0..FullMax
    BY FullMaxAssumption DEF Ring
  <2> QED  BY <1>1, <2>1, <2>2 DEF Ring
<1>4. n \in 1..JobSlots /\ n = IF q.full # 0 THEN JobSlots
                           ELSE IF q.head >= q.tail THEN q.head - q.tail
                           ELSE JobSlots - q.tail + q.head
  BY <1>0, CountInRing
<1>5. PendingCount(r) = n - 1
  <2>1. PendingCount(r) = IF q.head >= NextSlot(q, q.tail) THEN q.head - NextSlot(q, q.tail)
                          ELSE JobSlots - NextSlot(q, q.tail) + q.head
    BY <1>2, <1>3, CountInRing
  <2> QED  BY <2>1, <1>0, <1>1, <1>4
<1>6. ASSUME NEW k \in 1..(n - 1)
      PROVE  Pending(r)[k] = Pending(q)[k + 1]
  <2>1. k - 1 \in Slot /\ k \in Slot /\ k \in 1..PendingCount(r) /\ k + 1 \in 1..n
    BY <1>0, <1>4, <1>5 DEF Slot
  <2>2. SlotAfter(r, k - 1) = SlotAfter(q, k)
    <3>1. /\ SlotAfter(q, k) = IF q.tail + k < JobSlots THEN q.tail + k ELSE q.tail + k - JobSlots
          /\ SlotAfter(r, k - 1) = IF r.tail + (k - 1) < JobSlots THEN r.tail + (k - 1)
                                   ELSE r.tail + (k - 1) - JobSlots
      BY <2>1, <1>3, SlotInRing
    <3> QED  BY <3>1, <1>0, <1>1, <1>2, <2>1 DEF Slot
  <2>3. Pending(r)[k] = r.slot[SlotAfter(r, k - 1)]
    BY <2>1, <1>3, PendingIsSeq
  <2>4. Pending(q)[k + 1] = q.slot[SlotAfter(q, k)]
    BY <2>1, PendingIsSeq
  <2> QED  BY <2>2, <2>3, <2>4, <1>2
<1>7. Pending(q) # << >> /\ Pending(r) = Tail(Pending(q))
  <2>1. /\ Pending(r) \in Seq(Job) /\ Len(Pending(r)) = n - 1
        /\ Pending(q) \in Seq(Job) /\ Len(Pending(q)) = n
    BY <1>3, <1>5, PendingIsSeq
  <2>2. /\ Pending(q) # << >> /\ Tail(Pending(q)) \in Seq(Job)
        /\ Len(Tail(Pending(q))) = n - 1
        /\ \A k \in 1..(n - 1) : Tail(Pending(q))[k] = Pending(q)[k + 1]
    BY <2>1, <1>4, <1>0, TailIsShift
  <2> QED  BY <2>1, <2>2, <1>6, SameElements
<1>8. LostCount(q) = 0 /\ LostCount(r) = 0
  BY <1>0, <1>2 DEF LostCount, Overflowed
<1> QED  BY <1>3, <1>7, <1>8

----------------------------------------------------------------------------
LEMMA PlainIsJob == \A id \in {"none", "tick", "synth"} : Plain(id) \in Job
  BY DEF Plain, Job, Half

LEMMA InitRing == ASSUME Init PROVE Ring(queue) /\ Lossy!LossyInit
<1>1. NoJob \in Job /\ queue = JobInit(JobSlots, NoJob)
  BY PlainIsJob DEF Init, NoJob
<1> HIDE DEF NoJob
<1>2. /\ Ring(queue) /\ queue.head = queue.tail /\ queue.full = 0
  BY <1>1, JobSlotsAssumption, FullMaxAssumption DEF JobInit, Ring, Slot
<1>3. PendingCount(queue) = 0
  BY <1>2, CountInRing DEF Ring, Slot
<1>4. Pending(queue) \in Seq(Job) /\ Len(Pending(queue)) = 0
  BY <1>2, <1>3, PendingIsSeq
<1> QED  BY <1>2, <1>4 DEF Lossy!LossyInit, LostCount, Overflowed

\* What an add, a report and a fetch are to the bounded FIFO.
LEMMA AddRefines ==
    ASSUME Ring(queue), NEW job \in Job, queue' = JobAdd(queue, job)
    PROVE  Ring(queue)' /\ [Lossy!LossyNext]_(Lossy!lossyVars)
<1>1. CASE queue.full = 0
  <2>1. /\ Ring(queue') /\ Pending(queue') = Append(Pending(queue), job)
        /\ LostCount(queue') = LostCount(queue) /\ Len(Pending(queue)) < JobSlots
        /\ Pending(queue) \in Seq(Job)
    BY <1>1, AddAccepts, PendingIsSeq
  <2>2. /\ Pending(queue') # << >>
        /\ Pending(queue')[Len(Pending(queue'))] = job
    BY <2>1
  <2>3. Lossy!Accept
    BY <2>1, <2>2 DEF Lossy!Accept
  <2> QED  BY <2>1, <2>3 DEF Lossy!LossyNext
<1>2. CASE queue.full # 0
  <2>1. /\ Ring(queue') /\ Pending(queue') = Pending(queue) /\ Len(Pending(queue)) = JobSlots
        /\ LostCount(queue') = IF LostCount(queue) < FullMax - 1
                               THEN LostCount(queue) + 1 ELSE LostCount(queue)
    BY <1>2, AddRefuses, PendingIsSeq
  <2>2. Lossy!Refuse
    BY <2>1 DEF Lossy!Refuse
  <2> QED  BY <2>1, <2>2 DEF Lossy!LossyNext
<1> QED  BY <1>1, <1>2

LEMMA PollRefines ==
    ASSUME Ring(queue), PollReport \/ PollJob
    PROVE  Ring(queue)' /\ [Lossy!LossyNext]_(Lossy!lossyVars)
<1>1. CASE PollReport
  <2>1. Overflowed(queue) /\ queue' = ReportLost(queue)
    BY <1>1 DEF PollReport
  <2>2. /\ Ring(queue') /\ Pending(queue') = Pending(queue)
        /\ LostCount(queue) > 0 /\ LostCount(queue') = 0
    BY <2>1, ReportKeepsJobs
  <2>3. Lossy!Report
    BY <2>2 DEF Lossy!Report
  <2> QED  BY <2>2, <2>3 DEF Lossy!LossyNext
<1>2. CASE PollJob
  <2>1. JobReady(queue) /\ queue' = TakeJob(queue)
    BY <1>2 DEF PollJob
  <2>2. /\ Ring(queue') /\ Pending(queue) # << >> /\ Pending(queue') = Tail(Pending(queue))
        /\ LostCount(queue) = 0 /\ LostCount(queue') = 0
    BY <2>1, TakeRemovesOldest
  <2>3. Lossy!Take
    BY <2>2 DEF Lossy!Take
  <2> QED  BY <2>2, <2>3 DEF Lossy!LossyNext
<1> QED  BY <1>1, <1>2

\* What a chunk job is made of; the theorems on the capture keep it.
JobParts == nextHalf \in Half /\ buffer \in Nat /\ chunks \in Nat /\ starts \in Nat

\* Every step keeps the ring and is a step of the abstract queue, or none.
LEMMA StepRefines ==
    ASSUME Ring(queue), JobParts, [Next]_vars
    PROVE  Ring(queue)' /\ [Lossy!LossyNext]_(Lossy!lossyVars)
<1>1. CASE HalfComplete
  <2>1. queue' = queue \/ queue' = JobAdd(queue, ChunkJob(nextHalf, chunks + 1))
    BY <1>1 DEF HalfComplete, DispatchHalf
  <2>2. ChunkJob(nextHalf, chunks + 1) \in Job
    BY DEF JobParts, ChunkJob, Job
  <2>3. CASE queue' = queue
    BY <2>3 DEF Lossy!lossyVars
  <2> QED  BY <2>1, <2>2, <2>3, AddRefines
<1>2. CASE SecondTick
  <2>1. PICK id \in {"tick", "synth"} : queue' = JobAdd(queue, Plain(id))
    BY <1>2 DEF SecondTick
  <2>2. Plain(id) \in Job
    BY PlainIsJob
  <2> QED  BY <2>1, <2>2, AddRefines
<1>3. CASE PollReport \/ PollJob
  BY <1>3, PollRefines
<1>4. CASE UNCHANGED queue
  BY <1>4 DEF Lossy!lossyVars
<1>5. \/ HalfComplete \/ SecondTick \/ PollReport \/ PollJob
      \/ UNCHANGED queue
  BY DEF Next, Interrupt, Api, Poll, StreamError, InitFree, InitBusy, InitAlloc,
         InitNoMemory, StartStream, StartReceive, StartRun, Stop, StopDma, StopState,
         HandleLevels, HandlePower, vars
<1> QED  BY <1>1, <1>2, <1>3, <1>4, <1>5
=============================================================================
