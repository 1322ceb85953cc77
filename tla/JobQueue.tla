------------------------------ MODULE JobQueue ------------------------------
(***************************************************************************)
(* job_queue_t of jobs.c: the operators every user of a queue is built     *)
(* from, each one the whole body of a function between DISABLE_INTERRUPTS  *)
(* and RESTORE_INTERRUPTS, hence one step.                                 *)
(*                                                                         *)
(* u8_full does three jobs: 0 is "not full", 1 is "full", and a value of 2 *)
(* or more is "full, and full - 1 jobs refused since the last report".     *)
(***************************************************************************)
EXTENDS Naturals, Sequences

CONSTANT FullMax      \* 0xFF: where u8_full stops counting

ASSUME FullMaxAssumption == FullMax \in Nat /\ FullMax >= 2

\* v_job_queue_init; Zeroed is an entry as memset leaves it.
JobInit(size, zeroed) ==
    [slot |-> [i \in 0..(size - 1) |-> zeroed],
     head |-> 0, tail |-> 0, full |-> 0, size |-> size]

\* Mutant of NextSlot: the index wraps one entry too late.
NextSlotLate(q, i) == IF i + 1 > q.size THEN 0 ELSE i + 1

\* The increment and wrap of u8_head and u8_tail.
NextSlot(q, i) == IF i + 1 >= q.size THEN 0 ELSE i + 1

\* v_job_add, v_job_add_with_params and v_job_add_with_pointer: they differ
\* in the fields they fill in.
JobAdd(q, job) ==
    CASE q.size = 0 -> q
      [] q.size # 0 /\ q.full = 0 ->
            [q EXCEPT !.slot[q.head] = job,
                      !.head = NextSlot(q, q.head),
                      !.full = IF NextSlot(q, q.head) = q.tail THEN 1 ELSE 0]
      [] q.size # 0 /\ q.full # 0 ->
            [q EXCEPT !.full = IF @ < FullMax THEN @ + 1 ELSE @]

\* The three outcomes of u8_job_get.
Overflowed(q) == q.full > 1
JobReady(q) == ~Overflowed(q) /\ (q.full = 1 \/ q.head # q.tail)

\* What JOB_QUEUE_OVERFLOW carries in u8_param1.
LostCount(q) == IF Overflowed(q) THEN q.full - 1 ELSE 0

\* Mutant of ReportLost: without the else, a job is taken along with the report.
ReportLostAndTake(q) == [q EXCEPT !.tail = NextSlot(q, q.tail), !.full = 0]

\* u8_job_get, the overflow report: the queue stays full.
ReportLost(q) == [q EXCEPT !.full = 1]

\* Mutant of TakeJob: the full flag survives the removal.
TakeJobStillFull(q) == [q EXCEPT !.tail = NextSlot(q, q.tail)]

\* u8_job_get, the normal fetch of the entry at u8_tail.
TakeJob(q) == [q EXCEPT !.tail = NextSlot(q, q.tail), !.full = 0]
OldestJob(q) == q.slot[q.tail]

\* b_job_queue_empty.
JobQueueEmpty(q) == q.head = q.tail /\ q.full = 0

----------------------------------------------------------------------------
\* The jobs waiting, the oldest first.
PendingCount(q) ==
    CASE q.full # 0 -> q.size
      [] q.full = 0 /\ q.head >= q.tail -> q.head - q.tail
      [] q.full = 0 /\ q.head < q.tail -> q.size - q.tail + q.head
SlotAfter(q, k) ==
    IF q.tail + k < q.size THEN q.tail + k ELSE q.tail + k - q.size
Pending(q) == [k \in 1..PendingCount(q) |-> q.slot[SlotAfter(q, k - 1)]]
=============================================================================
