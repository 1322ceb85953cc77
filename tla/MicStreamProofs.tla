-------------------------- MODULE MicStreamProofs --------------------------
(***************************************************************************)
(* Proofs about microphone capture and its job queue, for every size of    *)
(* the queue and without the bounds on sounds, inits, starts and ticks: no *)
(* step uses that they are finite.                                         *)
(***************************************************************************)
EXTENDS JobQueueProofs

MicTypeOK ==
    /\ Ring(queue)
    /\ state \in {"idle", "streaming"} /\ hal \in {"ready", "busy"}
    /\ nextHalf \in Half /\ pcm \in [Half -> Nat]
    /\ fg \in [pc : {"idle", "alloc", "receive", "run", "stop", "stopped", "levels", "power"},
               job : Job]
    /\ chunks \in Nat /\ starts \in Nat /\ inits \in Nat
    /\ buffer \in 0..inits

\* While the DMA runs the state is STREAMING and the buffers are those it was
\* started in; the calls that free, replace or hand over the buffers are in a
\* section of the main program in which it does not run.
CaptureInv ==
    /\ hal = "busy" => state = "streaming" /\ buffer # 0 /\ dmaBuffer = buffer
    /\ At("alloc") => I2sIdle
    /\ At("receive") => hal = "ready" /\ state = "streaming" /\ buffer # 0
    /\ At("stopped") => hal = "ready"

\* What a chunk job is worth: the half it points at keeps its sound while at
\* most one more sound has come, because that one goes to the other half.
Carried(j) ==
    j.id = "chunk" =>
        /\ j.buffer \in 1..inits /\ j.sound <= chunks /\ j.start <= starts
        /\ j.buffer = buffer /\ j.start = starts =>
              /\ chunks = j.sound => pcm[j.half] = j.sound /\ nextHalf = 1 - j.half
              /\ chunks = j.sound + 1 => pcm[j.half] = j.sound

\* The entries of the ring, taken ones included, and the job being handled.
ChunkInv ==
    /\ \A i \in Slot : Carried(queue.slot[i])
    /\ Carried(fg.job)
    /\ Handling => fg.job.id = "chunk"

MicInv == MicTypeOK /\ CaptureInv /\ ChunkInv

----------------------------------------------------------------------------
\* The operators of the job queue keep the entries, add the given one, or take
\* one of them.
LEMMA AddInRing ==
    ASSUME NEW q, Ring(q), NEW job \in Job
    PROVE  /\ Ring(JobAdd(q, job))
           /\ \A i \in Slot : JobAdd(q, job).slot[i] = q.slot[i] \/ JobAdd(q, job).slot[i] = job
<1>1. Ring(JobAdd(q, job))
  BY AddAccepts, AddRefuses
<1>2. CASE q.full = 0
  <2> DEFINE r == JobAdd(q, job)
             n == NextSlot(q, q.head)
             f == IF n = q.tail THEN 1 ELSE 0
  <2>1. r = [q EXCEPT !.slot[q.head] = job, !.head = n, !.full = f]
    BY <1>2, JobSlotsAssumption DEF JobAdd, Ring
  <2> HIDE DEF n, f, r
  <2>2. r.slot = [q.slot EXCEPT ![q.head] = job] /\ q.slot \in [Slot -> Job]
    BY <2>1 DEF Ring
  <2> QED  BY <1>1, <2>2 DEF r
<1>3. CASE q.full # 0
  <2>1. JobAdd(q, job) = [q EXCEPT !.full = IF @ < FullMax THEN @ + 1 ELSE @]
    BY <1>3, JobSlotsAssumption DEF JobAdd, Ring
  <2>2. JobAdd(q, job).slot = q.slot
    BY <2>1 DEF Ring
  <2> QED  BY <1>1, <2>2
<1> QED  BY <1>2, <1>3

LEMMA PollInRing ==
    ASSUME NEW q, Ring(q)
    PROVE  /\ Overflowed(q) => Ring(ReportLost(q)) /\ ReportLost(q).slot = q.slot
           /\ JobReady(q) => Ring(TakeJob(q)) /\ TakeJob(q).slot = q.slot
           /\ \E i \in Slot : OldestJob(q) = q.slot[i]
<1>1. q.tail \in Slot
  BY DEF Ring
<1>2. ReportLost(q).slot = q.slot /\ TakeJob(q).slot = q.slot
  BY DEF Ring, ReportLost, TakeJob
<1> QED  BY <1>1, <1>2, ReportKeepsJobs, TakeRemovesOldest DEF OldestJob

----------------------------------------------------------------------------
\* Every job that was worth something before the step is worth it after.
CarryAll == \A j \in Job : Carried(j) => Carried(j)'

LEMMA QuietCarries ==
    ASSUME UNCHANGED <<buffer, pcm, nextHalf, chunks, starts, inits>>
    PROVE  CarryAll
  BY DEF CarryAll, Carried

LEMMA ChunkKept ==
    ASSUME MicTypeOK, MicTypeOK', ChunkInv, CarryAll, NEW n \in Job, Carried(n)',
           \A i \in Slot : \/ queue'.slot[i] = queue.slot[i]
                           \/ queue'.slot[i] = n
                           \/ queue'.slot[i].id # "chunk",
           \/ fg'.job = fg.job
           \/ fg'.job.id # "chunk"
           \/ \E i \in Slot : fg'.job = queue.slot[i],
           fg'.pc \in {"levels", "power"} => fg'.job.id = "chunk"
    PROVE  ChunkInv'
<1>1. /\ \A i \in Slot : queue.slot[i] \in Job /\ queue'.slot[i] \in Job
      /\ fg.job \in Job /\ fg'.job \in Job
  BY DEF MicTypeOK, Ring
<1>2. ASSUME NEW i \in Slot PROVE Carried(queue.slot[i])'
  <2>1. CASE queue'.slot[i] = queue.slot[i]
    BY <1>1, <2>1 DEF ChunkInv, CarryAll, Carried
  <2>2. CASE queue'.slot[i] = n
    BY <2>2 DEF Carried
  <2>3. CASE queue'.slot[i].id # "chunk"
    BY <2>3 DEF Carried
  <2> QED  BY <2>1, <2>2, <2>3
<1>3. Carried(fg.job)'
  <2>1. CASE fg'.job = fg.job
    BY <1>1, <2>1 DEF ChunkInv, CarryAll, Carried
  <2>2. CASE fg'.job.id # "chunk"
    BY <2>2 DEF Carried
  <2>3. ASSUME NEW i \in Slot, fg'.job = queue.slot[i] PROVE Carried(fg.job)'
    BY <1>1, <2>3 DEF ChunkInv, CarryAll, Carried
  <2> QED  BY <2>1, <2>2, <2>3
<1> QED  BY <1>2, <1>3 DEF ChunkInv, Handling, At

----------------------------------------------------------------------------
\* A half completes: its sound goes to the half that nextHalf names, so what
\* was captured one sound ago, into the other half, is left alone.
LEMMA HalfCompleteKeeps ==
    ASSUME MicInv, HalfComplete PROVE MicInv'
<1> USE DEF MicInv
<1>1. /\ hal = "busy" /\ state = "streaming" /\ buffer # 0 /\ dmaBuffer = buffer
      /\ chunks' = chunks + 1 /\ nextHalf' = 1 - nextHalf
      /\ UNCHANGED <<state, hal, dmaBuffer, buffer, fg, starts, inits>>
      /\ pcm' = [pcm EXCEPT ![nextHalf] = chunks + 1]
      /\ queue' = queue \/ queue' = JobAdd(queue, ChunkJob(nextHalf, chunks + 1))
  BY DEF HalfComplete, DispatchHalf, CaptureInv
<1>2. /\ nextHalf \in {0, 1} /\ chunks \in Nat /\ starts \in Nat /\ buffer \in Nat
      /\ pcm \in [Half -> Nat] /\ Ring(queue) /\ inits \in Nat /\ buffer \in 0..inits
  BY DEF MicTypeOK, Half
<1>3. PICK n : n = ChunkJob(nextHalf, chunks + 1)
  OBVIOUS
<1>4. /\ n \in Job /\ n.id = "chunk" /\ n.buffer = buffer /\ n.half = nextHalf
      /\ n.sound = chunks + 1 /\ n.start = starts
  BY <1>2, <1>3 DEF ChunkJob, Job, Half
<1>5. MicTypeOK'
  <2>1. Ring(queue)'
    BY <1>1, <1>2, <1>3, <1>4, AddInRing
  <2>2. nextHalf' \in Half /\ pcm' \in [Half -> Nat] /\ chunks' \in Nat
    BY <1>1, <1>2 DEF Half
  <2> QED  BY <1>1, <2>1, <2>2 DEF MicTypeOK
<1>6. CaptureInv'
  BY <1>1 DEF CaptureInv, At, I2sIdle
<1>7. Carried(n)'
  BY <1>1, <1>2, <1>4 DEF Carried, Half
<1>8. CarryAll
  <2> SUFFICES ASSUME NEW j \in Job, Carried(j) PROVE Carried(j)'
    BY DEF CarryAll
  <2>1. j.sound \in Nat /\ j.start \in Nat /\ j.half \in {0, 1}
    BY DEF Job, Half
  <2>2. CASE j.id # "chunk"
    BY <2>2 DEF Carried
  <2>3. CASE j.id = "chunk"
    <3>1. /\ j.buffer \in 1..inits /\ j.sound <= chunks /\ j.start <= starts
          /\ j.buffer = buffer /\ j.start = starts /\ chunks = j.sound =>
                pcm[j.half] = j.sound /\ nextHalf = 1 - j.half
      BY <2>3 DEF Carried
    <3>2. j.buffer = buffer /\ j.start = starts /\ chunks + 1 = j.sound + 1 =>
              pcm'[j.half] = j.sound
      BY <1>1, <1>2, <2>1, <3>1 DEF Half
    <3> QED  BY <1>1, <1>2, <2>1, <3>1, <3>2 DEF Carried
  <2> QED  BY <2>2, <2>3
<1>9. \A i \in Slot : queue'.slot[i] = queue.slot[i] \/ queue'.slot[i] = n
  BY <1>1, <1>2, <1>3, <1>4, AddInRing
<1>10. ChunkInv'
  <2>1. fg'.pc \in {"levels", "power"} => fg'.job.id = "chunk"
    BY <1>1 DEF ChunkInv, Handling, At
  <2> QED  BY <1>1, <1>4, <1>5, <1>7, <1>8, <1>9, <2>1, ChunkKept
<1> QED  BY <1>5, <1>6, <1>10

\* The steps that leave the jobs and what they point at alone.
LEMMA ChunkKeptQuiet ==
    ASSUME MicTypeOK, MicTypeOK', ChunkInv, CarryAll, queue'.slot = queue.slot,
           fg' = fg \/ (fg'.job = NoJob /\ fg'.pc \notin {"levels", "power"})
    PROVE  ChunkInv'
<1>1. Plain("tick") \in Job /\ Carried(Plain("tick"))'
  BY PlainIsJob DEF Carried, Plain
<1>2. NoJob.id # "chunk"
  BY DEF NoJob, Plain
<1>3. fg'.pc \in {"levels", "power"} => fg'.job.id = "chunk"
  BY DEF ChunkInv, Handling, At
<1> HIDE DEF NoJob
<1> QED  BY <1>1, <1>2, <1>3, ChunkKept

LEMMA GotoTyped ==
    ASSUME NEW pc \in {"idle", "alloc", "receive", "run", "stop", "stopped"}, Goto(pc)
    PROVE  /\ fg' \in [pc : {"idle", "alloc", "receive", "run", "stop", "stopped", "levels", "power"},
                        job : Job]
           /\ fg'.pc = pc /\ fg'.job = NoJob /\ fg'.pc \notin {"levels", "power"}
  BY PlainIsJob DEF Goto, NoJob

LEMMA InitCallKeeps ==
    ASSUME MicInv, InitFree \/ InitBusy \/ InitAlloc \/ InitNoMemory PROVE MicInv'
<1> USE DEF MicInv
<1>1. CASE InitFree
  <2>1. /\ At("idle") /\ state = "idle" /\ hal = "ready" /\ buffer' = 0 /\ Goto("alloc")
        /\ UNCHANGED <<queue, state, hal, dmaBuffer, nextHalf, pcm, chunks, starts, inits>>
    BY <1>1 DEF InitFree, I2sIdle, history
  <2>2. MicTypeOK'
    BY <2>1, GotoTyped DEF MicTypeOK
  <2>3. CaptureInv'
    BY <2>1, GotoTyped DEF CaptureInv, At, I2sIdle
  <2>4. CarryAll
    BY <2>1 DEF CarryAll, Carried
  <2> QED  BY <2>1, <2>2, <2>3, <2>4, GotoTyped, ChunkKeptQuiet
<1>2. CASE InitBusy
  <2>1. UNCHANGED <<queue, state, hal, dmaBuffer, nextHalf, pcm, chunks, starts, inits, buffer, fg>>
    BY <1>2 DEF InitBusy, history
  <2>2. MicTypeOK' /\ CaptureInv'
    BY <2>1 DEF MicTypeOK, CaptureInv, At, I2sIdle
  <2> QED  BY <2>1, <2>2, QuietCarries, ChunkKeptQuiet
<1>3. CASE InitAlloc
  <2>1. /\ At("alloc") /\ inits' = inits + 1 /\ buffer' = inits + 1
        /\ pcm' = [h \in Half |-> 0] /\ state' = "idle" /\ Goto("idle")
        /\ UNCHANGED <<queue, hal, dmaBuffer, nextHalf, chunks, starts>>
    BY <1>3 DEF InitAlloc
  <2>2. inits \in Nat /\ hal = "ready"
    BY <2>1 DEF MicTypeOK, CaptureInv, I2sIdle
  <2>3. MicTypeOK'
    BY <2>1, <2>2, GotoTyped DEF MicTypeOK
  <2>4. CaptureInv'
    BY <2>1, <2>2, GotoTyped DEF CaptureInv, At, I2sIdle
  <2>5. CarryAll
    BY <2>1, <2>2 DEF CarryAll, Carried
  <2> QED  BY <2>1, <2>3, <2>4, <2>5, GotoTyped, ChunkKeptQuiet
<1>4. CASE InitNoMemory
  <2>1. /\ At("alloc") /\ Goto("idle")
        /\ UNCHANGED <<queue, state, hal, dmaBuffer, nextHalf, buffer, pcm, chunks, starts, inits>>
    BY <1>4 DEF InitNoMemory, history
  <2>2. MicTypeOK'
    BY <2>1, GotoTyped DEF MicTypeOK
  <2>3. CaptureInv'
    BY <2>1, GotoTyped DEF CaptureInv, At, I2sIdle
  <2> QED  BY <2>1, <2>2, <2>3, GotoTyped, QuietCarries, ChunkKeptQuiet
<1> QED  BY <1>1, <1>2, <1>3, <1>4

LEMMA StartCallKeeps ==
    ASSUME MicInv, StartStream \/ StartReceive \/ StartRun PROVE MicInv'
<1> USE DEF MicInv
<1>1. CASE StartStream
  <2>1. /\ At("idle") /\ hal = "ready" /\ buffer # 0 /\ state' = "streaming" /\ Goto("receive")
        /\ UNCHANGED <<queue, hal, dmaBuffer, nextHalf, buffer, pcm, chunks, starts, inits>>
    BY <1>1 DEF StartStream, I2sIdle, history
  <2>2. MicTypeOK'
    BY <2>1, GotoTyped DEF MicTypeOK
  <2>3. CaptureInv'
    BY <2>1, GotoTyped DEF CaptureInv, At, I2sIdle
  <2> QED  BY <2>1, <2>2, <2>3, GotoTyped, QuietCarries, ChunkKeptQuiet
<1>2. CASE StartReceive
  <2>1. /\ At("receive") /\ hal = "ready" /\ state = "streaming" /\ buffer # 0
        /\ UNCHANGED <<queue, buffer, pcm, chunks, inits>>
    BY <1>2 DEF StartReceive, CaptureInv
  <2>2. CASE /\ hal' = "busy" /\ dmaBuffer' = buffer /\ nextHalf' = 0
             /\ starts' = starts + 1 /\ Goto("run") /\ UNCHANGED state
    <3>1. MicTypeOK'
      BY <2>1, <2>2, GotoTyped DEF MicTypeOK, Half
    <3>2. CaptureInv'
      BY <2>1, <2>2, GotoTyped DEF CaptureInv, At, I2sIdle
    <3>3. CarryAll
      <4>1. \A j \in Job : j.start <= starts => j.start # starts' /\ j.start <= starts'
        BY <2>2 DEF MicTypeOK, Job
      <4> QED  BY <2>1, <4>1 DEF CarryAll, Carried
    <3> QED  BY <2>1, <2>2, <3>1, <3>2, <3>3, GotoTyped, ChunkKeptQuiet
  <2>3. CASE /\ state' = "idle" /\ Goto("idle")
             /\ UNCHANGED <<hal, dmaBuffer, nextHalf, starts>>
    <3>1. MicTypeOK'
      BY <2>1, <2>3, GotoTyped DEF MicTypeOK
    <3>2. CaptureInv'
      BY <2>1, <2>3, GotoTyped DEF CaptureInv, At, I2sIdle
    <3> QED  BY <2>1, <2>3, <3>1, <3>2, GotoTyped, QuietCarries, ChunkKeptQuiet
  <2> QED  BY <1>2, <2>2, <2>3 DEF StartReceive
<1>3. CASE StartRun
  <2>1. /\ Goto("idle")
        /\ UNCHANGED <<queue, state, hal, dmaBuffer, nextHalf, buffer, pcm, chunks, starts, inits>>
    BY <1>3 DEF StartRun, history
  <2>2. MicTypeOK'
    BY <2>1, GotoTyped DEF MicTypeOK
  <2>3. CaptureInv'
    BY <2>1, GotoTyped DEF CaptureInv, At, I2sIdle
  <2> QED  BY <2>1, <2>2, <2>3, GotoTyped, QuietCarries, ChunkKeptQuiet
<1> QED  BY <1>1, <1>2, <1>3

\* The error interrupt and the stop call take the DMA down at any moment.
LEMMA StopKeeps ==
    ASSUME MicInv, StreamError \/ Stop \/ StopDma \/ StopState PROVE MicInv'
<1> USE DEF MicInv
<1>1. /\ UNCHANGED <<queue, dmaBuffer, nextHalf, buffer, pcm, chunks, starts, inits>>
      /\ \/ hal = "busy" /\ hal' = "ready" /\ state' = "idle" /\ fg' = fg
         \/ Goto("stop") /\ At("idle") /\ UNCHANGED <<state, hal>>
         \/ Goto("stopped") /\ hal' = "ready" /\ state' = state
         \/ Goto("idle") /\ state # "streaming" /\ UNCHANGED <<state, hal>>
         \/ Goto("idle") /\ At("stopped") /\ state' = "idle" /\ hal' = hal
  BY DEF StreamError, Stop, StopDma, StopState, history
<1>2. MicTypeOK'
  BY <1>1, GotoTyped DEF MicTypeOK
<1>3. CaptureInv'
  BY <1>1, GotoTyped DEF CaptureInv, At, I2sIdle
<1>4. fg' = fg \/ (fg'.job = NoJob /\ fg'.pc \notin {"levels", "power"})
  BY <1>1, GotoTyped
<1> QED  BY <1>1, <1>2, <1>3, <1>4, QuietCarries, ChunkKeptQuiet

LEMMA JobsKeep ==
    ASSUME MicInv, SecondTick \/ Poll PROVE MicInv'
<1> USE DEF MicInv
<1>1. UNCHANGED <<state, hal, dmaBuffer, nextHalf, buffer, pcm, chunks, starts, inits>>
  BY DEF SecondTick, Poll, PollReport, PollJob, HandleLevels, HandlePower, history
<1>2. Ring(queue) /\ fg.job \in Job /\ fg.pc \in {"idle", "alloc", "receive", "run",
                                                    "stop", "stopped", "levels", "power"}
  BY DEF MicTypeOK
<1>3. CASE SecondTick
  <2>1. PICK id \in {"tick", "synth"} : queue' = JobAdd(queue, Plain(id)) /\ fg' = fg
    BY <1>3 DEF SecondTick
  <2>2. Plain(id) \in Job /\ Carried(Plain(id))'
    BY PlainIsJob DEF Carried, Plain
  <2>3. /\ Ring(queue)'
        /\ \A i \in Slot : queue'.slot[i] = queue.slot[i] \/ queue'.slot[i] = Plain(id)
    BY <1>2, <2>1, <2>2, AddInRing
  <2>4. MicTypeOK' /\ CaptureInv'
    BY <1>1, <2>1, <2>3 DEF MicTypeOK, CaptureInv, At, I2sIdle
  <2>5. fg'.pc \in {"levels", "power"} => fg'.job.id = "chunk"
    BY <2>1 DEF ChunkInv, Handling, At
  <2> QED  BY <1>1, <2>1, <2>2, <2>3, <2>4, <2>5, QuietCarries, ChunkKept
<1>4. CASE PollReport
  <2>1. Overflowed(queue) /\ queue' = ReportLost(queue) /\ fg' = fg
    BY <1>4 DEF PollReport
  <2>2. Ring(queue)' /\ queue'.slot = queue.slot
    BY <1>2, <2>1, PollInRing
  <2>3. MicTypeOK' /\ CaptureInv'
    BY <1>1, <2>1, <2>2 DEF MicTypeOK, CaptureInv, At, I2sIdle
  <2> QED  BY <1>1, <2>1, <2>2, <2>3, QuietCarries, ChunkKeptQuiet
<1>5. CASE PollJob
  <2>1. /\ JobReady(queue) /\ queue' = TakeJob(queue) /\ At("idle")
        /\ fg' = IF OldestJob(queue).id = "chunk"
                 THEN [pc |-> "levels", job |-> OldestJob(queue)] ELSE Idle
    BY <1>5 DEF PollJob
  <2>2. Ring(queue)' /\ queue'.slot = queue.slot
    BY <1>2, <2>1, PollInRing
  <2>3. PICK i \in Slot : OldestJob(queue) = queue.slot[i]
    BY <1>2, PollInRing
  <2>4. /\ queue.slot[i] \in Job
        /\ \/ fg' = [pc |-> "levels", job |-> queue.slot[i]] /\ queue.slot[i].id = "chunk"
           \/ fg' = [pc |-> "idle", job |-> NoJob]
    BY <1>2, <2>1, <2>3 DEF Ring, Idle
  <2>5. NoJob \in Job /\ NoJob.id # "chunk"
    BY PlainIsJob DEF NoJob, Plain
  <2> HIDE DEF NoJob
  <2>6. MicTypeOK' /\ CaptureInv'
    BY <1>1, <2>2, <2>4, <2>5 DEF MicTypeOK, CaptureInv, At, I2sIdle
  <2>7. Plain("tick") \in Job /\ Carried(Plain("tick"))'
    BY PlainIsJob DEF Carried, Plain
  <2> QED  BY <1>1, <2>2, <2>4, <2>5, <2>6, <2>7, QuietCarries, ChunkKept
<1>6. CASE HandleLevels
  <2>1. queue' = queue /\ fg' = [fg EXCEPT !.pc = "power"] /\ At("levels")
    BY <1>6 DEF HandleLevels
  <2>2. fg'.job = fg.job /\ fg'.pc = "power" /\ fg.job.id = "chunk"
    BY <2>1 DEF MicTypeOK, ChunkInv, Handling
  <2>3. MicTypeOK' /\ CaptureInv'
    BY <1>1, <2>1, <2>2 DEF MicTypeOK, CaptureInv, At, I2sIdle
  <2>4. Plain("tick") \in Job /\ Carried(Plain("tick"))'
    BY PlainIsJob DEF Carried, Plain
  <2> QED  BY <1>1, <2>1, <2>2, <2>3, <2>4, QuietCarries, ChunkKept
<1>7. CASE HandlePower
  <2>1. queue' = queue /\ Goto("idle")
    BY <1>7 DEF HandlePower, Idle, Goto
  <2>2. MicTypeOK' /\ CaptureInv'
    BY <1>1, <2>1, GotoTyped DEF MicTypeOK, CaptureInv, At, I2sIdle
  <2> QED  BY <1>1, <2>1, <2>2, GotoTyped, QuietCarries, ChunkKeptQuiet
<1> QED  BY <1>3, <1>4, <1>5, <1>6, <1>7 DEF Poll

----------------------------------------------------------------------------
LEMMA InitMicInv == ASSUME Init PROVE MicInv
<1>1. NoJob \in Job /\ NoJob.id # "chunk"
  BY PlainIsJob DEF NoJob, Plain
<1>2. Ring(queue) /\ \A i \in Slot : queue.slot[i] = NoJob
  BY InitRing DEF Init, JobInit, Slot
<1> HIDE DEF NoJob
<1> QED  BY <1>1, <1>2 DEF Init, MicInv, MicTypeOK, CaptureInv, ChunkInv, Carried, Handling,
                          At, Idle, Half

LEMMA NextMicInv == ASSUME MicInv, [Next]_vars PROVE MicInv'
<1>1. CASE Interrupt
  BY <1>1, HalfCompleteKeeps, StopKeeps, JobsKeep DEF Interrupt
<1>2. CASE Api
  BY <1>2, InitCallKeeps, StartCallKeeps, StopKeeps DEF Api
<1>3. CASE Poll
  BY <1>3, JobsKeep
<1>4. CASE UNCHANGED vars
  <2>1. UNCHANGED <<queue, state, hal, dmaBuffer, nextHalf, buffer, pcm, fg, chunks, starts, inits>>
    BY <1>4 DEF vars, history
  <2> QED  BY <2>1 DEF MicInv, MicTypeOK, CaptureInv, ChunkInv, Carried, Handling, At, I2sIdle
<1> QED  BY <1>1, <1>2, <1>3, <1>4 DEF Next

\* The inductive invariant of capture, jobs and handler together.
THEOREM MicInvariant == Spec => []MicInv
<1>1. Init => MicInv
  BY InitMicInv
<1>2. MicInv /\ [Next]_vars => MicInv'
  BY NextMicInv
<1> QED  BY <1>1, <1>2, PTL DEF Spec

\* The circular DMA writes only into buffers that are allocated, however init,
\* start, stop and the error interrupt fall.
THEOREM MicDmaTargetLive == Spec => []DmaTargetLive
<1>1. MicInv => DmaTargetLive
  BY DEF MicInv, CaptureInv, DmaTargetLive
<1> QED  BY <1>1, MicInvariant, PTL

\* A chunk handler reads the sound its job was posted for, as long as at most
\* one more half has completed in the same session.
THEOREM MicPingPongSlack == Spec => []PingPongSlack
<1>1. ASSUME MicInv PROVE PingPongSlack
  <2> SUFFICES ASSUME Handling, fg.job.buffer = buffer, fg.job.start = starts,
                      chunks - fg.job.sound <= 1
               PROVE  Reads = fg.job.sound
    BY DEF PingPongSlack
  <2>1. /\ fg.job.sound <= chunks
        /\ chunks = fg.job.sound => pcm[fg.job.half] = fg.job.sound
        /\ chunks = fg.job.sound + 1 => pcm[fg.job.half] = fg.job.sound
    BY <1>1 DEF MicInv, ChunkInv, Carried
  <2>2. chunks \in Nat /\ fg.job.sound \in Nat
    BY <1>1 DEF MicInv, MicTypeOK, Job
  <2> QED  BY <2>1, <2>2 DEF Reads
<1> QED  BY <1>1, MicInvariant, PTL

\* No index of the job queue leaves the ring and u8_full never wraps, for every
\* size of the queue and every ceiling of the byte (jobs.c).
THEOREM JobTypeOK == Spec => []TypeOK
<1>1. MicInv => TypeOK
  BY DEF MicInv, MicTypeOK, TypeOK, Ring, Slot
<1> QED  BY <1>1, MicInvariant, PTL

\* jobs.c implements the bounded FIFO with a loss counter for the interrupts
\* that add and the main loop that polls: jobs come out in the order they went
\* in, none twice, a refusal is always counted, and its count is told before
\* another job is handed out.
THEOREM JobQueueImplementsLossyQueue == Spec => ImplementsLossyQueue
<1>1. Init => Lossy!LossyInit
  BY InitRing
<1>2. ASSUME MicInv, [Next]_vars PROVE [Lossy!LossyNext]_(Lossy!lossyVars)
  <2>1. Ring(queue) /\ JobParts
    BY <1>2 DEF MicInv, MicTypeOK, JobParts
  <2> QED  BY <1>2, <2>1, StepRefines
<1> QED  BY <1>1, <1>2, MicInvariant, PTL DEF Spec, ImplementsLossyQueue, Lossy!LossySpec
=============================================================================
