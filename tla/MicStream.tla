----------------------------- MODULE MicStream -----------------------------
(***************************************************************************)
(* Microphone capture: i2s_audio_in.c (circular DMA into a buffer of two   *)
(* halves, each decoded into its half of a PCM buffer by the interrupt),   *)
(* audio_in_service.c (the interrupt posts a job that points INTO the PCM  *)
(* buffer), gx_job_queue with its other user, the one-second tick, and     *)
(* v_app_polling_task running the jobs.                                    *)
(*                                                                         *)
(* Interrupts preempt the main program between any two of its steps.       *)
(* Those of the capture have priority 0 and are one step; the timer's has  *)
(* priority 12, and a capture interrupt may fall between its two           *)
(* v_job_add.  The n-th half the DMA completes carries sound n.            *)
(* The PCM buffer of the n-th successful init is buffer n, and a job keeps *)
(* the buffer and half it points at.                                       *)
(***************************************************************************)
EXTENDS JobQueue, Integers

CONSTANTS JobSlots,     \* JOB_QUEUE_SIZE
          MaxChunks,    \* bound: halves the DMA completes
          MaxInits,     \* bound: successful x_audio_in_service_init
          MaxStarts,    \* bound: successful x_audio_in_service_start
          MaxTicks      \* bound: one-second ticks

ASSUME JobSlotsAssumption == JobSlots \in Nat \ {0}

VARIABLES queue,        \* gx_job_queue
          state,        \* s_x_state of i2s_audio_in
          hal,          \* HAL_I2S_STATE_READY or BUSY_RX: the DMA is running
          dmaBuffer,    \* PCM buffer of the session the DMA was started in
          nextHalf,     \* the half the DMA completes next
          buffer,       \* the allocated buffers, 0 for none
          pcm,          \* sound in each half of s_p_i16_mono_ping
          i2sValid,     \* s_b_cfg_valid of i2s_audio_in
          svcValid,     \* s_b_cfg_valid of audio_in_service
          running,      \* s_b_running
          fg,           \* the main program: its call in progress
          chunks,       \* history: halves completed
          starts,       \* history: successful starts
          inits,        \* history: successful inits
          ticks         \* jobs of the one-second tick: odd, it is between its two

service == <<i2sValid, svcValid, running>>
history == <<chunks, starts, inits, ticks>>
vars == <<queue, state, hal, dmaBuffer, nextHalf, buffer, pcm, service, fg, history>>

Half == {0, 1}
Job == [id : {"none", "tick", "synth", "chunk"}, buffer : Nat, half : Half,
        sound : Nat, start : Nat]
Plain(id) == [id |-> id, buffer |-> 0, half |-> 0, sound |-> 0, start |-> 0]
ChunkJob(h, n) == [id |-> "chunk", buffer |-> buffer, half |-> h,
                   sound |-> n, start |-> starts]
NoJob == Plain("none")

\* Between two calls of the main program, and inside one.
Idle == [pc |-> "idle", job |-> NoJob]
At(pc) == fg.pc = pc
Goto(pc) == fg' = [pc |-> pc, job |-> NoJob]

\* b_i2s_audio_in_is_idle.
I2sIdle == state = "idle" /\ hal = "ready"

Init ==
    /\ queue = JobInit(JobSlots, NoJob)
    /\ state = "idle" /\ hal = "ready" /\ dmaBuffer = 0 /\ nextHalf = 0
    /\ buffer = 0
    /\ pcm = [h \in Half |-> 0]
    /\ i2sValid = FALSE /\ svcValid = FALSE /\ running = FALSE
    /\ fg = Idle
    /\ chunks = 0
    /\ starts = 0 /\ inits = 0 /\ ticks = 0

----------------------------------------------------------------------------
(* Interrupts                                                              *)

\* Mutant of DispatchHalf: both halves are decoded into the same PCM half.
DispatchHalfShared(h, n) ==
    IF state = "streaming" /\ buffer # 0
    THEN /\ pcm' = [pcm EXCEPT ![0] = n]
         /\ queue' = IF running THEN JobAdd(queue, [ChunkJob(h, n) EXCEPT !.half = 0]) ELSE queue
    ELSE UNCHANGED <<pcm, queue>>

\* v_i2s_audio_in_dispatch_half with v_audio_in_service_isr_post: decode the
\* finished half and, while the service runs, post a pointer to the result.
DispatchHalf(h, n) ==
    IF state = "streaming" /\ buffer # 0
    THEN /\ pcm' = [pcm EXCEPT ![h] = n]
         /\ queue' = IF running THEN JobAdd(queue, ChunkJob(h, n)) ELSE queue
    ELSE UNCHANGED <<pcm, queue>>

\* HAL_I2S_RxHalfCpltCallback and HAL_I2S_RxCpltCallback, alternately.
HalfComplete ==
    /\ hal = "busy"
    /\ chunks < MaxChunks
    /\ DispatchHalf(nextHalf, chunks + 1)
    /\ chunks' = chunks + 1
    /\ nextHalf' = 1 - nextHalf
    /\ UNCHANGED <<state, hal, dmaBuffer, buffer, service, fg, starts, inits, ticks>>

\* HAL_I2S_ErrorCallback: v_i2s_audio_in_stop_dma_idle from the interrupt.
\* s_b_running stays as it is.
StreamError ==
    /\ hal = "busy"
    /\ hal' = "ready" /\ state' = "idle"
    /\ UNCHANGED <<queue, dmaBuffer, nextHalf, buffer, pcm, service, fg, history>>

\* v_periodic_timer_service, every thousandth interrupt: two jobs, and the
\* main program stands still until both are posted.
InTick == ticks % 2 = 1
SecondTick ==
    /\ ticks < 2 * MaxTicks
    /\ queue' = JobAdd(queue, Plain(IF InTick THEN "synth" ELSE "tick"))
    /\ ticks' = ticks + 1
    /\ UNCHANGED <<state, hal, dmaBuffer, nextHalf, buffer, pcm, service, fg,
                   chunks, starts, inits>>

----------------------------------------------------------------------------
(* x_audio_in_service_init                                                 *)

\* Mutant of InitFree: the buffers are released whatever the DMA is doing.
InitFreeUnchecked ==
    /\ At("idle")
    /\ running' = FALSE /\ svcValid' = TRUE
    /\ buffer' = 0
    /\ Goto("alloc")
    /\ UNCHANGED <<queue, state, hal, dmaBuffer, nextHalf, pcm, i2sValid, history>>

\* The service forgets it was running, then x_i2s_audio_in_init releases
\* the old buffers.
InitFree ==
    /\ At("idle") /\ I2sIdle
    /\ running' = FALSE /\ svcValid' = TRUE
    /\ buffer' = 0
    /\ Goto("alloc")
    /\ UNCHANGED <<queue, state, hal, dmaBuffer, nextHalf, pcm, i2sValid, history>>

\* x_i2s_audio_in_init refuses while the capture runs: I2S_AUDIO_IN_ERR_BUSY.
InitBusy ==
    /\ At("idle") /\ ~I2sIdle
    /\ running' = FALSE /\ svcValid' = FALSE
    /\ UNCHANGED <<queue, state, hal, dmaBuffer, nextHalf, buffer, pcm, i2sValid, fg, history>>

InitAlloc ==
    /\ At("alloc")
    /\ inits < MaxInits
    /\ inits' = inits + 1 /\ buffer' = inits + 1
    /\ pcm' = [h \in Half |-> 0]
    /\ i2sValid' = TRUE /\ state' = "idle"
    /\ Goto("idle")
    /\ UNCHANGED <<queue, hal, dmaBuffer, nextHalf, svcValid, running, chunks, starts, ticks>>

\* malloc fails: I2S_AUDIO_IN_ERR_MALLOC; an older i2sValid survives.
InitNoMemory ==
    /\ At("alloc")
    /\ svcValid' = FALSE
    /\ Goto("idle")
    /\ UNCHANGED <<queue, state, hal, dmaBuffer, nextHalf, buffer, pcm, i2sValid, running, history>>

(* x_audio_in_service_start; every refusal before StartStream changes      *)
(* nothing.                                                                *)
StartStream ==
    /\ At("idle") /\ svcValid /\ i2sValid /\ I2sIdle /\ buffer # 0
    /\ starts < MaxStarts
    /\ state' = "streaming"
    /\ Goto("receive")
    /\ UNCHANGED <<queue, hal, dmaBuffer, nextHalf, buffer, pcm, service, history>>

\* HAL_I2S_Receive_DMA starts the DMA at the first half, or refuses.
StartReceive ==
    /\ At("receive")
    /\ \/ /\ hal' = "busy" /\ dmaBuffer' = buffer /\ nextHalf' = 0
          /\ starts' = starts + 1
          /\ Goto("run")
          /\ UNCHANGED state
       \/ /\ state' = "idle"
          /\ Goto("idle")
          /\ UNCHANGED <<hal, dmaBuffer, nextHalf, starts>>
    /\ UNCHANGED <<queue, buffer, pcm, service, chunks, inits, ticks>>

\* The halves completed before this step are decoded and not posted.
StartRun ==
    /\ At("run")
    /\ running' = TRUE
    /\ Goto("idle")
    /\ UNCHANGED <<queue, state, hal, dmaBuffer, nextHalf, buffer, pcm, i2sValid, svcValid, history>>

(* v_audio_in_service_stop                                                 *)
Stop ==
    /\ At("idle")
    /\ running' = FALSE
    /\ Goto("stop")
    /\ UNCHANGED <<queue, state, hal, dmaBuffer, nextHalf, buffer, pcm, i2sValid, svcValid, history>>

\* HAL_I2S_DMAStop, skipped when an error has already stopped the capture.
StopDma ==
    /\ At("stop")
    /\ IF state = "streaming" THEN hal' = "ready" /\ Goto("stopped")
                              ELSE UNCHANGED hal /\ Goto("idle")
    /\ UNCHANGED <<queue, state, dmaBuffer, nextHalf, buffer, pcm, service, history>>

StopState ==
    /\ At("stopped")
    /\ state' = "idle"
    /\ Goto("idle")
    /\ UNCHANGED <<queue, hal, dmaBuffer, nextHalf, buffer, pcm, service, history>>

----------------------------------------------------------------------------
(* v_app_polling_task: one job per call                                    *)

PollReport ==
    /\ At("idle") /\ Overflowed(queue)
    /\ queue' = ReportLost(queue)
    /\ UNCHANGED <<state, hal, dmaBuffer, nextHalf, buffer, pcm, service, fg, history>>

PollJob ==
    /\ At("idle") /\ JobReady(queue)
    /\ queue' = TakeJob(queue)
    /\ fg' = IF OldestJob(queue).id = "chunk"
             THEN [pc |-> "levels", job |-> OldestJob(queue)]
             ELSE Idle
    /\ UNCHANGED <<state, hal, dmaBuffer, nextHalf, buffer, pcm, service, history>>

\* v_audio_in_service_process_job calls the chunk handler, which goes over
\* the PCM half twice: mean and peak, then the AC power about that mean.
HandleLevels ==
    /\ At("levels")
    /\ fg' = [fg EXCEPT !.pc = "power"]
    /\ UNCHANGED <<queue, state, hal, dmaBuffer, nextHalf, buffer, pcm, service, history>>

HandlePower ==
    /\ At("power")
    /\ fg' = Idle
    /\ UNCHANGED <<queue, state, hal, dmaBuffer, nextHalf, buffer, pcm, service, history>>

Interrupt == HalfComplete \/ StreamError \/ SecondTick
Api ==
    \/ InitFree \/ InitBusy \/ InitAlloc \/ InitNoMemory
    \/ StartStream \/ StartReceive \/ StartRun
    \/ Stop \/ StopDma \/ StopState
Poll == PollReport \/ PollJob \/ HandleLevels \/ HandlePower

Next == Interrupt \/ (~InTick /\ (Api \/ Poll))

\* An interrupt, a call and a handler come to their end, and the main loop
\* polls whatever calls it makes between two polls.
Ends ==
    \/ InTick /\ SecondTick
    \/ /\ ~InTick
       /\ \/ InitAlloc \/ InitNoMemory \/ StartReceive \/ StartRun
          \/ StopDma \/ StopState \/ HandleLevels \/ HandlePower
Fairness == WF_vars(Ends) /\ SF_vars(~InTick /\ (PollReport \/ PollJob))

Spec == Init /\ [][Next]_vars /\ Fairness

----------------------------------------------------------------------------
\* The indices of gx_job_queue stay in the ring and u8_full saturates instead
\* of wrapping.
TypeOK ==
    queue \in [slot : [0..(JobSlots - 1) -> Job], head : 0..(JobSlots - 1),
               tail : 0..(JobSlots - 1), full : 0..FullMax, size : {JobSlots}]

\* The ring of jobs.c, with one byte for its full flag and its loss counter, is
\* a bounded FIFO that counts what it refuses and tells it before the next job,
\* for two interrupts that add and a main loop that polls.
Lossy == INSTANCE LossyQueue WITH
            Capacity <- JobSlots, MissedMax <- FullMax - 1,
            pending <- Pending(queue), missed <- LostCount(queue)
ImplementsLossyQueue == Lossy!LossySpec

\* Once the interrupts no longer add, the polling comes to the end of the
\* queue, with nothing left to report.
Empties == <>[]JobQueueEmpty(queue)

\* The DMA writes only into buffers that are allocated, whichever way init,
\* start, stop and the error interrupt are interleaved.
DmaTargetLive == hal = "busy" => buffer # 0 /\ dmaBuffer = buffer

\* The handler is reading a half of the PCM buffer.
Handling == At("levels") \/ At("power")
Reads == IF fg.job.buffer = buffer THEN pcm[fg.job.half] ELSE 0

\* Ping-pong gives a handler the time of one more half: within the session
\* that captured it, a chunk is intact until the second half after it ends.
PingPongSlack ==
    Handling /\ fg.job.buffer = buffer /\ fg.job.start = starts
        /\ chunks - fg.job.sound <= 1
    => Reads = fg.job.sound
=============================================================================
