------------------------------ MODULE SynthOut ------------------------------
(***************************************************************************)
(* The synthesizer (App/Src/synth_engine.c) on top of the double-buffered  *)
(* I2S output (App/Src/i2s_audio_out.c).                                   *)
(*                                                                         *)
(* The foreground calls set_tone and stop; the DMA interrupt asks for one  *)
(* half buffer after another.  What both sides write is written in steps,  *)
(* and an interrupt may come between any two of them.                      *)
(*                                                                         *)
(* Time is counted in halves (256 frames, 7.7 ms), the clock of the        *)
(* foreground included.  The envelope is kept at the precision the control *)
(* needs: an attack (7 ms) and a release (3 or 4 ms) each end within one   *)
(* half, and a release followed by an attack (10 ms) does not.             *)
(***************************************************************************)
EXTENDS Naturals, Sequences

CONSTANTS Tone, None,
          ClockMod,        \* the tick counter's width: 2^32
          DrainWait,       \* the 60 ms set_tone waits for the drain
          SilenceHalves,   \* I2S_AUDIO_OUT_DEFAULT_SILENCE_HALVES
          MaxStall,        \* bound: halves the foreground is late by, in all
          MaxFaults        \* bound: SAI errors and refused resources

ASSUME SynthAssumption ==
    /\ None \notin Tone
    /\ SilenceHalves \in Nat \ {0}
    /\ DrainWait \in Nat /\ DrainWait > SilenceHalves + 1
    /\ ClockMod \in Nat /\ ClockMod > 2 * DrainWait
    /\ MaxStall \in Nat /\ MaxFaults \in Nat

VARIABLES
    env,      \* the engine: active, gain, slope, osc, freq, pend
    i2s,      \* the output: state, end of file requested, silence left, DMA
    heard,    \* history: tone and gain at the end of the last half
    calls,    \* the foreground's calls in progress, outermost first
    asked,    \* history: the tone last asked for and not stopped
    clock,
    stall, faults,   \* what is left of the two bounds
    spoilt    \* history: what a property makes allowance for: a race or a fault
              \* since the last note, a re-entry or an ignored fault ever

synthVars == <<env, i2s, heard, calls, asked, clock, stall, faults, spoilt>>

----------------------------------------------------------------------------
\* Calls in progress.

Frame(pc) == [pc |-> pc, tone |-> None, since |-> 0, then |-> "return"]

Idling == calls = << >>
Top == calls[Len(calls)]
At(pc) == ~Idling /\ Top.pc = pc

OnTop(frame) == [calls EXCEPT ![Len(calls)] = frame]
Goto(pc) == calls' = OnTop([Top EXCEPT !.pc = pc])
Leave == calls' = SubSeq(calls, 1, Len(calls) - 1)

Elapsed(since) == (clock + ClockMod - since) % ClockMod

----------------------------------------------------------------------------
\* i2s_audio_out.c.

OutIdle == i2s.state = "idle" /\ i2s.dma = "off"

EnterDrain(o) == [o EXCEPT !.state = "drain", !.silence = SilenceHalves, !.eof = FALSE]

StopDmaIdle(o) == [o EXCEPT !.state = "idle", !.silence = 0, !.eof = FALSE, !.dma = "off"]

DrainHalf(o) ==
    IF o.silence <= 1 THEN StopDmaIdle(o) ELSE [o EXCEPT !.silence = @ - 1]

OutStop(o) == [o EXCEPT !.eof = @ \/ o.state = "streaming"]

Silence == [tone |-> None, gain |-> "zero"]

\* x_synth_engine_fill over one half.  The oscillator is retuned where the
\* old tone has reached zero.
Fill(e) ==
    IF ~e.active \/ e.slope = "flat" THEN e
    ELSE IF e.slope = "attack"
    THEN [e EXCEPT !.gain = "full", !.slope = "flat"]
    ELSE IF e.pend = None
    THEN [e EXCEPT !.gain = "zero", !.slope = "flat", !.active = FALSE]
    ELSE [e EXCEPT !.gain = "part", !.slope = "attack", !.osc = e.pend,
                   !.freq = e.pend, !.pend = None]

EndOf(e) == IF e.active /\ e.gain # "zero" THEN [tone |-> e.osc, gain |-> e.gain] ELSE Silence

\* v_i2s_audio_out_produce_half.
ProduceHalf ==
    IF i2s.state = "drain" \/ i2s.eof
    THEN /\ i2s' = DrainHalf(IF i2s.state = "drain" THEN i2s ELSE EnterDrain(i2s))
         /\ heard' = Silence
         /\ UNCHANGED env
    ELSE /\ env' = Fill(env)
         /\ i2s' = IF Fill(env).active THEN i2s ELSE EnterDrain(i2s)
         /\ heard' = EndOf(Fill(env))

\* A half is due: the DMA interrupt between the stores of a set_tone or of a
\* stop is the race those calls do not guard against.
HalfInterrupt ==
    IF i2s.dma # "off" /\ i2s.state # "idle"
    THEN /\ ProduceHalf
         /\ spoilt' = spoilt \cup
                (IF At("hot") \/ At("pend") \/ At("cancel") THEN {"race"} ELSE {})
    ELSE UNCHANGED <<env, i2s, heard, spoilt>>

SaiError ==
    /\ faults > 0 /\ i2s.dma # "off"
    /\ faults' = faults - 1
    /\ i2s' = StopDmaIdle(i2s)
    /\ heard' = Silence
    /\ spoilt' = spoilt \cup {"fault"}
    /\ UNCHANGED <<env, calls, asked, clock, stall>>

----------------------------------------------------------------------------
\* v_synth_engine_set_tone, live: release the old tone, then leave the new one
\* for the fill to switch to.

SetToneLook ==
    /\ At("tone")
    /\ Goto(IF env.active /\ ~OutIdle THEN "hot" ELSE "cold")
    /\ UNCHANGED <<env, i2s, heard, asked, clock, stall, faults, spoilt>>

\* Mutant: the oscillator is retuned at once.
HotReleaseRetuned ==
    /\ At("hot")
    /\ env' = [env EXCEPT !.osc = Top.tone, !.slope = IF env.gain = "zero" THEN "flat" ELSE "release"]
    /\ Goto("pend")
    /\ UNCHANGED <<i2s, heard, asked, clock, stall, faults, spoilt>>

HotRelease ==
    /\ At("hot")
    /\ env' = [env EXCEPT !.slope = IF env.gain = "zero" THEN "flat" ELSE "release"]
    /\ Goto("pend")
    /\ UNCHANGED <<i2s, heard, asked, clock, stall, faults, spoilt>>

HotPending ==
    /\ At("pend")
    /\ env' = [env EXCEPT !.pend = Top.tone]
    /\ Leave
    /\ UNCHANGED <<i2s, heard, asked, clock, stall, faults, spoilt>>

\* The same, cold: wait until the output has drained, then start it.

ColdTune ==
    /\ At("cold")
    /\ env' = [env EXCEPT !.freq = Top.tone]
    /\ IF OutIdle
       THEN Goto("begin") /\ UNCHANGED i2s
       ELSE /\ i2s' = OutStop(i2s)
            /\ calls' = OnTop([Top EXCEPT !.pc = "wait", !.since = clock])
    /\ UNCHANGED <<heard, asked, clock, stall, faults, spoilt>>

WaitOver == OutIdle \/ Elapsed(Top.since) >= DrainWait

WaitEnds ==
    /\ At("wait") /\ WaitOver
    /\ Goto("begin")
    /\ UNCHANGED <<env, i2s, heard, asked, clock, stall, faults, spoilt>>

\* x_i2s_audio_out_init refuses while the output is busy; the engine gives up.
ColdBusy ==
    /\ At("begin") /\ ~OutIdle
    /\ env' = [env EXCEPT !.active = FALSE, !.slope = "flat"]
    /\ Leave
    /\ UNCHANGED <<i2s, heard, asked, clock, stall, faults, spoilt>>

\* init frees the buffers and allocates them anew.
FreeBuffers(o) == [o EXCEPT !.buffers = FALSE, !.dma = IF @ = "on" THEN "stray" ELSE @]

InitOut(o) == [FreeBuffers(o) EXCEPT !.state = "idle", !.eof = FALSE, !.silence = 0,
                                     !.buffers = TRUE]

\* Mutant: init does not look whether the output is busy.
ColdNoMemoryBusy ==
    /\ At("begin")
    /\ faults > 0 /\ faults' = faults - 1
    /\ i2s' = FreeBuffers(i2s)
    /\ env' = [env EXCEPT !.active = FALSE, !.slope = "flat"]
    /\ Leave
    /\ spoilt' = spoilt \cup {"fault"}
    /\ UNCHANGED <<heard, asked, clock, stall>>

ColdNoMemory ==
    /\ At("begin") /\ OutIdle
    /\ faults > 0 /\ faults' = faults - 1
    /\ i2s' = FreeBuffers(i2s)
    /\ env' = [env EXCEPT !.active = FALSE, !.slope = "flat"]
    /\ Leave
    /\ spoilt' = spoilt \cup {"fault"}
    /\ UNCHANGED <<heard, asked, clock, stall>>

Attack(e) == [e EXCEPT !.osc = e.freq, !.gain = "zero", !.slope = "attack", !.active = TRUE]

\* x_i2s_audio_out_start: both halves are filled before the DMA is started.
Prefilled(e) == Fill(Fill(e))

\* Mutant: the engine is made active after the output has been started.
ColdStartLateActive ==
    /\ At("begin") /\ OutIdle
    /\ i2s' = [EnterDrain(InitOut(i2s)) EXCEPT !.silence = @ - 1, !.dma = "on"]
    /\ env' = Attack(env)
    /\ heard' = Silence
    /\ Leave
    /\ UNCHANGED <<asked, clock, stall, faults, spoilt>>

ColdStart ==
    /\ At("begin") /\ OutIdle
    /\ env' = Prefilled(Attack(env))
    /\ i2s' = [InitOut(i2s) EXCEPT !.state = "streaming", !.dma = "on"]
    /\ heard' = EndOf(env')
    /\ Leave
    /\ UNCHANGED <<asked, clock, stall, faults, spoilt>>

\* The HAL refuses to transmit.
ColdRefused ==
    /\ At("begin") /\ OutIdle
    /\ faults > 0 /\ faults' = faults - 1
    /\ env' = [Prefilled(Attack(env)) EXCEPT !.active = FALSE, !.slope = "flat"]
    /\ i2s' = InitOut(i2s)
    /\ Leave
    /\ spoilt' = spoilt \cup {"fault"}
    /\ UNCHANGED <<heard, asked, clock, stall>>

----------------------------------------------------------------------------
\* v_synth_engine_stop.  The caller goes on at "stopped".

\* Mutant: a stop that finds the engine active leaves the envelope alone.
StopReleaseLate ==
    /\ At("stop")
    /\ asked' = None
    /\ IF env.active
       THEN Goto("cancel") /\ UNCHANGED <<env, i2s>>
       ELSE Goto("stopped") /\ i2s' = OutStop(i2s) /\ UNCHANGED env
    /\ UNCHANGED <<heard, clock, stall, faults, spoilt>>

StopRelease ==
    /\ At("stop")
    /\ asked' = None
    /\ IF env.active
       THEN /\ env' = [env EXCEPT !.slope = IF env.gain = "zero" THEN "flat" ELSE "release"]
            /\ Goto("cancel")
            /\ UNCHANGED i2s
       ELSE /\ i2s' = OutStop(i2s)
            /\ Goto("stopped")
            /\ UNCHANGED env
    /\ UNCHANGED <<heard, clock, stall, faults, spoilt>>

StopCancel ==
    /\ At("cancel")
    /\ env' = [env EXCEPT !.pend = None]
    /\ Goto("stopped")
    /\ UNCHANGED <<i2s, heard, asked, clock, stall, faults, spoilt>>

----------------------------------------------------------------------------
\* v_synth_engine_init, and the output before its first use.
SynthInit ==
    /\ env = [active |-> FALSE, gain |-> "zero", slope |-> "flat",
              osc |-> None, freq |-> None, pend |-> None]
    /\ i2s = [state |-> "idle", eof |-> FALSE, silence |-> 0, dma |-> "off",
              buffers |-> FALSE]
    /\ heard = Silence /\ calls = << >> /\ asked = None
    /\ clock = ClockMod - 3
    /\ stall = MaxStall /\ faults = MaxFaults /\ spoilt = {}

SynthStep ==
    \/ SetToneLook \/ HotRelease \/ HotPending
    \/ ColdTune \/ WaitEnds \/ ColdBusy \/ ColdNoMemory \/ ColdStart \/ ColdRefused
    \/ StopRelease \/ StopCancel

SynthTypeOK ==
    /\ env \in [active : BOOLEAN, gain : {"zero", "part", "full"},
                slope : {"flat", "attack", "release"},
                osc : Tone \cup {None}, freq : Tone \cup {None}, pend : Tone \cup {None}]
    /\ i2s \in [state : {"idle", "streaming", "drain"}, eof : BOOLEAN,
                silence : 0..SilenceHalves, dma : {"off", "on", "stray"}, buffers : BOOLEAN]
    /\ heard \in [tone : Tone \cup {None}, gain : {"zero", "part", "full"}]
    /\ asked \in Tone \cup {None}
    /\ clock \in 0..(ClockMod - 1) /\ stall \in 0..MaxStall /\ faults \in 0..MaxFaults
    /\ spoilt \subseteq {"race", "reentry", "fault", "ignored"}

\* The DMA transmits from buffers that are allocated, and only while the
\* driver knows of it: init frees them under it neither after a SAI error nor
\* when a drain takes longer than set_tone waits.
DmaBuffersLive ==
    i2s.dma # "off" => i2s.dma = "on" /\ i2s.buffers /\ i2s.state # "idle"

\* No pop: while a tone is heard, the next half starts with the same tone at
\* the same gain, so that a note never changes or ends except through zero.
\* Not once a poll has re-entered set_tone: the outer call can then find the
\* output busy and cut the inner one's tone at full gain (ColdBusy).
NoPop ==
    heard.gain # "zero" /\ i2s.dma = "on" /\ "reentry" \notin spoilt =>
        /\ i2s.state = "streaming" /\ ~i2s.eof
        /\ env.active /\ env.osc = heard.tone /\ env.gain = heard.gain

\* What has befallen the tone last asked for: a half fell due between two of
\* the stores of set_tone or of stop, which mask no interrupt (synth_engine.c:28
\* speaks of "atomic blocks"; there are none), or the output failed.  And a
\* re-entered set_tone, at any time before.
Harmed == spoilt \cap {"race", "fault", "reentry"} # {}

\* When set_tone has returned, its tone sounds or is the next to sound,
\* whatever the stream was doing and whatever races and faults left behind of
\* the tones before it: unless the tone itself has been harmed.
ToneSounds ==
    Idling /\ asked # None /\ ~Harmed =>
        /\ env.active /\ i2s.state = "streaming" /\ ~i2s.eof
        /\ (IF env.slope = "release" THEN env.pend ELSE env.osc) = asked
=============================================================================
