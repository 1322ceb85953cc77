----------------------------- MODULE PlayProofs -----------------------------
(***************************************************************************)
(* Proofs about the PLAY sequencer and the synthesizer it drives, for any  *)
(* scores, stack depths, nesting of polls, and any waits and clock width   *)
(* that SynthAssumption admits.                                            *)
(***************************************************************************)
EXTENDS Play, SequenceTheorems, TLAPS

Gains == {"zero", "part", "full"}
Slopes == {"flat", "attack", "release"}
Tones == Tone \cup {None}

EnvSet == [active : BOOLEAN, gain : Gains, slope : Slopes,
           osc : Tones, freq : Tones, pend : Tones]

OutStates == {"idle", "streaming", "drain"}
DmaStates == {"off", "on", "stray"}
Silences == 0..SilenceHalves

OutSet == [state : OutStates, eof : BOOLEAN, silence : Silences, dma : DmaStates,
           buffers : BOOLEAN]

Pcs == {"exec", "tone", "hot", "pend", "cold", "wait", "begin", "stop", "cancel", "stopped"}
Thens == {"return", "gap", "ended", "fault", "faultIgnored", "stopped", "restart"}
Times == 0..(ClockMod - 1)

FrameSet == [pc : Pcs, tone : Tones, since : Times, then : Thens]

LineSet == [seeded : BOOLEAN, ideal : Times, end : Times, deadline : Times]

LEMMA Names ==
    /\ "exec" \in Pcs /\ "tone" \in Pcs /\ "hot" \in Pcs /\ "pend" \in Pcs
    /\ "cold" \in Pcs /\ "wait" \in Pcs /\ "begin" \in Pcs /\ "stop" \in Pcs
    /\ "cancel" \in Pcs /\ "stopped" \in Pcs
    /\ "return" \in Thens /\ "gap" \in Thens /\ "ended" \in Thens /\ "fault" \in Thens
    /\ "faultIgnored" \in Thens /\ "stopped" \in Thens /\ "restart" \in Thens
    /\ None \in Tones
  BY DEF Pcs, Thens, Tones

----------------------------------------------------------------------------
(* The records, a field at a time.                                         *)

LEMMA EnvField ==
    ASSUME NEW e \in EnvSet
    PROVE  /\ \A v \in BOOLEAN : LET s == [e EXCEPT !.active = v] IN
                 /\ s \in EnvSet /\ s.active = v /\ s.gain = e.gain /\ s.slope = e.slope
                 /\ s.osc = e.osc /\ s.freq = e.freq /\ s.pend = e.pend
           /\ \A v \in Gains : LET s == [e EXCEPT !.gain = v] IN
                 /\ s \in EnvSet /\ s.active = e.active /\ s.gain = v /\ s.slope = e.slope
                 /\ s.osc = e.osc /\ s.freq = e.freq /\ s.pend = e.pend
           /\ \A v \in Slopes : LET s == [e EXCEPT !.slope = v] IN
                 /\ s \in EnvSet /\ s.active = e.active /\ s.gain = e.gain /\ s.slope = v
                 /\ s.osc = e.osc /\ s.freq = e.freq /\ s.pend = e.pend
           /\ \A v \in Tones : LET s == [e EXCEPT !.osc = v] IN
                 /\ s \in EnvSet /\ s.active = e.active /\ s.gain = e.gain
                 /\ s.slope = e.slope /\ s.osc = v /\ s.freq = e.freq /\ s.pend = e.pend
           /\ \A v \in Tones : LET s == [e EXCEPT !.freq = v] IN
                 /\ s \in EnvSet /\ s.active = e.active /\ s.gain = e.gain
                 /\ s.slope = e.slope /\ s.osc = e.osc /\ s.freq = v /\ s.pend = e.pend
           /\ \A v \in Tones : LET s == [e EXCEPT !.pend = v] IN
                 /\ s \in EnvSet /\ s.active = e.active /\ s.gain = e.gain
                 /\ s.slope = e.slope /\ s.osc = e.osc /\ s.freq = e.freq /\ s.pend = v
  BY DEF EnvSet

LEMMA OutNames ==
    /\ "idle" \in OutStates /\ "streaming" \in OutStates /\ "drain" \in OutStates
    /\ "off" \in DmaStates /\ "on" \in DmaStates
    /\ 0 \in Silences /\ SilenceHalves \in Silences
    /\ TRUE \in BOOLEAN /\ FALSE \in BOOLEAN
  BY SynthAssumption DEF OutStates, DmaStates, Silences

LEMMA OutField ==
    ASSUME NEW o \in OutSet
    PROVE  /\ \A v \in OutStates : LET s == [o EXCEPT !.state = v] IN
                 /\ s \in OutSet /\ s.state = v /\ s.eof = o.eof /\ s.silence = o.silence
                 /\ s.dma = o.dma /\ s.buffers = o.buffers
           /\ \A v \in BOOLEAN : LET s == [o EXCEPT !.eof = v] IN
                 /\ s \in OutSet /\ s.state = o.state /\ s.eof = v /\ s.silence = o.silence
                 /\ s.dma = o.dma /\ s.buffers = o.buffers
           /\ \A v \in Silences : LET s == [o EXCEPT !.silence = v] IN
                 /\ s \in OutSet /\ s.state = o.state /\ s.eof = o.eof /\ s.silence = v
                 /\ s.dma = o.dma /\ s.buffers = o.buffers
           /\ \A v \in DmaStates : LET s == [o EXCEPT !.dma = v] IN
                 /\ s \in OutSet /\ s.state = o.state /\ s.eof = o.eof
                 /\ s.silence = o.silence /\ s.dma = v /\ s.buffers = o.buffers
           /\ \A v \in BOOLEAN : LET s == [o EXCEPT !.buffers = v] IN
                 /\ s \in OutSet /\ s.state = o.state /\ s.eof = o.eof
                 /\ s.silence = o.silence /\ s.dma = o.dma /\ s.buffers = v
  BY DEF OutSet

LEMMA FrameField ==
    ASSUME NEW f \in FrameSet
    PROVE  /\ \A v \in Pcs : LET s == [f EXCEPT !.pc = v] IN
                 /\ s \in FrameSet /\ s.pc = v /\ s.tone = f.tone /\ s.since = f.since
                 /\ s.then = f.then
           /\ \A v \in Tones : LET s == [f EXCEPT !.tone = v] IN
                 /\ s \in FrameSet /\ s.pc = f.pc /\ s.tone = v /\ s.since = f.since
                 /\ s.then = f.then
           /\ \A v \in Times : LET s == [f EXCEPT !.since = v] IN
                 /\ s \in FrameSet /\ s.pc = f.pc /\ s.tone = f.tone /\ s.since = v
                 /\ s.then = f.then
           /\ \A v \in Thens : LET s == [f EXCEPT !.then = v] IN
                 /\ s \in FrameSet /\ s.pc = f.pc /\ s.tone = f.tone /\ s.since = f.since
                 /\ s.then = v
  BY DEF FrameSet

LEMMA FrameIs ==
    ASSUME NEW pc \in Pcs
    PROVE  /\ Frame(pc) \in FrameSet /\ Frame(pc).pc = pc /\ Frame(pc).tone = None
<1>1. 0 \in Times
  BY SynthAssumption DEF Times
<1> QED  BY <1>1, Names DEF Frame, FrameSet

LEMMA StopFrameIs ==
    ASSUME NEW what \in Thens
    PROVE  LET f == [Frame("stop") EXCEPT !.then = what] IN
           f \in FrameSet /\ f.pc = "stop" /\ f.then = what
  BY FrameIs, FrameField, Names

LEMMA ToneFrameIs ==
    ASSUME NEW t \in Tones
    PROVE  LET f == [Frame("tone") EXCEPT !.tone = t] IN
           f \in FrameSet /\ f.pc = "tone" /\ f.tone = t
  BY FrameIs, FrameField, Names

----------------------------------------------------------------------------
(* What the operators of the synthesizer and of its output return.         *)

\* A half of an envelope: it holds, reaches full, ends, or ends with another
\* tone waiting, which then begins from zero.
LEMMA FillIs ==
    ASSUME NEW e \in EnvSet
    PROVE  /\ Fill(e) \in EnvSet
           /\ ~e.active => Fill(e) = e
           /\ e.active /\ e.slope = "flat" => Fill(e) = e
           /\ e.active /\ e.slope = "attack" =>
                 /\ Fill(e).active /\ Fill(e).gain = "full" /\ Fill(e).slope = "flat"
                 /\ Fill(e).osc = e.osc /\ Fill(e).pend = e.pend
           /\ e.active /\ e.slope = "release" /\ e.pend = None =>
                 ~Fill(e).active /\ Fill(e).pend = None
           /\ e.active /\ e.slope = "release" /\ e.pend # None =>
                 /\ Fill(e).active /\ Fill(e).gain = "part" /\ Fill(e).slope = "attack"
                 /\ Fill(e).osc = e.pend /\ Fill(e).pend = None
<1> DEFINE a1 == [e EXCEPT !.gain = "full"]
           a2 == [a1 EXCEPT !.slope = "flat"]
           b1 == [e EXCEPT !.gain = "zero"]
           b2 == [b1 EXCEPT !.slope = "flat"]
           b3 == [b2 EXCEPT !.active = FALSE]
           c1 == [e EXCEPT !.gain = "part"]
           c2 == [c1 EXCEPT !.slope = "attack"]
           c3 == [c2 EXCEPT !.osc = e.pend]
           c4 == [c3 EXCEPT !.freq = e.pend]
           c5 == [c4 EXCEPT !.pend = None]
<1>1. /\ e.active \in BOOLEAN /\ e.slope \in {"flat", "attack", "release"}
      /\ e.pend \in Tones
  BY DEF EnvSet, Slopes
<1>2. /\ "full" \in Gains /\ "zero" \in Gains /\ "part" \in Gains
      /\ "flat" \in Slopes /\ "attack" \in Slopes /\ FALSE \in BOOLEAN /\ None \in Tones
  BY DEF Gains, Slopes, Tones
<1>3. Fill(e) = IF ~e.active \/ e.slope = "flat" THEN e
                ELSE IF e.slope = "attack" THEN a2
                ELSE IF e.pend = None THEN b3 ELSE c5
  BY DEF Fill
<1>4. /\ a2 \in EnvSet /\ a2.active = e.active /\ a2.gain = "full" /\ a2.slope = "flat"
      /\ a2.osc = e.osc /\ a2.pend = e.pend
  <2>1. /\ a1 \in EnvSet /\ a1.active = e.active /\ a1.gain = "full"
        /\ a1.osc = e.osc /\ a1.pend = e.pend
    BY <1>2, EnvField
  <2> HIDE DEF a1
  <2> QED  BY <1>2, <2>1, EnvField
<1>5. b3 \in EnvSet /\ b3.active = FALSE /\ b3.pend = e.pend
  <2>1. b1 \in EnvSet /\ b1.pend = e.pend
    BY <1>2, EnvField
  <2> HIDE DEF b1
  <2>2. b2 \in EnvSet /\ b2.pend = e.pend
    BY <1>2, <2>1, EnvField
  <2> HIDE DEF b2
  <2> QED  BY <1>2, <2>2, EnvField
<1>6. /\ c5 \in EnvSet /\ c5.active = e.active /\ c5.gain = "part"
      /\ c5.slope = "attack" /\ c5.osc = e.pend /\ c5.pend = None
  <2>1. c1 \in EnvSet /\ c1.active = e.active /\ c1.gain = "part"
    BY <1>2, EnvField
  <2> HIDE DEF c1
  <2>2. c2 \in EnvSet /\ c2.active = e.active /\ c2.gain = "part" /\ c2.slope = "attack"
    BY <1>2, <2>1, EnvField
  <2> HIDE DEF c2
  <2>3. /\ c3 \in EnvSet /\ c3.active = e.active /\ c3.gain = "part"
        /\ c3.slope = "attack" /\ c3.osc = e.pend
    BY <1>1, <1>2, <2>2, EnvField
  <2> HIDE DEF c3
  <2>4. /\ c4 \in EnvSet /\ c4.active = e.active /\ c4.gain = "part"
        /\ c4.slope = "attack" /\ c4.osc = e.pend
    BY <1>1, <1>2, <2>3, EnvField
  <2> HIDE DEF c4
  <2> QED  BY <1>1, <1>2, <2>4, EnvField
<1> HIDE DEF a2, b3, c5
<1> QED  BY <1>1, <1>3, <1>4, <1>5, <1>6

\* The engine switched off at once.
LEMMA SilencedIs ==
    ASSUME NEW e \in EnvSet
    PROVE  LET s == [e EXCEPT !.active = FALSE, !.slope = "flat"] IN
           s \in EnvSet /\ ~s.active /\ s.pend = e.pend
<1> DEFINE a == [e EXCEPT !.active = FALSE]
           b == [a EXCEPT !.slope = "flat"]
<1>1. "flat" \in Slopes /\ FALSE \in BOOLEAN
  BY DEF Slopes
<1>2. a \in EnvSet /\ a.active = FALSE /\ a.pend = e.pend
  BY <1>1, EnvField
<1> HIDE DEF a
<1>3. b \in EnvSet /\ b.active = FALSE /\ b.pend = e.pend
  BY <1>1, <1>2, EnvField
<1> QED  BY <1>3 DEF a

LEMMA AttackIs ==
    ASSUME NEW e \in EnvSet
    PROVE  /\ Attack(e) \in EnvSet /\ Attack(e).active /\ Attack(e).slope = "attack"
           /\ Attack(e).osc = e.freq /\ Attack(e).pend = e.pend
<1> DEFINE a == [e EXCEPT !.osc = e.freq]
           b == [a EXCEPT !.gain = "zero"]
           c == [b EXCEPT !.slope = "attack"]
           d == [c EXCEPT !.active = TRUE]
<1>1. /\ "zero" \in Gains /\ "attack" \in Slopes /\ TRUE \in BOOLEAN /\ e.freq \in Tones
  BY DEF Gains, Slopes, EnvSet
<1>2. Attack(e) = d
  BY DEF Attack
<1>3. a \in EnvSet /\ a.osc = e.freq /\ a.pend = e.pend
  BY <1>1, EnvField
<1> HIDE DEF a
<1>4. b \in EnvSet /\ b.osc = e.freq /\ b.pend = e.pend
  BY <1>1, <1>3, EnvField
<1> HIDE DEF b
<1>5. c \in EnvSet /\ c.osc = e.freq /\ c.pend = e.pend /\ c.slope = "attack"
  BY <1>1, <1>4, EnvField
<1> HIDE DEF c
<1>6. d \in EnvSet /\ d.osc = e.freq /\ d.pend = e.pend /\ d.slope = "attack" /\ d.active = TRUE
  BY <1>1, <1>5, EnvField
<1> HIDE DEF d
<1> QED  BY <1>2, <1>6

\* The halves filled ahead of the start take the attack to its end.
LEMMA PrefilledIs ==
    ASSUME NEW e \in EnvSet
    PROVE  LET s == Prefilled(Attack(e)) IN
           /\ s \in EnvSet /\ s.active /\ s.gain = "full" /\ s.slope = "flat"
           /\ s.osc = e.freq /\ s.pend = e.pend
<1> DEFINE a == Attack(e)
           f == Fill(a)
<1>1. /\ a \in EnvSet /\ a.active /\ a.slope = "attack" /\ a.osc = e.freq /\ a.pend = e.pend
  BY AttackIs
<1> HIDE DEF a
<1>2. /\ f \in EnvSet /\ f.active /\ f.gain = "full" /\ f.slope = "flat"
      /\ f.osc = e.freq /\ f.pend = e.pend
  BY <1>1, FillIs
<1> HIDE DEF f
<1>3. Fill(f) = f
  BY <1>2, FillIs
<1>4. Prefilled(Attack(e)) = Fill(f)
  BY DEF Prefilled, a, f
<1> QED  BY <1>2, <1>3, <1>4

LEMMA EndOfIs ==
    ASSUME NEW e \in EnvSet
    PROVE  /\ EndOf(e) \in [tone : Tones, gain : Gains]
           /\ EndOf(e).gain # "zero" =>
                 e.active /\ e.osc = EndOf(e).tone /\ e.gain = EndOf(e).gain
  BY DEF EndOf, Silence, EnvSet, Gains, Tones

LEMMA SilenceIs ==
    /\ Silence \in [tone : Tones, gain : Gains] /\ Silence.gain = "zero"
  BY DEF Silence, Gains, Tones

\* The silence that is left once the output stops being fed.
Left(o) == IF o.state = "drain" THEN o.silence ELSE SilenceHalves

LEMMA EnterDrainIs ==
    ASSUME NEW o \in OutSet
    PROVE  LET s == EnterDrain(o) IN
           /\ s \in OutSet /\ s.state = "drain" /\ s.silence = SilenceHalves
           /\ s.dma = o.dma /\ s.buffers = o.buffers
<1> DEFINE a == [o EXCEPT !.state = "drain"]
           b == [a EXCEPT !.silence = SilenceHalves]
           c == [b EXCEPT !.eof = FALSE]
<1>1. SilenceHalves \in Silences /\ FALSE \in BOOLEAN /\ "drain" \in OutStates
  BY OutNames
<1>2. EnterDrain(o) = c
  BY DEF EnterDrain
<1>3. a \in OutSet /\ a.state = "drain" /\ a.dma = o.dma /\ a.buffers = o.buffers
  BY <1>1, OutField
<1> HIDE DEF a
<1>4. /\ b \in OutSet /\ b.state = "drain" /\ b.silence = SilenceHalves
      /\ b.dma = o.dma /\ b.buffers = o.buffers
  BY <1>1, <1>3, OutField
<1> HIDE DEF b
<1>5. /\ c \in OutSet /\ c.state = "drain" /\ c.silence = SilenceHalves
      /\ c.dma = o.dma /\ c.buffers = o.buffers
  BY <1>1, <1>4, OutField
<1> HIDE DEF c
<1> QED  BY <1>2, <1>5

LEMMA StopDmaIs ==
    ASSUME NEW o \in OutSet
    PROVE  LET s == StopDmaIdle(o) IN
           s \in OutSet /\ s.state = "idle" /\ s.dma = "off"
<1> DEFINE a == [o EXCEPT !.state = "idle"]
           b == [a EXCEPT !.silence = 0]
           c == [b EXCEPT !.eof = FALSE]
           d == [c EXCEPT !.dma = "off"]
<1>1. /\ 0 \in Silences /\ FALSE \in BOOLEAN /\ "idle" \in OutStates
      /\ "off" \in DmaStates
  BY OutNames
<1>2. StopDmaIdle(o) = d
  BY DEF StopDmaIdle
<1>3. a \in OutSet /\ a.state = "idle"
  BY <1>1, OutField
<1> HIDE DEF a
<1>4. b \in OutSet /\ b.state = "idle"
  BY <1>1, <1>3, OutField
<1> HIDE DEF b
<1>5. c \in OutSet /\ c.state = "idle"
  BY <1>1, <1>4, OutField
<1> HIDE DEF c
<1>6. d \in OutSet /\ d.state = "idle" /\ d.dma = "off"
  BY <1>1, <1>5, OutField
<1> HIDE DEF d
<1> QED  BY <1>2, <1>6

\* A half of silence leaves one less, and the last stops the DMA.
LEMMA DrainHalfIs ==
    ASSUME NEW o \in OutSet, o.state = "drain"
    PROVE  LET s == DrainHalf(o) IN
           /\ s \in OutSet
           /\ \/ s.state = "idle" /\ s.dma = "off"
              \/ /\ s.state = "drain" /\ s.silence = o.silence - 1
                 /\ s.dma = o.dma /\ s.buffers = o.buffers
<1>1. o.silence \in Silences
  BY DEF OutSet
<1>2. CASE o.silence <= 1
  BY <1>2, StopDmaIs DEF DrainHalf
<1>3. CASE ~(o.silence <= 1)
  <2> DEFINE n == o.silence - 1
             s == [o EXCEPT !.silence = n]
  <2>1. n \in Silences
    BY <1>1, <1>3, SynthAssumption DEF Silences
  <2>2. DrainHalf(o) = s
    BY <1>3 DEF DrainHalf
  <2>3. /\ s \in OutSet /\ s.state = o.state /\ s.silence = n
        /\ s.dma = o.dma /\ s.buffers = o.buffers
    <3> HIDE DEF n
    <3> QED  BY <2>1, OutField
  <2> HIDE DEF s
  <2> QED  BY <2>2, <2>3
<1> QED  BY <1>2, <1>3

LEMMA OutStopIs ==
    ASSUME NEW o \in OutSet
    PROVE  LET s == OutStop(o) IN
           /\ s \in OutSet /\ s.state = o.state /\ s.silence = o.silence
           /\ s.dma = o.dma /\ s.buffers = o.buffers
           /\ o.state = "streaming" => s.eof
           /\ o.state # "streaming" => s.eof = o.eof
<1> DEFINE v == o.eof \/ o.state = "streaming"
<1>1. v \in BOOLEAN /\ o.eof \in BOOLEAN
  BY DEF OutSet
<1>2. OutStop(o) = [o EXCEPT !.eof = v]
  BY DEF OutStop
<1>3. o.state = "streaming" => v = TRUE
  OBVIOUS
<1>4. o.state # "streaming" => v = o.eof
  BY <1>1
<1> HIDE DEF v
<1> QED  BY <1>1, <1>2, <1>3, <1>4, OutField

LEMMA FreeBuffersIs ==
    ASSUME NEW o \in OutSet, o.dma = "off"
    PROVE  LET s == FreeBuffers(o) IN
           s \in OutSet /\ s.state = o.state /\ s.dma = "off"
<1> DEFINE a == [o EXCEPT !.buffers = FALSE]
           b == [a EXCEPT !.dma = "off"]
<1>1. FALSE \in BOOLEAN /\ "off" \in DmaStates
  BY OutNames
<1>2. a \in OutSet /\ a.state = o.state /\ a.dma = "off"
  BY <1>1, OutField
<1>3. FreeBuffers(o) = b
  BY DEF FreeBuffers
<1> HIDE DEF a
<1>4. b \in OutSet /\ b.state = o.state /\ b.dma = "off"
  BY <1>1, <1>2, OutField
<1> HIDE DEF b
<1> QED  BY <1>3, <1>4

LEMMA InitOutIs ==
    ASSUME NEW o \in OutSet, o.dma = "off"
    PROVE  LET s == InitOut(o) IN
           s \in OutSet /\ s.state = "idle" /\ s.dma = "off" /\ s.buffers /\ ~s.eof
<1> DEFINE a == FreeBuffers(o)
           b == [a EXCEPT !.state = "idle"]
           c == [b EXCEPT !.eof = FALSE]
           d == [c EXCEPT !.silence = 0]
           g == [d EXCEPT !.buffers = TRUE]
<1>1. /\ 0 \in Silences /\ FALSE \in BOOLEAN /\ TRUE \in BOOLEAN
      /\ "idle" \in OutStates
  BY OutNames
<1>2. InitOut(o) = g
  BY DEF InitOut
<1>3. a \in OutSet /\ a.dma = "off"
  BY FreeBuffersIs
<1> HIDE DEF a
<1>4. b \in OutSet /\ b.state = "idle" /\ b.dma = "off"
  BY <1>1, <1>3, OutField
<1> HIDE DEF b
<1>5. c \in OutSet /\ c.state = "idle" /\ c.dma = "off" /\ c.eof = FALSE
  BY <1>1, <1>4, OutField
<1> HIDE DEF c
<1>6. d \in OutSet /\ d.state = "idle" /\ d.dma = "off" /\ d.eof = FALSE
  BY <1>1, <1>5, OutField
<1> HIDE DEF d
<1>7. /\ g \in OutSet /\ g.state = "idle" /\ g.dma = "off" /\ g.eof = FALSE
      /\ g.buffers = TRUE
  BY <1>1, <1>6, OutField
<1> HIDE DEF g
<1> QED  BY <1>2, <1>7

\* The output as a start leaves it.
LEMMA StartedOutIs ==
    ASSUME NEW o \in OutSet, o.dma = "off"
    PROVE  LET s == [InitOut(o) EXCEPT !.state = "streaming", !.dma = "on"] IN
           /\ s \in OutSet /\ s.state = "streaming" /\ s.dma = "on"
           /\ s.buffers /\ ~s.eof
<1> DEFINE a == InitOut(o)
           b == [a EXCEPT !.state = "streaming"]
           c == [b EXCEPT !.dma = "on"]
<1>1. "streaming" \in OutStates /\ "on" \in DmaStates
  BY OutNames
<1>2. a \in OutSet /\ a.buffers /\ ~a.eof
  BY InitOutIs
<1>3. [InitOut(o) EXCEPT !.state = "streaming", !.dma = "on"] = c
  OBVIOUS
<1> HIDE DEF a
<1>4. b \in OutSet /\ b.state = "streaming" /\ b.buffers /\ ~b.eof
  BY <1>1, <1>2, OutField
<1> HIDE DEF b
<1>5. c \in OutSet /\ c.state = "streaming" /\ c.dma = "on" /\ c.buffers /\ ~c.eof
  BY <1>1, <1>4, OutField
<1> HIDE DEF c
<1> QED  BY <1>3, <1>5

----------------------------------------------------------------------------
(* The clock, which wraps.                                                 *)

LEMMA ClockFacts ==
    /\ ClockMod \in Nat /\ DrainWait \in Nat /\ SilenceHalves \in Nat /\ SilenceHalves >= 1
    /\ ClockMod > 2 * DrainWait /\ DrainWait > SilenceHalves + 1
    /\ 0 \in Times /\ ClockMod - 3 \in Times
  BY SynthAssumption DEF Times

LEMMA ElapsedIs ==
    ASSUME NEW s \in Times, clock \in Times
    PROVE  Elapsed(s) = IF clock >= s THEN clock - s ELSE clock + ClockMod - s
  BY ClockFacts DEF Elapsed, Times

LEMMA TickIs ==
    ASSUME clock \in Times
    PROVE  /\ (clock + 1) % ClockMod = IF clock + 1 = ClockMod THEN 0 ELSE clock + 1
           /\ (clock + 1) % ClockMod \in Times
  BY ClockFacts DEF Times

\* A half later, one more has elapsed, until the counter comes round.
LEMMA ElapsedGrows ==
    ASSUME NEW s \in Times, clock \in Times, clock' = (clock + 1) % ClockMod,
           Elapsed(s) < ClockMod - 1
    PROVE  Elapsed(s)' = Elapsed(s) + 1
<1>1. clock' = (IF clock + 1 = ClockMod THEN 0 ELSE clock + 1) /\ clock' \in Times
  BY TickIs
<1>2. Elapsed(s) = IF clock >= s THEN clock - s ELSE clock + ClockMod - s
  BY ElapsedIs
<1>3. Elapsed(s)' = IF clock' >= s THEN clock' - s ELSE clock' + ClockMod - s
  BY <1>1, ClockFacts DEF Elapsed, Times
<1> QED  BY <1>1, <1>2, <1>3, ClockFacts DEF Times

LEMMA AfterIs ==
    ASSUME NEW s \in Times, NEW h \in Nat PROVE After(s, h) \in Times
  BY ClockFacts DEF After, Times


----------------------------------------------------------------------------
(* The calls in progress.                                                  *)

CallsType == calls \in Seq(FrameSet) /\ Len(calls) <= MaxNest

LEMMA TopIs ==
    ASSUME CallsType, ~Idling
    PROVE  Top \in FrameSet /\ Top.tone \in Tones /\ Len(calls) \in Nat \ {0}
<1>1. calls \in Seq(FrameSet) /\ calls # << >>
  BY DEF CallsType, Idling
<1>2. Len(calls) \in Nat \ {0}
  BY <1>1
<1>3. Top \in FrameSet
  BY <1>1, <1>2 DEF Top
<1> QED  BY <1>2, <1>3 DEF FrameSet

LEMMA OnTopIs ==
    ASSUME CallsType, ~Idling, NEW g \in FrameSet, calls' = OnTop(g)
    PROVE  CallsType' /\ ~Idling' /\ Top' = g /\ Len(calls') = Len(calls)
<1>1. calls \in Seq(FrameSet) /\ Len(calls) \in Nat \ {0}
  BY TopIs DEF CallsType
<1>2. calls' \in Seq(FrameSet) /\ Len(calls') = Len(calls) /\ calls'[Len(calls)] = g
  BY <1>1 DEF OnTop
<1> QED  BY <1>1, <1>2 DEF CallsType, Idling, Top

LEMMA GotoIs ==
    ASSUME CallsType, ~Idling, NEW pc \in Pcs, Goto(pc)
    PROVE  /\ CallsType' /\ ~Idling' /\ Len(calls') = Len(calls)
           /\ Top'.pc = pc /\ Top'.tone = Top.tone /\ Top'.then = Top.then
<1> DEFINE g == [Top EXCEPT !.pc = pc]
<1>1. g \in FrameSet /\ g.pc = pc /\ g.tone = Top.tone /\ g.then = Top.then
  <2>1. Top \in FrameSet
    BY TopIs
  <2> QED  BY <2>1, FrameField
<1>2. calls' = OnTop(g)
  BY DEF Goto
<1> HIDE DEF g
<1> QED  BY <1>1, <1>2, OnTopIs

\* A stack without its topmost element.
LEMMA PoppedIs ==
    ASSUME NEW S, NEW s \in Seq(S), s # << >>
    PROVE  LET t == SubSeq(s, 1, Len(s) - 1) IN
           /\ t \in Seq(S) /\ Len(t) = Len(s) - 1
           /\ \A i \in 1..(Len(s) - 1) : t[i] = s[i]
<1> DEFINE n == Len(s) - 1
<1>1. n \in Nat /\ \A i \in 1..n : s[i] \in S
  OBVIOUS
<1>2. PICK m \in Int : m = 1
  OBVIOUS
<1>3. \A i \in m..n : s[i] \in S
  BY <1>1, <1>2
<1>4. n \in Int
  BY <1>1
<1> HIDE DEF n
<1>5. /\ SubSeq(s, m, n) \in Seq(S)
      /\ Len(SubSeq(s, m, n)) = IF m <= n THEN n - m + 1 ELSE 0
      /\ \A i \in 1..(n - m + 1) : SubSeq(s, m, n)[i] = s[m + i - 1]
  BY <1>3, <1>4, SubSeqProperties
<1>6. /\ SubSeq(s, 1, n) \in Seq(S) /\ Len(SubSeq(s, 1, n)) = n
      /\ \A i \in 1..n : SubSeq(s, 1, n)[i] = s[i]
  BY <1>1, <1>2, <1>5
<1> QED  BY <1>6 DEF n

LEMMA LeaveIs ==
    ASSUME CallsType, ~Idling, Leave
    PROVE  /\ CallsType' /\ Len(calls') = Len(calls) - 1
           /\ Len(calls) <= 1 => Idling'
<1>1. calls \in Seq(FrameSet) /\ Len(calls) \in Nat \ {0}
  BY TopIs DEF CallsType
<1>2. calls' \in Seq(FrameSet) /\ Len(calls') = Len(calls) - 1
  BY <1>1, PoppedIs DEF Leave, Idling
<1>3. Len(calls') <= MaxNest
  BY <1>1, <1>2, PlayAssumption DEF CallsType
<1>4. Len(calls) <= 1 => calls' = << >>
  BY <1>1, <1>2
<1> QED  BY <1>2, <1>3, <1>4 DEF CallsType, Idling

LEMMA AppendIs ==
    ASSUME CallsType, Len(calls) < MaxNest, NEW g \in FrameSet, calls' = Append(calls, g)
    PROVE  /\ CallsType' /\ ~Idling' /\ Top' = g /\ Len(calls') = Len(calls) + 1
<1>1. calls \in Seq(FrameSet)
  BY DEF CallsType
<1>2. /\ calls' \in Seq(FrameSet) /\ Len(calls') = Len(calls) + 1
      /\ calls'[Len(calls) + 1] = g /\ calls' # << >>
  BY <1>1
<1>3. Len(calls') <= MaxNest
  BY <1>1, <1>2, PlayAssumption
<1> QED  BY <1>2, <1>3 DEF CallsType, Idling, Top

LEMMA IdlingIs ==
    ASSUME CallsType PROVE Idling <=> Len(calls) = 0
  BY DEF CallsType, Idling

----------------------------------------------------------------------------
(* What a step of the sequencer leaves to the synthesizer: it changes      *)
(* nothing of it, and makes, takes over or ends one of its calls.          *)

Entering(g) == g.pc \in {"exec", "stop"}

PlayMove ==
    /\ UNCHANGED <<env, i2s, heard, clock, stall, faults>>
    /\ spoilt' \subseteq spoilt \cup {"reentry", "ignored"}
    /\ "reentry" \in spoilt => "reentry" \in spoilt'
    /\ \/ /\ asked' = asked /\ calls' = calls /\ spoilt \subseteq spoilt'
          /\ At("exec") \/ Idling \/ "reentry" \in spoilt'
       \/ /\ asked' = asked /\ spoilt \subseteq spoilt'
          /\ \E g \in FrameSet : Entering(g) /\ calls' = Append(calls, g)
          /\ Len(calls) < MaxNest
          /\ Idling \/ "reentry" \in spoilt'
       \/ /\ asked' = asked /\ spoilt \subseteq spoilt'
          /\ \E g \in FrameSet : Entering(g) /\ calls' = OnTop(g)
          /\ At("exec") \/ At("stopped")
       \/ /\ asked' = asked /\ spoilt \subseteq spoilt' /\ Leave
          /\ At("exec") \/ At("stopped")
       \/ /\ At("exec") /\ asked' \in Tone
          /\ \E g \in FrameSet : g.pc = "tone" /\ g.tone = asked' /\ calls' = OnTop(g)

PlayAction ==
    \/ PollParse \/ PollSoundOver \/ PollSoundToGap \/ PollGapOver
    \/ EndOfText \/ ExecEnd \/ OpenRepeat \/ RepeatAgain \/ RepeatDone
    \/ StrayClose \/ StrayColon \/ ExecGoto \/ ExecGosub \/ ExecReturn
    \/ ExecRest \/ ExecNote
    \/ ThenGap \/ ThenFaultIgnored \/ ThenRestart \/ ThenRejected
    \/ \E how \in {"ended", "fault", "stopped"} : ThenOver(how)
    \/ (\E s \in Scores : Start(s)) \/ Stop

LEMMA Steps ==
    ASSUME [Next]_vars
    PROVE  \/ SynthStep /\ UNCHANGED playVars
           \/ PlayAction
           \/ Tick
           \/ SaiError /\ UNCHANGED playVars
           \/ UNCHANGED vars
  BY DEF Next, Foreground, PlayAction


LEMMA TokenIs ==
    ASSUME score \in Scores, off \in 1..(Len(Text) + 1), InText
    PROVE  /\ off \in 1..Len(Text) /\ Len(Text) \in Nat /\ Token \in TokenSet
           /\ Token.is \in {"goto", "gosub"} => Token.to \in 1..(Len(Text) + 1)
<1>1. Text \in Seq(TokenSet)
  BY PlayAssumption DEF Text
<1>2. Len(Text) \in Nat /\ off \in 1..Len(Text)
  BY <1>1 DEF InText
<1>3. Token \in TokenSet
  BY <1>1, <1>2 DEF Token
<1>4. Token.is \in {"goto", "gosub"} => Token.to \in 1..(Len(Text) + 1)
  BY <1>2, PlayAssumption DEF Text, Token
<1> QED  BY <1>2, <1>3, <1>4

LEMMA TokenFields ==
    ASSUME NEW t \in TokenSet
    PROVE  /\ t.is = "note" => t.tone \in Tone /\ t.active \in Nat /\ t.halves \in Nat
           /\ t.is = "rest" => t.halves \in Nat
<1>1. CASE t \in [is : {"note"}, tone : Tone, active : Nat, halves : Nat]
  BY <1>1
<1>2. CASE t \in [is : {"rest"}, halves : Nat]
  BY <1>2
<1>3. CASE t \in [is : {"close"}, n : Nat]
  BY <1>3
<1>4. CASE t \in [is : {"goto", "gosub"}, to : Nat]
  BY <1>4
<1>5. CASE t \in [is : {"open", "colon", "end", "return"}]
  BY <1>5
<1> QED  BY <1>1, <1>2, <1>3, <1>4, <1>5 DEF TokenSet


----------------------------------------------------------------------------
(* The sequencer's own state.                                              *)

Places == 1..(Len(Text) + 1)
Elements(s) == {s[i] : i \in 1..Len(s)}

SessionType ==
    /\ state \in {"idle", "loading", "running", "stopped", "ended", "fault"}
    /\ phase \in {"parse", "sound", "gap"} /\ score \in Scores
    /\ line \in LineSet /\ starts \in 0..MaxStarts

\* Wherever a repeat or a call goes back to is in the text.
RepeatType ==
    /\ repeat \in Seq(Elements(repeat)) /\ Len(repeat) <= StackMax
    /\ \A i \in 1..Len(repeat) : repeat[i].body \in Places

ReturnType == return \in Seq(Places) /\ Len(return) <= StackMax

PlayType == SessionType /\ off \in Places /\ RepeatType /\ ReturnType

LEMMA OfItsElements ==
    ASSUME NEW S, NEW s \in Seq(S) PROVE s \in Seq(Elements(s))
  BY DEF Elements

LEMMA PlacesIs ==
    ASSUME score \in Scores
    PROVE  /\ Len(Text) \in Nat /\ 1 \in Places
           /\ \A i \in Places : i <= Len(Text) => i + 1 \in Places
<1>1. Text \in Seq(TokenSet)
  BY PlayAssumption DEF Text
<1>2. Len(Text) \in Nat
  BY <1>1
<1> QED  BY <1>2 DEF Places

LEMMA EmptyStacks ==
    ASSUME NEW S PROVE << >> \in Seq(S) /\ Len(<< >>) = 0 /\ Len(<< >>) <= StackMax
  BY PlayAssumption

\* One more repeat is opened.
LEMMA OpenedIs ==
    ASSUME RepeatType, Len(repeat) # StackMax, score' = score,
           NEW r, r.body \in Places, repeat' = Append(repeat, r)
    PROVE  RepeatType'
<1> DEFINE S == Elements(repeat) \cup {r}
<1>1. repeat \in Seq(S) /\ r \in S /\ Len(repeat) \in Nat
  BY DEF RepeatType
<1> HIDE DEF S
<1>2. /\ repeat' \in Seq(S) /\ Len(repeat') = Len(repeat) + 1
      /\ \A i \in 1..Len(repeat') : repeat'[i] = IF i <= Len(repeat) THEN repeat[i] ELSE r
  BY <1>1
<1>3. repeat' \in Seq(Elements(repeat'))
  BY <1>2, OfItsElements
<1>4. Len(repeat') <= StackMax
  BY <1>1, <1>2, PlayAssumption DEF RepeatType
<1>5. Places' = Places
  BY DEF Places, Text
<1>6. \A i \in 1..Len(repeat') : repeat'[i].body \in Places
  BY <1>1, <1>2 DEF RepeatType
<1>7. Elements(repeat)' = Elements(repeat')
  BY DEF Elements
<1> QED  BY <1>3, <1>4, <1>5, <1>6, <1>7 DEF RepeatType

\* The innermost repeat counts a pass.
LEMMA CountedIs ==
    ASSUME RepeatType, repeat # << >>, score' = score, NEW n,
           repeat' = [repeat EXCEPT ![Len(repeat)].left = n]
    PROVE  RepeatType'
<1> DEFINE k == Len(repeat)
           r == [repeat[k] EXCEPT !.left = n]
           S == Elements(repeat) \cup {r}
<1>1. repeat \in Seq(S) /\ r \in S /\ k \in Nat \ {0} /\ repeat[k].body \in Places
  BY DEF RepeatType
<1>2. r.body \in Places
  BY <1>1
<1>3. repeat' = [repeat EXCEPT ![k] = r]
  OBVIOUS
<1> HIDE DEF S, r
<1>4. /\ repeat' \in Seq(S) /\ Len(repeat') = k
      /\ \A i \in 1..k : repeat'[i] = IF i = k THEN r ELSE repeat[i]
  BY <1>1, <1>3
<1>5. repeat' \in Seq(Elements(repeat'))
  BY <1>4, OfItsElements
<1>6. Places' = Places
  BY DEF Places, Text
<1>7. \A i \in 1..Len(repeat') : repeat'[i].body \in Places
  BY <1>1, <1>2, <1>4 DEF RepeatType
<1>8. Elements(repeat)' = Elements(repeat')
  BY DEF Elements
<1> QED  BY <1>4, <1>5, <1>6, <1>7, <1>8 DEF RepeatType

LEMMA ClosedIs ==
    ASSUME RepeatType, repeat # << >>, score' = score,
           repeat' = SubSeq(repeat, 1, Len(repeat) - 1)
    PROVE  RepeatType'
<1> DEFINE S == Elements(repeat)
<1>1. repeat \in Seq(S) /\ Len(repeat) \in Nat \ {0}
  BY DEF RepeatType
<1> HIDE DEF S
<1>2. /\ repeat' \in Seq(S) /\ Len(repeat') = Len(repeat) - 1
      /\ \A i \in 1..(Len(repeat) - 1) : repeat'[i] = repeat[i]
  BY <1>1, PoppedIs
<1>3. repeat' \in Seq(Elements(repeat'))
  BY <1>2, OfItsElements
<1>4. Places' = Places
  BY DEF Places, Text
<1>5. \A i \in 1..Len(repeat') : repeat'[i].body \in Places
  BY <1>1, <1>2 DEF RepeatType
<1>6. Len(repeat') <= StackMax
  BY <1>1, <1>2, PlayAssumption DEF RepeatType
<1>7. Elements(repeat)' = Elements(repeat')
  BY DEF Elements
<1> QED  BY <1>3, <1>4, <1>5, <1>6, <1>7 DEF RepeatType

LEMMA SameStacks ==
    ASSUME UNCHANGED score
    PROVE  /\ Places' = Places
           /\ RepeatType /\ UNCHANGED repeat => RepeatType'
           /\ ReturnType /\ UNCHANGED return => ReturnType'
  BY DEF Places, Text, RepeatType, ReturnType, Elements

LEMMA ScheduledIs ==
    ASSUME SessionType, clock \in Times, NEW a \in Nat, NEW h \in Nat, Scheduled(a, h)
    PROVE  line' \in LineSet
<1> DEFINE start == IF line.seeded THEN line.ideal ELSE clock
<1>1. start \in Times
  BY DEF SessionType, LineSet
<1>2. After(start, h) \in Times /\ After(start, a) \in Times
  BY <1>1, AfterIs
<1> QED  BY <1>2 DEF Scheduled, LineSet

LEMMA UnseededIs == Unseeded \in LineSet
  BY ClockFacts DEF Unseeded, LineSet


\* Every step of the sequencer keeps its text's places in the text, its stacks
\* within their depth and its timeline on the clock.
LEMMA PlayKeepsPlayType ==
    ASSUME PlayType, clock \in Times, PlayAction
    PROVE  PlayType'
<1> USE DEF PlayType
<1>1. ASSUME UNCHANGED score, off' \in Places, SessionType', RepeatType', ReturnType'
      PROVE  PlayType'
  BY <1>1, SameStacks
<1>2. ASSUME UNCHANGED <<score, line, starts>>,
             state' \in {"idle", "loading", "running", "stopped", "ended", "fault"},
             phase' \in {"parse", "sound", "gap"}
      PROVE  SessionType'
  BY <1>2 DEF SessionType
<1>3. CASE UNCHANGED playVars
  <2>1. UNCHANGED score /\ UNCHANGED repeat /\ UNCHANGED return /\ off' \in Places
    BY <1>3 DEF playVars
  <2>2. SessionType'
    BY <1>3 DEF playVars, SessionType
  <2> QED  BY <1>1, <2>1, <2>2, SameStacks
<1>4. ASSUME UNCHANGED <<score, off, repeat, return>>, SessionType' PROVE PlayType'
  BY <1>1, <1>4, SameStacks
<1>5. ASSUME UNCHANGED <<state, phase, score, line, starts>>, UNCHANGED <<repeat, return>>,
             off' \in Places
      PROVE  PlayType'
  <2>1. SessionType'
    BY <1>5 DEF SessionType
  <2> QED  BY <1>1, <1>5, <2>1, SameStacks
<1>6. score \in Scores
  BY DEF SessionType
<1>7. InText => /\ off + 1 \in Places /\ Token \in TokenSet
                /\ Token.is \in {"goto", "gosub"} => Token.to \in Places
  <2>1. InText => off \in 1..Len(Text) /\ Token \in TokenSet
    BY <1>6, TokenIs DEF Places
  <2>2. InText /\ Token.is \in {"goto", "gosub"} => Token.to \in Places
    BY <1>6, TokenIs DEF Places
  <2>3. Len(Text) \in Nat
    BY <1>6, PlacesIs
  <2> QED  BY <2>1, <2>2, <2>3 DEF Places
<1>8. CASE PollParse \/ PollSoundToGap \/ ThenRejected \/ Stop
  BY <1>3, <1>8 DEF PollParse, PollSoundToGap, ThenRejected, Stop
<1>9. CASE PollSoundOver \/ PollGapOver
  BY <1>2, <1>4, <1>9 DEF PollSoundOver, PollGapOver, SessionType
<1>10. CASE EndOfText
  BY <1>5, <1>10 DEF EndOfText, Quieter
<1>11. CASE ExecEnd
  BY <1>5, <1>7, <1>11 DEF ExecEnd, Quieter, Is
<1>12. CASE OpenRepeat
  <2>1. UNCHANGED <<state, phase, score, line, starts>> /\ UNCHANGED return /\ off + 1 \in Places
    BY <1>7, <1>12 DEF OpenRepeat, Quieter, Is
  <2>2. CASE off' = off /\ UNCHANGED repeat
    BY <1>5, <2>1, <2>2
  <2>3. ASSUME NEW c, NEW l, off' = off + 1, Len(repeat) # StackMax,
               repeat' = Append(repeat, [body |-> off + 1, close |-> c, left |-> l])
        PROVE  PlayType'
    <3> DEFINE r == [body |-> off + 1, close |-> c, left |-> l]
    <3>1. r.body \in Places
      BY <2>1
    <3>2. repeat' = Append(repeat, r)
      BY <2>3
    <3> HIDE DEF r
    <3>3. RepeatType'
      BY <2>1, <2>3, <3>1, <3>2, OpenedIs
    <3>4. SessionType' /\ ReturnType'
      BY <2>1, SameStacks DEF SessionType
    <3> QED  BY <1>1, <2>1, <2>3, <3>3, <3>4
  <2> QED  BY <1>12, <2>2, <2>3 DEF OpenRepeat, Fatal
<1>13. CASE RepeatAgain
  <2>1. UNCHANGED <<state, phase, score, line, starts>> /\ UNCHANGED return /\ repeat # << >>
    BY <1>13 DEF RepeatAgain, Quieter, AtClosing
  <2>2. off' \in Places
    BY <1>13, <2>1 DEF RepeatAgain, Inner, RepeatType
  <2>3. repeat' = [repeat EXCEPT ![Len(repeat)].left = repeat[Len(repeat)].left - 1]
    BY <1>13 DEF RepeatAgain
  <2>4. RepeatType'
    BY <2>1, <2>3, CountedIs
  <2>5. SessionType' /\ ReturnType'
    BY <2>1, SameStacks DEF SessionType
  <2> QED  BY <1>1, <2>1, <2>2, <2>4, <2>5
<1>14. CASE RepeatDone
  <2>1. /\ UNCHANGED <<state, phase, score, line, starts>> /\ UNCHANGED return
        /\ repeat # << >> /\ off' \in Places
    BY <1>7, <1>14 DEF RepeatDone, Quieter, AtClosing, Is
  <2>2. RepeatType'
    BY <1>14, <2>1, ClosedIs DEF RepeatDone
  <2>3. SessionType' /\ ReturnType'
    BY <2>1, SameStacks DEF SessionType
  <2> QED  BY <1>1, <2>1, <2>2, <2>3
<1>15. CASE StrayClose
  BY <1>5, <1>7, <1>15 DEF StrayClose, Fatal, Quieter, Is
<1>16. CASE StrayColon
  BY <1>5, <1>7, <1>16 DEF StrayColon, Quieter, Is
<1>17. CASE ExecGoto
  BY <1>5, <1>7, <1>17 DEF ExecGoto, Quieter, Is
<1>18. CASE ExecGosub
  <2>1. /\ UNCHANGED <<state, phase, score, line, starts>> /\ UNCHANGED repeat
        /\ off + 1 \in Places /\ Token.to \in Places
    BY <1>7, <1>18 DEF ExecGosub, Quieter, Is
  <2>2. CASE off' = off /\ UNCHANGED return
    BY <1>5, <2>1, <2>2
  <2>3. CASE off' = Token.to /\ Len(return) # StackMax /\ return' = Append(return, off + 1)
    <3>1. /\ return \in Seq(Places) /\ return' \in Seq(Places)
          /\ Len(return') = Len(return) + 1
      BY <2>1, <2>3 DEF ReturnType
    <3>2. Len(return') <= StackMax
      BY <2>3, <3>1, PlayAssumption DEF ReturnType
    <3>3. ReturnType'
      BY <2>1, <3>1, <3>2, SameStacks DEF ReturnType
    <3>4. SessionType' /\ RepeatType'
      BY <2>1, SameStacks DEF SessionType
    <3> QED  BY <1>1, <2>1, <2>3, <3>3, <3>4
  <2> QED  BY <1>18, <2>2, <2>3 DEF ExecGosub, Fatal
<1>19. CASE ExecReturn
  <2>1. UNCHANGED <<state, phase, score, line, starts>> /\ UNCHANGED repeat
    BY <1>19 DEF ExecReturn, Quieter
  <2>2. CASE off' = off /\ UNCHANGED return
    BY <1>5, <2>1, <2>2
  <2>3. CASE /\ return # << >> /\ off' = return[Len(return)]
             /\ return' = SubSeq(return, 1, Len(return) - 1)
    <3>1. return \in Seq(Places) /\ Len(return) \in Nat \ {0}
      BY <2>3 DEF ReturnType
    <3>2. return' \in Seq(Places) /\ Len(return') = Len(return) - 1
      BY <2>3, <3>1, PoppedIs
    <3>3. Len(return') <= StackMax
      BY <3>1, <3>2, PlayAssumption DEF ReturnType
    <3>4. ReturnType'
      BY <2>1, <3>2, <3>3, SameStacks DEF ReturnType
    <3>5. off' \in Places
      BY <2>3, <3>1
    <3>6. SessionType' /\ RepeatType'
      BY <2>1, SameStacks DEF SessionType
    <3> QED  BY <1>1, <2>1, <3>4, <3>5, <3>6
  <2> QED  BY <1>19, <2>2, <2>3 DEF ExecReturn, Fatal
<1>20. CASE ExecRest
  <2>1. /\ UNCHANGED <<state, score, starts>> /\ UNCHANGED <<repeat, return>>
        /\ off' = off + 1 /\ phase' = "gap" /\ Scheduled(Token.halves, Token.halves)
        /\ InText /\ Token.is = "rest"
    BY <1>20 DEF ExecRest, Is
  <2>2. line' \in LineSet
    BY <1>7, <2>1, TokenFields, ScheduledIs
  <2>3. SessionType'
    BY <2>1, <2>2 DEF SessionType
  <2> QED  BY <1>1, <1>7, <2>1, <2>3, SameStacks
<1>21. CASE ExecNote
  <2>1. /\ UNCHANGED <<state, score, starts>> /\ UNCHANGED <<repeat, return>>
        /\ off' = off + 1 /\ phase' = "sound" /\ Scheduled(Token.active, Token.halves)
        /\ InText /\ Token.is = "note"
    BY <1>21 DEF ExecNote, Is
  <2>2. line' \in LineSet
    BY <1>7, <2>1, TokenFields, ScheduledIs
  <2>3. SessionType'
    BY <2>1, <2>2 DEF SessionType
  <2> QED  BY <1>1, <1>7, <2>1, <2>3, SameStacks
<1>22. CASE ThenGap
  <2>1. /\ UNCHANGED <<state, score, starts>> /\ UNCHANGED <<off, repeat, return>>
        /\ phase' = "gap" /\ line' = [line EXCEPT !.deadline = line.end]
    BY <1>22 DEF ThenGap
  <2>2. line' \in LineSet
    BY <2>1 DEF SessionType, LineSet
  <2>3. SessionType'
    BY <2>1, <2>2 DEF SessionType
  <2> QED  BY <1>4, <2>1, <2>3
<1>23. CASE ThenFaultIgnored
  BY <1>2, <1>4, <1>23 DEF ThenFaultIgnored
<1>24. CASE ThenRestart
  BY <1>2, <1>4, <1>24 DEF ThenRestart, SessionType
<1>25. ASSUME NEW how \in {"ended", "fault", "stopped"}, ThenOver(how) PROVE PlayType'
  BY <1>2, <1>4, <1>25 DEF ThenOver
<1>26. ASSUME NEW s \in Scores, Start(s) PROVE PlayType'
  <2>1. /\ starts < MaxStarts /\ starts' = starts + 1 /\ score' = s /\ off' = 1
        /\ repeat' = << >> /\ return' = << >> /\ line' = Unseeded
        /\ state' = "loading" /\ phase' = "parse"
    BY <1>26 DEF Start
  <2>2. SessionType'
    BY <2>1, UnseededIs, PlayAssumption DEF SessionType
  <2>3. off' \in Places'
    <3>1. 1 \in 1..(Len(s.text) + 1)
      <4>1. s.text \in Seq(TokenSet)
        BY PlayAssumption
      <4> QED  BY <4>1
    <3> QED  BY <2>1, <3>1 DEF Places, Text
  <2>4. RepeatType' /\ ReturnType'
    BY <2>1, EmptyStacks DEF RepeatType, ReturnType
  <2> QED  BY <2>2, <2>3, <2>4
<1> QED
  BY <1>8, <1>9, <1>10, <1>11, <1>12, <1>13, <1>14, <1>15, <1>16, <1>17, <1>18, <1>19,
     <1>20, <1>21, <1>22, <1>23, <1>24, <1>25, <1>26 DEF PlayAction


LEMMA PlayMoves ==
    ASSUME CallsType, PlayType, PlayAction
    PROVE  PlayMove
<1> DEFINE Still == /\ UNCHANGED <<env, i2s, heard, clock, stall, faults>>
                    /\ spoilt \subseteq spoilt' /\ spoilt' \subseteq spoilt \cup {"reentry", "ignored"}
<1>1. Quiet /\ UNCHANGED spoilt => Still /\ asked' = asked
  BY DEF Quiet
<1>2. ASSUME Still, asked' = asked, UNCHANGED calls,
             At("exec") \/ Idling \/ "reentry" \in spoilt'
      PROVE  PlayMove
  BY <1>2 DEF PlayMove
<1>3. ASSUME Still, asked' = asked, NEW g \in FrameSet, Entering(g),
             calls' = Append(calls, g), Len(calls) < MaxNest,
             Idling \/ "reentry" \in spoilt'
      PROVE  PlayMove
  BY <1>3 DEF PlayMove
<1>4. ASSUME Still, asked' = asked, NEW g \in FrameSet, Entering(g), calls' = OnTop(g),
             At("exec") \/ At("stopped")
      PROVE  PlayMove
  BY <1>4 DEF PlayMove
<1>5. ASSUME Still, asked' = asked, Leave, At("exec") \/ At("stopped") PROVE PlayMove
  BY <1>5 DEF PlayMove
<1> HIDE DEF Still
<1>6. ASSUME Still, asked' = asked, NEW what \in Thens, StopThen(what),
             At("exec") \/ At("stopped")
      PROVE  PlayMove
  <2> DEFINE g == [Frame("stop") EXCEPT !.then = what]
  <2>1. g \in FrameSet /\ g.pc = "stop"
    BY StopFrameIs
  <2>2. calls' = OnTop(g)
    BY <1>6 DEF StopThen
  <2> HIDE DEF g
  <2> QED  BY <1>4, <1>6, <2>1, <2>2 DEF Entering
<1>7. ASSUME Polled, Quiet
      PROVE  /\ Still /\ asked' = asked
             /\ Idling \/ "reentry" \in spoilt'
             /\ Len(calls) < MaxNest
  <2>1. Still /\ asked' = asked
    BY <1>7 DEF Polled, Quiet, Still
  <2>2. Idling => Len(calls) = 0 /\ 0 < MaxNest
    BY IdlingIs, PlayAssumption
  <2> QED  BY <1>7, <2>1, <2>2 DEF Polled, Nested
<1>8. CASE PollParse
  <2>1. Frame("exec") \in FrameSet /\ Entering(Frame("exec"))
    BY FrameIs, Names DEF Entering
  <2> QED  BY <1>3, <1>7, <1>8, <2>1 DEF PollParse
<1>9. CASE PollSoundToGap
  <2> DEFINE g == [Frame("stop") EXCEPT !.then = "gap"]
  <2>1. g \in FrameSet /\ g.pc = "stop"
    BY StopFrameIs, Names
  <2>2. calls' = Append(calls, g) /\ Polled /\ Quiet
    BY <1>9 DEF PollSoundToGap
  <2> HIDE DEF g
  <2> QED  BY <1>3, <1>7, <2>1, <2>2 DEF Entering
<1>10. CASE PollSoundOver \/ PollGapOver
  BY <1>2, <1>7, <1>10 DEF PollSoundOver, PollGapOver
<1>11. CASE EndOfText
  <2>1. Still /\ asked' = asked /\ At("exec")
    BY <1>1, <1>11 DEF EndOfText, Quieter
  <2>2. StopThen("ended") \/ StopThen("fault") \/ Leave
    BY <1>11 DEF EndOfText
  <2> QED  BY <1>5, <1>6, <2>1, <2>2, Names
<1>12. ASSUME Quieter, UNCHANGED spoilt, At("exec"),
              StopThen("ended") \/ StopThen("fault") \/ UNCHANGED calls
       PROVE  PlayMove
  BY <1>1, <1>2, <1>6, <1>12, Names DEF Quieter
<1>13. CASE ExecEnd \/ OpenRepeat \/ RepeatAgain \/ RepeatDone \/ StrayClose
  BY <1>12, <1>13 DEF ExecEnd, OpenRepeat, RepeatAgain, RepeatDone, StrayClose, AtClosing,
                      Is, Fatal
<1>14. CASE ExecGoto \/ ExecGosub \/ ExecReturn
  BY <1>12, <1>14 DEF ExecGoto, ExecGosub, ExecReturn, Is, Fatal
<1>15. CASE StrayColon
  <2>1. Still /\ asked' = asked /\ At("exec")
    BY <1>15 DEF StrayColon, Quieter, Quiet, Is, Still
  <2>2. StopThen("faultIgnored") \/ UNCHANGED calls
    BY <1>15 DEF StrayColon
  <2> QED  BY <1>2, <1>6, <2>1, <2>2, Names
<1>16. CASE ExecRest
  BY <1>1, <1>5, <1>16 DEF ExecRest, Is
<1>17. CASE ExecNote
  <2> DEFINE g == [Frame("tone") EXCEPT !.tone = Token.tone]
  <2>1. Token.tone \in Tone
    BY <1>17, TokenIs, TokenFields DEF ExecNote, Is, PlayType, SessionType, Places
  <2>2. g \in FrameSet /\ g.pc = "tone" /\ g.tone = Token.tone
    BY <2>1, ToneFrameIs DEF Tones
  <2>3. /\ calls' = OnTop(g) /\ asked' = Token.tone /\ At("exec")
        /\ UNCHANGED <<env, i2s, heard, clock, stall, faults>>
        /\ spoilt' = spoilt \ {"race", "fault"}
    BY <1>17 DEF ExecNote, Is
  <2> HIDE DEF g
  <2> QED  BY <2>1, <2>2, <2>3 DEF PlayMove
<1>18. ASSUME NEW then, AfterStop(then), Leave PROVE PlayMove
  BY <1>1, <1>5, <1>18 DEF AfterStop
<1>19. CASE ThenGap \/ ThenRestart
  BY <1>18, <1>19 DEF ThenGap, ThenRestart
<1>20. CASE ThenFaultIgnored
  <2> DEFINE g == [Top EXCEPT !.pc = "exec"]
  <2>1. /\ Still /\ asked' = asked /\ At("stopped")
        /\ calls' = OnTop(g)
    BY <1>1, <1>20 DEF ThenFaultIgnored, AfterStop, Goto
  <2>2. g \in FrameSet /\ g.pc = "exec"
    <3>1. Top \in FrameSet
      BY <2>1, TopIs DEF At
    <3> QED  BY <3>1, FrameField, Names
  <2> HIDE DEF g
  <2> QED  BY <1>4, <2>1, <2>2 DEF Entering
<1>21. CASE ThenRejected
  BY <1>1, <1>6, <1>21, Names DEF ThenRejected, AfterStop
<1>22. ASSUME NEW how, ThenOver(how) PROVE PlayMove
  BY <1>18, <1>22 DEF ThenOver
<1>23. ASSUME NEW what \in Thens, Idling, Quiet, UNCHANGED spoilt,
              calls' = <<[Frame("stop") EXCEPT !.then = what]>>
       PROVE  PlayMove
  <2> DEFINE g == [Frame("stop") EXCEPT !.then = what]
  <2>1. g \in FrameSet /\ g.pc = "stop"
    BY StopFrameIs
  <2>2. calls' = <<g>>
    BY <1>23
  <2> HIDE DEF g
  <2>3. calls' = Append(calls, g) /\ Len(calls) < MaxNest
    BY <1>23, <2>2, PlayAssumption DEF Idling
  <2> QED  BY <1>1, <1>3, <1>23, <2>1, <2>3 DEF Entering
<1>24. ASSUME NEW s \in Scores, Start(s) PROVE PlayMove
  BY <1>23, <1>24, Names DEF Start
<1>25. CASE Stop
  BY <1>23, <1>25, Names DEF Stop
<1> QED
  BY <1>8, <1>9, <1>10, <1>11, <1>13, <1>14, <1>15, <1>16, <1>17, <1>19, <1>20, <1>21,
     <1>22, <1>24, <1>25 DEF PlayAction


----------------------------------------------------------------------------
(* The inductive invariant.                                                *)

SynthType ==
    /\ env \in EnvSet /\ i2s \in OutSet /\ heard \in [tone : Tones, gain : Gains]
    /\ asked \in Tones
    /\ clock \in Times /\ stall \in 0..MaxStall /\ faults \in 0..MaxFaults
    /\ spoilt \subseteq {"race", "reentry", "fault", "ignored"}

TypeInv == SynthType /\ CallsType /\ PlayType

\* The DMA runs exactly while the driver is not idle, from allocated buffers.
DmaInv ==
    /\ i2s.dma \in {"off", "on"}
    /\ i2s.dma = "on" <=> i2s.state # "idle"
    /\ i2s.dma = "on" => i2s.buffers

\* Without re-entry there is one call at a time, and one that starts the
\* output found the engine silent or the output at rest.
AloneInv ==
    "reentry" \notin spoilt =>
        /\ Len(calls) <= 1
        /\ ~Idling /\ Top.pc \in {"cold", "wait", "begin"} => ~env.active \/ OutIdle

Settled ==
    asked # None =>
        /\ env.active /\ i2s.state = "streaming" /\ ~i2s.eof
        /\ (IF env.slope = "release" THEN env.pend ELSE env.osc) = asked

\* What set_tone waits for comes before it gives up waiting.
Draining(since) ==
    \/ OutIdle
    \/ /\ i2s.state = "drain" \/ i2s.eof
       /\ Elapsed(since) + Left(i2s) <= SilenceHalves

\* How far a call has come with its tone, or with its stop.
CallSound(f) ==
    /\ f.pc \in {"tone", "hot", "pend", "cold", "wait", "begin"} =>
          f.tone = asked /\ asked # None
    /\ f.pc \in {"exec", "stop"} => Settled
    /\ f.pc \in {"hot", "pend"} => env.active /\ ~OutIdle
    /\ f.pc = "pend" => env.slope = "release"
    /\ f.pc \in {"cancel", "stopped"} => asked = None
    /\ f.pc \in {"wait", "begin"} => env.freq = asked
    /\ f.pc = "wait" => Draining(f.since)
    /\ f.pc = "begin" => OutIdle

\* An active engine is audible, and streams unless the output has failed.
EnvSound ==
    env.active =>
        env.gain # "zero" /\ (OutIdle \/ (i2s.state = "streaming" /\ ~i2s.eof))

\* Races and faults leave the engine as it should be found by the next note.
SoundInv ==
    /\ "reentry" \notin spoilt => EnvSound
    /\ ~Harmed => (Idling => Settled) /\ (~Idling => CallSound(Top))

IInv == TypeInv /\ DmaInv /\ AloneInv /\ NoPop /\ SoundInv

----------------------------------------------------------------------------

LEMMA TypeInvIsTypeOK == TypeInv => TypeOK
<1> SUFFICES ASSUME TypeInv PROVE TypeOK
  OBVIOUS
<1>1. SynthTypeOK
  BY DEF TypeInv, SynthType, SynthTypeOK, EnvSet, OutSet, Gains, Slopes, Tones, Times,
         OutStates, DmaStates, Silences
<1>2. ASSUME NEW i \in DOMAIN calls
      PROVE  calls[i] \in
                [pc : {"exec", "tone", "hot", "pend", "cold", "wait", "begin", "stop",
                       "cancel", "stopped"},
                 tone : Tone \cup {None}, since : 0..(ClockMod - 1),
                 then : {"return", "gap", "ended", "fault", "faultIgnored", "stopped",
                         "restart"}]
  <2>1. calls[i] \in FrameSet
    BY <1>2 DEF TypeInv, CallsType
  <2> QED  BY <2>1 DEF FrameSet, Pcs, Thens, Tones, Times
<1> QED
  BY <1>1, <1>2 DEF TypeOK, TypeInv, CallsType, PlayType, SessionType, RepeatType,
                    ReturnType, Places, LineSet, Times

LEMMA SamePlay ==
    ASSUME PlayType, UNCHANGED playVars PROVE PlayType'
<1>1. UNCHANGED score /\ UNCHANGED repeat /\ UNCHANGED return
  BY DEF playVars
<1> QED  BY <1>1, SameStacks DEF playVars, PlayType, SessionType

LEMMA InitIInv == ASSUME Init PROVE IInv
<1>1. SynthType
  <2>1. /\ env \in EnvSet /\ i2s \in OutSet
    BY OutNames DEF Init, SynthInit, EnvSet, OutSet, Gains, Slopes, Tones
  <2>2. stall \in 0..MaxStall /\ faults \in 0..MaxFaults
    BY SynthAssumption DEF Init, SynthInit
  <2> QED  BY <2>1, <2>2, ClockFacts, SilenceIs, Names DEF Init, SynthInit, SynthType
<1>2. CallsType /\ Idling /\ Len(calls) = 0
  BY PlayAssumption DEF Init, SynthInit, CallsType, Idling
<1>3. PlayType
  <2>1. SessionType
    BY UnseededIs, PlayAssumption DEF Init, SessionType
  <2>2. off \in Places
    BY <2>1, PlacesIs DEF Init, SessionType
  <2>3. RepeatType /\ ReturnType
    BY EmptyStacks DEF Init, RepeatType, ReturnType
  <2> QED  BY <2>1, <2>2, <2>3 DEF PlayType
<1>4. /\ ~env.active /\ env.pend = None /\ i2s.dma = "off" /\ i2s.state = "idle"
      /\ asked = None
  BY DEF Init, SynthInit
<1>5. DmaInv /\ AloneInv /\ NoPop
  BY <1>2, <1>4 DEF DmaInv, AloneInv, NoPop
<1>6. SoundInv
  BY <1>2, <1>4 DEF SoundInv, EnvSound, Settled, Harmed
<1> QED  BY <1>1, <1>2, <1>3, <1>5, <1>6 DEF IInv, TypeInv

----------------------------------------------------------------------------
(* The sequencer's steps.                                                  *)

LEMMA AsksOneOf ==
    ASSUME TypeInv, PlayMove PROVE SynthType'
  BY DEF TypeInv, SynthType, PlayMove, Tones

LEMMA PlayKeepsIInv == ASSUME IInv, PlayAction PROVE IInv'
<1>1. TypeInv /\ CallsType /\ PlayType /\ clock \in Times
  BY DEF IInv, TypeInv, SynthType
<1>2. PlayMove /\ PlayType'
  BY <1>1, PlayMoves, PlayKeepsPlayType
<1>3. SynthType'
  BY <1>1, <1>2, AsksOneOf
<1>4. /\ UNCHANGED <<env, i2s, heard, clock>>
      /\ "reentry" \in spoilt => "reentry" \in spoilt'
  BY <1>2 DEF PlayMove
<1>5. DmaInv' /\ NoPop'
  BY <1>4 DEF IInv, DmaInv, NoPop
<1>6. At("exec") \/ At("stopped") => ~Idling
  BY DEF At
<1> DEFINE Made ==
             "reentry" \notin spoilt' =>
                \/ /\ asked' = asked /\ calls' = calls /\ spoilt \subseteq spoilt'
                   /\ At("exec") \/ Idling
                \/ /\ asked' = asked /\ ~Idling' /\ Len(calls') <= 1 /\ Entering(Top')
                   /\ spoilt \subseteq spoilt'
                   /\ At("exec") \/ At("stopped") \/ Idling
                \/ /\ asked' = asked /\ Idling' /\ Len(calls') <= 1 /\ spoilt \subseteq spoilt'
                   /\ At("exec") \/ At("stopped")
                \/ /\ At("exec") /\ asked' \in Tone /\ ~Idling' /\ Len(calls') <= 1
                   /\ Top'.pc = "tone" /\ Top'.tone = asked'
\* What a step of the sequencer makes of the calls.
<1>7. CallsType' /\ Made
  <2>1. "reentry" \notin spoilt' => Len(calls) <= 1
    BY <1>4 DEF IInv, AloneInv
  <2>2. CASE /\ asked' = asked /\ calls' = calls /\ spoilt \subseteq spoilt'
             /\ At("exec") \/ Idling \/ "reentry" \in spoilt'
    BY <1>1, <2>2 DEF CallsType
  <2>3. ASSUME asked' = asked, spoilt \subseteq spoilt', Len(calls) < MaxNest, Idling \/ "reentry" \in spoilt',
               NEW g \in FrameSet, Entering(g), calls' = Append(calls, g)
        PROVE  CallsType' /\ Made
    <3>1. CallsType' /\ ~Idling' /\ Top' = g /\ Len(calls') = Len(calls) + 1
      BY <1>1, <2>3, AppendIs
    <3>2. Idling => Len(calls) = 0
      BY <1>1, IdlingIs
    <3> QED  BY <2>3, <3>1, <3>2
  <2>4. ASSUME asked' = asked, spoilt \subseteq spoilt', At("exec") \/ At("stopped"),
               NEW g \in FrameSet, Entering(g), calls' = OnTop(g)
        PROVE  CallsType' /\ Made
    <3>1. CallsType' /\ ~Idling' /\ Top' = g /\ Len(calls') = Len(calls)
      BY <1>1, <1>6, <2>4, OnTopIs
    <3> QED  BY <2>1, <2>4, <3>1
  <2>5. CASE asked' = asked /\ spoilt \subseteq spoilt' /\ Leave /\ (At("exec") \/ At("stopped"))
    <3>1. /\ CallsType' /\ Len(calls') = Len(calls) - 1
          /\ Len(calls) <= 1 => Idling'
      BY <1>1, <1>6, <2>5, LeaveIs
    <3>2. Len(calls) \in Nat
      BY <1>1 DEF CallsType
    <3> QED  BY <2>1, <2>5, <3>1, <3>2
  <2>6. ASSUME At("exec"), asked' \in Tone,
               NEW g \in FrameSet, g.pc = "tone", g.tone = asked', calls' = OnTop(g)
        PROVE  CallsType' /\ Made
    <3>1. CallsType' /\ ~Idling' /\ Top' = g /\ Len(calls') = Len(calls)
      BY <1>1, <1>6, <2>6, OnTopIs
    <3> QED  BY <2>1, <2>6, <3>1
  <2> QED  BY <1>2, <2>2, <2>3, <2>4, <2>5, <2>6 DEF PlayMove
<1>8. AloneInv'
  <2> SUFFICES ASSUME "reentry" \notin spoilt' PROVE
        /\ Len(calls') <= 1
        /\ ~Idling' => Top'.pc \notin {"cold", "wait", "begin"}
    BY DEF AloneInv
  <2>1. CASE calls' = calls /\ (At("exec") \/ Idling)
    BY <1>4, <2>1 DEF IInv, AloneInv, At, Idling, Top
  <2> QED  BY <1>7, <2>1 DEF Entering
<1>9. SoundInv'
  <2>1. "reentry" \notin spoilt' => EnvSound'
    BY <1>4 DEF IInv, SoundInv, EnvSound, OutIdle
  <2> SUFFICES ASSUME ~Harmed' PROVE (Idling' => Settled') /\ (~Idling' => CallSound(Top)')
    BY <2>1 DEF SoundInv
  <2>2. "reentry" \notin spoilt' /\ (spoilt \subseteq spoilt' => ~Harmed)
    BY DEF Harmed
  <2>3. asked' = asked /\ Settled => Settled'
    BY <1>4 DEF Settled
  <2>4. ~Harmed => (At("exec") \/ At("stopped") \/ Idling => Settled)
    BY DEF IInv, SoundInv, CallSound, At, Settled
  <2>5. CASE /\ asked' = asked /\ calls' = calls /\ spoilt \subseteq spoilt'
             /\ At("exec") \/ Idling
    <3>1. Idling' = Idling /\ Top' = Top
      BY <2>5 DEF Idling, Top
    <3>2. At("exec") => Top.pc = "exec" /\ ~Idling
      BY DEF At
    <3>3. At("exec") => CallSound(Top)'
      BY <2>2, <2>3, <2>4, <2>5, <3>1, <3>2 DEF CallSound
    <3> QED  BY <2>2, <2>3, <2>4, <2>5, <3>1, <3>3
  <2>6. CASE /\ asked' = asked /\ ~Idling' /\ Entering(Top') /\ spoilt \subseteq spoilt'
             /\ At("exec") \/ At("stopped") \/ Idling
    BY <2>2, <2>3, <2>4, <2>6 DEF Entering, CallSound
  <2>7. CASE asked' = asked /\ Idling' /\ (At("exec") \/ At("stopped")) /\ spoilt \subseteq spoilt'
    BY <2>2, <2>3, <2>4, <2>7
  <2>8. CASE asked' \in Tone /\ ~Idling' /\ Top'.pc = "tone" /\ Top'.tone = asked'
    BY <2>8, SynthAssumption DEF CallSound
  <2> QED  BY <1>7, <2>2, <2>5, <2>6, <2>7, <2>8
<1> QED  BY <1>2, <1>3, <1>5, <1>7, <1>8, <1>9 DEF IInv, TypeInv


----------------------------------------------------------------------------
(* The steps of set_tone and of stop.                                      *)

LEMMA Facts ==
    ASSUME IInv
    PROVE  /\ env \in EnvSet /\ i2s \in OutSet /\ clock \in Times /\ asked \in Tones
           /\ env.active \in BOOLEAN /\ env.gain \in Gains /\ env.pend \in Tones
           /\ env.freq \in Tones
           /\ i2s.state \in OutStates /\ i2s.silence \in Silences /\ i2s.eof \in BOOLEAN
           /\ CallsType
           /\ i2s.dma = "on" <=> i2s.state # "idle"
           /\ OutIdle <=> i2s.state = "idle"
           /\ OutIdle <=> i2s.dma = "off"
<1>1. env \in EnvSet /\ i2s \in OutSet /\ clock \in Times /\ asked \in Tones /\ CallsType
  BY DEF IInv, TypeInv, SynthType
<1>2. /\ env.active \in BOOLEAN /\ env.gain \in Gains /\ env.pend \in Tones
      /\ env.freq \in Tones
      /\ i2s.state \in OutStates /\ i2s.silence \in Silences /\ i2s.eof \in BOOLEAN
  BY <1>1 DEF EnvSet, OutSet
<1> QED  BY <1>1, <1>2 DEF IInv, DmaInv, OutIdle

\* A step of the synthesizer keeps the types if what it writes has them.
LEMMA TypesKept ==
    ASSUME IInv, CallsType', UNCHANGED playVars, env' \in EnvSet, i2s' \in OutSet,
           heard' = heard \/ heard' \in [tone : Tones, gain : Gains],
           asked' \in Tones, clock' \in Times,
           stall' = stall \/ (stall > 0 /\ stall' = stall - 1),
           faults' = faults \/ (faults > 0 /\ faults' = faults - 1),
           spoilt' \subseteq spoilt \cup {"race", "fault"}
    PROVE  TypeInv'
<1>1. SynthType /\ PlayType
  BY DEF IInv, TypeInv
<1>2. stall' \in 0..MaxStall /\ faults' \in 0..MaxFaults
  BY <1>1, SynthAssumption DEF SynthType
<1>3. SynthType'
  BY <1>1, <1>2 DEF SynthType
<1> QED  BY <1>1, <1>3, SamePlay DEF TypeInv

LEMMA LeaveKeeps ==
    ASSUME IInv, ~Idling, Leave, spoilt \subseteq spoilt'
    PROVE  CallsType' /\ AloneInv' /\ ("reentry" \notin spoilt' => Idling')
<1>1. /\ CallsType' /\ Len(calls') = Len(calls) - 1 /\ Len(calls) \in Nat
      /\ Len(calls) <= 1 => Idling'
  BY Facts, LeaveIs, TopIs
<1> QED  BY <1>1 DEF IInv, AloneInv

LEMMA GotoKeeps ==
    ASSUME IInv, ~Idling, NEW pc \in Pcs, Goto(pc), UNCHANGED spoilt
    PROVE  /\ CallsType' /\ ~Idling' /\ Top'.pc = pc /\ Top'.tone = Top.tone
           /\ "reentry" \notin spoilt =>
                 Len(calls') <= 1
           /\ pc \notin {"cold", "wait", "begin"} => AloneInv'
<1>1. /\ CallsType' /\ ~Idling' /\ Len(calls') = Len(calls) /\ Top'.pc = pc
      /\ Top'.tone = Top.tone
  BY Facts, GotoIs
<1>2. "reentry" \notin spoilt => Len(calls') <= 1
  BY <1>1 DEF IInv, AloneInv
<1> QED  BY <1>1, <1>2 DEF AloneInv

LEMMA LookKeeps == ASSUME IInv, SetToneLook, UNCHANGED playVars PROVE IInv'
<1>1. /\ ~Idling /\ Top.pc = "tone"
      /\ UNCHANGED <<env, i2s, heard, asked, clock, stall, faults, spoilt>>
  BY DEF SetToneLook, At
<1>2. DmaInv' /\ NoPop'
  BY <1>1 DEF IInv, DmaInv, NoPop
<1>3. OutIdle' = OutIdle /\ EnvSound' = EnvSound
  BY <1>1 DEF OutIdle, EnvSound
<1>4. PICK pc \in {"hot", "cold"} :
         /\ Goto(pc)
         /\ pc = "hot" => env.active /\ ~OutIdle
         /\ pc = "cold" => ~env.active \/ OutIdle
  BY DEF SetToneLook
<1>5. /\ CallsType' /\ ~Idling' /\ Top'.pc = pc /\ Top'.tone = Top.tone
      /\ "reentry" \notin spoilt => Len(calls') <= 1
  BY <1>1, <1>4, GotoKeeps, Names
<1>6. TypeInv'
  BY <1>1, <1>5, Facts, TypesKept
<1>7. AloneInv'
  BY <1>1, <1>3, <1>4, <1>5 DEF AloneInv
<1>8. SoundInv'
  <2> SUFFICES ASSUME ~Harmed PROVE CallSound(Top)'
    BY <1>1, <1>3, <1>5 DEF IInv, SoundInv, Harmed
  <2>1. Top.tone = asked /\ asked # None
    BY <1>1 DEF IInv, SoundInv, CallSound
  <2> QED  BY <1>1, <1>3, <1>4, <1>5, <2>1 DEF CallSound
<1> QED  BY <1>2, <1>6, <1>7, <1>8 DEF IInv

\* The envelope sent towards zero.
LEMMA ReleasedIs ==
    ASSUME NEW e \in EnvSet
    PROVE  LET s == [e EXCEPT !.slope = IF e.gain = "zero" THEN "flat" ELSE "release"] IN
           /\ s \in EnvSet /\ s.active = e.active /\ s.gain = e.gain /\ s.osc = e.osc
           /\ s.freq = e.freq /\ s.pend = e.pend
           /\ e.gain # "zero" => s.slope = "release"
<1> DEFINE v == IF e.gain = "zero" THEN "flat" ELSE "release"
<1>1. v \in Slopes /\ (e.gain # "zero" => v = "release")
  BY DEF Slopes
<1> HIDE DEF v
<1>2. LET s == [e EXCEPT !.slope = v] IN
      /\ s \in EnvSet /\ s.active = e.active /\ s.gain = e.gain /\ s.osc = e.osc
      /\ s.freq = e.freq /\ s.pend = e.pend /\ s.slope = v
  BY <1>1, EnvField
<1> QED  BY <1>1, <1>2 DEF v

LEMMA HotReleaseKeeps == ASSUME IInv, HotRelease, UNCHANGED playVars PROVE IInv'
<1>1. /\ ~Idling /\ Top.pc = "hot" /\ Goto("pend")
      /\ env' = [env EXCEPT !.slope = IF env.gain = "zero" THEN "flat" ELSE "release"]
      /\ UNCHANGED <<i2s, heard, asked, clock, stall, faults, spoilt>>
  BY DEF HotRelease, At
<1>2. /\ env' \in EnvSet /\ env'.active = env.active /\ env'.gain = env.gain
      /\ env'.osc = env.osc /\ env'.freq = env.freq /\ env'.pend = env.pend
      /\ env.gain # "zero" => env'.slope = "release"
  BY <1>1, Facts, ReleasedIs
<1>3. DmaInv' /\ NoPop'
  BY <1>1, <1>2 DEF IInv, DmaInv, NoPop
<1>4. /\ CallsType' /\ ~Idling' /\ Top'.pc = "pend" /\ Top'.tone = Top.tone /\ AloneInv'
  BY <1>1, GotoKeeps, Names
<1>5. TypeInv'
  BY <1>1, <1>2, <1>4, Facts, TypesKept
<1>6. SoundInv'
  <2>1. "reentry" \notin spoilt => EnvSound /\ EnvSound'
    BY <1>1, <1>2 DEF IInv, SoundInv, EnvSound, OutIdle
  <2> SUFFICES ASSUME ~Harmed PROVE CallSound(Top)'
    BY <1>1, <1>4, <2>1 DEF SoundInv, Harmed
  <2>2. env.active /\ ~OutIdle /\ Top.tone = asked /\ asked # None
    BY <1>1 DEF IInv, SoundInv, CallSound
  <2>3. env'.slope = "release" /\ OutIdle' = OutIdle
    BY <1>1, <1>2, <2>1, <2>2 DEF Harmed, EnvSound, OutIdle
  <2> QED  BY <1>1, <1>2, <1>4, <2>2, <2>3 DEF CallSound
<1> QED  BY <1>3, <1>4, <1>5, <1>6 DEF IInv

LEMMA HotPendingKeeps == ASSUME IInv, HotPending, UNCHANGED playVars PROVE IInv'
<1>1. /\ ~Idling /\ Top.pc = "pend" /\ Leave
      /\ env' = [env EXCEPT !.pend = Top.tone]
      /\ UNCHANGED <<i2s, heard, asked, clock, stall, faults, spoilt>>
  BY DEF HotPending, At
<1>2. Top.tone \in Tones
  BY <1>1, Facts, TopIs
<1>3. /\ env' \in EnvSet /\ env'.active = env.active /\ env'.gain = env.gain
      /\ env'.osc = env.osc /\ env'.slope = env.slope /\ env'.pend = Top.tone
  BY <1>1, <1>2, Facts, EnvField
<1>4. DmaInv' /\ NoPop'
  BY <1>1, <1>3 DEF IInv, DmaInv, NoPop
<1>5. CallsType' /\ AloneInv' /\ ("reentry" \notin spoilt' => Idling')
  BY <1>1, LeaveKeeps
<1>6. TypeInv'
  BY <1>1, <1>3, <1>5, Facts, TypesKept
<1>7. SoundInv'
  <2>1. "reentry" \notin spoilt => EnvSound /\ EnvSound'
    BY <1>1, <1>3 DEF IInv, SoundInv, EnvSound, OutIdle
  <2> SUFFICES ASSUME ~Harmed PROVE Settled'
    BY <1>1, <1>5, <2>1 DEF SoundInv, Harmed
  <2>2. env.active /\ ~OutIdle /\ env.slope = "release" /\ Top.tone = asked /\ asked # None
    BY <1>1 DEF IInv, SoundInv, CallSound
  <2> QED  BY <1>1, <1>3, <2>1, <2>2 DEF Harmed, EnvSound, Settled
<1> QED  BY <1>4, <1>5, <1>6, <1>7 DEF IInv

LEMMA ColdTuneKeeps == ASSUME IInv, ColdTune, UNCHANGED playVars PROVE IInv'
<1>1. /\ ~Idling /\ Top.pc = "cold" /\ env' = [env EXCEPT !.freq = Top.tone]
      /\ UNCHANGED <<heard, asked, clock, stall, faults, spoilt>>
  BY DEF ColdTune, At
<1>2. Top \in FrameSet /\ Top.tone \in Tones
  BY <1>1, Facts, TopIs
<1>3. /\ env' \in EnvSet /\ env'.active = env.active /\ env'.gain = env.gain
      /\ env'.osc = env.osc /\ env'.slope = env.slope /\ env'.pend = env.pend
      /\ env'.freq = Top.tone
  BY <1>1, <1>2, Facts, EnvField
<1>4. "reentry" \notin spoilt => ~env.active \/ OutIdle
  BY <1>1 DEF IInv, AloneInv
<1>5. /\ "reentry" \notin spoilt => EnvSound
      /\ ~Harmed => Top.tone = asked /\ asked # None
  BY <1>1 DEF IInv, SoundInv, CallSound
<1>6. CASE OutIdle /\ Goto("begin") /\ UNCHANGED i2s
  <2>1. /\ CallsType' /\ ~Idling' /\ Top'.pc = "begin" /\ Top'.tone = Top.tone
        /\ "reentry" \notin spoilt => Len(calls') <= 1
    BY <1>1, <1>6, GotoKeeps, Names
  <2>2. OutIdle'
    BY <1>6 DEF OutIdle
  <2>3. TypeInv'
    BY <1>1, <1>3, <1>6, <2>1, Facts, TypesKept
  <2>4. DmaInv' /\ NoPop' /\ AloneInv'
    BY <1>1, <1>3, <1>6, <2>1, <2>2 DEF IInv, DmaInv, NoPop, AloneInv
  <2>5. SoundInv'
    BY <1>1, <1>3, <1>5, <1>6, <2>1, <2>2 DEF SoundInv, EnvSound, CallSound, Harmed
  <2> QED  BY <2>3, <2>4, <2>5 DEF IInv
<1>7. CASE /\ ~OutIdle /\ i2s' = OutStop(i2s)
           /\ calls' = OnTop([Top EXCEPT !.pc = "wait", !.since = clock])
  <2> DEFINE f == [Top EXCEPT !.pc = "wait"]
             g == [f EXCEPT !.since = clock]
  <2>1. g \in FrameSet /\ g.pc = "wait" /\ g.tone = Top.tone /\ g.since = clock
    <3>1. f \in FrameSet /\ f.pc = "wait" /\ f.tone = Top.tone
      BY <1>2, FrameField, Names
    <3> HIDE DEF f
    <3> QED  BY <3>1, FrameField, Facts
  <2>2. calls' = OnTop(g)
    BY <1>7
  <2> HIDE DEF g
  <2>3. CallsType' /\ ~Idling' /\ Top' = g /\ Len(calls') = Len(calls)
    BY <1>1, <2>1, <2>2, Facts, OnTopIs
  <2>4. /\ i2s' \in OutSet /\ i2s'.state = i2s.state /\ i2s'.silence = i2s.silence
        /\ i2s'.dma = i2s.dma /\ i2s'.buffers = i2s.buffers
        /\ i2s.state = "streaming" => i2s'.eof
    BY <1>7, Facts, OutStopIs
  <2>5. TypeInv'
    BY <1>1, <1>3, <2>3, <2>4, Facts, TypesKept
  <2>6. "reentry" \notin spoilt => ~env'.active
    BY <1>3, <1>4, <1>7
  <2>7. DmaInv' /\ AloneInv'
    BY <1>1, <2>3, <2>4, <2>6 DEF IInv, DmaInv, AloneInv
  <2>8. NoPop'
    <3>1. heard.gain # "zero" /\ i2s.dma = "on" /\ "reentry" \notin spoilt => env.active
      BY DEF IInv, NoPop
    <3> QED  BY <1>1, <1>3, <2>4, <2>6, <3>1 DEF NoPop
  <2>9. SoundInv'
    <3>1. "reentry" \notin spoilt => EnvSound'
      BY <2>6 DEF EnvSound
    <3> SUFFICES ASSUME ~Harmed PROVE CallSound(Top)'
      BY <1>1, <2>3, <3>1 DEF SoundInv, Harmed
    <3>2. Draining(Top.since)'
      <4>1. i2s'.state = "drain" \/ i2s'.eof
        BY <1>7, <2>4, Facts DEF OutStates
      <4>2. Elapsed(clock) = 0
        BY Facts, ElapsedIs, ClockFacts DEF Times
      <4>3. Left(i2s') \in 0..SilenceHalves
        BY <2>4, Facts, ClockFacts DEF Left, Silences
      <4>4. Elapsed(Top.since)' = 0
        <5>1. Top'.since = clock /\ clock' = clock
          BY <1>1, <2>1, <2>3
        <5> QED  BY <4>2, <5>1 DEF Elapsed
      <4> QED  BY <4>1, <4>3, <4>4, ClockFacts DEF Draining
    <3> QED  BY <1>1, <1>3, <1>5, <2>1, <2>3, <3>2 DEF CallSound
  <2> QED  BY <2>5, <2>7, <2>8, <2>9 DEF IInv
<1> QED  BY <1>6, <1>7 DEF ColdTune


\* The wait is over before its time is up, so that the output is at rest.
LEMMA WaitEndsKeeps == ASSUME IInv, WaitEnds, UNCHANGED playVars PROVE IInv'
<1>1. /\ ~Idling /\ Top.pc = "wait" /\ WaitOver /\ Goto("begin")
      /\ UNCHANGED <<env, i2s, heard, asked, clock, stall, faults, spoilt>>
  BY DEF WaitEnds, At
<1>2. /\ CallsType' /\ ~Idling' /\ Top'.pc = "begin" /\ Top'.tone = Top.tone
      /\ "reentry" \notin spoilt => Len(calls') <= 1
  BY <1>1, GotoKeeps, Names
<1>3. TypeInv'
  BY <1>1, <1>2, Facts, TypesKept
<1>4. OutIdle' = OutIdle /\ EnvSound' = EnvSound
  BY <1>1 DEF OutIdle, EnvSound
<1>5. DmaInv' /\ NoPop' /\ AloneInv'
  BY <1>1, <1>2, <1>4 DEF IInv, DmaInv, NoPop, AloneInv
<1>6. SoundInv'
  <2> SUFFICES ASSUME ~Harmed PROVE CallSound(Top)'
    BY <1>1, <1>2, <1>4 DEF IInv, SoundInv, Harmed
  <2>1. /\ env.freq = asked /\ Top.tone = asked /\ asked # None
        /\ Draining(Top.since)
    BY <1>1 DEF IInv, SoundInv, CallSound
  <2>2. OutIdle
    <3>1. Top.since \in Times
      BY <1>1, Facts, TopIs DEF FrameSet
    <3>2. Elapsed(Top.since) \in Nat
      BY <3>1, Facts, ElapsedIs, ClockFacts DEF Times
    <3>3. Left(i2s) \in 0..SilenceHalves
      BY Facts, ClockFacts DEF Left, Silences
    <3>4. ~OutIdle => Elapsed(Top.since) <= SilenceHalves
      BY <2>1, <3>2, <3>3, ClockFacts DEF Draining
    <3> QED  BY <1>1, <3>2, <3>4, ClockFacts DEF WaitOver
  <2> QED  BY <1>1, <1>2, <1>4, <2>1, <2>2 DEF CallSound
<1> QED  BY <1>3, <1>5, <1>6 DEF IInv

\* init refuses a busy output only when a poll has re-entered the call.
LEMMA ColdBusyKeeps == ASSUME IInv, ColdBusy, UNCHANGED playVars PROVE IInv'
<1>1. /\ ~Idling /\ Top.pc = "begin" /\ ~OutIdle /\ Leave
      /\ env' = [env EXCEPT !.active = FALSE, !.slope = "flat"]
      /\ UNCHANGED <<i2s, heard, asked, clock, stall, faults, spoilt>>
  BY DEF ColdBusy, At
<1>2. env' \in EnvSet /\ ~env'.active /\ env'.pend = env.pend
  BY <1>1, Facts, SilencedIs
<1>3. CallsType' /\ AloneInv'
  BY <1>1, LeaveKeeps
<1>4. TypeInv'
  BY <1>1, <1>2, <1>3, Facts, TypesKept
<1>5. DmaInv'
  BY <1>1 DEF IInv, DmaInv
<1>6. NoPop'
  BY <1>1 DEF IInv, AloneInv, NoPop
<1>7. Harmed /\ Harmed' /\ EnvSound'
  BY <1>1, <1>2 DEF IInv, SoundInv, CallSound, Harmed, EnvSound
<1> QED  BY <1>3, <1>4, <1>5, <1>6, <1>7 DEF IInv, SoundInv

\* init frees the buffers of an output at rest.
LEMMA ColdNoMemoryKeeps == ASSUME IInv, ColdNoMemory, UNCHANGED playVars PROVE IInv'
<1>1. /\ ~Idling /\ Top.pc = "begin" /\ OutIdle /\ Leave
      /\ faults > 0 /\ faults' = faults - 1
      /\ i2s' = FreeBuffers(i2s)
      /\ env' = [env EXCEPT !.active = FALSE, !.slope = "flat"]
      /\ spoilt' = spoilt \cup {"fault"}
      /\ UNCHANGED <<heard, asked, clock, stall>>
  BY DEF ColdNoMemory, At
<1>2. env' \in EnvSet /\ ~env'.active
  BY <1>1, Facts, SilencedIs
<1>3. i2s' \in OutSet /\ i2s'.state = "idle" /\ i2s'.dma = "off"
  BY <1>1, Facts, FreeBuffersIs DEF OutIdle
<1>4. CallsType' /\ AloneInv'
  BY <1>1, LeaveKeeps
<1>5. TypeInv'
  BY <1>1, <1>2, <1>3, <1>4, Facts, TypesKept
<1>6. DmaInv' /\ NoPop' /\ SoundInv'
  BY <1>1, <1>2, <1>3 DEF DmaInv, NoPop, SoundInv, Harmed, EnvSound
<1> QED  BY <1>4, <1>5, <1>6 DEF IInv

LEMMA ColdStartKeeps == ASSUME IInv, ColdStart, UNCHANGED playVars PROVE IInv'
<1>1. /\ ~Idling /\ Top.pc = "begin" /\ OutIdle /\ Leave
      /\ env' = Prefilled(Attack(env))
      /\ i2s' = [InitOut(i2s) EXCEPT !.state = "streaming", !.dma = "on"]
      /\ heard' = EndOf(env')
      /\ UNCHANGED <<asked, clock, stall, faults, spoilt>>
  BY DEF ColdStart, At
<1>2. /\ env' \in EnvSet /\ env'.active /\ env'.gain = "full" /\ env'.slope = "flat"
      /\ env'.osc = env.freq /\ env'.pend = env.pend
  BY <1>1, Facts, PrefilledIs
<1>3. /\ i2s' \in OutSet /\ i2s'.state = "streaming" /\ i2s'.dma = "on" /\ i2s'.buffers
      /\ ~i2s'.eof
  BY <1>1, Facts, StartedOutIs DEF OutIdle
<1>4. /\ heard' \in [tone : Tones, gain : Gains]
      /\ heard'.gain # "zero" => env'.osc = heard'.tone /\ env'.gain = heard'.gain
  BY <1>1, <1>2, EndOfIs
<1>5. CallsType' /\ AloneInv' /\ ("reentry" \notin spoilt' => Idling')
  BY <1>1, LeaveKeeps
<1>6. TypeInv'
  BY <1>1, <1>2, <1>3, <1>4, <1>5, Facts, TypesKept
<1>7. DmaInv' /\ NoPop'
  BY <1>2, <1>3, <1>4 DEF DmaInv, NoPop
<1>8. SoundInv'
  <2>1. EnvSound'
    BY <1>2, <1>3 DEF EnvSound
  <2> SUFFICES ASSUME ~Harmed PROVE Settled'
    BY <1>1, <1>5, <2>1 DEF SoundInv, Harmed
  <2>2. env.freq = asked
    BY <1>1 DEF IInv, SoundInv, CallSound
  <2> QED  BY <1>1, <1>2, <1>3, <2>2 DEF Settled
<1> QED  BY <1>5, <1>6, <1>7, <1>8 DEF IInv

LEMMA ColdRefusedKeeps == ASSUME IInv, ColdRefused, UNCHANGED playVars PROVE IInv'
<1>1. /\ ~Idling /\ Top.pc = "begin" /\ OutIdle /\ Leave
      /\ faults > 0 /\ faults' = faults - 1
      /\ env' = [Prefilled(Attack(env)) EXCEPT !.active = FALSE, !.slope = "flat"]
      /\ i2s' = InitOut(i2s)
      /\ spoilt' = spoilt \cup {"fault"}
      /\ UNCHANGED <<heard, asked, clock, stall>>
  BY DEF ColdRefused, At
<1>2. env' \in EnvSet /\ ~env'.active
  <2> DEFINE e == Prefilled(Attack(env))
  <2>1. e \in EnvSet
    BY Facts, PrefilledIs
  <2>2. env' = [e EXCEPT !.active = FALSE, !.slope = "flat"]
    BY <1>1
  <2> HIDE DEF e
  <2> QED  BY <2>1, <2>2, SilencedIs
<1>3. i2s' \in OutSet /\ i2s'.state = "idle" /\ i2s'.dma = "off"
  BY <1>1, Facts, InitOutIs DEF OutIdle
<1>4. CallsType' /\ AloneInv'
  BY <1>1, LeaveKeeps
<1>5. TypeInv'
  BY <1>1, <1>2, <1>3, <1>4, Facts, TypesKept
<1>6. DmaInv' /\ NoPop' /\ SoundInv'
  BY <1>1, <1>2, <1>3 DEF DmaInv, NoPop, SoundInv, Harmed, EnvSound
<1> QED  BY <1>4, <1>5, <1>6 DEF IInv

LEMMA StopReleaseKeeps == ASSUME IInv, StopRelease, UNCHANGED playVars PROVE IInv'
<1>1. /\ ~Idling /\ Top.pc = "stop" /\ asked' = None
      /\ UNCHANGED <<heard, clock, stall, faults, spoilt>>
  BY DEF StopRelease, At
<1>2. asked' \in Tones
  BY <1>1, Names
<1>3. "reentry" \notin spoilt => EnvSound
  BY DEF IInv, SoundInv
<1>4. CASE /\ env.active /\ Goto("cancel") /\ UNCHANGED i2s
           /\ env' = [env EXCEPT !.slope = IF env.gain = "zero" THEN "flat" ELSE "release"]
  <2>1. /\ env' \in EnvSet /\ env'.active = env.active /\ env'.gain = env.gain
        /\ env'.osc = env.osc /\ env'.pend = env.pend
        /\ env.gain # "zero" => env'.slope = "release"
    BY <1>4, Facts, ReleasedIs
  <2>2. /\ CallsType' /\ ~Idling' /\ Top'.pc = "cancel" /\ AloneInv'
    BY <1>1, <1>4, GotoKeeps, Names
  <2>3. TypeInv'
    BY <1>1, <1>2, <1>4, <2>1, <2>2, Facts, TypesKept
  <2>4. DmaInv' /\ NoPop'
    BY <1>1, <1>4, <2>1 DEF IInv, DmaInv, NoPop
  <2>5. SoundInv'
    BY <1>1, <1>3, <1>4, <2>1, <2>2 DEF SoundInv, EnvSound, CallSound, Harmed, OutIdle
  <2> QED  BY <2>2, <2>3, <2>4, <2>5 DEF IInv
<1>5. CASE ~env.active /\ Goto("stopped") /\ UNCHANGED env /\ i2s' = OutStop(i2s)
  <2>1. /\ i2s' \in OutSet /\ i2s'.state = i2s.state /\ i2s'.dma = i2s.dma
        /\ i2s'.buffers = i2s.buffers
    BY <1>5, Facts, OutStopIs
  <2>2. /\ CallsType' /\ ~Idling' /\ Top'.pc = "stopped" /\ AloneInv'
    BY <1>1, <1>5, GotoKeeps, Names
  <2>3. TypeInv'
    BY <1>1, <1>2, <1>5, <2>1, <2>2, Facts, TypesKept
  <2>4. DmaInv' /\ NoPop'
    BY <1>1, <1>5, <2>1 DEF IInv, DmaInv, NoPop
  <2>5. SoundInv'
    BY <1>1, <1>3, <1>5, <2>2 DEF SoundInv, EnvSound, CallSound, Harmed
  <2> QED  BY <2>2, <2>3, <2>4, <2>5 DEF IInv
<1> QED  BY <1>4, <1>5 DEF StopRelease

LEMMA StopCancelKeeps == ASSUME IInv, StopCancel, UNCHANGED playVars PROVE IInv'
<1>1. /\ ~Idling /\ Top.pc = "cancel" /\ Goto("stopped")
      /\ env' = [env EXCEPT !.pend = None]
      /\ UNCHANGED <<i2s, heard, asked, clock, stall, faults, spoilt>>
  BY DEF StopCancel, At
<1>2. /\ env' \in EnvSet /\ env'.active = env.active /\ env'.gain = env.gain
      /\ env'.osc = env.osc /\ env'.slope = env.slope /\ env'.pend = None
  BY <1>1, Facts, Names, EnvField
<1>3. /\ CallsType' /\ ~Idling' /\ Top'.pc = "stopped" /\ AloneInv'
  BY <1>1, GotoKeeps, Names
<1>4. TypeInv'
  BY <1>1, <1>2, <1>3, Facts, TypesKept
<1>5. DmaInv' /\ NoPop'
  BY <1>1, <1>2 DEF IInv, DmaInv, NoPop
<1>6. SoundInv'
  <2>1. "reentry" \notin spoilt => EnvSound'
    BY <1>1, <1>2 DEF IInv, SoundInv, EnvSound, OutIdle
  <2> SUFFICES ASSUME ~Harmed PROVE CallSound(Top)'
    BY <1>1, <1>3, <2>1 DEF SoundInv, Harmed
  <2>2. asked = None
    BY <1>1 DEF IInv, SoundInv, CallSound
  <2> QED  BY <1>1, <1>3, <2>2 DEF CallSound
<1> QED  BY <1>3, <1>4, <1>5, <1>6 DEF IInv

LEMMA SaiErrorKeeps == ASSUME IInv, SaiError, UNCHANGED playVars PROVE IInv'
<1>1. /\ faults > 0 /\ faults' = faults - 1
      /\ i2s' = StopDmaIdle(i2s) /\ heard' = Silence
      /\ spoilt' = spoilt \cup {"fault"}
      /\ UNCHANGED <<env, calls, asked, clock, stall>>
  BY DEF SaiError
<1>2. i2s' \in OutSet /\ i2s'.state = "idle" /\ i2s'.dma = "off"
  BY <1>1, Facts, StopDmaIs
<1>3. CallsType'
  BY <1>1, Facts DEF CallsType
<1>4. TypeInv'
  BY <1>1, <1>2, <1>3, Facts, SilenceIs, TypesKept
<1>5. DmaInv' /\ NoPop' /\ SoundInv'
  BY <1>1, <1>2 DEF IInv, DmaInv, NoPop, SoundInv, Harmed, EnvSound, OutIdle
<1>6. AloneInv'
  BY <1>1, <1>2 DEF IInv, AloneInv, Idling, Top, OutIdle
<1> QED  BY <1>4, <1>5, <1>6 DEF IInv


----------------------------------------------------------------------------
(* A half buffer falls due.                                                *)

\* The output is at rest and nothing happens; or it is being drained, and a
\* half of silence goes out; or the engine fills the half.
Resting == OutIdle /\ UNCHANGED <<env, i2s, heard, spoilt>>

Silenced ==
    /\ ~OutIdle /\ (i2s.state = "drain" \/ i2s.eof)
    /\ env' = env /\ heard' = Silence /\ i2s' \in OutSet
    /\ \/ i2s'.state = "idle" /\ i2s'.dma = "off"
       \/ /\ i2s'.state = "drain" /\ Left(i2s') = Left(i2s) - 1
          /\ i2s'.dma = i2s.dma /\ i2s'.buffers = i2s.buffers

Fed ==
    /\ ~OutIdle /\ i2s.state = "streaming" /\ ~i2s.eof
    /\ env' = Fill(env) /\ heard' = EndOf(env')
    /\ \/ env'.active /\ i2s' = i2s
       \/ /\ ~env'.active /\ i2s' \in OutSet /\ i2s'.state = "drain"
          /\ i2s'.dma = i2s.dma /\ i2s'.buffers = i2s.buffers

LEMMA HalfIs ==
    ASSUME IInv, HalfInterrupt
    PROVE  /\ Resting \/ Silenced \/ Fed
           /\ spoilt \subseteq spoilt' /\ spoilt' \subseteq spoilt \cup {"race"}
           /\ ~OutIdle /\ "race" \notin spoilt' => ~At("hot") /\ ~At("pend") /\ ~At("cancel")
<1>1. CASE ~(i2s.dma # "off" /\ i2s.state # "idle")
  BY <1>1, Facts DEF HalfInterrupt, Resting, OutIdle
<1>2. CASE i2s.dma # "off" /\ i2s.state # "idle"
  <2>1. /\ ProduceHalf /\ ~OutIdle
        /\ spoilt' = spoilt \cup
              (IF At("hot") \/ At("pend") \/ At("cancel") THEN {"race"} ELSE {})
    BY <1>2 DEF HalfInterrupt, OutIdle
  <2>2. /\ spoilt \subseteq spoilt' /\ spoilt' \subseteq spoilt \cup {"race"}
        /\ "race" \notin spoilt' => ~At("hot") /\ ~At("pend") /\ ~At("cancel")
    BY <2>1
  <2>3. CASE i2s.state = "drain" \/ i2s.eof
    <3> DEFINE o == IF i2s.state = "drain" THEN i2s ELSE EnterDrain(i2s)
    <3>1. /\ env' = env /\ heard' = Silence /\ i2s' = DrainHalf(o)
      BY <2>1, <2>3 DEF ProduceHalf
    <3>2. /\ o \in OutSet /\ o.state = "drain" /\ o.silence = Left(i2s)
          /\ o.dma = i2s.dma /\ o.buffers = i2s.buffers
      <4>1. CASE i2s.state = "drain"
        BY <4>1, Facts DEF Left
      <4>2. CASE i2s.state # "drain"
        BY <4>2, Facts, EnterDrainIs DEF Left
      <4> QED  BY <4>1, <4>2
    <3> HIDE DEF o
    <3>3. /\ i2s' \in OutSet
          /\ \/ i2s'.state = "idle" /\ i2s'.dma = "off"
             \/ /\ i2s'.state = "drain" /\ i2s'.silence = o.silence - 1
                /\ i2s'.dma = o.dma /\ i2s'.buffers = o.buffers
      BY <3>1, <3>2, DrainHalfIs
    <3>4. i2s'.state = "drain" => Left(i2s') = i2s'.silence
      BY DEF Left
    <3> QED  BY <2>1, <2>2, <2>3, <3>1, <3>2, <3>3, <3>4 DEF Silenced
  <2>4. CASE ~(i2s.state = "drain" \/ i2s.eof)
    <3>1. /\ env' = Fill(env) /\ heard' = EndOf(Fill(env))
          /\ i2s' = IF Fill(env).active THEN i2s ELSE EnterDrain(i2s)
      BY <2>1, <2>4 DEF ProduceHalf
    <3>2. i2s.state = "streaming"
      BY <2>1, <2>4, Facts DEF OutStates
    <3>3. /\ EnterDrain(i2s) \in OutSet /\ EnterDrain(i2s).state = "drain"
          /\ EnterDrain(i2s).dma = i2s.dma /\ EnterDrain(i2s).buffers = i2s.buffers
      BY Facts, EnterDrainIs
    <3> QED  BY <2>1, <2>2, <2>4, <3>1, <3>2, <3>3 DEF Fed
  <2> QED  BY <2>3, <2>4
<1> QED  BY <1>1, <1>2

\* The wait for the drain: what has elapsed and what is left stay within the
\* silence that is played out.
LEMMA DrainGoesOn ==
    ASSUME IInv, NEW since \in Times, clock' = (clock + 1) % ClockMod,
           Resting \/ Silenced, Draining(since)
    PROVE  OutIdle' \/ /\ i2s'.state = "drain"
                       /\ Elapsed(since)' + Left(i2s') <= SilenceHalves
<1>1. CASE Resting
  BY <1>1 DEF Resting, OutIdle
<1>2. CASE Silenced
  <2>1. /\ Left(i2s) \in Nat /\ Elapsed(since) \in Nat
    <3>1. Elapsed(since) \in Nat
      BY Facts, ElapsedIs, ClockFacts DEF Times
    <3>2. Left(i2s) \in Nat
      BY Facts, ClockFacts DEF Left, Silences
    <3> QED  BY <3>1, <3>2
  <2>2. Elapsed(since) + Left(i2s) <= SilenceHalves
    BY <1>2 DEF Draining, Silenced
  <2>3. Elapsed(since)' = Elapsed(since) + 1
    <3>1. Elapsed(since) < ClockMod - 1
      BY <2>1, <2>2, ClockFacts
    <3> QED  BY <3>1, Facts, ElapsedGrows
  <2>4. CASE i2s'.state = "idle" /\ i2s'.dma = "off"
    BY <2>4 DEF OutIdle
  <2>5. CASE i2s'.state = "drain" /\ Left(i2s') = Left(i2s) - 1
    BY <2>1, <2>2, <2>3, <2>5, ClockFacts
  <2> QED  BY <1>2, <2>4, <2>5 DEF Silenced
<1> QED  BY <1>1, <1>2

LEMMA TickKeeps == ASSUME IInv, Tick PROVE IInv'
<1>1. /\ clock' = (clock + 1) % ClockMod /\ clock' \in Times
      /\ HalfInterrupt
      /\ stall' = stall \/ (stall > 0 /\ stall' = stall - 1)
      /\ UNCHANGED calls /\ UNCHANGED asked /\ UNCHANGED faults /\ UNCHANGED playVars
  BY Facts, TickIs DEF Tick
<1>2. /\ Resting \/ Silenced \/ Fed
      /\ spoilt \subseteq spoilt' /\ spoilt' \subseteq spoilt \cup {"race"}
      /\ ~OutIdle /\ "race" \notin spoilt' => ~At("hot") /\ ~At("pend") /\ ~At("cancel")
  BY <1>1, HalfIs
<1>3. /\ Idling' = Idling /\ Top' = Top /\ CallsType'
  BY <1>1, Facts DEF Idling, Top, CallsType
<1>4. /\ Fill(env) \in EnvSet
      /\ ~env.active => Fill(env) = env
  BY Facts, FillIs
<1>5. TypeInv'
  <2>1. CASE Resting \/ Silenced
    BY <1>1, <1>2, <1>3, <2>1, Facts, SilenceIs, TypesKept DEF Resting, Silenced
  <2>2. CASE Fed
    <3>1. env' \in EnvSet /\ heard' \in [tone : Tones, gain : Gains] /\ i2s' \in OutSet
      BY <1>4, <2>2, Facts, EndOfIs DEF Fed
    <3> QED  BY <1>1, <1>2, <1>3, <3>1, Facts, TypesKept
  <2> QED  BY <1>2, <2>1, <2>2
<1>6. DmaInv'
  <2>1. CASE Resting
    BY <2>1 DEF Resting, IInv, DmaInv
  <2>2. CASE Silenced
    BY <2>2, Facts DEF Silenced, IInv, DmaInv
  <2>3. CASE Fed
    BY <2>3, Facts DEF Fed, IInv, DmaInv
  <2> QED  BY <1>2, <2>1, <2>2, <2>3
<1>7. AloneInv'
  <2> SUFFICES ASSUME "reentry" \notin spoilt'
               PROVE  /\ Len(calls') <= 1
                      /\ ~Idling /\ Top.pc \in {"cold", "wait", "begin"} =>
                            ~env'.active \/ OutIdle'
    BY <1>3 DEF AloneInv
  <2>1. /\ Len(calls) <= 1
        /\ ~Idling /\ Top.pc \in {"cold", "wait", "begin"} => ~env.active \/ OutIdle
    BY <1>2 DEF IInv, AloneInv
  <2>2. CASE Resting
    BY <1>1, <2>1, <2>2 DEF Resting, OutIdle
  <2>3. CASE Silenced \/ Fed
    BY <1>1, <1>4, <2>1, <2>3 DEF Silenced, Fed
  <2> QED  BY <1>2, <2>2, <2>3
<1>8. NoPop'
  <2>1. CASE Resting
    BY <1>2, <2>1 DEF Resting, IInv, NoPop
  <2>2. CASE Silenced
    BY <2>2, SilenceIs DEF Silenced, NoPop
  <2>3. CASE Fed
    <3>1. heard'.gain # "zero" => /\ env'.active /\ env'.osc = heard'.tone
                                  /\ env'.gain = heard'.gain
      BY <1>4, <2>3, EndOfIs DEF Fed
    <3> QED  BY <2>3, <3>1 DEF Fed, NoPop
  <2> QED  BY <1>2, <2>1, <2>2, <2>3
<1>9. SoundInv'
  <2>0. "reentry" \notin spoilt' => EnvSound'
    <3> SUFFICES ASSUME EnvSound PROVE EnvSound'
      BY <1>2 DEF IInv, SoundInv
    <3>1. CASE Resting
      BY <3>1 DEF Resting, EnvSound, OutIdle
    <3>2. CASE Silenced
      BY <3>2, Facts DEF Silenced, EnvSound, OutStates
    <3>3. CASE Fed
      BY <3>3, Facts, FillIs DEF Fed, EnvSound, EnvSet, Slopes
    <3> QED  BY <1>2, <3>1, <3>2, <3>3
  <2> SUFFICES ASSUME ~Harmed'
               PROVE  (Idling => Settled') /\ (~Idling => CallSound(Top)')
    BY <1>3, <2>0 DEF SoundInv
  <2>1. /\ (Idling => Settled) /\ (~Idling => CallSound(Top)) /\ "race" \notin spoilt'
        /\ ~Harmed
    BY <1>2 DEF IInv, SoundInv, Harmed
  <2>2. ~Idling => Top.since \in Times
    BY Facts, TopIs DEF FrameSet
  <2>3. CASE Resting
    <3>1. OutIdle' /\ (Settled => Settled')
      BY <1>1, <2>3 DEF Resting, OutIdle, Settled
    <3> QED  BY <1>1, <1>3, <2>1, <2>3, <3>1 DEF Resting, CallSound, Draining
  <2>4. CASE Silenced
    <3>3. Settled => asked = None
      BY <2>4 DEF Silenced, Settled
    <3>4. Settled => Settled'
      BY <1>1, <3>3 DEF Settled
    <3>5. ~Idling /\ Top.pc = "wait" => Draining(Top.since)'
      <4> SUFFICES ASSUME ~Idling, Top.pc = "wait" PROVE Draining(Top.since)'
        OBVIOUS
      <4>1. Top.since \in Times /\ Draining(Top.since)
        BY <2>1, <2>2 DEF CallSound
      <4>2. PICK s \in Times : s = Top.since
        BY <4>1
      <4>3. Draining(s)
        BY <4>1, <4>2
      <4>4. \/ OutIdle'
            \/ i2s'.state = "drain" /\ Elapsed(s)' + Left(i2s') <= SilenceHalves
        BY <1>1, <2>4, <4>3, DrainGoesOn
      <4>5. Elapsed(Top.since)' = Elapsed(s)'
        BY <1>3, <4>2 DEF Elapsed
      <4> QED  BY <4>4, <4>5 DEF Draining
    <3>6. ~Idling => Top.pc \notin {"hot", "pend"} /\ Top.pc # "begin"
      BY <1>2, <2>1, <2>4 DEF Silenced, At, CallSound
    <3> QED  BY <1>1, <1>3, <2>1, <2>4, <3>4, <3>5, <3>6 DEF Silenced, CallSound
  <2>5. CASE Fed
    <3>1. /\ ~Idling => Top.pc \notin {"hot", "pend", "cancel", "wait", "begin"}
      BY <1>2, <2>1, <2>5 DEF Fed, At, CallSound, Draining
    <3>2. Settled => Settled'
      <4>1. CASE ~env.active
        BY <1>1, <4>1 DEF Settled
      <4>2. CASE env.active /\ env.slope = "flat"
        <5>1. env' = env /\ i2s' = i2s
          BY <2>5, <4>2, Facts, FillIs DEF Fed
        <5> QED  BY <1>1, <5>1 DEF Settled
      <4>3. CASE env.active /\ env.slope = "attack"
        <5>1. /\ env'.active /\ env'.gain = "full" /\ env'.slope = "flat"
              /\ env'.osc = env.osc /\ env'.pend = env.pend /\ i2s' = i2s
          BY <2>5, <4>3, Facts, FillIs DEF Fed
        <5> QED  BY <1>1, <4>3, <5>1 DEF Settled
      <4>4. CASE env.active /\ env.slope = "release" /\ env.pend = None
        BY <1>1, <4>4 DEF Settled
      <4>5. CASE env.active /\ env.slope = "release" /\ env.pend # None
        <5>1. /\ env'.active /\ env'.gain = "part" /\ env'.slope = "attack"
              /\ env'.osc = env.pend /\ env'.pend = None /\ i2s' = i2s
          BY <2>5, <4>5, Facts, FillIs DEF Fed
        <5> QED  BY <1>1, <4>5, <5>1 DEF Settled
      <4>6. env.slope \in {"flat", "attack", "release"}
        BY Facts DEF EnvSet, Slopes
      <4> QED  BY <4>1, <4>2, <4>3, <4>4, <4>5, <4>6
    <3>3. ~env.active => env' = env
      BY <1>4, <2>5 DEF Fed
    <3> QED  BY <1>1, <1>3, <2>1, <3>1, <3>2, <3>3 DEF CallSound
  <2> QED  BY <1>2, <2>3, <2>4, <2>5
<1> QED  BY <1>5, <1>6, <1>7, <1>8, <1>9 DEF IInv

----------------------------------------------------------------------------
(* The theorems.                                                           *)

LEMMA StepKeepsIInv == ASSUME IInv, [Next]_vars PROVE IInv'
<1>1. CASE SynthStep /\ UNCHANGED playVars
  BY <1>1, LookKeeps, HotReleaseKeeps, HotPendingKeeps, ColdTuneKeeps, WaitEndsKeeps,
     ColdBusyKeeps, ColdNoMemoryKeeps, ColdStartKeeps, ColdRefusedKeeps, StopReleaseKeeps,
     StopCancelKeeps DEF SynthStep
<1>2. CASE PlayAction
  BY <1>2, PlayKeepsIInv
<1>3. CASE Tick
  BY <1>3, TickKeeps
<1>4. CASE SaiError /\ UNCHANGED playVars
  BY <1>4, SaiErrorKeeps
<1>5. CASE UNCHANGED vars
  <2>1. /\ UNCHANGED <<env, i2s, heard, asked, clock, stall, faults, spoilt>>
        /\ UNCHANGED calls /\ UNCHANGED playVars
    BY <1>5 DEF vars, synthVars
  <2>2. CallsType' /\ Idling' = Idling /\ Top' = Top
    BY <2>1, Facts DEF CallsType, Idling, Top
  <2>3. TypeInv'
    BY <2>1, <2>2, Facts, TypesKept
  <2>4. DmaInv' /\ NoPop' /\ OutIdle' = OutIdle
    BY <2>1 DEF IInv, DmaInv, NoPop, OutIdle
  <2>5. AloneInv'
    BY <2>1, <2>2, <2>4 DEF IInv, AloneInv
  <2>6. SoundInv'
    <3>1. /\ EnvSound' = EnvSound /\ Settled' = Settled /\ Harmed' = Harmed
          /\ Draining(Top.since)' = Draining(Top.since)
      BY <2>1, <2>2, <2>4 DEF EnvSound, Settled, Harmed, Draining, Elapsed, Left
    <3>2. CallSound(Top) => CallSound(Top)'
      BY <2>1, <2>2, <2>4, <3>1 DEF CallSound
    <3> QED  BY <2>1, <2>2, <3>1, <3>2 DEF IInv, SoundInv
  <2> QED  BY <2>3, <2>4, <2>5, <2>6 DEF IInv
<1> QED  BY <1>1, <1>2, <1>3, <1>4, <1>5, Steps

\* The invariant of sequencer, synthesizer and output together.
THEOREM PlayInvariant == Spec => []IInv
<1>1. Init => IInv
  BY InitIInv
<1>2. IInv /\ [Next]_vars => IInv'
  BY StepKeepsIInv
<1> QED  BY <1>1, <1>2, PTL DEF Spec

\* Types, and with them the depth of both stacks (play.c:1120, :2754): for any
\* text, no repeat and no call goes past PLAY_STACK_MAX_DEPTH or leaves the text.
THEOREM PlayTypeCorrect == Spec => []TypeOK
<1>1. IInv => TypeOK
  BY TypeInvIsTypeOK DEF IInv
<1> QED  BY <1>1, PlayInvariant, PTL

\* The buffers init frees (i2s_audio_out.c) are never under a running DMA,
\* however polls re-enter set_tone and whatever fails.
THEOREM PlayDmaBuffersLive == Spec => []DmaBuffersLive
<1>1. IInv => DmaBuffersLive
  BY DEF IInv, DmaInv, DmaBuffersLive
<1> QED  BY <1>1, PlayInvariant, PTL

\* A tone that is heard goes on, or ends through zero: races with the DMA
\* interrupt and faults included, as long as no poll re-enters set_tone.
THEOREM PlayNoPop == Spec => []NoPop
<1>1. IInv => NoPop
  BY DEF IInv
<1> QED  BY <1>1, PlayInvariant, PTL

\* The tone that set_tone was last asked for sounds or is the next to sound,
\* whichever of its paths it took, wherever the drain stood and whatever races
\* and faults left behind of the tones before.  Three things are excepted: a half
\* that falls due between two stores of this tone's set_tone or of the stop
\* (synth_engine.c:254), an output that fails under this tone, and a set_tone
\* that a poll has re-entered.
THEOREM PlayToneSounds == Spec => []ToneSounds
<1>1. IInv => ToneSounds
  BY DEF IInv, SoundInv, Settled, ToneSounds
<1> QED  BY <1>1, PlayInvariant, PTL

----------------------------------------------------------------------------
(* The notes are those of the text.  A score's reading is a walk over its  *)
(* tokens that knows neither clock nor polls; the sequencer, between two   *)
(* tokens, is at a place of that walk.                                     *)

AllRead == \A s \in Scores : \E pages : IsReading(s, pages)
Pages(s) == CHOOSE pages : IsReading(s, pages)

Here == Place(off, repeat, return, Len(played))

Stopping(then) == (At("stop") \/ At("cancel") \/ At("stopped")) /\ Top.then = then

NotesInv ==
    /\ played \in Seq(Tone) /\ Len(played) <= Len(score.notes)
    /\ \A i \in 1..Len(played) : played[i] = score.notes[i]

\* Only a call of set_tone that waits for the drain has another call inside.
WaitsBelow == \A i \in 1..(Len(calls) - 1) : calls[i].pc = "wait"

\* There are tokens that the sequencer goes on with, or may.
Underway ==
    \/ At("exec") \/ Stopping("faultIgnored") \/ Stopping("restart")
    \/ state = "running" /\ ~Stopping("ended")

ReadInv ==
    /\ NotesInv /\ WaitsBelow
    /\ At("exec") => state \in {"running", "fault"}
    /\ Underway => Here \in Pages(score)
    /\ Stopping("ended") \/ state = "ended" => played = score.notes

LEMMA ReadsOn ==
    ASSUME AllRead, NEW s \in Scores
    PROVE  /\ FirstPlace \in Pages(s)
           /\ \A p \in Pages(s) : NextPlace(p, s) \in Pages(s) /\ Fits(p, s)
<1>1. IsReading(s, Pages(s))
  BY DEF AllRead, Pages
<1> QED  BY <1>1 DEF IsReading

LEMMA HereIs ==
    /\ Here.off = off /\ Here.repeat = repeat /\ Here.return = return
    /\ Here.read = Len(played) /\ TokenAt(Here, score) = Token
    /\ Onward(Here) = Place(off + 1, repeat, return, Len(played))
  BY DEF Here, Place, TokenAt, Token, Text, Onward

LEMMA OverIs ==
    ASSUME PlayType PROVE Over(Here, score) <=> ~InText
<1>1. off \in Nat /\ Len(Text) \in Nat
  BY PlacesIs DEF PlayType, SessionType, Places
<1> QED  BY <1>1, HereIs DEF Over, InText, Text

----------------------------------------------------------------------------
(* One token: the sequencer's place after it is the walk's next.           *)

LEMMA NextAtJump ==
    ASSUME PlayType, InText
    PROVE  /\ Token.is = "note" =>
                 NextPlace(Here, score) = Place(off + 1, repeat, return, Len(played) + 1)
           /\ Token.is \in {"rest", "colon"} =>
                 NextPlace(Here, score) = Place(off + 1, repeat, return, Len(played))
           /\ Token.is = "goto" =>
                 NextPlace(Here, score) = Place(Token.to, repeat, return, Len(played))
  BY HereIs, OverIs DEF NextPlace

LEMMA NextAtStack ==
    ASSUME PlayType, InText
    PROVE  /\ Token.is = "open" => NextPlace(Here, score) = AfterOpen(Here, score)
           /\ Token.is = "close" => NextPlace(Here, score) = AfterClose(Here, score)
           /\ Token.is = "gosub" => NextPlace(Here, score) = AfterGosub(Here, score)
           /\ Token.is = "return" => NextPlace(Here, score) = AfterReturn(Here)
  BY HereIs, OverIs DEF NextPlace

LEMMA SamePlace ==
    ASSUME UNCHANGED <<off, repeat, return, played>> PROVE Here' = Here
  BY DEF Here, Place

LEMMA OpenReads ==
    ASSUME PlayType, OpenRepeat PROVE Here' = Here \/ Here' = NextPlace(Here, score)
<1> DEFINE close == Closing(off)
           frame == [body |-> off + 1, close |-> close, left |-> Passes(Text[close].n)]
<1>1. Is("open") /\ UNCHANGED return /\ UNCHANGED played
  BY DEF OpenRepeat, Quieter
<1>2. CASE UNCHANGED off /\ UNCHANGED repeat
  BY <1>1, <1>2, SamePlace
<1>3. CASE /\ close # 0 /\ Len(repeat) # StackMax
           /\ repeat' = Append(repeat, frame) /\ off' = off + 1
  <2>1. NextPlace(Here, score) = AfterOpen(Here, score)
    BY <1>1, NextAtStack DEF Is
  <2>2. ClosingIn(score.text, Here.off) = close /\ score.text = Text
    BY HereIs DEF Closing, Text
  <2>3. AfterOpen(Here, score) = Place(off + 1, Append(repeat, frame), return, Len(played))
    BY <1>3, <2>2, HereIs DEF AfterOpen
  <2>4. Here' = Place(off + 1, Append(repeat, frame), return, Len(played))
    BY <1>1, <1>3 DEF Here, Place
  <2> QED  BY <2>1, <2>3, <2>4
<1> QED  BY <1>2, <1>3 DEF OpenRepeat, Fatal

LEMMA CloseReads ==
    ASSUME PlayType, RepeatAgain \/ RepeatDone \/ StrayClose
    PROVE  Here' = Here \/ Here' = NextPlace(Here, score)
<1>1. Is("close") /\ UNCHANGED return /\ UNCHANGED played
  BY DEF RepeatAgain, RepeatDone, StrayClose, AtClosing, Quieter
<1>2. NextPlace(Here, score) = AfterClose(Here, score)
  BY <1>1, NextAtStack DEF Is
<1>3. Inner = Here.repeat[Len(Here.repeat)]
  BY HereIs DEF Inner
<1>4. CASE RepeatAgain
  <2> DEFINE n == Len(repeat)
             q == [repeat EXCEPT ![n].left = repeat[n].left - 1]
  <2>1. repeat # << >> /\ Inner.close = off /\ Inner.left > 1
    BY <1>4 DEF RepeatAgain, AtClosing
  <2>2. repeat' = q /\ off' = Inner.body
    BY <1>4 DEF RepeatAgain
  <2>3. AfterClose(Here, score) = Place(Inner.body, q, return, Len(played))
    BY <1>3, <2>1, HereIs DEF AfterClose
  <2>4. Here' = Place(Inner.body, q, return, Len(played))
    BY <1>1, <2>2 DEF Here, Place
  <2> QED  BY <1>2, <2>3, <2>4
<1>5. CASE RepeatDone
  <2>1. repeat # << >> /\ Inner.close = off /\ ~(Inner.left > 1)
    BY <1>5 DEF RepeatDone, AtClosing
  <2>2. repeat' = Without(repeat) /\ off' = off + 1
    BY <1>5 DEF RepeatDone, Without
  <2>3. AfterClose(Here, score) = Place(off + 1, Without(repeat), return, Len(played))
    BY <1>3, <2>1, HereIs DEF AfterClose
  <2>4. Here' = Place(off + 1, Without(repeat), return, Len(played))
    BY <1>1, <2>2 DEF Here, Place
  <2> QED  BY <1>2, <2>3, <2>4
<1>6. CASE StrayClose
  <2>1. (repeat = << >> \/ Inner.close # off) /\ UNCHANGED repeat
    BY <1>6 DEF StrayClose, AtClosing
  <2>2. off' = off \/ (~Strict /\ off' = off + 1)
    BY <1>6 DEF StrayClose, Fatal
  <2>3. CASE off' = off
    BY <1>1, <2>1, <2>3, SamePlace
  <2>4. CASE ~Strict /\ off' = off + 1
    <3>1. AfterClose(Here, score) = Place(off + 1, repeat, return, Len(played))
      BY <1>3, <2>1, <2>4, HereIs DEF AfterClose, Strict
    <3>2. Here' = Place(off + 1, repeat, return, Len(played))
      BY <1>1, <2>1, <2>4 DEF Here, Place
    <3> QED  BY <1>2, <3>1, <3>2
  <2> QED  BY <2>2, <2>3, <2>4
<1> QED  BY <1>4, <1>5, <1>6

LEMMA JumpReads ==
    ASSUME PlayType, StrayColon \/ ExecGoto \/ ExecRest
    PROVE  Here' = NextPlace(Here, score)
<1>1. /\ InText /\ UNCHANGED <<repeat, return, played>>
      /\ \/ Token.is \in {"rest", "colon"} /\ off' = off + 1
         \/ Token.is = "goto" /\ off' = Token.to
  BY DEF StrayColon, ExecGoto, ExecRest, Is, Quieter
<1>2. Here' = Place(off', repeat, return, Len(played))
  BY <1>1 DEF Here, Place
<1> QED  BY <1>1, <1>2, NextAtJump

LEMMA CallReads ==
    ASSUME PlayType, ExecGosub \/ ExecReturn
    PROVE  Here' = Here \/ Here' = NextPlace(Here, score)
<1>1. UNCHANGED repeat /\ UNCHANGED played
  BY DEF ExecGosub, ExecReturn, Quieter
<1>2. CASE off' = off /\ UNCHANGED return
  BY <1>1, <1>2, SamePlace
<1>3. CASE /\ Is("gosub") /\ Len(return) # StackMax
           /\ return' = Append(return, off + 1) /\ off' = Token.to
  <2>1. NextPlace(Here, score) = Place(Token.to, repeat, Append(return, off + 1), Len(played))
    BY <1>3, HereIs, NextAtStack DEF AfterGosub, Is
  <2>2. Here' = Place(Token.to, repeat, Append(return, off + 1), Len(played))
    BY <1>1, <1>3 DEF Here, Place
  <2> QED  BY <2>1, <2>2
<1>4. CASE /\ Is("return") /\ return # << >>
           /\ off' = return[Len(return)] /\ return' = Without(return)
  <2>1. NextPlace(Here, score)
            = Place(return[Len(return)], repeat, Without(return), Len(played))
    BY <1>4, HereIs, NextAtStack DEF AfterReturn, Is
  <2>2. Here' = Place(return[Len(return)], repeat, Without(return), Len(played))
    BY <1>1, <1>4 DEF Here, Place
  <2> QED  BY <2>1, <2>2
<1> QED  BY <1>2, <1>3, <1>4 DEF ExecGosub, ExecReturn, Fatal, Without

\* The note that is asked for is the next of the score's.
LEMMA NoteReads ==
    ASSUME AllRead, PlayType, NotesInv, Here \in Pages(score), ExecNote
    PROVE  NotesInv' /\ Here' \in Pages(score)
<1>1. /\ InText /\ Token.is = "note" /\ UNCHANGED <<repeat, return>> /\ UNCHANGED score
      /\ off' = off + 1 /\ played' = Append(played, Token.tone)
  BY DEF ExecNote, Is
<1>2. score \in Scores
  BY DEF PlayType, SessionType
<1>3. Token.tone \in Tone
  BY <1>1, <1>2, TokenIs, TokenFields DEF PlayType, Places
<1>4. Fits(Here, score) /\ NextPlace(Here, score) \in Pages(score)
  BY <1>2, ReadsOn
<1>5. Len(played) < Len(score.notes) /\ score.notes[Len(played) + 1] = Token.tone
  BY <1>1, <1>4, HereIs, OverIs DEF Fits
<1>6. /\ played' \in Seq(Tone) /\ Len(played') = Len(played) + 1 /\ Len(played) \in Nat
      /\ \A i \in 1..Len(played') :
            played'[i] = IF i <= Len(played) THEN played[i] ELSE Token.tone
  BY <1>1, <1>3 DEF NotesInv
<1>7. Len(score.notes) \in Nat
  <2>1. score.notes \in Seq(Tone)
    BY <1>2, PlayAssumption
  <2> QED  BY <2>1
<1>8. NotesInv'
  <2>1. Len(played') <= Len(score.notes)
    BY <1>5, <1>6, <1>7
  <2>2. \A i \in 1..Len(played') : played'[i] = score.notes[i]
    BY <1>5, <1>6 DEF NotesInv
  <2> QED  BY <1>1, <1>6, <2>1, <2>2 DEF NotesInv
<1>9. Here' = Place(off + 1, repeat, return, Len(played) + 1)
  BY <1>1, <1>6 DEF Here, Place
<1> QED  BY <1>1, <1>4, <1>8, <1>9, NextAtJump

\* At a good end no note is left.
LEMMA EndReads ==
    ASSUME AllRead, PlayType, NotesInv, Here \in Pages(score),
           ExecEnd \/ (~InText /\ repeat = << >>)
    PROVE  played = score.notes
<1>1. score \in Scores
  BY DEF PlayType, SessionType
<1>2. Fits(Here, score)
  BY <1>1, ReadsOn
<1>3. EndsAt(Here, score)
  BY HereIs, OverIs DEF EndsAt, ExecEnd, Is
<1>4. Len(played) = Len(score.notes)
  BY <1>2, <1>3, HereIs DEF Fits
<1>5. score.notes \in Seq(Tone)
  BY <1>1, PlayAssumption
<1> QED  BY <1>4, <1>5 DEF NotesInv

----------------------------------------------------------------------------
(* Where the calls are after a step.                                       *)

LEMMA AtOne ==
    ASSUME CallsType
    PROVE  /\ \A p, q : At(p) /\ At(q) => p = q
           /\ \A t : Stopping(t) => ~Idling /\ Top.then = t /\ ~At("exec")
  BY DEF At, Stopping

LEMMA OnTopBelow ==
    ASSUME CallsType, ~Idling, WaitsBelow, NEW g \in FrameSet, calls' = OnTop(g)
    PROVE  CallsType' /\ WaitsBelow' /\ ~Idling' /\ Top' = g
<1>1. CallsType' /\ ~Idling' /\ Top' = g /\ Len(calls') = Len(calls)
  BY OnTopIs
<1>2. calls \in Seq(FrameSet) /\ Len(calls) \in Nat \ {0}
  BY TopIs DEF CallsType
<1>3. \A i \in 1..(Len(calls) - 1) : calls'[i] = calls[i]
  BY <1>2 DEF OnTop
<1> QED  BY <1>1, <1>3 DEF WaitsBelow

LEMMA AppendBelow ==
    ASSUME CallsType, WaitsBelow, Idling \/ At("wait"), Len(calls) < MaxNest,
           NEW g \in FrameSet, calls' = Append(calls, g)
    PROVE  CallsType' /\ WaitsBelow' /\ ~Idling' /\ Top' = g
<1>1. CallsType' /\ ~Idling' /\ Top' = g /\ Len(calls') = Len(calls) + 1
  BY AppendIs
<1>2. calls \in Seq(FrameSet) /\ Len(calls) \in Nat
  BY DEF CallsType
<1>3. \A i \in 1..Len(calls) : calls'[i] = calls[i]
  BY <1>2
<1>4. \A i \in 1..Len(calls) : calls[i].pc = "wait"
  <2>1. CASE Idling
    BY <2>1 DEF Idling
  <2>2. CASE At("wait")
    BY <1>2, <2>2 DEF At, Top, WaitsBelow
  <2> QED  BY <2>1, <2>2
<1> QED  BY <1>1, <1>2, <1>3, <1>4 DEF WaitsBelow

LEMMA LeaveBelow ==
    ASSUME CallsType, ~Idling, WaitsBelow, Leave
    PROVE  CallsType' /\ WaitsBelow' /\ (Idling' \/ At("wait")')
<1>1. calls \in Seq(FrameSet) /\ calls # << >> /\ Len(calls) \in Nat \ {0}
  BY TopIs DEF CallsType, Idling
<1>2. /\ CallsType' /\ Len(calls') = Len(calls) - 1
      /\ \A i \in 1..(Len(calls) - 1) : calls'[i] = calls[i]
  BY <1>1, LeaveIs, PoppedIs DEF Leave
<1>3. \A i \in 1..Len(calls') : calls'[i].pc = "wait"
  BY <1>2 DEF WaitsBelow
<1>4. Idling' \/ At("wait")'
  <2>1. CASE Len(calls') = 0
    BY <1>2, <2>1 DEF Idling, CallsType
  <2>2. CASE Len(calls') # 0
    <3>1. Len(calls') \in 1..Len(calls') /\ ~Idling'
      BY <1>1, <1>2, <2>2 DEF Idling
    <3> QED  BY <1>3, <3>1 DEF At, Top
  <2> QED  BY <2>1, <2>2
<1>5. WaitsBelow'
  BY <1>1, <1>2, <1>3 DEF WaitsBelow
<1> QED  BY <1>2, <1>4, <1>5

\* Nothing is stopping, and no token is being read.
Aside == \A t : ~Stopping(t) /\ ~At("exec")

LEMMA AsideIs ==
    /\ Idling \/ At("wait") \/ At("tone") \/ At("hot") \/ At("pend") \/ At("cold") \/ At("begin")
          => Aside
    /\ (Idling \/ At("wait") \/ At("tone") \/ At("hot") \/ At("pend") \/ At("cold")
           \/ At("begin"))' => Aside'
  BY DEF Aside, At, Stopping

\* A step of the synthesizer neither ends nor begins any of that.
LEMMA SynthBelow ==
    ASSUME CallsType, WaitsBelow, clock \in Times, SynthStep
    PROVE  /\ WaitsBelow' /\ ~At("exec")' /\ ~At("exec")
           /\ \A t : Stopping(t)' <=> Stopping(t)
<1>1. ASSUME NEW p \in {"tone", "hot", "pend", "cold", "wait", "begin"}, At(p),
             NEW q \in {"hot", "pend", "cold", "begin"}, Goto(q)
      PROVE  WaitsBelow' /\ Aside' /\ Aside
  <2> DEFINE g == [Top EXCEPT !.pc = q]
  <2>1. ~Idling /\ Top \in FrameSet /\ q \in Pcs
    BY <1>1, TopIs, Names DEF At
  <2>2. g \in FrameSet /\ g.pc = q /\ calls' = OnTop(g)
    BY <1>1, <2>1, FrameField DEF Goto
  <2> HIDE DEF g
  <2>3. WaitsBelow' /\ At(q)'
    BY <2>1, <2>2, OnTopBelow DEF At
  <2>4. Aside' /\ Aside
    BY <1>1, <2>3, AsideIs
  <2> QED  BY <2>3, <2>4
<1>2. ASSUME At("pend") \/ At("begin"), Leave PROVE WaitsBelow' /\ Aside' /\ Aside
  <2>1. ~Idling
    BY <1>2 DEF At
  <2>2. WaitsBelow' /\ (Idling' \/ At("wait")')
    BY <1>2, <2>1, LeaveBelow
  <2> QED  BY <1>2, <2>2, AsideIs
<1>3. ASSUME At("cold"), calls' = OnTop([Top EXCEPT !.pc = "wait", !.since = clock]),
             clock \in Times
      PROVE  WaitsBelow' /\ Aside' /\ Aside
  <2> DEFINE f == [Top EXCEPT !.pc = "wait"]
             g == [f EXCEPT !.since = clock]
  <2>1. ~Idling /\ Top \in FrameSet
    BY <1>3, TopIs DEF At
  <2>2. f \in FrameSet /\ f.pc = "wait"
    BY <2>1, FrameField, Names
  <2> HIDE DEF f
  <2>3. g \in FrameSet /\ g.pc = "wait"
    BY <1>3, <2>2, FrameField
  <2>4. calls' = OnTop(g)
    BY <1>3 DEF f, g
  <2> HIDE DEF g
  <2>5. WaitsBelow' /\ At("wait")'
    BY <2>1, <2>3, <2>4, OnTopBelow DEF At
  <2> QED  BY <1>3, <2>5, AsideIs
<1>4. ASSUME At("stop") \/ At("cancel"), NEW q \in {"cancel", "stopped"}, Goto(q)
      PROVE  /\ WaitsBelow' /\ ~At("exec")' /\ ~At("exec")
             /\ \A t : Stopping(t)' <=> Stopping(t)
  <2> DEFINE g == [Top EXCEPT !.pc = q]
  <2>1. ~Idling /\ Top \in FrameSet /\ q \in Pcs
    BY <1>4, TopIs, Names DEF At
  <2>2. g \in FrameSet /\ g.pc = q /\ g.then = Top.then /\ calls' = OnTop(g)
    BY <1>4, <2>1, FrameField DEF Goto
  <2> HIDE DEF g
  <2>3. WaitsBelow' /\ ~Idling' /\ Top'.pc = q /\ Top'.then = Top.then
    BY <2>1, <2>2, OnTopBelow
  <2> QED  BY <1>4, <2>3 DEF At, Stopping
<1>5. ASSUME WaitsBelow' /\ Aside' /\ Aside
      PROVE  /\ WaitsBelow' /\ ~At("exec")' /\ ~At("exec")
             /\ \A t : Stopping(t)' <=> Stopping(t)
  BY <1>5 DEF Aside
<1>6. CASE SetToneLook
  <2>1. At("tone") /\ (Goto("hot") \/ Goto("cold"))
    BY <1>6 DEF SetToneLook
  <2> QED  BY <1>1, <1>5, <2>1
<1>7. CASE HotRelease
  <2>1. At("hot") /\ Goto("pend")
    BY <1>7 DEF HotRelease
  <2> QED  BY <1>1, <1>5, <2>1
<1>8. CASE HotPending \/ ColdBusy \/ ColdNoMemory \/ ColdStart \/ ColdRefused
  <2>1. (At("pend") \/ At("begin")) /\ Leave
    BY <1>8 DEF HotPending, ColdBusy, ColdNoMemory, ColdStart, ColdRefused
  <2> QED  BY <1>2, <1>5, <2>1
<1>9. CASE ColdTune
  <2>1. At("cold")
    BY <1>9 DEF ColdTune
  <2>2. CASE Goto("begin")
    BY <1>1, <1>5, <2>1, <2>2
  <2>3. CASE calls' = OnTop([Top EXCEPT !.pc = "wait", !.since = clock])
    BY <1>3, <1>5, <2>1, <2>3
  <2> QED  BY <1>9, <2>2, <2>3 DEF ColdTune
<1>10. CASE WaitEnds
  <2>1. At("wait") /\ Goto("begin")
    BY <1>10 DEF WaitEnds
  <2> QED  BY <1>1, <1>5, <2>1
<1>11. CASE StopRelease \/ StopCancel
  <2>1. (At("stop") \/ At("cancel")) /\ (Goto("cancel") \/ Goto("stopped"))
    BY <1>11 DEF StopRelease, StopCancel
  <2> QED  BY <1>4, <2>1
<1> QED  BY <1>6, <1>7, <1>8, <1>9, <1>10, <1>11 DEF SynthStep

LEMMA StopThenIs ==
    ASSUME CallsType, WaitsBelow, ~Idling, NEW what \in Thens, StopThen(what)
    PROVE  /\ WaitsBelow' /\ ~At("exec")'
           /\ Stopping(what)' /\ \A t : Stopping(t)' => t = what
<1> DEFINE g == [Frame("stop") EXCEPT !.then = what]
<1>1. g \in FrameSet /\ g.pc = "stop" /\ g.then = what
  BY StopFrameIs
<1>2. calls' = OnTop(g)
  BY DEF StopThen
<1> HIDE DEF g
<1>3. WaitsBelow' /\ ~Idling' /\ Top' = g
  BY <1>1, <1>2, OnTopBelow
<1> QED  BY <1>1, <1>3 DEF At, Stopping

----------------------------------------------------------------------------
(* Every step keeps the sequencer's place in the reading.                  *)

LEMMA ReadKept ==
    ASSUME ReadInv, UNCHANGED <<state, score, off, repeat, return, played>>,
           WaitsBelow', At("exec")' => state \in {"running", "fault"},
           Underway' => Underway, Stopping("ended")' => Stopping("ended")
    PROVE  ReadInv'
<1>1. Here' = Here /\ score' = score /\ state' = state /\ played' = played
  BY SamePlace
<1>2. NotesInv'
  BY <1>1 DEF ReadInv, NotesInv
<1> QED  BY <1>1, <1>2 DEF ReadInv

\* A step that leaves the sequencer running, or does not, with nothing pending.
LEMMA AsideReads ==
    ASSUME CallsType, ReadInv, WaitsBelow', Aside', Here' = Here,
           UNCHANGED <<score, played>>,
           state' = "running" => Here \in Pages(score),
           state' = "ended" => played = score.notes
    PROVE  ReadInv'
<1>1. NotesInv'
  BY DEF ReadInv, NotesInv
<1> QED  BY <1>1 DEF ReadInv, Aside, Underway

LEMMA SynthReads == ASSUME IInv, ReadInv, SynthStep, UNCHANGED playVars PROVE ReadInv'
<1>1. CallsType /\ clock \in Times /\ WaitsBelow
  BY DEF IInv, TypeInv, SynthType, ReadInv
<1>2. /\ WaitsBelow' /\ ~At("exec")' /\ ~At("exec")
      /\ \A t : Stopping(t)' <=> Stopping(t)
  BY <1>1, SynthBelow
<1>3. UNCHANGED <<state, score, off, repeat, return, played>>
  BY DEF playVars
<1>4. Underway' => Underway
  BY <1>2, <1>3 DEF Underway
<1> QED  BY <1>2, <1>3, <1>4, ReadKept

LEMMA PollReads ==
    ASSUME IInv, ReadInv, PollParse \/ PollSoundOver \/ PollSoundToGap \/ PollGapOver
    PROVE  ReadInv'
<1>1. CallsType /\ WaitsBelow
  BY DEF IInv, TypeInv, ReadInv
<1>2. /\ state = "running" /\ (Idling \/ At("wait")) /\ Len(calls) < MaxNest
      /\ UNCHANGED <<state, score, off, repeat, return, played>>
  <2>1. Idling => Len(calls) < MaxNest
    BY <1>1, IdlingIs, PlayAssumption
  <2>2. Polled /\ UNCHANGED <<state, score, off, repeat, return, played>>
    BY DEF PollParse, PollSoundOver, PollSoundToGap, PollGapOver, playVars
  <2> QED  BY <2>1, <2>2 DEF Polled, Due, Nested
<1>3. Aside /\ Underway
  BY <1>2, AsideIs DEF Aside, Underway
<1>4. CASE PollParse
  <2> DEFINE g == Frame("exec")
  <2>1. g \in FrameSet /\ g.pc = "exec"
    BY FrameIs, Names
  <2>2. calls' = Append(calls, g)
    BY <1>4 DEF PollParse
  <2> HIDE DEF g
  <2>3. WaitsBelow' /\ Top'.pc = "exec"
    BY <1>1, <1>2, <2>1, <2>2, AppendBelow
  <2>4. ~Stopping("ended")'
    BY <2>3 DEF Stopping, At
  <2> QED  BY <1>2, <1>3, <2>3, <2>4, ReadKept
<1>5. CASE PollSoundToGap
  <2> DEFINE g == [Frame("stop") EXCEPT !.then = "gap"]
  <2>1. g \in FrameSet /\ g.pc = "stop" /\ g.then = "gap"
    BY StopFrameIs, Names
  <2>2. calls' = Append(calls, g)
    BY <1>5 DEF PollSoundToGap
  <2> HIDE DEF g
  <2>3. WaitsBelow' /\ Top'.pc = "stop" /\ Top'.then = "gap"
    BY <1>1, <1>2, <2>1, <2>2, AppendBelow
  <2>4. ~Stopping("ended")' /\ ~At("exec")'
    BY <2>3 DEF Stopping, At
  <2> QED  BY <1>2, <1>3, <2>3, <2>4, ReadKept
<1>6. CASE PollSoundOver \/ PollGapOver
  <2>1. calls' = calls
    BY <1>6 DEF PollSoundOver, PollGapOver
  <2>2. WaitsBelow' /\ ~At("exec")' /\ ~Stopping("ended")'
    BY <1>1, <1>3, <2>1 DEF WaitsBelow, Aside, At, Stopping, Idling, Top
  <2> QED  BY <1>2, <1>3, <2>2, ReadKept
<1> QED  BY <1>4, <1>5, <1>6

LEMMA StopFrameReads ==
    ASSUME CallsType, ~Idling, ReadInv, NEW what \in {"fault", "faultIgnored"},
           StopThen(what), UNCHANGED <<state, score, played>>, state # "ended",
           Here' \in Pages(score)
    PROVE  ReadInv'
<1>1. what \in Thens
  BY Names
<1>2. /\ WaitsBelow' /\ ~At("exec")'
      /\ Stopping(what)' /\ \A t : Stopping(t)' => t = what
  BY <1>1, StopThenIs DEF ReadInv
<1>3. NotesInv'
  BY DEF ReadInv, NotesInv
<1>4. ~Stopping("ended")'
  BY <1>2
<1> QED  BY <1>2, <1>3, <1>4 DEF ReadInv

LEMMA TokenReads ==
    ASSUME AllRead, IInv, ReadInv,
           OpenRepeat \/ RepeatAgain \/ RepeatDone \/ StrayClose \/ StrayColon
              \/ ExecGoto \/ ExecGosub \/ ExecReturn
    PROVE  ReadInv'
<1>1. CallsType /\ PlayType /\ score \in Scores
  BY DEF IInv, TypeInv, PlayType, SessionType
<1>2. /\ At("exec") /\ UNCHANGED <<state, score, played>>
      /\ UNCHANGED calls \/ StopThen("fault") \/ StopThen("faultIgnored")
  BY DEF OpenRepeat, RepeatAgain, RepeatDone, StrayClose, StrayColon, ExecGoto, ExecGosub,
         ExecReturn, Fatal, Quieter, Is, AtClosing
<1>3. ~Idling /\ Underway /\ state # "ended" /\ Here \in Pages(score)
  BY <1>2 DEF At, Underway, ReadInv
<1>4. Here' = Here \/ Here' = NextPlace(Here, score)
  BY <1>1, OpenReads, CloseReads, JumpReads, CallReads
<1>5. Here' \in Pages(score)
  BY <1>1, <1>3, <1>4, ReadsOn
<1>6. CASE UNCHANGED calls
  <2>1. /\ WaitsBelow' /\ (At("exec")' <=> At("exec"))
        /\ (Stopping("ended")' <=> Stopping("ended"))
    BY <1>6 DEF ReadInv, WaitsBelow, At, Stopping, Idling, Top
  <2>2. NotesInv'
    BY <1>2 DEF ReadInv, NotesInv
  <2> QED  BY <1>2, <1>5, <2>1, <2>2 DEF ReadInv
<1>7. CASE StopThen("fault") \/ StopThen("faultIgnored")
  BY <1>1, <1>2, <1>3, <1>5, <1>7, StopFrameReads
<1> QED  BY <1>2, <1>6, <1>7

LEMMA EndingReads ==
    ASSUME AllRead, IInv, ReadInv, EndOfText \/ ExecEnd PROVE ReadInv'
<1>1. CallsType /\ PlayType /\ score \in Scores
  BY DEF IInv, TypeInv, PlayType, SessionType
<1>2. /\ At("exec") /\ UNCHANGED <<state, score, played>>
      /\ ExecEnd \/ (~InText /\ UNCHANGED <<off, repeat, return>>)
  BY DEF EndOfText, ExecEnd, Quieter, Is
<1>3. /\ ~Idling /\ Underway /\ state # "ended" /\ Here \in Pages(score)
      /\ NotesInv /\ WaitsBelow
  BY <1>2 DEF At, Underway, ReadInv
<1>4. ASSUME StopThen("ended"), played = score.notes PROVE ReadInv'
  <2>1. /\ WaitsBelow' /\ ~At("exec")'
        /\ Stopping("ended")' /\ \A t : Stopping(t)' => t = "ended"
    BY <1>1, <1>3, <1>4, StopThenIs, Names
  <2>2. ~Stopping("faultIgnored")' /\ ~Stopping("restart")'
    BY <2>1
  <2>3. NotesInv'
    BY <1>2, <1>3 DEF NotesInv
  <2> QED  BY <1>2, <1>4, <2>1, <2>2, <2>3 DEF ReadInv, Underway
<1>5. CASE ExecEnd
  BY <1>1, <1>3, <1>4, <1>5, EndReads DEF ExecEnd
<1>6. CASE EndOfText
  <2>1. Here' = Here
    BY <1>2, <1>6, SamePlace DEF EndOfText
  <2>2. CASE repeat = << >> /\ StopThen("ended")
    BY <1>1, <1>3, <1>4, <1>6, <2>2, EndReads DEF EndOfText
  <2>3. CASE StopThen("fault")
    BY <1>1, <1>2, <1>3, <2>1, <2>3, StopFrameReads
  <2>4. CASE Leave
    <3>1. WaitsBelow' /\ (Idling' \/ At("wait")')
      BY <1>1, <1>3, <2>4, LeaveBelow
    <3> QED  BY <1>1, <1>2, <1>3, <2>1, <3>1, AsideIs, AsideReads
  <2> QED  BY <1>6, <2>2, <2>3, <2>4 DEF EndOfText
<1> QED  BY <1>5, <1>6

LEMMA SoundingReads ==
    ASSUME AllRead, IInv, ReadInv, ExecRest \/ ExecNote PROVE ReadInv'
<1>1. CallsType /\ PlayType /\ score \in Scores
  BY DEF IInv, TypeInv, PlayType, SessionType
<1>2. At("exec") /\ UNCHANGED <<state, score>>
  BY DEF ExecRest, ExecNote, Is
<1>3. /\ ~Idling /\ Underway /\ state # "ended" /\ Here \in Pages(score)
      /\ NotesInv /\ WaitsBelow
  BY <1>2 DEF At, Underway, ReadInv
<1>4. ASSUME NotesInv', Here' \in Pages(score), WaitsBelow', Aside' PROVE ReadInv'
  BY <1>2, <1>3, <1>4 DEF ReadInv, Aside
<1>5. CASE ExecRest
  <2>1. Here' \in Pages(score)
    BY <1>1, <1>3, <1>5, JumpReads, ReadsOn
  <2>2. NotesInv'
    BY <1>2, <1>3, <1>5 DEF ExecRest, NotesInv
  <2>3. WaitsBelow' /\ (Idling' \/ At("wait")')
    BY <1>1, <1>3, <1>5, LeaveBelow DEF ExecRest
  <2> QED  BY <1>4, <2>1, <2>2, <2>3, AsideIs
<1>6. CASE ExecNote
  <2> DEFINE g == [Frame("tone") EXCEPT !.tone = Token.tone]
  <2>1. Token.tone \in Tone
    BY <1>1, <1>6, TokenIs, TokenFields DEF ExecNote, Is, PlayType, Places
  <2>2. g \in FrameSet /\ g.pc = "tone"
    BY <2>1, ToneFrameIs DEF Tones
  <2>3. calls' = OnTop(g)
    BY <1>6 DEF ExecNote
  <2> HIDE DEF g
  <2>4. WaitsBelow' /\ At("tone")'
    BY <1>1, <1>3, <2>2, <2>3, OnTopBelow DEF At
  <2>5. NotesInv' /\ Here' \in Pages(score)
    BY <1>1, <1>3, <1>6, NoteReads
  <2> QED  BY <1>4, <2>4, <2>5, AsideIs
<1> QED  BY <1>5, <1>6

LEMMA ThenReads ==
    ASSUME IInv, ReadInv,
           \/ ThenGap \/ ThenFaultIgnored \/ ThenRestart \/ ThenRejected
           \/ \E how \in {"ended", "fault", "stopped"} : ThenOver(how)
    PROVE  ReadInv'
<1>1. CallsType /\ WaitsBelow /\ NotesInv
  BY DEF IInv, TypeInv, ReadInv
<1>2. ASSUME NEW then, AfterStop(then) PROVE ~Idling /\ Stopping(then)
  BY <1>2 DEF AfterStop, At, Stopping
<1>3. ASSUME ~Idling, Leave PROVE WaitsBelow' /\ Aside'
  BY <1>1, <1>3, LeaveBelow, AsideIs
<1>4. UNCHANGED <<score, off, repeat, return, played>> /\ Here' = Here
  BY SamePlace DEF ThenGap, ThenFaultIgnored, ThenRestart, ThenRejected, ThenOver, playVars
<1>5. CASE ThenGap
  <2>1. Stopping("gap") /\ WaitsBelow' /\ Aside' /\ UNCHANGED state
    BY <1>2, <1>3, <1>5 DEF ThenGap
  <2>2. ~Stopping("ended")
    BY <2>1 DEF Stopping
  <2>3. state = "running" => Here \in Pages(score)
    BY <2>2 DEF ReadInv, Underway
  <2> QED  BY <1>1, <1>4, <2>1, <2>3, AsideReads DEF ReadInv
<1>6. CASE ThenRestart
  <2>1. Stopping("restart") /\ WaitsBelow' /\ Aside' /\ state' = "running"
    BY <1>2, <1>3, <1>6 DEF ThenRestart
  <2>2. Here \in Pages(score)
    BY <2>1 DEF ReadInv, Underway
  <2> QED  BY <1>1, <1>4, <2>1, <2>2, AsideReads
<1>7. ASSUME NEW how \in {"ended", "fault", "stopped"}, ThenOver(how) PROVE ReadInv'
  <2>1. Stopping(how) /\ WaitsBelow' /\ Aside' /\ state' = how
    BY <1>2, <1>3, <1>7 DEF ThenOver
  <2>2. state' = "ended" => played = score.notes
    BY <2>1 DEF ReadInv
  <2> QED  BY <1>1, <1>4, <2>1, <2>2, AsideReads
<1>8. CASE ThenFaultIgnored
  <2> DEFINE g == [Top EXCEPT !.pc = "exec"]
  <2>1. Stopping("faultIgnored") /\ ~Idling /\ calls' = OnTop(g) /\ state' = "fault"
    BY <1>2, <1>8 DEF ThenFaultIgnored, Goto
  <2>2. g \in FrameSet /\ g.pc = "exec"
    BY <1>1, <2>1, TopIs, FrameField, Names
  <2> HIDE DEF g
  <2>3. WaitsBelow' /\ Top'.pc = "exec"
    BY <1>1, <2>1, <2>2, OnTopBelow
  <2>4. ~Stopping("ended")'
    BY <2>3 DEF Stopping, At
  <2>5. Here \in Pages(score)
    BY <2>1 DEF ReadInv, Underway
  <2>6. NotesInv'
    BY <1>1, <1>4 DEF NotesInv
  <2> QED  BY <1>4, <2>1, <2>3, <2>4, <2>5, <2>6 DEF ReadInv
<1>9. CASE ThenRejected
  <2>1. Stopping("restart") /\ ~Idling /\ StopThen("fault") /\ UNCHANGED state
    BY <1>2, <1>9 DEF ThenRejected, playVars
  <2>2. Underway
    BY <2>1 DEF Underway
  <2>3. /\ WaitsBelow' /\ ~At("exec")' /\ \A t : Stopping(t)' => t = "fault"
    BY <1>1, <2>1, StopThenIs, Names
  <2>4. ~Stopping("ended")'
    BY <2>3
  <2> QED  BY <1>4, <2>1, <2>2, <2>3, <2>4, ReadKept
<1> QED  BY <1>5, <1>6, <1>7, <1>8, <1>9

LEMMA CommandReads ==
    ASSUME AllRead, IInv, ReadInv, (\E s \in Scores : Start(s)) \/ Stop PROVE ReadInv'
<1>1. CallsType
  BY DEF IInv, TypeInv
<1>2. ASSUME NEW what \in Thens, calls' = <<[Frame("stop") EXCEPT !.then = what]>>
      PROVE  /\ WaitsBelow' /\ ~At("exec")'
             /\ \A t : Stopping(t)' => t = what
  <2> DEFINE g == [Frame("stop") EXCEPT !.then = what]
  <2>1. g.pc = "stop" /\ g.then = what
    BY StopFrameIs
  <2>2. calls' = <<g>>
    BY <1>2
  <2> HIDE DEF g
  <2>3. Len(calls') = 1 /\ calls'[1] = g
    BY <2>2
  <2> QED  BY <2>1, <2>3 DEF WaitsBelow, At, Stopping, Top
<1>3. ASSUME NEW s \in Scores, Start(s) PROVE ReadInv'
  <2>1. /\ score' = s /\ off' = 1 /\ repeat' = << >> /\ return' = << >> /\ played' = << >>
        /\ state' = "loading" /\ calls' = <<[Frame("stop") EXCEPT !.then = "restart"]>>
    BY <1>3 DEF Start
  <2>2. WaitsBelow' /\ ~At("exec")' /\ \A t : Stopping(t)' => t = "restart"
    BY <1>2, <2>1, Names
  <2>3. ~Stopping("ended")'
    BY <2>2
  <2>4. Here' = FirstPlace
    BY <2>1 DEF Here, FirstPlace, Place
  <2>5. Here' \in Pages(score')
    BY <2>1, <2>4, ReadsOn
  <2>6. NotesInv'
    <3>1. s.notes \in Seq(Tone)
      BY PlayAssumption
    <3> QED  BY <2>1, <3>1 DEF NotesInv
  <2> QED  BY <2>1, <2>2, <2>3, <2>5, <2>6 DEF ReadInv
<1>4. CASE Stop
  <2>1. /\ Idling /\ UNCHANGED <<state, score, off, repeat, return, played>>
        /\ calls' = <<[Frame("stop") EXCEPT !.then = "stopped"]>>
    BY <1>4 DEF Stop, playVars
  <2>2. WaitsBelow' /\ ~At("exec")' /\ \A t : Stopping(t)' => t = "stopped"
    BY <1>2, <2>1, Names
  <2>3. ~Stopping("ended")' /\ ~Stopping("faultIgnored")' /\ ~Stopping("restart")'
    BY <2>2
  <2>4. Underway' => Underway
    BY <2>1, <2>2, <2>3 DEF Underway, Stopping, At
  <2> QED  BY <2>1, <2>2, <2>3, <2>4, ReadKept
<1> QED  BY <1>3, <1>4

LEMMA PlayReads == ASSUME AllRead, IInv, ReadInv, PlayAction PROVE ReadInv'
  BY PollReads, TokenReads, EndingReads, SoundingReads, ThenReads, CommandReads
     DEF PlayAction

LEMMA StepReads == ASSUME AllRead, IInv, ReadInv, [Next]_vars PROVE ReadInv'
<1>1. CASE UNCHANGED calls /\ UNCHANGED playVars
  <2>1. /\ WaitsBelow' /\ (At("exec")' <=> At("exec")) /\ (Underway' <=> Underway)
        /\ (Stopping("ended")' <=> Stopping("ended"))
    BY <1>1 DEF ReadInv, WaitsBelow, At, Stopping, Idling, Top, Underway, playVars
  <2> QED  BY <1>1, <2>1, ReadKept DEF ReadInv, playVars
<1>2. CASE Tick \/ (SaiError /\ UNCHANGED playVars) \/ UNCHANGED vars
  BY <1>1, <1>2 DEF Tick, SaiError, vars, synthVars
<1> QED  BY <1>2, Steps, SynthReads, PlayReads

\* Whenever polls come and however deep they nest, whatever fails and however the
\* timeline slips, the notes asked for are the score's, in its order, each once,
\* and a piece that ends well has asked for all of them: for every score whose
\* notes are those of a reading of its text.
THEOREM PlayPlaysScore == ASSUME AllRead PROVE Spec => []PlaysScore
<1>1. Init => ReadInv
  <2> SUFFICES ASSUME Init PROVE ReadInv
    OBVIOUS
  <2>1. /\ state = "idle" /\ score \in Scores /\ played = << >> /\ calls = << >>
    BY DEF Init, SynthInit
  <2>2. NotesInv
    <3>1. score.notes \in Seq(Tone)
      BY <2>1, PlayAssumption
    <3> QED  BY <2>1, <3>1 DEF NotesInv
  <2>3. WaitsBelow /\ ~Underway /\ ~Stopping("ended") /\ ~At("exec")
    BY <2>1 DEF WaitsBelow, Underway, Stopping, At, Idling
  <2> QED  BY <2>1, <2>2, <2>3 DEF ReadInv
<1>2. IInv /\ ReadInv /\ [Next]_vars => ReadInv'
  BY StepReads
<1>3. ReadInv => PlaysScore
  BY DEF ReadInv, NotesInv, PlaysScore
<1> QED  BY <1>1, <1>2, <1>3, PlayInvariant, PTL DEF Spec

=============================================================================
