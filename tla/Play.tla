-------------------------------- MODULE Play --------------------------------
(***************************************************************************)
(* The PLAY sequencer (App/Src/play.c) over the synthesizer: one instance, *)
(* polled by the main loop and again by every wait for the output's drain, *)
(* which is inside set_tone, which the sequencer calls.                    *)
(*                                                                         *)
(* A score is its text as a sequence of tokens.  Of the notes' data only   *)
(* the duration and the sounding part of it are kept, in halves; octave,   *)
(* key, tempo and the memory they are inherited through are left out.      *)
(***************************************************************************)
EXTENDS SynthOut, Reading

CONSTANTS Scores,      \* [text, policy, notes]: text, fault policy, and the
                       \* notes a reader of the score expects, in order
          MaxNest,     \* bound: polls inside one another
          MaxStarts,   \* bound: calls of b_play_start
          Encores      \* bound: the scores started after the first

\* A note that no part of sounds is scheduled as a rest, and given as one.
TokenSet == [is : {"note"}, tone : Tone, active : Nat \ {0}, halves : Nat]
            \cup [is : {"rest"}, halves : Nat]
            \cup [is : {"close"}, n : Nat]
            \cup [is : {"goto", "gosub"}, to : Nat]
            \cup [is : {"open", "colon", "end", "return"}]

\* A jump leads to a label of the text, which may stand at its end.
ASSUME PlayAssumption ==
    /\ \A s \in Scores :
          /\ s.text \in Seq(TokenSet) /\ s.notes \in Seq(Tone)
          /\ \A i \in 1..Len(s.text) :
                s.text[i].is \in {"goto", "gosub"} => s.text[i].to \in 1..(Len(s.text) + 1)
    /\ StackMax \in Nat /\ MaxNest \in Nat \ {0} /\ MaxStarts \in Nat

VARIABLES
    state,      \* e_state
    phase,      \* e_phase
    score,      \* psz_src and the fault policy
    off,        \* u32_src_offset
    repeat,     \* the stack of open repeats
    return,     \* the call stack
    line,       \* the timeline: seeded, ideal, deadline, end
    played,     \* history: the notes asked for, in order
    starts

playVars == <<state, phase, score, off, repeat, return, line, played, starts>>
vars == <<synthVars, playVars>>

Text == score.text
Token == Text[off]
InText == off <= Len(Text)
Is(type) == At("exec") /\ InText /\ Token.is = type

\* (int32_t)(tick - deadline) >= 0.
Reached(deadline) == Elapsed(deadline) < ClockMod \div 2
After(start, halves) == (start + halves) % ClockMod

Due == state = "running" /\ (phase = "parse" \/ Reached(line.deadline))

----------------------------------------------------------------------------
\* v_play_poll, from the main loop or from a wait.  A poll that has nothing to
\* do changes nothing.

Nested == At("wait") /\ ~WaitOver /\ Len(calls) < MaxNest

Polled ==
    /\ Due
    /\ \/ Idling /\ UNCHANGED spoilt
       \/ Nested /\ spoilt' = spoilt \cup {"reentry"}

Quiet == UNCHANGED <<env, i2s, heard, asked, clock, stall, faults>>

PollParse ==
    /\ Polled /\ phase = "parse"
    /\ calls' = Append(calls, Frame("exec"))
    /\ Quiet /\ UNCHANGED playVars

PollSoundOver ==
    /\ Polled /\ phase = "sound" /\ Reached(line.end)
    /\ phase' = "parse"
    /\ Quiet /\ UNCHANGED <<calls, state, score, off, repeat, return, line, played, starts>>

PollSoundToGap ==
    /\ Polled /\ phase = "sound" /\ ~Reached(line.end)
    /\ calls' = Append(calls, [Frame("stop") EXCEPT !.then = "gap"])
    /\ Quiet /\ UNCHANGED playVars

PollGapOver ==
    /\ Polled /\ phase = "gap"
    /\ phase' = "parse"
    /\ Quiet /\ UNCHANGED <<calls, state, score, off, repeat, return, line, played, starts>>

----------------------------------------------------------------------------
\* b_play_exec_next: tokens until a note, a rest, the end or a fault.

StopThen(what) == calls' = OnTop([Frame("stop") EXCEPT !.then = what])

\* b_play_fault.  A recoverable fault stops the piece only in a strict session;
\* three of its callers go on even then.
Fatal == StopThen("fault") /\ UNCHANGED <<off, spoilt>>

Strict == score.policy = "strict"

Quieter == Quiet /\ UNCHANGED <<state, phase, score, line, played, starts>>

EndOfText ==
    /\ At("exec") /\ ~InText
    /\ \/ repeat = << >> /\ StopThen("ended")
       \/ repeat # << >> /\ Strict /\ StopThen("fault")
       \/ repeat # << >> /\ ~Strict /\ Leave
    /\ Quieter /\ UNCHANGED <<off, repeat, return, spoilt>>

ExecEnd ==
    /\ Is("end")
    /\ off' = off + 1
    /\ StopThen("ended")
    /\ Quieter /\ UNCHANGED <<repeat, return, spoilt>>

Closing(i) == ClosingIn(Text, i)

OpenRepeat ==
    /\ Is("open")
    /\ IF Closing(off) = 0 \/ Len(repeat) = StackMax
       THEN Fatal /\ UNCHANGED repeat
       ELSE /\ repeat' = Append(repeat, [body |-> off + 1, close |-> Closing(off),
                                         left |-> Passes(Text[Closing(off)].n)])
            /\ off' = off + 1
            /\ UNCHANGED <<calls, spoilt>>
    /\ Quieter /\ UNCHANGED return

Inner == repeat[Len(repeat)]
AtClosing == Is("close") /\ repeat # << >> /\ Inner.close = off

\* Mutant: a repeat plays once more than it says.
RepeatAgainOnceMore ==
    /\ AtClosing /\ Inner.left > 0
    /\ repeat' = [repeat EXCEPT ![Len(repeat)].left = @ - 1]
    /\ off' = Inner.body
    /\ Quieter /\ UNCHANGED <<calls, return, spoilt>>

RepeatAgain ==
    /\ AtClosing /\ Inner.left > 1
    /\ repeat' = [repeat EXCEPT ![Len(repeat)].left = @ - 1]
    /\ off' = Inner.body
    /\ Quieter /\ UNCHANGED <<calls, return, spoilt>>

RepeatDone ==
    /\ AtClosing /\ ~(Inner.left > 1)
    /\ repeat' = SubSeq(repeat, 1, Len(repeat) - 1)
    /\ off' = off + 1
    /\ Quieter /\ UNCHANGED <<calls, return, spoilt>>

\* A closing bracket of no open repeat is an unsupported token.
StrayClose ==
    /\ Is("close") /\ ~AtClosing
    /\ IF Strict THEN Fatal
       ELSE off' = off + 1 /\ UNCHANGED <<calls, spoilt>>
    /\ Quieter /\ UNCHANGED <<repeat, return>>

\* The result of the fault is not looked at.
StrayColon ==
    /\ Is("colon")
    /\ off' = off + 1
    /\ IF Strict THEN StopThen("faultIgnored") /\ spoilt' = spoilt \cup {"ignored"}
       ELSE UNCHANGED <<calls, spoilt>>
    /\ Quieter /\ UNCHANGED <<repeat, return>>

ExecGoto ==
    /\ Is("goto")
    /\ off' = Token.to
    /\ Quieter /\ UNCHANGED <<calls, repeat, return, spoilt>>

\* Mutant: the depth of the call stack is not checked.
ExecGosubUnchecked ==
    /\ Is("gosub")
    /\ return' = Append(return, off + 1)
    /\ off' = Token.to
    /\ Quieter /\ UNCHANGED <<calls, repeat, spoilt>>

ExecGosub ==
    /\ Is("gosub")
    /\ IF Len(return) = StackMax
       THEN Fatal /\ UNCHANGED return
       ELSE /\ return' = Append(return, off + 1)
            /\ off' = Token.to
            /\ UNCHANGED <<calls, spoilt>>
    /\ Quieter /\ UNCHANGED repeat

ExecReturn ==
    /\ Is("return")
    /\ IF return = << >>
       THEN Fatal /\ UNCHANGED return
       ELSE /\ off' = return[Len(return)]
            /\ return' = SubSeq(return, 1, Len(return) - 1)
            /\ UNCHANGED <<calls, spoilt>>
    /\ Quieter /\ UNCHANGED repeat

\* v_play_start_note: the ideal timeline starts with the first note and then
\* runs on by itself, however late the poll comes.
Scheduled(active, halves) ==
    LET start == IF line.seeded THEN line.ideal ELSE clock IN
    line' = [seeded |-> TRUE, ideal |-> After(start, halves),
             end |-> After(start, halves), deadline |-> After(start, active)]

ExecRest ==
    /\ Is("rest")
    /\ off' = off + 1
    /\ Scheduled(Token.halves, Token.halves)
    /\ phase' = "gap"
    /\ Leave
    /\ Quiet /\ UNCHANGED <<state, score, repeat, return, played, starts, spoilt>>

ExecNote ==
    /\ Is("note")
    /\ off' = off + 1
    /\ Scheduled(Token.active, Token.halves)
    /\ phase' = "sound"
    /\ played' = Append(played, Token.tone)
    /\ asked' = Token.tone
    /\ calls' = OnTop([Frame("tone") EXCEPT !.tone = Token.tone])
    /\ spoilt' = spoilt \ {"race", "fault"}
    /\ UNCHANGED <<env, i2s, heard, clock, stall, faults,
                   state, score, repeat, return, starts>>

----------------------------------------------------------------------------
\* What follows a stop of the synthesizer.

Unseeded == [seeded |-> FALSE, ideal |-> 0, end |-> 0, deadline |-> 0]

AfterStop(then) == At("stopped") /\ Top.then = then /\ Quiet /\ UNCHANGED spoilt

ThenGap ==
    /\ AfterStop("gap")
    /\ Leave
    /\ phase' = "gap"
    /\ line' = [line EXCEPT !.deadline = line.end]
    /\ UNCHANGED <<state, score, off, repeat, return, played, starts>>

ThenOver(how) ==
    /\ AfterStop(how)
    /\ Leave
    /\ state' = how /\ phase' = "parse"
    /\ UNCHANGED <<score, off, repeat, return, line, played, starts>>

ThenFaultIgnored ==
    /\ AfterStop("faultIgnored")
    /\ Goto("exec")
    /\ state' = "fault" /\ phase' = "parse"
    /\ UNCHANGED <<score, off, repeat, return, line, played, starts>>

\* b_play_start_policy.  v_play_session_reset stops the synthesizer and then
\* clears the instance; no poll comes between, so it is cleared at once.
Start(s) ==
    /\ Idling /\ state # "running"
    /\ starts < MaxStarts /\ (starts > 0 => s \in Encores)
    /\ starts' = starts + 1
    /\ score' = s /\ off' = 1 /\ repeat' = << >> /\ return' = << >>
    /\ line' = Unseeded /\ played' = << >>
    /\ state' = "loading" /\ phase' = "parse"
    /\ calls' = <<[Frame("stop") EXCEPT !.then = "restart"]>>
    /\ Quiet /\ UNCHANGED spoilt

ThenRestart ==
    /\ AfterStop("restart")
    /\ Leave
    /\ state' = "running"
    /\ UNCHANGED <<phase, score, off, repeat, return, line, played, starts>>

\* b_play_preparse rejects a text for its labels, which are not kept here.
ThenRejected ==
    /\ AfterStop("restart")
    /\ StopThen("fault")
    /\ UNCHANGED playVars

Stop ==
    /\ Idling /\ starts > 0 /\ state # "stopped"
    /\ calls' = <<[Frame("stop") EXCEPT !.then = "stopped"]>>
    /\ Quiet /\ UNCHANGED <<playVars, spoilt>>

----------------------------------------------------------------------------
\* A half's time passes.  The foreground is never long about a step: only
\* MaxStall halves pass while it has something to do.

Ready == IF Idling THEN Due ELSE ~At("wait") \/ WaitOver \/ (Nested /\ Due)

Tick ==
    /\ clock' = (clock + 1) % ClockMod
    /\ IF Ready THEN stall > 0 /\ stall' = stall - 1 ELSE UNCHANGED stall
    /\ HalfInterrupt
    /\ UNCHANGED <<calls, asked, faults, playVars>>

Init ==
    /\ SynthInit
    /\ state = "idle" /\ phase = "parse" /\ score \in Scores
    /\ off = 1 /\ repeat = << >> /\ return = << >>
    /\ line = Unseeded /\ played = << >> /\ starts = 0

Foreground ==
    \/ SynthStep /\ UNCHANGED playVars
    \/ PollParse \/ PollSoundOver \/ PollSoundToGap \/ PollGapOver
    \/ EndOfText \/ ExecEnd \/ OpenRepeat \/ RepeatAgain \/ RepeatDone
    \/ StrayClose \/ StrayColon \/ ExecGoto \/ ExecGosub \/ ExecReturn
    \/ ExecRest \/ ExecNote
    \/ ThenGap \/ ThenFaultIgnored \/ ThenRestart \/ ThenRejected
    \/ \E how \in {"ended", "fault", "stopped"} : ThenOver(how)

Next ==
    \/ Foreground \/ Tick
    \/ SaiError /\ UNCHANGED playVars
    \/ (\E s \in Scores : Start(s)) \/ Stop

\* The timer runs and the main loop polls; nobody has to start or stop a piece.
Fairness == WF_vars(Foreground) /\ WF_vars(Tick)

Spec == Init /\ [][Next]_vars /\ Fairness

----------------------------------------------------------------------------
TypeOK ==
    /\ SynthTypeOK
    /\ \A i \in DOMAIN calls :
          calls[i] \in [pc : {"exec", "tone", "hot", "pend", "cold", "wait", "begin",
                              "stop", "cancel", "stopped"},
                        tone : Tone \cup {None}, since : 0..(ClockMod - 1),
                        then : {"return", "gap", "ended", "fault", "faultIgnored",
                                "stopped", "restart"}]
    /\ Len(calls) <= MaxNest
    /\ state \in {"idle", "loading", "running", "stopped", "ended", "fault"}
    /\ phase \in {"parse", "sound", "gap"} /\ score \in Scores
    /\ off \in 1..(Len(Text) + 1)
    /\ Len(repeat) <= StackMax /\ Len(return) <= StackMax
    /\ line \in [seeded : BOOLEAN, ideal : 0..(ClockMod - 1), end : 0..(ClockMod - 1),
                 deadline : 0..(ClockMod - 1)]
    /\ starts \in 0..MaxStarts

\* The notes are asked for as the score reads, repeats and calls unrolled,
\* none twice and none left out, however polls, waits and late ticks fall.
PlaysScore ==
    /\ Len(played) <= Len(score.notes)
    /\ \A i \in DOMAIN played : played[i] = score.notes[i]
    /\ state = "ended" => played = score.notes

\* play-v1-implementation-plan.md:1282: "Silence only for the resolved rest
\* length": when the sequencer waits for the end of a rest or of a gap, the
\* tone before it is on its way out.
RestIsSilent ==
    Idling /\ state = "running" /\ phase = "gap" /\ "race" \notin spoilt =>
        ~env.active \/ env.slope = "release" \/ OutIdle
=============================================================================
