------------------------------- MODULE PlayMC -------------------------------
(***************************************************************************)
(* Scores for model-checking Play.  In each, the notes are what the text   *)
(* means by PLAY's rules, and the shortest notes with a gap last four      *)
(* halves (31 ms), as play_config.h assumes, except in Hasty.              *)
(***************************************************************************)
EXTENDS Play

Note(tone, active, halves) ==
    [is |-> "note", tone |-> tone, active |-> active, halves |-> halves]
Rest(halves) == [is |-> "rest", halves |-> halves]
Open == [is |-> "open"]
Close(n) == [is |-> "close", n |-> n]
Colon == [is |-> "colon"]
End == [is |-> "end"]
Return == [is |-> "return"]
GotoAt(i) == [is |-> "goto", to |-> i]
GosubAt(i) == [is |-> "gosub", to |-> i]

Score(text, policy, notes) == [text |-> text, policy |-> policy, notes |-> notes]

Plain == Score(<<Note("a", 2, 4), Note("b", 4, 4), Rest(2), Note("a", 3, 4)>>,
               "normal", <<"a", "b", "a">>)
Nested2 == Score(<<Open, Note("a", 1, 4), Open, Note("b", 3, 4), Close(2), Close(0)>>,
                 "normal", <<"a", "b", "b">>)
Twice == Score(<<Open, Note("a", 3, 4), Colon, Close(2), Close(2), Note("b", 4, 4)>>,
               "normal", <<"a", "a", "b">>)
Calls == Score(<<GosubAt(4), Note("b", 2, 4), End, Note("a", 3, 4), Return>>,
               "normal", <<"a", "b">>)
Endless == Score(<<Note("a", 3, 4), GosubAt(1)>>, "normal", <<"a", "a", "a">>)
Underflow == Score(<<Note("a", 4, 4), Return>>, "normal", <<"a">>)
Unclosed == Score(<<Note("a", 4, 4), Open, Note("b", 4, 4)>>, "normal", <<"a">>)
LeavesRepeat == Score(<<Open, Note("a", 3, 4), GotoAt(5), Close(2), Note("b", 4, 4)>>,
                      "strict", <<"a", "b">>)
StrictStray == Score(<<Note("a", 4, 4), Close(2), Note("b", 4, 4)>>, "strict", <<"a">>)
StrictColon == Score(<<Note("a", 4, 4), Colon, Note("b", 4, 4)>>, "strict", <<"a", "b">>)
ForEver == Score(<<Note("a", 3, 4), Rest(4), GotoAt(2)>>, "normal", <<"a">>)
LeavesOpen == Score(<<Open, Note("a", 3, 4), GotoAt(5), Close(2), Note("b", 4, 4)>>,
                    "normal", <<"a", "b">>)
Hasty == Score(<<Note("a", 1, 2), Note("b", 1, 1), Note("a", 4, 4), End>>, "normal",
               <<"a", "b", "a">>)

AllScores == {Plain, Nested2, Twice, Calls, Endless, Underflow, Unclosed, LeavesRepeat,
              StrictStray, StrictColon, ForEver, LeavesOpen, Hasty}

Again == {Calls}

Legato == {Score(<<Note("a", 4, 4), Rest(4), Note("b", 4, 4)>>, "normal", <<"a", "b">>)}

\* Each score's notes are what its text says, by a walk of at most Steps tokens.
Steps == 30
Walked(s) ==
    LET place[k \in 0..Steps] == IF k = 0 THEN FirstPlace ELSE NextPlace(place[k - 1], s)
    IN  {place[k] : k \in 0..Steps}

ASSUME NotesAreRead == \A s \in AllScores \cup Legato : IsReading(s, Walked(s))

\* The scores whose text ends by itself.  Two do not: the backward goto that
\* play-v1-implementation-plan.md:1169 gives for "replay forever", and the end
\* of the text with a repeat open, which a session that is not strict polls for
\* ever (play.c:2885).
Ending == AllScores \ {ForEver, LeavesOpen}

ASSUME EndingIsRead ==
    \A s \in AllScores : s \in Ending <=> \E p \in Walked(s) : StopsAt(p, s)

\* A piece whose text ends comes to its end, and with it the sound and the DMA;
\* unless a poll re-enters set_tone, a half falls due between the stores of the
\* last stop, or the interpreter goes on after a fault that it ignores.
Finishes ==
    state = "running" /\ score \in Ending ~>
        \/ state # "running" /\ i2s.state = "idle"
        \/ spoilt \cap {"race", "reentry", "ignored"} # {}
=============================================================================
