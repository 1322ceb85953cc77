------------------------------- MODULE Reading -------------------------------
(***************************************************************************)
(* What a score's text says, apart from when it is played: a walk over the *)
(* tokens by PLAY's rules (App/Src/play.c), with no clock, no poll, no     *)
(* synthesizer and nothing that fails.  A score is [text, policy, notes].  *)
(***************************************************************************)
EXTENDS Integers, Sequences, FiniteSetsExt

CONSTANT StackMax    \* PLAY_STACK_MAX_DEPTH

\* The bracket that closes the one at i, or 0: the scan counts brackets.
Brackets(text, type, i, j) == Cardinality({k \in i..j : text[k].is = type})
ClosingIn(text, i) ==
    LET ends == {j \in i..Len(text) :
                    Brackets(text, "open", i, j) = Brackets(text, "close", i, j)}
    IN  IF ends = {} THEN 0 ELSE Min(ends)

Passes(n) == IF n <= 1 THEN 1 ELSE n

----------------------------------------------------------------------------
\* A place of the walk: the next token, the open repeats and calls, innermost
\* last, and how many notes have been read.
Place(off, repeat, return, read) ==
    [off |-> off, repeat |-> repeat, return |-> return, read |-> read]

FirstPlace == Place(1, << >>, << >>, 0)

TokenAt(p, s) == s.text[p.off]
Over(p, s) == p.off > Len(s.text)
Onward(p) == Place(p.off + 1, p.repeat, p.return, p.read)
Without(stack) == SubSeq(stack, 1, Len(stack) - 1)

\* The walk stays where it is at the end, and at a fault that ends the piece.
AfterOpen(p, s) ==
    LET close == ClosingIn(s.text, p.off) IN
    IF close = 0 \/ Len(p.repeat) = StackMax THEN p
    ELSE Place(p.off + 1,
               Append(p.repeat, [body |-> p.off + 1, close |-> close,
                                 left |-> Passes(s.text[close].n)]),
               p.return, p.read)

AfterClose(p, s) ==
    LET depth == Len(p.repeat)
        inner == p.repeat[depth]
    IN  IF p.repeat = << >> \/ inner.close # p.off
        THEN IF s.policy = "strict" THEN p ELSE Onward(p)
        ELSE IF inner.left > 1
        THEN Place(inner.body, [p.repeat EXCEPT ![depth].left = @ - 1], p.return, p.read)
        ELSE Place(p.off + 1, Without(p.repeat), p.return, p.read)

AfterGosub(p, s) ==
    IF Len(p.return) = StackMax THEN p
    ELSE Place(TokenAt(p, s).to, p.repeat, Append(p.return, p.off + 1), p.read)

AfterReturn(p) ==
    IF p.return = << >> THEN p
    ELSE Place(p.return[Len(p.return)], p.repeat, Without(p.return), p.read)

NextPlace(p, s) ==
    IF Over(p, s) \/ TokenAt(p, s).is = "end" THEN p
    ELSE IF TokenAt(p, s).is = "note" THEN Place(p.off + 1, p.repeat, p.return, p.read + 1)
    ELSE IF TokenAt(p, s).is \in {"rest", "colon"} THEN Onward(p)
    ELSE IF TokenAt(p, s).is = "goto" THEN Place(TokenAt(p, s).to, p.repeat, p.return, p.read)
    ELSE IF TokenAt(p, s).is = "open" THEN AfterOpen(p, s)
    ELSE IF TokenAt(p, s).is = "close" THEN AfterClose(p, s)
    ELSE IF TokenAt(p, s).is = "gosub" THEN AfterGosub(p, s)
    ELSE AfterReturn(p)

\* The piece ends well at its end mark, or after the text with no repeat open.
EndsAt(p, s) == IF Over(p, s) THEN p.repeat = << >> ELSE TokenAt(p, s).is = "end"

\* The piece stops there, well or not: at the end, in a strict session at an
\* open repeat's missing end too, and at a fault that ends it, where the walk
\* cannot go on.  (A label that leads to itself goes on for ever.)
StopsAt(p, s) ==
    \/ EndsAt(p, s)
    \/ Over(p, s) /\ s.policy = "strict"
    \/ ~Over(p, s) /\ TokenAt(p, s).is # "goto" /\ NextPlace(p, s) = p

\* The notes of the score fit a place: a note there is the next of them, and
\* at the end none is left.
Fits(p, s) ==
    /\ ~Over(p, s) /\ TokenAt(p, s).is = "note" =>
          p.read < Len(s.notes) /\ s.notes[p.read + 1] = TokenAt(p, s).tone
    /\ EndsAt(p, s) => p.read = Len(s.notes)

\* pages is a set of places that holds the whole walk.
IsReading(s, pages) ==
    /\ FirstPlace \in pages
    /\ \A p \in pages : NextPlace(p, s) \in pages /\ Fits(p, s)
=============================================================================
