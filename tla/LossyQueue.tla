----------------------------- MODULE LossyQueue -----------------------------
(***************************************************************************)
(* What the job queue promises its callers: a bounded FIFO that refuses    *)
(* jobs when it is full, counts the refusals up to a ceiling, and reports  *)
(* them before it hands out another job.                                   *)
(***************************************************************************)
EXTENDS Naturals, Sequences

CONSTANTS Capacity,   \* jobs that can be pending at once
          MissedMax   \* ceiling of the refusal counter

VARIABLES pending,    \* jobs waiting, the oldest first
          missed      \* refusals nobody has been told about

lossyVars == <<pending, missed>>

LossyInit == pending = << >> /\ missed = 0

\* One job, whatever it is, goes behind those that wait.
Accept ==
    /\ Len(pending) < Capacity
    /\ pending' # << >>
    /\ pending' = Append(pending, pending'[Len(pending')])
    /\ UNCHANGED missed

Refuse ==
    /\ Len(pending) = Capacity
    /\ missed' = IF missed < MissedMax THEN missed + 1 ELSE missed
    /\ UNCHANGED pending

Report ==
    /\ missed > 0
    /\ missed' = 0
    /\ UNCHANGED pending

Take ==
    /\ missed = 0
    /\ pending # << >>
    /\ pending' = Tail(pending)
    /\ UNCHANGED missed

LossyNext == Accept \/ Refuse \/ Report \/ Take

LossySpec == LossyInit /\ [][LossyNext]_lossyVars
=============================================================================
