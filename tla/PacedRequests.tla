----------------------------- MODULE PacedRequests -----------------------------
(***************************************************************************)
(* What a service that is asked through a gate sees of all the callers     *)
(* together: one request at a time, none before the pause after the last   *)
(* answer on record is over, none in a cooldown.  What is on record        *)
(* changes only when an answer is noted, and when time passes; an answer   *)
(* may be lost, and then nothing changes.  No caller, process, lock, cache *)
(* or transaction appears.                                                 *)
(***************************************************************************)
EXTENDS Naturals

CONSTANTS
    Pace,       \* ticks between an answer and the next request
    Rest        \* ticks of a cooldown

VARIABLES
    request,    \* "none", "sent", or "answered" but not noted yet
    pause,      \* ticks until the next request may go out
    cool,       \* ticks until the cooldown is over
    draft       \* the pause and the cooldown that the answer will be noted with

pacedVars == <<request, pause, cool, draft>>

NoDraft == [pause |-> 0, cool |-> 0]

PacedInit == request = "none" /\ pause = 0 /\ cool = 0 /\ draft = NoDraft

Send ==
    /\ request = "none" /\ pause = 0 /\ cool = 0
    /\ request' = "sent"
    /\ UNCHANGED <<pause, cool, draft>>

\* The answer is noted as it comes; it may begin a cooldown.
AnswerNoted ==
    /\ request = "sent"
    /\ request' = "none"
    /\ pause' = Pace
    /\ cool' \in {cool, Rest}
    /\ UNCHANGED draft

\* The answer is there, and noted later.
Answer ==
    /\ request = "sent"
    /\ request' = "answered"
    /\ draft' \in {[pause |-> Pace, cool |-> c] : c \in {cool, Rest}}
    /\ UNCHANGED <<pause, cool>>

Note ==
    /\ request = "answered"
    /\ request' = "none"
    /\ pause' = draft.pause /\ cool' = draft.cool
    /\ draft' = NoDraft

\* The request fails, or who sent it does before the answer is noted.
Lose ==
    /\ request # "none"
    /\ request' = "none"
    /\ draft' = NoDraft
    /\ UNCHANGED <<pause, cool>>

Less(n) == IF n > 0 THEN n - 1 ELSE 0

Wait ==
    /\ pause' = Less(pause) /\ cool' = Less(cool)
    /\ draft' = [pause |-> Less(draft.pause), cool |-> Less(draft.cool)]
    /\ UNCHANGED request

PacedNext == Send \/ AnswerNoted \/ Answer \/ Note \/ Lose \/ Wait

PacedSpec == PacedInit /\ [][PacedNext]_pacedVars
=============================================================================
