---------------------------- MODULE MCPdfPipeline ----------------------------
(* A small instance of PdfPipeline for TLC.  All callers together are too  *)
(* many states, so each behaviour has one of the casts: the others are     *)
(* never scheduled.                                                        *)
EXTENDS PdfPipeline, TLC

CONSTANTS resolver, second, c1, c2, c3, here, there, paper

\* A resolution task by itself, two that need nothing but Unpaywall, and
\* lookups of a run's enrichment in two processes.
Pair == {resolver, second}
Casts == {{resolver}, Pair, {c1, c2, c3}}
Callers == Pair \cup {c1, c2, c3}
TwoProcesses == [c \in Callers |-> IF c = c3 THEN there ELSE here]

VARIABLE cast

MCInit == Init /\ cast \in Casts

MCNext ==
    /\ Next
    /\ \A c \in Caller : c \notin cast \/ cast = Pair => call'[c] = Idle
    /\ \A t \in Task \ cast : row'[t] = NoRow
    /\ cast = Pair => \A t \in Task : row'[t].at \notin {"openalex", "crossref"}
    /\ UNCHANGED cast

MCSpec == MCInit /\ [][MCNext]_<<vars, cast>> /\ Fairness
=============================================================================
