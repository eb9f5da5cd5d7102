----------------------------- MODULE MCBesideRuns -----------------------------
(* A small instance of what users start beside the runs, for TLC: the PDF    *)
(* queue and the searches for an author.  They share no state, so that a     *)
(* behaviour exercises one of them and leaves the other where it began.      *)
EXTENDS MCPdfQueue, AuthorSearch

CONSTANTS a1, a2, a3, n1, n2

VARIABLE part

\* While the searches go on, every publication has its PDF: no step that the
\* fairness asks for is enabled in the part that rests.
MCInit ==
    /\ Init /\ SearchInit
    /\ \/ part = "pdfs"
       \/ part = "searches" /\ \A p \in Publication : pdf[p]

MCNext ==
    \/ part = "pdfs" /\ Next /\ UNCHANGED <<searchVars, part>>
    \/ part = "searches" /\ SearchNext /\ UNCHANGED <<vars, part>>

MCSpec == MCInit /\ [][MCNext]_<<vars, searchVars, part>> /\ Fairness /\ SearchFairness
=============================================================================
