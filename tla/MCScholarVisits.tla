--------------------------- MODULE MCScholarVisits ---------------------------
(* A small instance of ScholarVisits for TLC. *)
EXTENDS ScholarVisits

SevenPublications == 1..7

\* No profile yet, one of a single page with room on both sides, and one that
\* is longer than the page budget of a run.
MCInit == Init /\ listed \in {{}, {2, 3}, 1..7}

MCSpec == MCInit /\ [][Next]_vars /\ Fairness
=============================================================================
