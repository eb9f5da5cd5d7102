------------------------ MODULE MCContinuationQueue ------------------------
(* Small instances of ContinuationQueue for TLC. *)
EXTENDS ContinuationQueue, TLC

CONSTANTS s1, s2

OneScholar == {s1}
TwoScholars == {s1, s2}

\* Scholars are interchangeable; used for safety only.
Interchangeable == Permutations(Scholar)
=============================================================================
