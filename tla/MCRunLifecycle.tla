-------------------------- MODULE MCRunLifecycle --------------------------
(* Small instances of RunLifecycle for TLC. *)
EXTENDS RunLifecycle, TLC

CONSTANTS u1, u2, r1, r2, r3

OneUser == {u1}
TwoUsers == {u1, u2}
TwoRuns == {r1, r2}
ThreeRuns == {r1, r2, r3}

\* Runs and users are interchangeable; used for safety only.
Interchangeable == Permutations(Run) \cup Permutations(User)
=============================================================================
