----------------------------- MODULE MCPdfQueue -----------------------------
(* Small instances of PdfQueue for TLC. *)
EXTENDS PdfQueue, TLC

CONSTANTS p1, p2, t1, t2

OnePublication == {p1}
TwoPublications == {p1, p2}
OneTask == {t1}
TwoTasks == {t1, t2}

\* Publications and tasks are interchangeable; used for safety only.
Interchangeable == Permutations(Publication) \cup Permutations(Task)
=============================================================================
