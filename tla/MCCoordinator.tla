--------------------------- MODULE MCCoordinator ---------------------------
(***************************************************************************)
(* Values of the constants of Coordinator for TLC.                         *)
(***************************************************************************)
EXTENDS Coordinator, TLC

CONSTANTS r1, r2, r3, r4, s1, s2

FourRequests == {r1, r2, r3, r4}
TwoTasks == {s1, s2}

\* Requests are interchangeable, and so are objectives.
Interchangeable == Permutations(FourRequests) \cup Permutations(TwoTasks)
=============================================================================
