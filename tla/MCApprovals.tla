---------------------------- MODULE MCApprovals ----------------------------
(***************************************************************************)
(* Values of the constants of Approvals for TLC.                           *)
(***************************************************************************)
EXTENDS Approvals, TLC

CONSTANTS p1, p2, i1, i2, i3, write, send

TwoProcesses == {p1, p2}
ThreeIds == {i1, i2, i3}
TwoCalls == {write, send}

\* Processes, ids and calls are each interchangeable.
Interchangeable ==
  Permutations(TwoProcesses) \cup Permutations(ThreeIds) \cup Permutations(TwoCalls)
=============================================================================
