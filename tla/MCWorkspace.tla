---------------------------- MODULE MCWorkspace ----------------------------
(***************************************************************************)
(* Values of the constants of Workspace for TLC.                           *)
(***************************************************************************)
EXTENDS Workspace, TLC

CONSTANTS k, j1, j2, old, t1, t2, t3

OneKey == {k}
TwoJobs == {j1, j2}
OnlyFirst == {j1}
ThreePosts ==
  [key : {k}, job : {j1}, try : {t1, t2}] \cup [key : {k}, job : {j2}, try : {t3}]
AllTries == {t1, t2, t3}
SameTries == Permutations({t1, t2})
OneOld == {[key |-> k, job |-> j2, run |-> old]}
NoOld == {}
=============================================================================
