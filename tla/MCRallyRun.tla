----------------------------- MODULE MCRallyRun -----------------------------
(***************************************************************************)
(* Values of the constants of RallyRun for TLC.                            *)
(***************************************************************************)
EXTENDS RallyRun

CONSTANTS a, b, c, stranger

TwoAgents == {a, b}
TwoOrder == <<a, b>>
NoOwnerOrAgents == {None, a, b}
NoneSecondOrStranger == {None, b, stranger}
ThreeAgents == {a, b, c}
ThreeOrder == <<a, b, c>>
OnlyNone == {None}
Zero == {0}
============================================================================
