------------------------------ MODULE MCSignIn ------------------------------
(***************************************************************************)
(* Values of the constants of SignIn for TLC.                              *)
(***************************************************************************)
EXTENDS SignIn

CONSTANTS l1, e1, h1, h2, t1, t2, t3

OneLink == {l1}
OneEmail == {e1}
TwoHandlers == {h1, h2}
ThreeTabs == {t1, t2, t3}
=============================================================================
