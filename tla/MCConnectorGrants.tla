-------------------------- MODULE MCConnectorGrants --------------------------
(***************************************************************************)
(* Values of the constants of ConnectorGrants for TLC.                     *)
(***************************************************************************)
EXTENDS ConnectorGrants

CONSTANTS r1, r2, r3

Three == {r1, r2, r3}
=============================================================================
