------------------------------ MODULE Handoff ------------------------------
(***************************************************************************)
(* What the cloud coordinator promises for one idempotency key, whatever   *)
(* retries, leases and attempts do: one attempt's handoff is chosen, for   *)
(* good, and every request that is told a handoff is told that one.        *)
(* Coordinator implements this specification; src/docs/SPEC.md section 11  *)
(* states the promise for the commission as a whole.                       *)
(***************************************************************************)
CONSTANTS
  Requests,
  Attempts,  \* the attempts a handoff may come from
  Nothing    \* neither chosen nor told

VARIABLES
  chosen,    \* the attempt whose handoff is ready
  told       \* the attempt whose handoff each request was given

Init ==
  /\ chosen = Nothing
  /\ told = [r \in Requests |-> Nothing]

\* A request finishes its attempt first, and is told so.
Choose(r) ==
  /\ chosen = Nothing
  /\ chosen' \in Attempts
  /\ told' = [told EXCEPT ![r] = chosen']

Tell(r) ==
  /\ chosen # Nothing /\ told[r] = Nothing
  /\ told' = [told EXCEPT ![r] = chosen]
  /\ UNCHANGED chosen

Next == \E r \in Requests : Choose(r) \/ Tell(r)

Spec == Init /\ [][Next]_<<chosen, told>>
=============================================================================
