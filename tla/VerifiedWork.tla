---------------------------- MODULE VerifiedWork ----------------------------
(***************************************************************************)
(* What a Rally run promises about its work, whatever the models reply:    *)
(* an item is approved only by a worker other than the one that submitted  *)
(* it, in a later turn than the submission, and no item ever disappears.   *)
(* RallyRun implements this specification; the promise is the one the      *)
(* docstring of reconcile (src/src/envelope.py) and section 6 of           *)
(* src/docs/SPEC.md make.                                                  *)
(***************************************************************************)
CONSTANTS
  Agents,   \* the workers
  Ids,      \* the items that can be asked for
  Nobody    \* neither a submitter nor an approver

VARIABLE work  \* the items: a set, since a reply may leave copies of one id

Pending(i) == [id |-> i, phase |-> "pending", by |-> Nobody, approver |-> Nobody]

Submitted(i, a) ==
  [id |-> i, phase |-> "submitted", by |-> a, approver |-> Nobody]

Approved(i, a, b) ==
  [id |-> i, phase |-> "approved", by |-> a, approver |-> b]

IdsOfWork(W) == {x.id : x \in W}

(***************************************************************************)
(* What worker a may make of item x in one turn: leave it, submit it,      *)
(* approve the submission of another worker, or send it back.              *)
(***************************************************************************)
Move(a, x) ==
  {x, Pending(x.id)}
    \cup (IF x.phase = "pending" THEN {Submitted(x.id, a)} ELSE {})
    \cup (IF x.phase = "submitted" /\ x.by # a
            THEN {Approved(x.id, x.by, a)} ELSE {})

Init == work = {}

\* One accepted turn of worker a: every item is moved at most once, new items
\* start pending, and none is lost.
Turn(a) ==
  /\ \A y \in work' :
       \/ \E x \in work : x.id = y.id /\ y \in Move(a, x)
       \/ y.id \in Ids \ IdsOfWork(work) /\ y = Pending(y.id)
  /\ IdsOfWork(work) \subseteq IdsOfWork(work')

\* The commissioner asks for one more item.
Ask ==
  \E i \in Ids \ IdsOfWork(work) : work' = work \cup {Pending(i)}

Next == Ask \/ \E a \in Agents : Turn(a)

Spec == Init /\ [][Next]_work
============================================================================
