----------------------------- MODULE Checklist -----------------------------
(***************************************************************************)
(* The checklist of a Rally run and the gate every model reply passes      *)
(* through: src/src/envelope.py.  A reply proposes a list of items; the    *)
(* runner keeps only the legal transitions.                                *)
(*                                                                         *)
(* A checklist is a set of item records.  The Python list may hold several *)
(* copies of one id (reconcile appends every copy that a reply proposes    *)
(* and validate_shape only reports them), and its dict by_id then keeps    *)
(* the last one.  The model that wrote the reply chose the order, so the   *)
(* copy that is read back is a choice: see Readings.  Descriptions and     *)
(* evidence are left out: no transition depends on them.                   *)
(***************************************************************************)
EXTENDS Integers

CONSTANTS
  Agents,         \* the worker names of the configuration
  Outsider,       \* an owner string that names no worker
  None,           \* JSON null
  MaxItems,       \* bound: checklist ids are 1..MaxItems, for c1, c2, ...
  RejectionsMax,  \* limits.rejections_max
  RawOwners,      \* the owners a reply may propose
  RawVerifiers,   \* the verifiers a reply may propose
  RawRejections,  \* the rejection counts a reply may propose
  MaxCopies       \* bound: the copies of one id in a reply

ASSUME ChecklistAssumption ==
  /\ Outsider \notin Agents
  /\ None \notin Agents \cup {Outsider}
  /\ MaxItems \in Nat
  /\ RejectionsMax \in Nat
  /\ RawOwners \subseteq Agents \cup {Outsider, None}
  /\ RawVerifiers \subseteq Agents \cup {Outsider, None}
  /\ RawRejections \subseteq Int
  /\ MaxCopies \in Nat \ {0}

Ids == 1..MaxItems

States == {"open", "claimed", "awaiting-verification", "done", "blocked",
           "disputed"}

Names == Agents \cup {Outsider, None}

Item == [id: Ids, state: States, owner: Names, verified_by: Names,
         rejections: Int]

\* "other" stands for every state string outside the enumeration.
RawItem == [id: Ids, state: States \cup {"other"}, owner: RawOwners,
            verified_by: RawVerifiers, rejections: RawRejections]

\* The copies of id i in one reply: none, or up to MaxCopies different ones.
CopiesOf(i) ==
  {{}} \cup {{s[k] : k \in 1..MaxCopies} :
              s \in [1..MaxCopies -> {p \in RawItem : p.id = i}]}

\* The replies; what a reply says of one id is independent of the others.
Proposals ==
  {UNION {f[i] : i \in Ids} :
     f \in {g \in [Ids -> UNION {CopiesOf(i) : i \in Ids}] :
              \A i \in Ids : g[i] \in CopiesOf(i)}}

IdsOf(items) == {x.id : x \in items}

\* by_id: one copy of each id, the last of the list.
Readings(items) ==
  {f \in [IdsOf(items) -> items] : \A i \in IdsOf(items) : f[i].id = i}

----------------------------------------------------------------------------
(***************************************************************************)
(* The guarded transitions of reconcile, from the stored item x to the     *)
(* proposed state of p, by the worker that holds the turn.                 *)
(***************************************************************************)

\* Custody granted by the runner for one recovery handoff.
Takeover(x, p, recoverable) ==
  /\ x.id \in recoverable
  /\ x.state \in {"claimed", "blocked"}
  /\ p.state \in {"claimed", "awaiting-verification"}

ApprovalByAnyone(x, p, actor) ==  \* mutant: the owner check is dropped
  /\ x.state = "awaiting-verification"
  /\ p.state = "done"

Approval(x, p, actor) ==
  /\ x.state = "awaiting-verification"
  /\ p.state = "done"
  /\ x.owner # actor

Rejection(x, p, actor) ==
  /\ x.state = "awaiting-verification"
  /\ p.state = "claimed"
  /\ x.owner # actor

Claim(x, p) == x.state = "open" /\ p.state = "claimed"

\* mutant: anyone may advance an owned item
SubmissionByAnyone(x, p, actor, recoverable) ==
  /\ x.state \in {"open", "claimed"}
  /\ p.state = "awaiting-verification"
  /\ ~Takeover(x, p, recoverable)

Submission(x, p, actor, recoverable) ==
  /\ x.state \in {"open", "claimed"}
  /\ p.state = "awaiting-verification"
  /\ x.owner \in {None, actor}
  /\ ~Takeover(x, p, recoverable)

Escalation(p) == p.state \in {"blocked", "disputed"}

\* What reconcile keeps of the stored item x when p is proposed for it.
Accept(x, p, actor, recoverable) ==
  CASE Takeover(x, p, recoverable) ->
         [x EXCEPT !.state = p.state, !.owner = actor, !.verified_by = None]
    [] Approval(x, p, actor) ->
         [x EXCEPT !.state = "done", !.verified_by = actor]
    [] Rejection(x, p, actor) ->
         [x EXCEPT !.state = IF x.rejections + 1 > RejectionsMax
                               THEN "disputed" ELSE "claimed",
                   !.rejections = x.rejections + 1]
    [] Claim(x, p) ->
         [x EXCEPT !.state = "claimed",
                   !.owner = IF p.owner = None THEN actor ELSE p.owner]
    [] Submission(x, p, actor, recoverable) ->
         [x EXCEPT !.state = "awaiting-verification", !.owner = actor]
    [] Escalation(p) -> [x EXCEPT !.state = p.state]
    [] OTHER -> x

NewItemAsProposed(p) == p  \* mutant: a new item may start in any state

\* An item that is not on the checklist yet starts open or claimed.
NewItem(p) ==
  IF p.state \in {"open", "claimed"}
    THEN p
    ELSE [p EXCEPT !.state = "open", !.owner = None]

\* mutant: items the reply leaves out are not restored
ReconcileForgetting(by_id, proposed, actor, allowNew, recoverable) ==
  LET known == {p \in proposed : p.id \in DOMAIN by_id}
      new   == {p \in proposed : p.id \notin DOMAIN by_id /\ allowNew}
  IN  {Accept(by_id[p.id], p, actor, recoverable) : p \in known}
        \cup {NewItem(p) : p \in new}

\* The accepted checklist; by_id is a reading of the stored one.
Reconcile(by_id, proposed, actor, allowNew, recoverable) ==
  LET known == {p \in proposed : p.id \in DOMAIN by_id}
      new   == {p \in proposed : p.id \notin DOMAIN by_id /\ allowNew}
  IN  {Accept(by_id[p.id], p, actor, recoverable) : p \in known}
        \cup {NewItem(p) : p \in new}
        \cup {by_id[i] : i \in DOMAIN by_id \ IdsOf(proposed)}

----------------------------------------------------------------------------
IsComplete(items) == items # {} /\ \A x \in items : x.state = "done"

Blocking(items) == {x \in items : x.state \in {"blocked", "disputed"}}

Digest(items) == {<<x.id, x.state, x.owner>> : x \in items}
============================================================================
