--------------------------- MODULE RallyRunProofs ---------------------------
(***************************************************************************)
(* Proofs about RallyRun, for every set of workers, every rotation, every  *)
(* limit and every bound.                                                  *)
(***************************************************************************)
EXTENDS RallyRun, WellFoundedInduction, TLAPS

\* The strengthening of IndependentVerification that a step preserves: an item
\* that awaits verification has a worker as owner, which is what the approving
\* step compares itself with.
Reviewed(x) ==
  /\ x.state = "awaiting-verification" => x.owner \in Agents
  /\ x.state = "done" => /\ x.owner \in Agents
                         /\ x.verified_by \in Agents
                         /\ x.verified_by # x.owner

ReviewInv == \A x \in checklist : Reviewed(x)

----------------------------------------------------------------------------
(***************************************************************************)
(* What the operators of Checklist return.                                 *)
(***************************************************************************)

\* A reply is a set of raw items (CopiesOf, Proposals).
LEMMA ProposalsAreRaw == \A P \in Proposals : P \subseteq RawItem
<1> SUFFICES ASSUME NEW P \in Proposals, NEW p \in P PROVE p \in RawItem
  OBVIOUS
<1>1. PICK f : /\ \A i \in Ids : f[i] \in CopiesOf(i)
               /\ P = UNION {f[i] : i \in Ids}
  BY DEF Proposals
<1>2. PICK i \in Ids : p \in f[i]
  BY <1>1
<1>3. f[i] \in CopiesOf(i)
  BY <1>1
<1>4. PICK s \in [1..MaxCopies -> {q \in RawItem : q.id = i}] :
         f[i] = {s[k] : k \in 1..MaxCopies}
  BY <1>2, <1>3 DEF CopiesOf
<1> QED
  BY <1>2, <1>4

\* The components of a raw item (RawItem).
LEMMA RawItemFields ==
  ASSUME NEW p \in RawItem
  PROVE  /\ p.id \in Ids /\ p.state \in States \cup {"other"}
         /\ p.owner \in Names /\ p.verified_by \in Names /\ p.rejections \in Int
BY ChecklistAssumption DEF RawItem, Names

\* A new item is well formed and starts open or claimed (NewItem).
LEMMA NewItemStarts ==
  ASSUME NEW p \in RawItem
  PROVE  /\ NewItem(p) \in Item
         /\ NewItem(p).id = p.id
         /\ Reviewed(NewItem(p))
<1>1. p = [id |-> p.id, state |-> p.state, owner |-> p.owner,
           verified_by |-> p.verified_by, rejections |-> p.rejections]
  BY DEF RawItem
<1>2. CASE p.state \in {"open", "claimed"}
  <2>1. NewItem(p) = p
    BY <1>2 DEF NewItem
  <2>2. p \in Item
    BY <1>1, <1>2, RawItemFields DEF Item, States
  <2> QED
    BY <2>1, <2>2, <1>2 DEF Reviewed
<1>3. CASE p.state \notin {"open", "claimed"}
  <2>1. NewItem(p) = [id |-> p.id, state |-> "open", owner |-> None,
                      verified_by |-> p.verified_by, rejections |-> p.rejections]
    BY <1>1, <1>3 DEF NewItem, RawItem
  <2> QED
    BY <2>1, RawItemFields DEF Item, States, Names, Reviewed
<1> QED
  BY <1>2, <1>3

\* What reconcile keeps of an item is an item with the same id (Accept).
LEMMA AcceptType ==
  ASSUME NEW x \in Item, NEW p \in RawItem, NEW w \in Agents, NEW R
  PROVE  Accept(x, p, w, R) \in Item /\ Accept(x, p, w, R).id = x.id
<1>1. /\ p.state \in States \cup {"other"} /\ p.owner \in Names
  BY RawItemFields
<1>2. x.rejections + 1 \in Int
  BY DEF Item
<1> QED
  BY <1>1, <1>2 DEF Accept, Takeover, Approval, Rejection, Claim, Submission,
                    Escalation, Item, States, Names

\* Each guarded transition keeps an item reviewed (Accept).
LEMMA AcceptReviewed ==
  ASSUME NEW x \in Item, NEW p \in RawItem, NEW w \in Agents, NEW R,
         Reviewed(x)
  PROVE  Reviewed(Accept(x, p, w, R))
BY DEF Accept, Takeover, Approval, Rejection, Claim, Submission, Escalation,
       Item, Reviewed

\* An item of the accepted checklist was made of a stored item with its id by
\* a guarded transition, is new, or is as it was stored (Reconcile).
LEMMA ReconcileItems ==
  ASSUME NEW items \in SUBSET Item, NEW by_id \in Readings(items),
         NEW P \in Proposals, NEW w, NEW new \in BOOLEAN, NEW R,
         NEW y \in Reconcile(by_id, P, w, new, R)
  PROVE  \/ \E x \in items, p \in RawItem : p.id = x.id /\ y = Accept(x, p, w, R)
         \/ \E p \in RawItem : p.id \notin IdsOf(items) /\ y = NewItem(p)
         \/ y \in items
<1>1. /\ DOMAIN by_id = IdsOf(items)
      /\ \A i \in IdsOf(items) : by_id[i] \in items /\ by_id[i].id = i
  BY DEF Readings
<1>2. P \subseteq RawItem
  BY ProposalsAreRaw
<1>3. CASE \E p \in P : p.id \in DOMAIN by_id /\ y = Accept(by_id[p.id], p, w, R)
  BY <1>1, <1>2, <1>3
<1>4. CASE \E p \in P : p.id \notin DOMAIN by_id /\ y = NewItem(p)
  BY <1>1, <1>2, <1>4
<1>5. CASE \E i \in DOMAIN by_id : y = by_id[i]
  BY <1>1, <1>5
<1> QED
  BY <1>3, <1>4, <1>5 DEF Reconcile

\* The accepted checklist is well formed and reviewed.
LEMMA ReconcileReviewed ==
  ASSUME NEW items \in SUBSET Item, NEW by_id \in Readings(items),
         NEW P \in Proposals, NEW w \in Agents, NEW new \in BOOLEAN, NEW R,
         \A x \in items : Reviewed(x)
  PROVE  \A y \in Reconcile(by_id, P, w, new, R) : y \in Item /\ Reviewed(y)
BY ReconcileItems, AcceptType, AcceptReviewed, NewItemStarts

\* The rotation stays inside the workers (next_actor).
LEMMA NextActorIsWorker == ASSUME NEW w PROVE NextActor(w) \in Agents
<1> DEFINE n == Len(AgentOrder)
<1>1. n \in Nat /\ n > 0 /\ \A k \in 1..n : AgentOrder[k] \in Agents
  BY RunAssumption
<1>2. CASE \E k \in 1..n : AgentOrder[k] = w
  <2> DEFINE k == CHOOSE m \in 1..n : AgentOrder[m] = w
  <2>1. k \in 1..n
    BY <1>2
  <2>2. (k % n) + 1 \in 1..n
    BY <1>1, <2>1
  <2> QED
    BY <1>1, <1>2, <2>2 DEF NextActor
<1>3. CASE ~\E k \in 1..n : AgentOrder[k] = w
  BY <1>1, <1>3 DEF NextActor
<1> QED
  BY <1>2, <1>3

\* The human's note keeps a checklist well formed and reviewed
\* (apply_human_note).
LEMMA GuidanceReviewed ==
  ASSUME TypeOK, ReviewInv, ApplyGuidance
  PROVE  checklist' \subseteq Item /\ ReviewInv'
<1> SUFFICES ASSUME NEW y \in checklist'
             PROVE  y \in Item /\ Reviewed(y)
  BY DEF ReviewInv
<1>1. \A x \in Item : Reopened(x) \in Item /\ Reviewed(Reopened(x))
  <2> SUFFICES ASSUME NEW x \in Item
               PROVE  Reopened(x) \in Item /\ Reviewed(Reopened(x))
    OBVIOUS
  <2> QED
    BY DEF Reopened, Item, States, Names, Reviewed
<1>2. \A i \in Ids : FollowUp(i) \in Item /\ Reviewed(FollowUp(i))
  BY DEF FollowUp, Item, States, Names, Reviewed
<1>3. CASE y \in checklist
  BY <1>3 DEF TypeOK, ReviewInv
<1>4. CASE \E x \in Blocking(checklist) : y = Reopened(x)
  BY <1>1, <1>4 DEF Blocking, TypeOK
<1>5. CASE NextId \in Ids /\ y = FollowUp(NextId)
  BY <1>2, <1>5
<1> QED
  BY <1>3, <1>4, <1>5 DEF ApplyGuidance

\* A recovery handoff names a worker and ids (start_second_wind, take_turn).
LEMMA HandoffType ==
  ASSUME TypeOK, NEW w, NEW items \in SUBSET Ids, StartSecondWind(w, items)
  PROVE  /\ used' \in 0..MaxRecoveries
         /\ active' \in Handoffs
         /\ actor' \in Agents
         /\ halt' \in Reasons \cup {None}
         /\ reprompts' \in Nat
BY NextActorIsWorker, RunAssumption
   DEF StartSecondWind, CanRecover, TypeOK, Handoffs

\* The items a failed worker had claimed are ids of the checklist.
LEMMA ClaimedAreIds == ASSUME TypeOK, NEW w PROVE ClaimedBy(w) \in SUBSET Ids
BY DEF ClaimedBy, TypeOK, Item

\* So are the blocked items (unrecovered_block_ids).
LEMMA UnrecoveredAreIds == ASSUME TypeOK PROVE UnrecoveredBlocks \in SUBSET Ids
BY DEF UnrecoveredBlocks, TypeOK, Item

\* Giving up on a worker keeps the types (take_turn, the two failure paths).
LEMMA GiveUpType ==
  ASSUME TypeOK, GiveUpOn(actor)
  PROVE  /\ used' \in 0..MaxRecoveries
         /\ active' \in Handoffs \cup {None}
         /\ actor' \in Agents
         /\ halt' \in Reasons \cup {None}
         /\ reprompts' \in Nat
         /\ pc' \in Locations
         /\ result' \in Reasons \cup {None}
<1>1. CASE StartSecondWind(actor, ClaimedBy(actor)) /\ pc' = "looping"
           /\ UNCHANGED result
  BY <1>1, ClaimedAreIds, HandoffType DEF TypeOK, Locations
<1>2. CASE /\ halt' = "agent_error" /\ pc' = "returned"
           /\ result' = "agent_error"
           /\ UNCHANGED <<used, active, actor, reprompts>>
  BY <1>2 DEF TypeOK, Locations, Reasons
<1> QED
  BY <1>1, <1>2 DEF GiveUpOn

----------------------------------------------------------------------------
(***************************************************************************)
(* The type invariant, and with it the review invariant: a step keeps      *)
(* both, one action at a time.                                             *)
(***************************************************************************)
ReviewedRun == TypeOK /\ ReviewInv

LEMMA ReviewedRunInit == Init => ReviewedRun
<1> SUFFICES ASSUME Init PROVE ReviewedRun
  OBVIOUS
<1>1. AgentOrder[1] \in Agents
  BY RunAssumption
<1> QED
  BY <1>1, RunAssumption
  DEF Init, ReviewedRun, TypeOK, ReviewInv, Locations

\* A step that leaves the checklist alone keeps it reviewed.
LEMMA SameChecklist == ASSUME ReviewInv, UNCHANGED checklist PROVE ReviewInv'
BY DEF ReviewInv, Reviewed

\* Every action keeps the checklist well formed and reviewed: only an accepted
\* turn and a human note change it.
LEMMA ReviewedRunStep == ReviewedRun /\ [Next]_vars => ReviewedRun'
<1> SUFFICES ASSUME TypeOK, ReviewInv, [Next]_vars PROVE TypeOK' /\ ReviewInv'
  BY DEF ReviewedRun
<1> USE DEF disk, process, bounds
<1>1. CASE RefuseTurn
  BY <1>1, SameChecklist DEF RefuseTurn, TypeOK, Locations, Reasons, InTurn
<1>2. CASE NoEnvelope
  BY <1>2, SameChecklist DEF NoEnvelope, TypeOK, Locations, InTurn
<1>3. CASE Reprompt
  BY <1>3, SameChecklist DEF Reprompt, TypeOK, Locations
<1>4. CASE RecordHalt
  BY <1>4, SameChecklist DEF RecordHalt, TypeOK, Locations
<1>5. CASE LoopLimit
  BY <1>5, SameChecklist DEF LoopLimit, TypeOK, Locations, Reasons
<1>6. CASE RecordReport
  BY <1>6, SameChecklist DEF RecordReport, TypeOK, Locations
<1>7. CASE HandleCommission
  BY <1>7, SameChecklist DEF HandleCommission, TypeOK, Locations
<1>8. CASE SendNote
  BY <1>8, SameChecklist, RunAssumption DEF SendNote, TypeOK
<1>9. CASE HandleStop
  BY <1>9, SameChecklist DEF HandleStop, TypeOK, Locations, Reasons
<1>10. CASE CmdStop
  <2>1. halt' \in Reasons
    BY <1>10 DEF CmdStop, Reasons
  <2> QED
    BY <1>10, <2>1, SameChecklist, RunAssumption DEF CmdStop, TypeOK
<1>11. CASE CmdRetry
  BY <1>11, SameChecklist, RunAssumption DEF CmdRetry, TypeOK, Locations
<1>12. CASE CmdResume
  BY <1>12, SameChecklist, RunAssumption DEF CmdResume, TypeOK, Locations
<1>13. CASE Crash
  BY <1>13, SameChecklist, RunAssumption DEF Crash, TypeOK, Locations
<1>14. CASE Rest
  BY <1>14, SameChecklist DEF Rest, TypeOK, vars
<1>15. CASE AgentFails
  <2>1. GiveUpOn(actor)
    BY <1>15 DEF AgentFails
  <2> QED
    BY <1>15, <2>1, SameChecklist, GiveUpType DEF AgentFails, TypeOK
<1>16. CASE StopReprompting
  <2>1. GiveUpOn(actor)
    BY <1>16 DEF StopReprompting
  <2> QED
    BY <1>16, <2>1, SameChecklist, GiveUpType DEF StopReprompting, TypeOK
<1>17. CASE AcceptTurn
  <2>1. PICK proposed \in Proposals, by_id \in Readings(checklist) :
          LET accepted == Reconcile(by_id, proposed, actor, turn <= 1, Recoverable)
          IN  /\ checklist' = accepted
              /\ TurnMailBlocked \/ TurnMailed(accepted)
    BY <1>17 DEF AcceptTurn
  <2>2. checklist \in SUBSET Item /\ actor \in Agents /\ (turn <= 1) \in BOOLEAN
    BY DEF TypeOK
  <2>3. checklist' \subseteq Item /\ ReviewInv'
    BY <2>1, <2>2, ReconcileReviewed DEF ReviewInv
  <2>4. CASE TurnMailBlocked
    BY <1>17, <2>3, <2>4
    DEF AcceptTurn, TurnMailBlocked, TypeOK, Locations, Reasons
  <2>5. CASE TurnMailed(checklist')
    <3>1. lastDigest' \subseteq Ids \X States \X Names
      BY <2>3, <2>5 DEF TurnMailed, Digest, Item
    <3>2. streak' \in Nat /\ turn' \in Nat /\ pc' \in Locations
      BY <2>5 DEF TurnMailed, TypeOK, Locations
    <3>3. actor' \in Agents
      BY <2>5, NextActorIsWorker DEF TurnMailed
    <3>4. active' \in Handoffs \cup {None}
      BY <2>5 DEF TurnMailed, FinishSecondWind, TypeOK
    <3> QED
      BY <1>17, <2>3, <2>5, <3>1, <3>2, <3>3, <3>4
      DEF AcceptTurn, TurnMailed, TypeOK
  <2> QED
    BY <2>1, <2>4, <2>5
<1>18. CASE Judge
  <2> DEFINE items == UnrecoveredBlocks
             stuck == Blocking(checklist)
  <2>1. items \in SUBSET Ids
    BY UnrecoveredAreIds
  <2>2. \A x \in stuck : x.state \in Reasons
    BY DEF Blocking, Reasons
  <2>3. CASE /\ used < MaxRecoveries /\ used' = used + 1
             /\ active' = [to |-> actor, items |-> items]
             /\ halt' = None /\ reprompts' = 0
             /\ attempted' = attempted \cup items
             /\ pc' = "looping" /\ UNCHANGED result
    BY <1>18, <2>1, <2>3, SameChecklist, RunAssumption DEF Judge, TypeOK, Handoffs, Locations
  <2>4. CASE /\ \/ result' \in {"complete", "turn_budget", "no_progress"}
                \/ \E x \in stuck : result' = x.state
             /\ pc' = "returned"
             /\ UNCHANGED <<halt, reprompts, used, active, attempted>>
    <3>1. result' \in Reasons
      BY <2>2, <2>4 DEF Reasons
    <3> QED
      BY <1>18, <2>4, <3>1, SameChecklist DEF Judge, TypeOK, Locations
  <2>5. CASE /\ pc' = "looping"
             /\ UNCHANGED <<halt, reprompts, used, active, attempted, result>>
    BY <1>18, <2>5, SameChecklist DEF Judge, TypeOK, Locations
  <2> QED
    BY <1>18, <2>3, <2>4, <2>5 DEF Judge, CanRecover
<1>19. CASE HandleNote
  <2>1. CASE inbox = "STOP"
    BY <1>19, <2>1, SameChecklist DEF HandleNote, TypeOK, Locations
  <2>2. CASE inbox = "guidance"
    <3>1. ApplyGuidance
      BY <1>19, <2>2 DEF HandleNote
    <3>2. checklist' \subseteq Item /\ ReviewInv'
      BY <3>1, GuidanceReviewed
    <3>3. /\ halt' \in Reasons \cup {None}
          /\ reprompts' \in Nat /\ streak' \in Nat
      BY <3>1 DEF ApplyGuidance, TypeOK
    <3> QED
      BY <1>19, <2>2, <3>2, <3>3 DEF HandleNote, TypeOK, Locations
  <2> QED
    BY <1>19, <2>1, <2>2 DEF HandleNote
<1>20. CASE UNCHANGED vars
  BY <1>20, SameChecklist DEF vars, TypeOK
<1> QED
  BY <1>1, <1>2, <1>3, <1>4, <1>5, <1>6, <1>7, <1>8, <1>9, <1>10,
     <1>11, <1>12, <1>13, <1>14, <1>15, <1>16, <1>17, <1>18, <1>19, <1>20
  DEF Next, RunnerStep

\* TypeOK holds of every run of the program, whatever the models reply.
THEOREM TypeCorrect == Spec => []TypeOK
<1>1. Spec => []ReviewedRun
  BY ReviewedRunInit, ReviewedRunStep, PTL DEF Spec
<1>2. ReviewedRun => TypeOK
  BY DEF ReviewedRun
<1> QED
  BY <1>1, <1>2, PTL

\* The invariant of the independent review: a done item was approved by a
\* worker other than its owner (reconcile, start_second_wind,
\* apply_human_note), for every set of workers and every reply.
THEOREM IndependentReview == Spec => []IndependentVerification
<1>1. Spec => []ReviewedRun
  BY ReviewedRunInit, ReviewedRunStep, PTL DEF Spec
<1>2. ReviewedRun => IndependentVerification
  BY DEF ReviewedRun, ReviewInv, Reviewed, IndependentVerification
<1> QED
  BY <1>1, <1>2, PTL

----------------------------------------------------------------------------
\* Every step closes or replaces the active handoff when it passes the turn.
LEMMA HandoffStep ==
  HandoffIsForTurnHolder /\ [Next]_vars => HandoffIsForTurnHolder'
<1> SUFFICES ASSUME HandoffIsForTurnHolder, [Next]_vars
             PROVE  HandoffIsForTurnHolder'
  OBVIOUS
<1> USE DEF HandoffIsForTurnHolder
<1>1. CASE StartSecondWind(actor, ClaimedBy(actor))
  BY <1>1 DEF StartSecondWind
<1>2. CASE AcceptTurn
  <2>1. CASE TurnMailBlocked
    BY <1>2, <2>1 DEF AcceptTurn, TurnMailBlocked
  <2>2. CASE FinishSecondWind
    BY <2>2 DEF FinishSecondWind
  <2> QED
    BY <1>2, <2>1, <2>2 DEF AcceptTurn, TurnMailed
<1>3. CASE Judge
  <2>1. actor' = actor
    BY <1>3 DEF Judge
  <2>2. \/ active' = [to |-> actor, items |-> UnrecoveredBlocks]
        \/ active' = active
    BY <1>3 DEF Judge
  <2> QED
    BY <2>1, <2>2
<1>4. CASE UNCHANGED <<active, actor>>
  BY <1>4
<1> QED
  <2> USE DEF disk, process, bounds
  <2>1. AgentFails \/ StopReprompting =>
          \/ StartSecondWind(actor, ClaimedBy(actor))
          \/ UNCHANGED <<active, actor>>
    BY DEF AgentFails, StopReprompting, GiveUpOn
  <2>2. \/ RefuseTurn \/ NoEnvelope \/ Reprompt \/ RecordHalt \/ LoopLimit
        \/ RecordReport \/ HandleStop
        => UNCHANGED <<active, actor>>
    BY DEF RefuseTurn, NoEnvelope, Reprompt, RecordHalt, LoopLimit,
           RecordReport, HandleStop
  <2>3. \/ HandleCommission \/ SendNote \/ HandleNote \/ CmdStop \/ CmdRetry
        \/ CmdResume \/ Crash \/ Rest
        => UNCHANGED <<active, actor>>
    BY DEF HandleCommission, SendNote, HandleNote, CmdStop, CmdRetry,
           CmdResume, Crash, Rest, vars
  <2>4. UNCHANGED vars => UNCHANGED <<active, actor>>
    BY DEF vars
  <2> QED
    BY <1>1, <1>2, <1>3, <1>4, <2>1, <2>2, <2>3, <2>4 DEF Next, RunnerStep

\* The custody a recovery grants belongs to the worker that holds the turn and
\* ends with it (start_second_wind, finish_second_wind).
THEOREM CustodyEndsWithTheTurn == Spec => []HandoffIsForTurnHolder
<1>1. Init => HandoffIsForTurnHolder
  BY DEF Init, HandoffIsForTurnHolder
<1> QED
  BY <1>1, HandoffStep, PTL DEF Spec

----------------------------------------------------------------------------
(***************************************************************************)
(* Who may take over work.                                                 *)
(***************************************************************************)

\* The steps that change the checklist.
LEMMA ChecklistChanges ==
  ASSUME [Next]_vars
  PROVE  \/ UNCHANGED checklist
         \/ AcceptTurn
         \/ ApplyGuidance
<1> USE DEF disk, process, bounds
<1>1. CASE RunnerStep
  BY <1>1
  DEF RunnerStep, RefuseTurn, AgentFails, NoEnvelope, Reprompt, StopReprompting,
      Judge, RecordHalt, LoopLimit, RecordReport, HandleStop
<1>2. CASE \/ HandleCommission \/ SendNote \/ HandleNote \/ CmdStop
           \/ CmdRetry \/ CmdResume \/ Crash \/ Rest
  BY <1>2
  DEF HandleCommission, SendNote, HandleNote, CmdStop, CmdRetry, CmdResume,
      Crash, Rest, vars
<1>3. CASE UNCHANGED vars
  BY <1>3 DEF vars
<1> QED
  BY <1>1, <1>2, <1>3 DEF Next

\* A guarded transition that gives an item under way to another worker is a
\* takeover (Accept).
LEMMA AcceptOwner ==
  ASSUME NEW x \in Item, NEW p \in RawItem, NEW w \in Agents, NEW R,
         x.state \in {"claimed", "blocked"}, x.owner \in Agents,
         Accept(x, p, w, R).owner # x.owner
  PROVE  x.id \in R /\ Accept(x, p, w, R).owner = w
BY ChecklistAssumption
DEF Accept, Takeover, Approval, Rejection, Claim, Submission, Escalation, Item

\* Claimed and blocked work passes to another worker only by an active handoff
\* that names it (reconcile, start_second_wind).
THEOREM OnlyGrantedCustody == Spec => CustodyIsGranted
<1> DEFINE Granted ==
      UniqueIds(checklist) /\ UniqueIds(checklist') =>
        \A y \in checklist' : \A x \in checklist :
          /\ y.id = x.id
          /\ x.state \in {"claimed", "blocked"} /\ x.owner \in Agents
          /\ y.owner \in Agents /\ y.owner # x.owner
          => active # None /\ active.to = y.owner /\ y.id \in active.items
<1>1. TypeOK /\ [Next]_vars => Granted
  <2> SUFFICES ASSUME TypeOK, [Next]_vars,
                      UniqueIds(checklist), UniqueIds(checklist'),
                      NEW y \in checklist', NEW x \in checklist, y.id = x.id,
                      x.state \in {"claimed", "blocked"}, x.owner \in Agents,
                      y.owner \in Agents, y.owner # x.owner
               PROVE  active # None /\ active.to = y.owner /\ y.id \in active.items
    OBVIOUS
  <2>1. y \notin checklist
    BY DEF UniqueIds
  <2>2. CASE AcceptTurn
    <3>1. PICK P \in Proposals, by_id \in Readings(checklist) :
            checklist' = Reconcile(by_id, P, actor, turn <= 1, Recoverable)
      BY <2>2 DEF AcceptTurn
    <3>2. checklist \in SUBSET Item /\ actor \in Agents /\ (turn <= 1) \in BOOLEAN
      BY DEF TypeOK
    <3>3. \A p \in RawItem : NewItem(p).id = p.id
      BY NewItemStarts
    <3>4. ~\E p \in RawItem : p.id \notin IdsOf(checklist) /\ y = NewItem(p)
      BY <3>3 DEF IdsOf
    <3> DEFINE new == turn <= 1
    <3> HIDE DEF new
    <3>0. new \in BOOLEAN /\ y \in Reconcile(by_id, P, actor, new, Recoverable)
      BY <3>1, <3>2 DEF new
    <3>5. PICK z \in checklist, p \in RawItem :
            p.id = z.id /\ y = Accept(z, p, actor, Recoverable)
      BY <2>1, <3>0, <3>2, <3>4, ReconcileItems
    <3>6. z = x
      BY <3>2, <3>5, AcceptType DEF UniqueIds
    <3>7. x.id \in Recoverable /\ y.owner = actor
      BY <3>2, <3>5, <3>6, AcceptOwner
    <3> QED
      BY <3>7 DEF Recoverable
  <2>3. CASE ApplyGuidance
    <3>1. \/ \E z \in checklist : y = Reopened(z)
          \/ y = FollowUp(NextId)
      BY <2>1, <2>3 DEF ApplyGuidance, Blocking
    <3>2. y.owner = None
      BY <3>1 DEF Reopened, FollowUp
    <3> QED
      BY <3>2, ChecklistAssumption
  <2>4. CASE UNCHANGED checklist
    BY <2>1, <2>4
  <2> QED
    BY <2>2, <2>3, <2>4, ChecklistChanges
<1> QED
  BY <1>1, TypeCorrect, PTL DEF Spec, CustodyIsGranted

----------------------------------------------------------------------------
(***************************************************************************)
(* The run implements VerifiedWork: an action of the runner is a turn of   *)
(* the worker that holds it, a request for one more item, or nothing.      *)
(***************************************************************************)

\* The items as the abstract specification sees them.
LEMMA AbstractFields ==
  ASSUME NEW x \in Item
  PROVE  /\ AbstractItem(x).id = x.id
         /\ x.state = "awaiting-verification"
              => AbstractItem(x) = Work!Submitted(x.id, x.owner)
         /\ x.state = "done"
              => AbstractItem(x) = Work!Approved(x.id, x.owner, x.verified_by)
         /\ x.state \in {"open", "claimed", "blocked", "disputed"}
              => AbstractItem(x) = Work!Pending(x.id)
BY DEF AbstractItem, Work!Submitted, Work!Approved, Work!Pending

\* A guarded transition is at most one step of the review (Accept).
LEMMA AcceptMoves ==
  ASSUME NEW x \in Item, NEW p \in RawItem, NEW w \in Agents, NEW R
  PROVE  AbstractItem(Accept(x, p, w, R)) \in Work!Move(w, AbstractItem(x))
<1> DEFINE y == Accept(x, p, w, R)
           v == AbstractItem(x)
<1>1. y \in Item /\ y.id = x.id
  BY AcceptType
<1>2. x.state \in States /\ p.state \in States \cup {"other"}
  BY RawItemFields DEF Item
<1>3. /\ v.id = x.id
      /\ x.state \in {"open", "claimed", "blocked"} => v.phase = "pending"
      /\ x.state = "awaiting-verification" => v.phase = "submitted" /\ v.by = x.owner
  BY DEF AbstractItem
<1>4. CASE y = x
  BY <1>4 DEF Work!Move
<1>5. CASE y.state \in {"open", "claimed", "blocked", "disputed"}
  BY <1>1, <1>3, <1>5, AbstractFields DEF Work!Move
<1>6. CASE /\ y.state = "awaiting-verification" /\ y.owner = w
           /\ x.state \in {"open", "claimed", "blocked"}
  BY <1>1, <1>3, <1>6, AbstractFields DEF Work!Move
<1>7. CASE /\ y.state = "done" /\ y.owner = x.owner /\ y.verified_by = w
           /\ x.state = "awaiting-verification" /\ x.owner # w
  BY <1>1, <1>3, <1>7, AbstractFields DEF Work!Move
<1> HIDE DEF v
<1>8. \/ y = x
      \/ y.state \in {"open", "claimed", "blocked", "disputed"}
      \/ /\ y.state = "awaiting-verification" /\ y.owner = w
         /\ x.state \in {"open", "claimed", "blocked"}
      \/ /\ y.state = "done" /\ y.owner = x.owner /\ y.verified_by = w
         /\ x.state = "awaiting-verification" /\ x.owner # w
  BY <1>2
  DEF Accept, Takeover, Approval, Rejection, Claim, Submission, Escalation,
      Item, States
<1> QED
  BY <1>4, <1>5, <1>6, <1>7, <1>8

\* A new item starts pending (NewItem).
LEMMA NewItemPends ==
  ASSUME NEW p \in RawItem
  PROVE  AbstractItem(NewItem(p)) = Work!Pending(p.id)
<1>1. NewItem(p) \in Item /\ NewItem(p).id = p.id
  BY NewItemStarts
<1>2. NewItem(p).state \in {"open", "claimed"}
  BY DEF NewItem, RawItem
<1> QED
  BY <1>1, <1>2, AbstractFields

\* No id is lost, whatever the reply leaves out (Reconcile).
LEMMA ReconcileKeeps ==
  ASSUME NEW items \in SUBSET Item, NEW by_id \in Readings(items),
         NEW P \in Proposals, NEW w \in Agents, NEW new \in BOOLEAN, NEW R,
         NEW x \in items
  PROVE  \E y \in Reconcile(by_id, P, w, new, R) : y.id = x.id
<1>1. /\ DOMAIN by_id = IdsOf(items) /\ x.id \in IdsOf(items)
      /\ \A i \in IdsOf(items) : by_id[i] \in Item /\ by_id[i].id = i
  BY DEF Readings, IdsOf
<1>2. CASE \E p \in P : p.id = x.id
  <2>1. PICK p \in P : p.id = x.id
    BY <1>2
  <2>2. Accept(by_id[p.id], p, w, R).id = x.id
    BY <1>1, <2>1, ProposalsAreRaw, AcceptType
  <2> QED
    BY <1>1, <2>1, <2>2 DEF Reconcile
<1>3. CASE x.id \notin IdsOf(P)
  BY <1>1, <1>3 DEF Reconcile
<1> QED
  BY <1>2, <1>3 DEF IdsOf

\* The abstract items have the ids of the checklist.
LEMMA WorkIds == Work!IdsOfWork(work) = IdsOf(checklist)
<1>1. \A x \in checklist : AbstractItem(x) \in work /\ AbstractItem(x).id = x.id
  BY DEF work, AbstractItem
<1>2. \A v \in work : \E x \in checklist : v = AbstractItem(x)
  BY DEF work
<1>3. Work!IdsOfWork(work) \subseteq IdsOf(checklist)
  BY <1>1, <1>2 DEF Work!IdsOfWork, IdsOf
<1>4. IdsOf(checklist) \subseteq Work!IdsOfWork(work)
  BY <1>1 DEF Work!IdsOfWork, IdsOf
<1> QED
  BY <1>3, <1>4

\* An accepted turn is a turn of the worker that holds it (take_turn).
LEMMA AcceptTurnWorks == TypeOK /\ AcceptTurn => Work!Turn(actor)
<1> SUFFICES ASSUME TypeOK, AcceptTurn PROVE Work!Turn(actor)
  OBVIOUS
<1> DEFINE new == turn <= 1
<1>1. checklist \in SUBSET Item /\ actor \in Agents /\ new \in BOOLEAN
  BY DEF TypeOK
<1> HIDE DEF new
<1>2. PICK P \in Proposals, by_id \in Readings(checklist) :
        checklist' = Reconcile(by_id, P, actor, new, Recoverable)
  BY DEF AcceptTurn, new
<1>3. ASSUME NEW y \in checklist'
      PROVE  \/ \E x \in checklist : /\ x.id = AbstractItem(y).id
                                     /\ AbstractItem(y) \in Work!Move(actor, AbstractItem(x))
             \/ /\ AbstractItem(y).id \in Ids \ IdsOf(checklist)
                /\ AbstractItem(y) = Work!Pending(AbstractItem(y).id)
  <2>1. CASE \E x \in checklist, p \in RawItem :
               p.id = x.id /\ y = Accept(x, p, actor, Recoverable)
    BY <1>1, <2>1, AcceptMoves, AcceptType, AbstractFields
  <2>2. CASE \E p \in RawItem : p.id \notin IdsOf(checklist) /\ y = NewItem(p)
    BY <2>2, NewItemPends, RawItemFields DEF Work!Pending
  <2>3. CASE y \in checklist
    BY <1>1, <2>3, AbstractFields DEF Work!Move
  <2> QED
    BY <1>1, <1>2, <2>1, <2>2, <2>3, ReconcileItems
<1>4. ASSUME NEW x \in checklist
      PROVE  \E y \in checklist' : AbstractItem(y).id = AbstractItem(x).id
  BY <1>1, <1>2, ReconcileKeeps DEF AbstractItem
<1>5. Work!IdsOfWork(work) = IdsOf(checklist)
  BY WorkIds
<1>6. \A x \in checklist : AbstractItem(x) \in work /\ AbstractItem(x).id = x.id
  BY DEF work, AbstractItem
<1>7. \A v \in work' : \E y \in checklist' : v = AbstractItem(y)
  BY DEF work
<1>8. IdsOf(checklist) \subseteq Work!IdsOfWork(work')
  <2> SUFFICES ASSUME NEW x \in checklist PROVE x.id \in Work!IdsOfWork(work')
    BY DEF IdsOf
  <2>1. PICK y \in checklist' : AbstractItem(y).id = x.id
    BY <1>4, <1>6
  <2>2. AbstractItem(y) \in work'
    BY DEF work
  <2> QED
    BY <2>1, <2>2 DEF Work!IdsOfWork
<1> QED
  BY <1>3, <1>5, <1>6, <1>7, <1>8 DEF Work!Turn

\* A nonempty set of checklist ids has a largest one.
LEMMA LargestId ==
  ASSUME NEW S \in SUBSET Ids, S # {}
  PROVE  \E i \in S : \A j \in S : j <= i
<1> DEFINE T == {MaxItems - i : i \in S}
           R == OpToRel(<, Nat)
<1>0. MaxItems \in Nat /\ \A i \in S : i \in Int /\ i <= MaxItems
  BY ChecklistAssumption DEF Ids
<1>1. T \subseteq Nat /\ T # {}
  BY <1>0
<1>2. PICK m \in T : \A k \in T : <<k, m>> \notin R
  BY <1>1, NatLessThanWellFounded, WFMin
<1>3. \A k \in T : ~(k < m)
  BY <1>1, <1>2 DEF OpToRel
<1>4. PICK i \in S : m = MaxItems - i
  OBVIOUS
<1>5. \A j \in S : ~(MaxItems - j < m)
  BY <1>3
<1> QED
  BY <1>0, <1>4, <1>5

\* A note reopens what was pending already, or asks for one more item
\* (apply_human_note).
LEMMA GuidanceAsks ==
  TypeOK /\ ApplyGuidance => Work!Ask \/ UNCHANGED work
<1> SUFFICES ASSUME TypeOK, ApplyGuidance PROVE Work!Ask \/ UNCHANGED work
  OBVIOUS
<1>0. checklist \subseteq Item
  BY DEF TypeOK
<1>1. CASE checklist' = (checklist \ Blocking(checklist))
                          \cup {Reopened(x) : x \in Blocking(checklist)}
  <2>1. \A x \in Blocking(checklist) : AbstractItem(Reopened(x)) = AbstractItem(x)
    BY DEF Blocking, Reopened, AbstractItem
  <2> QED
    BY <1>1, <2>1 DEF work, Blocking
<1>2. CASE /\ checklist # {} /\ NextId \in Ids
           /\ checklist' = checklist \cup {FollowUp(NextId)}
  <2>1. IdsOf(checklist) # {} /\ IdsOf(checklist) \in SUBSET Ids
    BY <1>0, <1>2 DEF IdsOf, Item
  <2>2. NextId \notin IdsOf(checklist)
    BY <2>1, LargestId DEF NextId, Ids
  <2>3. AbstractItem(FollowUp(NextId)) = Work!Pending(NextId)
    BY DEF AbstractItem, FollowUp, Work!Pending
  <2>4. work' = work \cup {Work!Pending(NextId)}
    BY <1>2, <2>3 DEF work
  <2>5. Work!IdsOfWork(work) = IdsOf(checklist)
    BY WorkIds
  <2> QED
    BY <1>2, <2>2, <2>4, <2>5 DEF Work!Ask
<1>3. CASE UNCHANGED checklist
  BY <1>3 DEF work
<1> QED
  BY <1>1, <1>2, <1>3 DEF ApplyGuidance, IsComplete

\* An accepted turn moves each item at most one step of the review, by the
\* worker that holds the turn, and loses none (reconcile, apply_human_note).
THEOREM WorkIsVerified == Spec => ImplementsVerifiedWork
<1>1. Init => Work!Init
  BY DEF Init, Work!Init, work
<1>2. TypeOK /\ [Next]_vars => [Work!Next]_work
  <2> SUFFICES ASSUME TypeOK, [Next]_vars PROVE Work!Next \/ UNCHANGED work
    OBVIOUS
  <2>1. UNCHANGED checklist => UNCHANGED work
    BY DEF work
  <2>2. actor \in Agents
    BY DEF TypeOK
  <2> QED
    BY <2>1, <2>2, ChecklistChanges, AcceptTurnWorks, GuidanceAsks DEF Work!Next
<1> QED
  BY <1>1, <1>2, TypeCorrect, PTL DEF Spec, ImplementsVerifiedWork, Work!Spec
============================================================================
