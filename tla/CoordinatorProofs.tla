-------------------------- MODULE CoordinatorProofs --------------------------
(***************************************************************************)
(* Proofs about Coordinator, for every set of requests and objectives: the *)
(* requests of one key take turns by lease and attempt, and the handlers   *)
(* implement the promise of Handoff.                                       *)
(***************************************************************************)
EXTENDS Coordinator, TLAPS

\* No attempt is coordinated by two requests.
OneCoordinatorPerAttempt ==
  \A r, s \in Requests : Busy(r) /\ Busy(s) /\ attempt[r] = attempt[s] => r = s

\* A lease is of an attempt that has not ended.
LeasedIsUnderWay ==
  record # None /\ record.leased => record.status = "coordinating"

\* An attempt that is under way has a number the record has reached.
AttemptsAreCounted ==
  \A r \in Requests :
    Busy(r) => record # None /\ attempt[r] # 0 /\ attempt[r] <= record.attempts

\* A stored handoff was written by the attempt that owned the record, which is
\* over: whoever still works was superseded, and its fence will tell it so.
ReadyIsSettled ==
  Ready(record) =>
    /\ record.by # 0
    /\ \A r \in Requests : Busy(r) => attempt[r] # record.attempts

\* A request reclaims a record that it has read, and what it read is no handoff.
DuplicatesAreUnready ==
  \A r \in Requests :
    pc[r] = "reclaiming" => record # None /\ ~Ready(answer[r])

\* Whoever was told a handoff was told the one that is stored.
ToldIsStored ==
  \A r \in Requests :
    pc[r] = "done" /\ Ready(answer[r])
      => Ready(record) /\ answer[r].by = record.by

\* The objective of a request that was submitted.
TaskIsKnown ==
  \A r \in Requests : pc[r] # "idle" => task[r] \in Tasks

CoordinatorInv ==
  /\ TypeOK
  /\ TaskIsKnown
  /\ OneCoordinatorPerAttempt
  /\ LeasedIsUnderWay
  /\ AttemptsAreCounted
  /\ ReadyIsSettled
  /\ DuplicatesAreUnready
  /\ ToldIsStored
----------------------------------------------------------------------------
(***************************************************************************)
(* The type invariant.                                                     *)
(***************************************************************************)

\* A record that is not None has the fields of Record; None has not.
LEMMA RecordFields ==
  ASSUME NEW x \in Record
  PROVE  /\ x # None
         /\ x.status \in {"coordinating", "ready_for_rally", "coordinator_failed"}
         /\ x.attempts \in Nat \ {0} /\ x.leased \in BOOLEAN
         /\ x.task \in Tasks /\ x.by \in Nat
BY CoordinatorAssumption DEF Record

\* What the first attempt and a later one store (create, reclaim).
LEMMA NewRecordType ==
  ASSUME NEW t \in Tasks
  PROVE  /\ NewRecord(t) \in Record
         /\ NewRecord(t).status = "coordinating" /\ NewRecord(t).attempts = 1
BY DEF NewRecord, Record

LEMMA ReclaimedType ==
  ASSUME NEW x \in Record
  PROVE  LET y == [x EXCEPT !.status = "coordinating", !.attempts = @ + 1,
                            !.leased = TRUE]
         IN  y \in Record /\ y.status = "coordinating"
               /\ y.attempts = x.attempts + 1
<1>1. x.attempts + 1 \in Nat \ {0}
  BY RecordFields
<1> QED
  BY <1>1 DEF Record

LEMMA UnleasedType ==
  ASSUME NEW x \in Record
  PROVE  LET y == [x EXCEPT !.leased = FALSE]
         IN  y \in Record /\ y.status = x.status /\ ~y.leased
               /\ y.attempts = x.attempts /\ y.by = x.by
BY DEF Record

\* The states an attempt ends in (update_commission, expected_attempt).
LEMMA FinishedType ==
  ASSUME TypeOK, record # None, NEW r \in Requests,
         NEW status \in {"ready_for_rally", "coordinator_failed"}
  PROVE  /\ Finished(r, status) \in Record
         /\ Finished(r, status).status = status /\ ~Finished(r, status).leased
         /\ Finished(r, status).attempts = record.attempts
         /\ status = "ready_for_rally" => Finished(r, status).by = attempt[r]
BY DEF Finished, Record, TypeOK

LEMMA TypeStep == CoordinatorInv /\ [Next]_vars => TypeOK' /\ TaskIsKnown'
<1> SUFFICES ASSUME CoordinatorInv, [Next]_vars PROVE TypeOK' /\ TaskIsKnown'
  OBVIOUS
<1> USE DEF CoordinatorInv, TypeOK, TaskIsKnown, Locations, Goto, Return
<1>1. ASSUME NEW r \in Requests, Submit(r) PROVE TypeOK' /\ TaskIsKnown'
  BY <1>1 DEF Submit
<1>2. ASSUME NEW r \in Requests, Read(r) PROVE TypeOK' /\ TaskIsKnown'
  BY <1>2 DEF Read
<1>3. ASSUME NEW r \in Requests, Create(r) PROVE TypeOK' /\ TaskIsKnown'
  BY <1>3, NewRecordType DEF Create
<1>4. ASSUME NEW r \in Requests, Reclaim(r) PROVE TypeOK' /\ TaskIsKnown'
  <2>1. record \in Record
    BY <1>4 DEF Reclaim, DuplicatesAreUnready
  <2>2. record.attempts + 1 \in Nat
    BY <2>1, RecordFields
  <2>3. CASE Reclaimable
    <3>1. record' \in Record
      BY <1>4, <2>1, <2>3, ReclaimedType DEF Reclaim
    <3> QED
      BY <1>4, <2>2, <2>3, <3>1 DEF Reclaim
  <2>4. CASE ~Reclaimable
    BY <1>4, <2>4 DEF Reclaim
  <2> QED
    BY <2>3, <2>4
<1>5. ASSUME NEW r \in Requests, Coordinate(r) PROVE TypeOK' /\ TaskIsKnown'
  BY <1>5 DEF Coordinate
<1>6. ASSUME NEW r \in Requests, Succeed(r) PROVE TypeOK' /\ TaskIsKnown'
  BY <1>6, FinishedType DEF Succeed, AttemptsAreCounted, Busy
<1>7. ASSUME NEW r \in Requests, AnswerStored(r) PROVE TypeOK' /\ TaskIsKnown'
  BY <1>7 DEF AnswerStored
<1>8. ASSUME NEW r \in Requests, Fail(r) PROVE TypeOK' /\ TaskIsKnown'
  BY <1>8, FinishedType DEF Fail, AttemptsAreCounted, Busy
<1>9. ASSUME NEW r \in Requests, Die(r) PROVE TypeOK' /\ TaskIsKnown'
  BY <1>9 DEF Die
<1>10. CASE LeaseExpires
  BY <1>10, UnleasedType DEF LeaseExpires
<1>11. CASE Rest \/ UNCHANGED vars
  BY <1>11 DEF Rest, vars
<1> QED
  BY <1>1, <1>2, <1>3, <1>4, <1>5, <1>6, <1>7, <1>8, <1>9, <1>10, <1>11 DEF Next

----------------------------------------------------------------------------
(***************************************************************************)
(* The safety invariants.                                                  *)
(***************************************************************************)
LEMMA CoordinatorInit == Init => CoordinatorInv
BY CoordinatorAssumption
   DEF Init, CoordinatorInv, TypeOK, TaskIsKnown, Locations,
       OneCoordinatorPerAttempt, LeasedIsUnderWay, AttemptsAreCounted, Busy,
       ReadyIsSettled, Ready, DuplicatesAreUnready, ToldIsStored

\* The conjuncts that speak of attempts, and those that speak of answers.
Exclusion ==
  /\ OneCoordinatorPerAttempt /\ LeasedIsUnderWay /\ AttemptsAreCounted
  /\ ReadyIsSettled /\ DuplicatesAreUnready

LEMMA CoordinatorStep == CoordinatorInv /\ [Next]_vars => CoordinatorInv'
<1> SUFFICES ASSUME CoordinatorInv, [Next]_vars
             PROVE  Exclusion' /\ ToldIsStored'
  BY TypeStep DEF CoordinatorInv, Exclusion
<1> USE DEF CoordinatorInv, TypeOK, TaskIsKnown, Exclusion, OneCoordinatorPerAttempt,
            LeasedIsUnderWay, AttemptsAreCounted, Busy, ReadyIsSettled, Ready,
            DuplicatesAreUnready, ToldIsStored, Goto, Return
<1>1. ASSUME NEW r \in Requests, Submit(r) PROVE Exclusion' /\ ToldIsStored'
  BY <1>1 DEF Submit
<1>2. ASSUME NEW r \in Requests, Read(r) PROVE Exclusion' /\ ToldIsStored'
  BY <1>2 DEF Read
<1>3. ASSUME NEW r \in Requests, Create(r) PROVE Exclusion' /\ ToldIsStored'
  BY <1>3, NewRecordType, RecordFields DEF Create
<1>4. ASSUME NEW r \in Requests, Reclaim(r) PROVE Exclusion' /\ ToldIsStored'
  <2>1. record \in Record
    BY <1>4 DEF Reclaim
  <2>2. CASE Reclaimable
    <3>1. /\ record' \in Record /\ record'.status = "coordinating"
          /\ record'.attempts = record.attempts + 1
          /\ attempt' = [attempt EXCEPT ![r] = record.attempts + 1]
          /\ pc' = [pc EXCEPT ![r] = "coordinating"]
      BY <1>4, <2>1, <2>2, ReclaimedType DEF Reclaim
    <3>2. ~Ready(record)
      BY <2>1, <2>2, RecordFields DEF Reclaimable
    <3>3. \A s \in Requests : Busy(s) => attempt[s] < record'.attempts
      BY <2>1, <3>1, RecordFields
    <3> QED
      BY <1>4, <2>1, <2>2, <3>1, <3>2, <3>3, RecordFields DEF Reclaim
  <2>3. CASE ~Reclaimable
    BY <1>4, <2>3 DEF Reclaim
  <2> QED
    BY <2>2, <2>3
<1>5. ASSUME NEW r \in Requests, Coordinate(r) PROVE Exclusion' /\ ToldIsStored'
  BY <1>5 DEF Coordinate
<1>6. ASSUME NEW r \in Requests, Succeed(r) PROVE Exclusion' /\ ToldIsStored'
  BY <1>6, FinishedType, RecordFields DEF Succeed, Owned
<1>7. ASSUME NEW r \in Requests, AnswerStored(r) PROVE Exclusion' /\ ToldIsStored'
  BY <1>7 DEF AnswerStored
<1>8. ASSUME NEW r \in Requests, Fail(r) PROVE Exclusion' /\ ToldIsStored'
  BY <1>8, FinishedType, RecordFields DEF Fail, Owned
<1>9. ASSUME NEW r \in Requests, Die(r) PROVE Exclusion' /\ ToldIsStored'
  BY <1>9 DEF Die
<1>10. CASE LeaseExpires
  BY <1>10, RecordFields, UnleasedType DEF LeaseExpires
<1>11. CASE Rest \/ UNCHANGED vars
  BY <1>11 DEF Rest, vars
<1> QED
  BY <1>1, <1>2, <1>3, <1>4, <1>5, <1>6, <1>7, <1>8, <1>9, <1>10, <1>11 DEF Next

\* The type invariant of the coordinator's store and handlers.
THEOREM TypeCorrect == Spec => []TypeOK
<1>1. CoordinatorInv => TypeOK
  BY DEF CoordinatorInv
<1> QED
  BY <1>1, CoordinatorInit, CoordinatorStep, PTL DEF Spec

\* Only create and reclaim set a request to work.
LEMMA StartStep ==
  ASSUME CoordinatorInv, [Next]_vars, NEW r \in Requests, ~Busy(r), Busy(r)'
  PROVE  \/ Create(r) /\ record = None
         \/ Reclaim(r) /\ Reclaimable
<1>0. pc \in [Requests -> Locations]
  BY DEF CoordinatorInv, TypeOK
<1>1. /\ pc[r] \notin {"coordinating", "succeeding", "failing"}
      /\ pc'[r] \in {"coordinating", "succeeding", "failing"}
  BY DEF Busy
<1>2. CASE LeaseExpires \/ Rest \/ UNCHANGED vars
  BY <1>1, <1>2 DEF LeaseExpires, Rest, vars
<1>3. ASSUME NEW s \in Requests, s # r,
             \/ Submit(s) \/ Read(s) \/ Create(s) \/ Reclaim(s) \/ Coordinate(s)
             \/ Succeed(s) \/ AnswerStored(s) \/ Fail(s) \/ Die(s)
      PROVE  FALSE
  BY <1>0, <1>1, <1>3
  DEF Submit, Read, Create, Reclaim, Coordinate, Succeed, AnswerStored, Fail, Die,
      Goto, Return
<1>4. CASE \/ Submit(r) \/ Read(r) \/ Coordinate(r) \/ Succeed(r)
           \/ AnswerStored(r) \/ Fail(r) \/ Die(r)
  BY <1>0, <1>1, <1>4
  DEF Submit, Read, Coordinate, Succeed, AnswerStored, Fail, Die, Goto, Return, Busy
<1>5. CASE Create(r)
  <2>1. CASE record = None
    BY <1>5, <2>1
  <2>2. CASE record # None
    BY <1>0, <1>1, <1>5, <2>2 DEF Create, Goto
  <2> QED
    BY <2>1, <2>2
<1>6. CASE Reclaim(r)
  BY <1>0, <1>1, <1>6 DEF Reclaim, Goto, Return
<1> QED
  BY <1>2, <1>3, <1>4, <1>5, <1>6 DEF Next

\* No request starts a Gemini call while a lease runs, and one that starts beside
\* others is a later attempt than each of them, whatever dies, expires or comes
\* late (create, reclaim, finish_coordination).
THEOREM LeasesExclude == Spec => OneCoordinatorPerLease
<1>1. ASSUME CoordinatorInv, [Next]_vars, NEW r \in Requests, ~Busy(r), Busy(r)'
      PROVE  /\ record # None => ~record.leased
             /\ \A s \in Requests : Busy(s) => attempt[s] < attempt'[r]
  <2>1. CASE record = None
    BY <1>1, <2>1 DEF CoordinatorInv, AttemptsAreCounted
  <2>2. CASE record # None
    <3>1. Reclaim(r) /\ Reclaimable
      BY <1>1, <2>2, StartStep
    <3>2. ~record.leased
      BY <1>1, <2>2, <3>1 DEF Reclaimable, CoordinatorInv, LeasedIsUnderWay
    <3>3. attempt'[r] = record.attempts + 1 /\ record.attempts \in Nat
      BY <1>1, <2>2, <3>1, RecordFields DEF Reclaim, CoordinatorInv, TypeOK
    <3>4. ASSUME NEW s \in Requests, Busy(s)
          PROVE  attempt[s] < attempt'[r]
      BY <1>1, <3>3, <3>4 DEF CoordinatorInv, AttemptsAreCounted, TypeOK
    <3> QED
      BY <3>2, <3>4
  <2> QED
    BY <2>1, <2>2
<1>2. Spec => []CoordinatorInv
  BY CoordinatorInit, CoordinatorStep, PTL DEF Spec
<1>3. CoordinatorInv /\ [Next]_vars =>
        \A r \in Requests : ~Busy(r) /\ Busy(r)' =>
          /\ record # None => ~record.leased
          /\ \A s \in Requests : Busy(s) => attempt[s] < attempt'[r]
  BY <1>1
<1> QED
  BY <1>2, <1>3, PTL DEF Spec, OneCoordinatorPerLease

\* All who are told a ready handoff are told the same one
\* (finish_coordination).
THEOREM AnswersAgree == Spec => []ReadyAnswersAgree
<1>1. CoordinatorInv => ReadyAnswersAgree
  BY DEF CoordinatorInv, ToldIsStored, ReadyAnswersAgree, Ready
<1> QED
  BY <1>1, CoordinatorInit, CoordinatorStep, PTL DEF Spec

----------------------------------------------------------------------------
(***************************************************************************)
(* The refinement of Handoff: only Succeed chooses, only Read and          *)
(* AnswerStored tell what was chosen, and every other step stutters.       *)
(***************************************************************************)
\* A request that does not end with a handoff leaves what was told alone.
LEMMA NothingTold ==
  ASSUME NEW r \in Requests, TypeOK, pc[r] # "done",
         \A s \in Requests \ {r} : pc'[s] = pc[s] /\ answer'[s] = answer[s],
         ~(pc'[r] = "done" /\ Ready(answer'[r]))
  PROVE  UNCHANGED told
BY DEF told

\* One that does, has been told just that.
LEMMA OneTold ==
  ASSUME NEW r \in Requests, TypeOK, pc[r] # "done",
         \A s \in Requests \ {r} : pc'[s] = pc[s] /\ answer'[s] = answer[s],
         pc'[r] = "done", Ready(answer'[r])
  PROVE  told' = [told EXCEPT ![r] = answer'[r].by]
BY DEF told

\* Where the record does not become or cease to be a handoff.
LEMMA NothingChosen ==
  ASSUME Ready(record') <=> Ready(record),
         Ready(record) => record'.by = record.by
  PROVE  UNCHANGED chosen
BY DEF chosen

\* Somebody is told the stored handoff.
LEMMA TellsIt ==
  ASSUME CoordinatorInv, NEW r \in Requests, pc[r] # "done",
         \A s \in Requests \ {r} : pc'[s] = pc[s] /\ answer'[s] = answer[s],
         pc'[r] = "done", Ready(record), answer'[r] = record, record' = record
  PROVE  Promise!Tell(r)
<1>1. told' = [told EXCEPT ![r] = record.by]
  BY OneTold DEF CoordinatorInv, Ready
<1>2. chosen = record.by /\ chosen' = chosen /\ record.by # 0
  BY DEF chosen, CoordinatorInv, ReadyIsSettled, Ready
<1>3. told[r] = 0
  BY DEF told
<1> QED
  BY <1>1, <1>2, <1>3 DEF Promise!Tell

LEMMA ImplementsInit == Init => Promise!Init
BY DEF Init, Promise!Init, Ready, chosen, told

LEMMA ImplementsStep ==
  CoordinatorInv /\ [Next]_vars => [Promise!Next]_<<chosen, told>>
<1> DEFINE Stutter == UNCHANGED chosen /\ UNCHANGED told
           Others(r) == \A s \in Requests \ {r} :
                          pc'[s] = pc[s] /\ answer'[s] = answer[s]
<1> SUFFICES ASSUME CoordinatorInv, [Next]_vars
             PROVE  \/ \E r \in Requests : Promise!Choose(r) \/ Promise!Tell(r)
                    \/ Stutter
  BY DEF Promise!Next
<1>0. TypeOK
  BY DEF CoordinatorInv
<1> USE DEF Goto, Return
<1>1. ASSUME NEW r \in Requests, Submit(r) PROVE Stutter
  BY <1>0, <1>1, NothingTold, NothingChosen DEF Submit, TypeOK
<1>2. ASSUME NEW r \in Requests, Read(r) PROVE Promise!Tell(r) \/ Stutter
  <2>1. pc[r] # "done" /\ Others(r) /\ record' = record
    BY <1>0, <1>2 DEF Read, TypeOK
  <2>2. CASE pc'[r] = "done" /\ Ready(answer'[r])
    <3>1. answer'[r] = record
      BY <1>0, <1>2, <2>2 DEF Read, TypeOK, Ready
    <3> QED
      BY <2>1, <2>2, <3>1, TellsIt
  <2>3. CASE ~(pc'[r] = "done" /\ Ready(answer'[r]))
    BY <1>0, <2>1, <2>3, NothingTold, NothingChosen
  <2> QED
    BY <2>2, <2>3
<1>3. ASSUME NEW r \in Requests, Create(r) PROVE Stutter
  <2>1. Ready(record') <=> Ready(record)
    BY <1>0, <1>3, NewRecordType DEF Create, Ready, CoordinatorInv, TaskIsKnown
  <2>2. Ready(record) => record' = record
    BY <1>3 DEF Create, Ready
  <2>3. pc[r] # "done" /\ Others(r) /\ pc'[r] # "done"
    BY <1>0, <1>3 DEF Create, TypeOK
  <2> QED
    BY <1>0, <2>1, <2>2, <2>3, NothingTold, NothingChosen
<1>4. ASSUME NEW r \in Requests, Reclaim(r) PROVE Stutter
  <2>1. record \in Record /\ ~Ready(answer[r])
    BY <1>0, <1>4 DEF Reclaim, CoordinatorInv, DuplicatesAreUnready, TypeOK
  <2>2. CASE Reclaimable
    <3>1. ~Ready(record') /\ ~Ready(record)
      BY <1>4, <2>1, <2>2, ReclaimedType, RecordFields
      DEF Reclaim, Ready, Reclaimable
    <3> QED
      BY <1>0, <1>4, <2>2, <3>1, NothingTold, NothingChosen DEF Reclaim, TypeOK
  <2>3. CASE ~Reclaimable
    BY <1>0, <1>4, <2>1, <2>3, NothingTold, NothingChosen DEF Reclaim, TypeOK
  <2> QED
    BY <2>2, <2>3
<1>5. ASSUME NEW r \in Requests, Coordinate(r) PROVE Stutter
  BY <1>0, <1>5, NothingTold, NothingChosen DEF Coordinate, TypeOK
<1>6. ASSUME NEW r \in Requests, Succeed(r) PROVE Promise!Choose(r) \/ Stutter
  <2>1. Busy(r) /\ pc[r] # "done" /\ Others(r)
    BY <1>0, <1>6 DEF Succeed, TypeOK, Busy
  <2>2. CASE Owned(r)
    <3>1. record # None /\ attempt[r] \in Nat \ {0} /\ ~Ready(record)
      BY <2>1, <2>2
      DEF CoordinatorInv, TypeOK, AttemptsAreCounted, ReadyIsSettled, Owned
    <3>2. /\ Ready(record') /\ record'.by = attempt[r]
          /\ pc'[r] = "done" /\ answer'[r] = record'
      BY <1>0, <1>6, <2>2, <3>1, FinishedType, RecordFields
      DEF Succeed, Ready, TypeOK
    <3>3. chosen = 0 /\ chosen' = attempt[r]
      BY <3>1, <3>2 DEF chosen
    <3>4. told' = [told EXCEPT ![r] = attempt[r]]
      BY <1>0, <2>1, <3>2, OneTold
    <3> QED
      BY <3>1, <3>3, <3>4 DEF Promise!Choose
  <2>3. CASE ~Owned(r)
    BY <1>0, <1>6, <2>1, <2>3, NothingTold, NothingChosen DEF Succeed, TypeOK
  <2> QED
    BY <2>2, <2>3
<1>7. ASSUME NEW r \in Requests, AnswerStored(r) PROVE Promise!Tell(r) \/ Stutter
  <2>1. /\ pc[r] # "done" /\ Others(r) /\ record' = record
        /\ pc'[r] = "done" /\ answer'[r] = record
    BY <1>0, <1>7 DEF AnswerStored, TypeOK
  <2>2. CASE Ready(record)
    BY <2>1, <2>2, TellsIt
  <2>3. CASE ~Ready(record)
    BY <1>0, <2>1, <2>3, NothingTold, NothingChosen
  <2> QED
    BY <2>2, <2>3
<1>8. ASSUME NEW r \in Requests, Fail(r) PROVE Stutter
  <2>1. Busy(r) /\ pc[r] # "done" /\ Others(r) /\ ~Ready(answer'[r])
    BY <1>0, <1>8 DEF Fail, TypeOK, Busy, Ready
  <2>2. CASE Owned(r)
    <3>1. record # None /\ ~Ready(record)
      BY <2>1, <2>2
      DEF CoordinatorInv, AttemptsAreCounted, ReadyIsSettled, Owned
    <3>2. ~Ready(record')
      BY <1>0, <1>8, <2>2, <3>1, FinishedType DEF Fail, Ready
    <3> QED
      BY <1>0, <2>1, <3>1, <3>2, NothingTold, NothingChosen
  <2>3. CASE ~Owned(r)
    BY <1>0, <1>8, <2>1, <2>3, NothingTold, NothingChosen DEF Fail
  <2> QED
    BY <2>2, <2>3
<1>9. ASSUME NEW r \in Requests, Die(r) PROVE Stutter
  BY <1>0, <1>9, NothingTold, NothingChosen DEF Die, TypeOK, Ready
<1>10. CASE LeaseExpires
  <2>1. /\ record' # None /\ record'.status = record.status
        /\ record'.by = record.by
    BY <1>0, <1>10, UnleasedType, RecordFields DEF LeaseExpires, TypeOK
  <2> QED
    BY <1>10, <2>1 DEF LeaseExpires, Ready, chosen, told
<1>11. CASE Rest \/ UNCHANGED vars
  BY <1>11 DEF Rest, vars, chosen, told, Ready
<1> QED
  BY <1>1, <1>2, <1>3, <1>4, <1>5, <1>6, <1>7, <1>8, <1>9, <1>10, <1>11 DEF Next

\* The handlers keep what Handoff promises: one handoff is chosen, for good,
\* and nobody is told another (finish_coordination, update, reclaim).
THEOREM HandoffIsFinal == Spec => ImplementsHandoff
<1>1. Spec => []CoordinatorInv
  BY CoordinatorInit, CoordinatorStep, PTL DEF Spec
<1> QED
  BY <1>1, ImplementsInit, ImplementsStep, PTL
  DEF Spec, ImplementsHandoff, Promise!Spec
=============================================================================
