---------------------------- MODULE Coordinator ----------------------------
(***************************************************************************)
(* The cloud coordinator: one idempotency key, and the concurrent requests *)
(* that submit a commission under it (submit_commission and                *)
(* finish_coordination of src/cloud/service.py over the record store of    *)
(* store.py; the HTTP route and the A2A executor both call them).          *)
(*                                                                         *)
(* The Firestore backend keeps a copy of the record under the run id and   *)
(* one under the key, and every transaction writes both: one variable.  A  *)
(* transaction is one action.  A handler is not cancelled when its lease   *)
(* runs out, so an attempt may end long after another one took over.       *)
(***************************************************************************)
EXTENDS Integers, FiniteSets

CONSTANTS
  Requests,  \* the requests that carry the key
  Tasks,     \* the objectives they submit
  None

\* task stands for task_digest, leased for an unexpired lease_expires_at, and
\* by is the attempt whose coordinator_record is stored, 0 when none is.
Record ==
  [status : {"coordinating", "ready_for_rally", "coordinator_failed"},
   attempts : Nat \ {0}, leased : BOOLEAN, task : Tasks, by : Nat]

ASSUME CoordinatorAssumption == None \notin Tasks \cup Record

VARIABLES
  record,   \* the commission record of the key, or None
  pc,       \* where each request is
  task,     \* its objective
  attempt,  \* the attempt it coordinates, 0 when none
  answer    \* what it returned: a record, or None for an error

vars == <<record, pc, task, attempt, answer>>

Locations == {"idle", "reading", "creating", "reclaiming", "coordinating",
              "succeeding", "failing", "rereading", "done"}

TypeOK ==
  /\ record \in Record \cup {None}
  /\ pc \in [Requests -> Locations]
  /\ task \in [Requests -> Tasks \cup {None}]
  /\ attempt \in [Requests -> Nat]
  /\ answer \in [Requests -> Record \cup {None}]

Init ==
  /\ record = None
  /\ pc = [r \in Requests |-> "idle"]
  /\ task = [r \in Requests |-> None]
  /\ attempt = [r \in Requests |-> 0]
  /\ answer = [r \in Requests |-> None]

----------------------------------------------------------------------------
Goto(r, place) == pc' = [pc EXCEPT ![r] = place]

Return(r, result) ==
  /\ Goto(r, "done")
  /\ answer' = [answer EXCEPT ![r] = result]

Submit(r) ==
  /\ pc[r] = "idle"
  /\ \E t \in Tasks : task' = [task EXCEPT ![r] = t]
  /\ Goto(r, "reading")
  /\ UNCHANGED <<record, attempt, answer>>

\* get_by_request_key, and what submit_commission makes of the record; a
\* duplicate returns the record as it was read.
Read(r) ==
  /\ pc[r] = "reading"
  /\ IF record = None
       THEN Goto(r, "creating") /\ UNCHANGED answer
     ELSE IF record.task # task[r]
       THEN Return(r, None)  \* 409: the key is bound to another commission
     ELSE IF record.status = "ready_for_rally"
       THEN Return(r, record)
     ELSE /\ Goto(r, "reclaiming")
          /\ answer' = [answer EXCEPT ![r] = record]
  /\ UNCHANGED <<record, task, attempt>>

UncountedRecord(t) ==  \* mutant: attempts are counted from 0
  [status |-> "coordinating", attempts |-> 0, leased |-> TRUE, task |-> t,
   by |-> 0]

NewRecord(t) == [status |-> "coordinating", attempts |-> 1, leased |-> TRUE,
                 task |-> t, by |-> 0]

\* store.create claims the key; the loser will answer with the record of the
\* winner, whichever commission that is.
Create(r) ==
  /\ pc[r] = "creating"
  /\ IF record = None
       THEN /\ record' = NewRecord(task[r])
            /\ attempt' = [attempt EXCEPT ![r] = 1]
            /\ Goto(r, "coordinating")
       ELSE Goto(r, "rereading") /\ UNCHANGED <<record, attempt>>
  /\ UNCHANGED <<task, answer>>

ReclaimableAnyTime ==  \* mutant: the lease is not looked at
  record.status \in {"coordinator_failed", "coordinating"}

Reclaimable ==
  \/ record.status = "coordinator_failed"
  \/ record.status = "coordinating" /\ ~record.leased

\* store.reclaim: a failed or expired attempt is resumed as the next one.
Reclaim(r) ==
  /\ pc[r] = "reclaiming"
  /\ IF Reclaimable
       THEN /\ record' = [record EXCEPT !.status = "coordinating",
                                        !.attempts = @ + 1, !.leased = TRUE]
            /\ attempt' = [attempt EXCEPT ![r] = record.attempts + 1]
            /\ Goto(r, "coordinating")
            /\ answer' = [answer EXCEPT ![r] = None]
       ELSE Return(r, answer[r]) /\ UNCHANGED <<record, attempt>>
  /\ UNCHANGED task

\* Gemini through the ADK runner.
Coordinate(r) ==
  /\ pc[r] = "coordinating"
  /\ \E place \in {"succeeding", "failing"} : Goto(r, place)
  /\ UNCHANGED <<record, task, attempt, answer>>

OwnedByAnyone(r) == record # None  \* mutant: expected_attempt is not compared

\* store.update writes nothing when a newer attempt owns the record.
Owned(r) == record.attempts = attempt[r]

Finished(r, status) ==
  [record EXCEPT !.status = status, !.leased = FALSE,
                 !.by = IF status = "ready_for_rally" THEN attempt[r] ELSE @]

UnfencedAnswer(r) ==  \* mutant: the result of update is not looked at
  /\ pc[r] = "succeeding"
  /\ record' = IF Owned(r) THEN Finished(r, "ready_for_rally") ELSE record
  /\ Return(r, Finished(r, "ready_for_rally"))
  /\ UNCHANGED <<task, attempt>>

\* finish_coordination, success: a superseded attempt answers with the record
\* that is stored.
Succeed(r) ==
  /\ pc[r] = "succeeding"
  /\ IF Owned(r)
       THEN /\ record' = Finished(r, "ready_for_rally")
            /\ Return(r, Finished(r, "ready_for_rally"))
       ELSE Goto(r, "rereading") /\ UNCHANGED <<record, answer>>
  /\ UNCHANGED <<task, attempt>>

\* The record is read again by whoever lost the key or the attempt.
AnswerStored(r) ==
  /\ pc[r] = "rereading"
  /\ Return(r, record)
  /\ UNCHANGED <<record, task, attempt>>

\* finish_coordination, failure: 502 whoever owns the record.
Fail(r) ==
  /\ pc[r] = "failing"
  /\ record' = IF Owned(r) THEN Finished(r, "coordinator_failed") ELSE record
  /\ Return(r, None)
  /\ UNCHANGED <<task, attempt>>

\* The instance that serves the request dies, or the client's and Cloud Run's
\* timeouts end it.
Die(r) ==
  /\ pc[r] \notin {"idle", "done"}
  /\ Return(r, None)
  /\ UNCHANGED <<record, task, attempt>>

LeaseExpires ==
  /\ record # None /\ record.leased
  /\ record' = [record EXCEPT !.leased = FALSE]
  /\ UNCHANGED <<pc, task, attempt, answer>>

\* Every request was answered and no lease runs.
Rest ==
  /\ \A r \in Requests : pc[r] = "done"
  /\ record # None => ~record.leased
  /\ UNCHANGED vars

Next ==
  \/ \E r \in Requests :
       \/ Submit(r) \/ Read(r) \/ Create(r) \/ Reclaim(r) \/ Coordinate(r)
       \/ Succeed(r) \/ AnswerStored(r) \/ Fail(r) \/ Die(r)
  \/ LeaseExpires \/ Rest

Spec == Init /\ [][Next]_vars

----------------------------------------------------------------------------
(***************************************************************************)
(* Properties                                                              *)
(***************************************************************************)

\* The request runs the coordinator, or is about to store what came of it.
Busy(r) == pc[r] \in {"coordinating", "succeeding", "failing"}

\* No request starts a Gemini call while a lease runs, and one that starts beside
\* others, whose leases have run out, is a later attempt than each of them: their
\* results will be refused (create, reclaim, finish_coordination).
OneCoordinatorPerLease ==
  [][\A r \in Requests : ~Busy(r) /\ Busy(r)' =>
       /\ record # None => ~record.leased
       /\ \A s \in Requests : Busy(s) => attempt[s] < attempt'[r]]_vars

\* All requests that are told a ready handoff are told the same one, even those
\* whose own attempt had been superseded (finish_coordination).
ReadyAnswersAgree ==
  \A r, s \in Requests :
    /\ pc[r] = "done" /\ answer[r] # None /\ answer[r].status = "ready_for_rally"
    /\ pc[s] = "done" /\ answer[s] # None /\ answer[s].status = "ready_for_rally"
    => answer[r].by = answer[s].by

Ready(x) == x # None /\ x.status = "ready_for_rally"

\* The handoff that is stored, and the one each request was told.
chosen == IF Ready(record) THEN record.by ELSE 0

told == [r \in Requests |->
           IF pc[r] = "done" /\ Ready(answer[r]) THEN answer[r].by ELSE 0]

Promise == INSTANCE Handoff WITH Attempts <- Nat \ {0}, Nothing <- 0

\* A handoff that Rally may start from is chosen once and is final: no late attempt
\* fails, restarts or replaces it, and nobody is told another (update's
\* expected_attempt, reclaim, finish_coordination).
ImplementsHandoff == Promise!Spec
=============================================================================
