---------------------------- MODULE RunDelivery ----------------------------
(***************************************************************************)
(* How the messages of one commission reach the runner and its reports     *)
(* reach the commissioner: the webhook and queue of the Worker (index.js), *)
(* the serve loop and the handlers of runner.py, and the report delivery.  *)
(*                                                                         *)
(* The turn loop of a run is the single action Work here; module RallyRun  *)
(* has its steps.  An action of a handler ends where the code saves the    *)
(* run or calls a service, so an exception or a crash keeps what an action *)
(* left in run.  Report mail is switched on.                               *)
(***************************************************************************)
EXTENDS Integers, Sequences, SequencesExt

CONSTANTS
  Commission,     \* the mail that commissions the run
  Notes,          \* the replies
  Stops,          \* the replies that say STOP
  None,
  MaxDeliveries,  \* bound: webhook calls for one mail (provider retries)
  MaxFaults       \* bound: exceptions, lost answers, crashes and unusable mails

Messages == Notes \cup {Commission}

\* A row has an id of its own: the webhook call that stored it.
Row == Messages \X (1..MaxDeliveries)
Mail(row) == row[1]

\* generation names the idempotency key, request is request_key, and covers
\* are the messages the run had taken in when the report was written.
Report == [generation : Nat \ {0}, request : Row, covers : SUBSET Messages,
           status : {"pending", "delivered"}]

\* applied: the guidance given to the run; cloud: the attached
\* record of the coordinator; worked: whether a worker was ever dispatched.
RunState == [request : Row, applied : SUBSET Notes,
             cloud : {"none", "failed", "attached"}, worked : BOOLEAN,
             generation : Nat, report : Report \cup {None}]

ASSUME DeliveryAssumption ==
  /\ Commission \notin Notes
  /\ None \notin RunState \cup Report
  /\ Stops \subseteq Notes
  /\ MaxDeliveries \in Nat \ {0}
  /\ MaxFaults \in Nat

VARIABLES
  deliveries,  \* the webhook calls made for each mail
  queue,       \* the rows of D1 table messages, in order of received_at
  pc,          \* where the serve loop is
  batch,       \* the collected rows still to handle, the current one first
  handled,     \* the rows to acknowledge
  aside,       \* those of them that were quarantined or dropped unanswered
  run,         \* state.json, or None
  created,     \* runs created
  sent,        \* the final reports the provider accepted, with their keys
  faults

vars == <<deliveries, queue, pc, batch, handled, aside, run, created, sent, faults>>

Locations == {"polling", "handling", "coordinating", "working", "recording",
              "mailing", "marking"}

TypeOK ==
  /\ deliveries \in [Messages -> 0..MaxDeliveries]
  /\ queue \in Seq(Row)
  /\ pc \in Locations
  /\ batch \in Seq(Row)
  /\ handled \subseteq Row /\ aside \subseteq handled
  /\ run \in RunState \cup {None}
  /\ created \in Nat
  /\ sent \subseteq [generation : Nat, covers : SUBSET Messages]
  /\ faults \in 0..MaxFaults

Init ==
  /\ deliveries = [m \in Messages |-> 0]
  /\ queue = <<>>
  /\ pc = "polling" /\ batch = <<>> /\ handled = {} /\ aside = {}
  /\ run = None /\ created = 0
  /\ sent = {}
  /\ faults = 0

----------------------------------------------------------------------------
Queued == ToSet(queue)

\* The sequence of the rows of s that are not gone, in their order: a set with
\* this one member, as no row is queued twice.
Without(s, gone) ==
  {[i \in DOMAIN f |-> s[f[i]]] :
     f \in {g \in UNION {[1..n -> DOMAIN s] : n \in 0..Len(s)} :
             /\ \A i, j \in DOMAIN g : i < j => g[i] < g[j]
             /\ {s[g[i]] : i \in DOMAIN g} = ToSet(s) \ gone}}

Fault == faults < MaxFaults /\ faults' = faults + 1

\* INSERT OR IGNORE drops a webhook call while a row of the same event is queued.
\* A reply may come before its run exists: the dashboard shows the id of a run
\* when the job is accepted.
Webhook(m) ==
  /\ deliveries[m] < MaxDeliveries
  /\ deliveries' = [deliveries EXCEPT ![m] = @ + 1]
  /\ queue' = IF \E row \in Queued : Mail(row) = m THEN queue
              ELSE Append(queue, <<m, deliveries[m] + 1>>)
  /\ UNCHANGED <<pc, batch, handled, aside, run, created, sent, faults>>

----------------------------------------------------------------------------
(***************************************************************************)
(* The serve loop.                                                         *)
(***************************************************************************)

\* collect: a row whose mail cannot be fetched yet (a retryable error) is left for
\* the next poll; one whose mail never will be is collected, see Quarantine.
Collect ==
  /\ pc = "polling" /\ queue # <<>>
  /\ \/ batch' = queue /\ UNCHANGED faults
     \/ /\ Fault
        /\ \E row \in Queued : batch' \in Without(queue, {row})
  /\ handled' = {} /\ aside' = {}
  /\ pc' = "handling"
  /\ UNCHANGED <<deliveries, queue, run, created, sent>>

\* The handler of the current row returns.
Finish ==
  /\ handled' = handled \cup {Head(batch)}
  /\ batch' = Tail(batch)
  /\ pc' = "handling"

\* A mail that cannot be used goes to quarantine.jsonl, and the loop takes it for
\* handled: collect got no email id, an error of the provider that is not
\* retryable or no original headers, classify ignores it, or it replies to a run
\* that its sender did not commission (NoteRejected).  Which mail is an input.
Quarantine ==
  /\ pc = "handling" /\ batch # <<>>
  /\ Fault
  /\ aside' = aside \cup {Head(batch)}
  /\ Finish
  /\ UNCHANGED <<deliveries, queue, run, created, sent>>

FailHandled ==  \* mutant: a failed row is acknowledged with the others
  /\ Fault
  /\ pc \in {"coordinating", "working", "mailing"}
  /\ Finish
  /\ UNCHANGED <<deliveries, queue, aside, run, created, sent>>

\* The handler raises: its row stays queued, and the loop goes on.
Fail ==
  /\ Fault
  /\ pc \in {"coordinating", "working", "mailing"}
  /\ batch' = Tail(batch)
  /\ pc' = "handling"
  /\ UNCHANGED <<deliveries, queue, handled, aside, run, created, sent>>

Acknowledge ==
  /\ pc = "handling" /\ batch = <<>>
  /\ pc' = "polling"
  /\ handled' = {} /\ aside' = {}
  /\ \/ queue' \in Without(queue, handled) /\ UNCHANGED faults
     \/ queue' = queue /\ Fault
  /\ UNCHANGED <<deliveries, batch, run, created, sent>>

\* The process is killed and started again.
Crash ==
  /\ pc # "polling"
  /\ Fault
  /\ pc' = "polling" /\ batch' = <<>> /\ handled' = {} /\ aside' = {}
  /\ UNCHANGED <<deliveries, queue, run, created, sent>>

----------------------------------------------------------------------------
(***************************************************************************)
(* handle_commission                                                       *)
(***************************************************************************)
FoundByRequest(row) ==  \* mutant: the mail's own id is not compared
  run # None /\ run.request = row

\* find_commission: by request key, or by the id of the mail.
Found(row) ==
  run # None /\ (run.request = row \/ Mail(run.request) = Mail(row))

NewRun(row) ==
  [request |-> row, applied |-> {}, cloud |-> "none", worked |-> FALSE,
   generation |-> 0, report |-> None]

StartOrRefuse ==  \* mutant: a commission that was reported already raises
  /\ pc = "handling" /\ batch # <<>>
  /\ Mail(Head(batch)) = Commission
  /\ IF Found(Head(batch))
       THEN /\ UNCHANGED <<run, created>>
            /\ IF run.report = None
                 THEN pc' = "coordinating" /\ UNCHANGED batch
               ELSE IF run.report.status = "pending"
                 THEN pc' = "mailing" /\ UNCHANGED batch
               ELSE batch' = Tail(batch) /\ UNCHANGED pc
       ELSE /\ run' = NewRun(Head(batch))
            /\ created' = created + 1
            /\ pc' = "coordinating"
            /\ UNCHANGED batch
  /\ UNCHANGED <<deliveries, queue, handled, aside, sent, faults>>

StartCommission ==
  /\ pc = "handling" /\ batch # <<>>
  /\ Mail(Head(batch)) = Commission
  /\ IF Found(Head(batch))
       THEN /\ UNCHANGED <<run, created>>
            /\ IF run.report = None
                 THEN pc' = "coordinating" /\ UNCHANGED <<batch, handled, aside>>
               ELSE IF run.report.status = "pending"
                 THEN pc' = "mailing" /\ UNCHANGED <<batch, handled, aside>>
               ELSE Finish /\ UNCHANGED aside
       ELSE /\ run' = NewRun(Head(batch))
            /\ created' = created + 1
            /\ pc' = "coordinating"
            /\ UNCHANGED <<batch, handled, aside>>
  /\ UNCHANGED <<deliveries, queue, sent, faults>>

\* attach_cloud_coordination, with the coordinator required: whatever record
\* is attached already is taken for an accepted one.
Coordinate ==
  /\ pc = "coordinating"
  /\ \/ /\ run.cloud # "none"
        /\ pc' = "working" /\ UNCHANGED run
     \/ /\ run.cloud = "none"
        /\ \E answer \in {"attached", "failed"} :
             /\ run' = [run EXCEPT !.cloud = answer]
             /\ pc' = IF answer = "failed" THEN "recording" ELSE "working"
  /\ UNCHANGED <<deliveries, queue, batch, handled, aside, created, sent, faults>>

\* prepare_media and loop; see RallyRun.
Work ==
  /\ pc = "working"
  /\ run' = [run EXCEPT !.worked = TRUE]
  /\ pc' = "recording"
  /\ UNCHANGED <<deliveries, queue, batch, handled, aside, created, sent, faults>>

Covered == run.applied \cup {Commission}

\* The request key a handler passes to record_report: a commission's is the one
\* its run was created for.
RequestKey == IF Mail(Head(batch)) = Commission THEN run.request ELSE Head(batch)

RecordSameGeneration ==  \* mutant: every report of a run has one key
  /\ pc = "recording"
  /\ run' = [run EXCEPT !.report =
       [generation |-> 1, request |-> RequestKey, covers |-> Covered,
        status |-> "pending"]]
  /\ pc' = "mailing"
  /\ UNCHANGED <<deliveries, queue, batch, handled, aside, created, sent, faults>>

RecordUnnumbered ==  \* mutant: a first report is saved without its generation
  /\ pc = "recording"
  /\ run' = [run EXCEPT
       !.generation = @ + 1,
       !.report = [generation |-> run.generation, request |-> RequestKey,
                   covers |-> Covered, status |-> "pending"]]
  /\ pc' = "mailing"
  /\ UNCHANGED <<deliveries, queue, batch, handled, aside, created, sent, faults>>

\* record_report: the report and its delivery record are saved before mailing.
RecordReport ==
  /\ pc = "recording"
  /\ run' = [run EXCEPT
       !.generation = @ + 1,
       !.report = [generation |-> run.generation + 1, request |-> RequestKey,
                   covers |-> Covered, status |-> "pending"]]
  /\ pc' = "mailing"
  /\ UNCHANGED <<deliveries, queue, batch, handled, aside, created, sent, faults>>

\* mail_report up to the provider's answer; the answer may be lost.
MailReport ==
  /\ pc = "mailing"
  /\ sent' = sent \cup {[generation |-> run.report.generation,
                         covers |-> run.report.covers]}
  /\ \/ pc' = "marking" /\ UNCHANGED <<batch, faults>>
     \/ Fault /\ pc' = "handling" /\ batch' = Tail(batch)
  /\ UNCHANGED <<deliveries, queue, handled, aside, run, created>>

\* The accepted delivery is saved, and the handler returns.
MarkDelivered ==
  /\ pc = "marking"
  /\ run' = [run EXCEPT !.report.status = "delivered"]
  /\ Finish
  /\ UNCHANGED <<deliveries, queue, aside, created, sent, faults>>

----------------------------------------------------------------------------
\* A note for a run that cannot be loaded is dropped: the handler returns.
DropNote ==
  /\ pc = "handling" /\ batch # <<>>
  /\ Mail(Head(batch)) \in Notes /\ run = None
  /\ aside' = aside \cup {Head(batch)}
  /\ Finish
  /\ UNCHANGED <<deliveries, queue, run, created, sent, faults>>

\* handle_note: a note whose report is the last one is only mailed again.
StartNote ==
  /\ pc = "handling" /\ batch # <<>>
  /\ Mail(Head(batch)) \in Notes /\ run # None
  /\ IF run.report # None /\ run.report.request = Head(batch)
       THEN /\ UNCHANGED run
            /\ IF run.report.status = "pending"
                 THEN pc' = "mailing" /\ UNCHANGED <<batch, handled, aside>>
                 ELSE Finish /\ UNCHANGED aside
       ELSE /\ run' = [run EXCEPT !.applied = @ \cup {Mail(Head(batch))}]
            /\ pc' = IF Mail(Head(batch)) \in Stops THEN "recording" ELSE "working"
            /\ UNCHANGED <<batch, handled, aside>>
  /\ UNCHANGED <<deliveries, queue, created, sent, faults>>

\* What the process does next when nothing goes wrong.
Serve ==
  \/ Collect \/ Quarantine \/ Acknowledge
  \/ StartCommission \/ Coordinate \/ Work \/ RecordReport \/ MailReport
  \/ MarkDelivered \/ StartNote \/ DropNote

\* Every mail was delivered, handled and acknowledged.
Rest ==
  /\ pc = "polling" /\ queue = <<>>
  /\ \A m \in Messages : deliveries[m] = MaxDeliveries
  /\ UNCHANGED vars

Next ==
  \/ \E m \in Messages : Webhook(m)
  \/ Serve \/ Fail \/ Crash \/ Rest

Spec == Init /\ [][Next]_vars

\* The process polls for ever (it is restarted after a crash), and no handler
\* waits on anything without a timeout.
FairSpec == Spec /\ WF_vars(Serve)

----------------------------------------------------------------------------
(***************************************************************************)
(* Properties                                                              *)
(***************************************************************************)

\* However often a commission is delivered, retried or replayed after a crash,
\* and under whichever row id, it starts one run (find_commission).
OneRunPerCommission == created <= 1

Answered(m) == \E s \in sent : m \in s.covers

\* A row leaves the queue only when the provider has accepted a report that was
\* written with its mail in mind, or the row was put aside: quarantined, or
\* dropped as a note for a run that was not there (serve, record_report,
\* mail_report, quarantine, handle_note).
AcknowledgedIsAnswered ==
  [][\A row \in Queued \ Queued' :
       Answered(Mail(row)) \/ row \in aside]_vars

\* An idempotency key stands for one report text: otherwise the provider would
\* take a new report for a retry of an old one and drop it (record_report).
KeyNamesOneReport ==
  \A s, t \in sent : s.generation = t.generation => s = t

\* Every queued mail is eventually acknowledged: no replay of what was already
\* done can block the queue, which is empty for good after the last webhook call,
\* of which there are finitely many (serve, handle_commission, handle_note).
QueueDrains == <>[](queue = <<>>)

----------------------------------------------------------------------------
(***************************************************************************)
(* What the documents say and the code does not keep.                      *)
(***************************************************************************)

\* DEMO.md: with the coordinator enabled but unavailable, "Rally fails closed
\* before agent work begins".  A reply, or a replay after a crash, runs the
\* workers anyway (handle_note, attach_cloud_coordination).
FailsClosed == run # None /\ run.worked => run.cloud = "attached"
=============================================================================
