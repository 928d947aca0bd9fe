--------------------------- MODULE RunDeliveryProofs ---------------------------
(***************************************************************************)
(* Proofs about RunDelivery, for any number of replies, webhook calls and  *)
(* faults.                                                                 *)
(***************************************************************************)
EXTENDS RunDelivery, TLAPS

\* Places where the handler of the current row is at work on the run.
Handling == {"coordinating", "working", "recording", "mailing", "marking"}

\* What the run has taken in: the commission, and the guidance applied.
TakenIn(m) == m = Commission \/ m \in run.applied

\* There is one run, and it is of the commission.
RunInv ==
  /\ created = IF run = None THEN 0 ELSE 1
  /\ run = None => sent = {}
  /\ run # None => Mail(run.request) = Commission

\* A report has the latest generation, and its text went out under its key only.
ReportInv ==
  run # None =>
    /\ run.report = None => sent = {}
    /\ run.report # None =>
         /\ run.report.generation = run.generation
         /\ Commission \in run.report.covers
         /\ Mail(run.report.request) \in run.report.covers
         /\ \A s \in sent :
              /\ s.generation <= run.generation
              /\ s.generation = run.generation => s.covers = run.report.covers
         /\ run.report.status = "delivered" =>
              \E s \in sent : s.covers = run.report.covers

\* A handler at work has its run and its row.
RowsInv == pc \in Handling => run # None /\ batch # <<>>

\* The mail at hand is taken in before its report is written.
HandlerInv ==
  /\ pc = "coordinating" => Mail(Head(batch)) = Commission
  /\ pc \in {"working", "recording"} => TakenIn(Mail(Head(batch)))
  /\ pc \in {"mailing", "marking"} =>
       run.report # None /\ Mail(Head(batch)) \in run.report.covers
  /\ pc = "marking" => \E s \in sent : s.covers = run.report.covers

\* What is to be acknowledged was answered, or put aside in this batch.
AnswerInv == \A row \in handled : Answered(Mail(row)) \/ row \in aside

DeliveryInv ==
  TypeOK /\ RunInv /\ ReportInv /\ RowsInv /\ HandlerInv /\ AnswerInv
----------------------------------------------------------------------------
(***************************************************************************)
(* Sequences of rows, and records.                                         *)
(***************************************************************************)
LEMMA Rows ==
  ASSUME NEW S, NEW s \in Seq(S)
  PROVE  /\ ToSet(s) \subseteq S
         /\ s # <<>> => /\ Head(s) \in S /\ Head(s) \in ToSet(s)
                        /\ Tail(s) \in Seq(S) /\ ToSet(Tail(s)) \subseteq ToSet(s)
BY DEF ToSet

LEMMA AppendedRow ==
  ASSUME NEW S, NEW s \in Seq(S), NEW x \in S
  PROVE  Append(s, x) \in Seq(S) /\ ToSet(Append(s, x)) = ToSet(s) \cup {x}
<1>1. /\ Append(s, x) \in Seq(S) /\ Len(Append(s, x)) = Len(s) + 1
      /\ Append(s, x)[Len(s) + 1] = x
      /\ \A i \in 1..Len(s) : Append(s, x)[i] = s[i]
  OBVIOUS
<1>2. ToSet(Append(s, x)) = {Append(s, x)[i] : i \in 1..(Len(s) + 1)}
  BY <1>1 DEF ToSet
<1>3. ToSet(s) = {s[i] : i \in 1..Len(s)}
  BY DEF ToSet
<1>4. Len(s) \in Nat
  OBVIOUS
<1> QED
  BY <1>1, <1>2, <1>3, <1>4

\* What collect leaves for later, and what ack deletes.
LEMMA RowsLeft ==
  ASSUME NEW S, NEW s \in Seq(S), NEW gone, NEW t \in Without(s, gone)
  PROVE  t \in Seq(S) /\ ToSet(t) = ToSet(s) \ gone
<1>1. PICK f \in UNION {[1..n -> DOMAIN s] : n \in 0..Len(s)} :
        /\ {s[f[i]] : i \in DOMAIN f} = ToSet(s) \ gone
        /\ t = [i \in DOMAIN f |-> s[f[i]]]
  BY DEF Without
<1>0. PICK n \in 0..Len(s) : f \in [1..n -> DOMAIN s]
  OBVIOUS
<1>2. /\ n \in Nat /\ DOMAIN f = 1..n /\ DOMAIN s = 1..Len(s)
      /\ f \in [1..n -> DOMAIN s]
  BY <1>0
<1>3. \A i \in 1..n : s[f[i]] \in S
  BY <1>2
<1>4. t \in [1..n -> S]
  BY <1>1, <1>2, <1>3
<1>5. t \in Seq(S) /\ DOMAIN t = 1..n
  BY <1>2, <1>4
<1>6. ToSet(t) = {t[i] : i \in 1..n}
  BY <1>5 DEF ToSet
<1> QED
  BY <1>1, <1>2, <1>5, <1>6

LEMMA RunFields ==
  ASSUME NEW x \in RunState
  PROVE  /\ x # None /\ x.request \in Row /\ x.applied \in SUBSET Notes
         /\ x.cloud \in {"none", "failed", "attached"} /\ x.worked \in BOOLEAN
         /\ x.generation \in Nat /\ x.report \in Report \cup {None}
BY DeliveryAssumption DEF RunState

LEMMA ReportFields ==
  ASSUME NEW x \in Report
  PROVE  /\ x # None /\ x.generation \in Nat \ {0} /\ x.request \in Row
         /\ x.covers \in SUBSET Messages /\ x.status \in {"pending", "delivered"}
BY DeliveryAssumption DEF Report

LEMMA RowFields ==
  ASSUME NEW row \in Row
  PROVE  Mail(row) \in Messages
BY DEF Row, Mail

\* What the handlers write of a run.
LEMMA RunEdits ==
  ASSUME NEW x \in RunState, NEW cloud \in {"failed", "attached"}, NEW notes \in SUBSET Notes
  PROVE  /\ [x EXCEPT !.cloud = cloud] \in RunState
         /\ [x EXCEPT !.cloud = cloud].request = x.request
         /\ [x EXCEPT !.cloud = cloud].applied = x.applied
         /\ [x EXCEPT !.cloud = cloud].generation = x.generation
         /\ [x EXCEPT !.cloud = cloud].report = x.report
         /\ [x EXCEPT !.worked = TRUE] \in RunState
         /\ [x EXCEPT !.worked = TRUE].request = x.request
         /\ [x EXCEPT !.worked = TRUE].applied = x.applied
         /\ [x EXCEPT !.worked = TRUE].generation = x.generation
         /\ [x EXCEPT !.worked = TRUE].report = x.report
         /\ [x EXCEPT !.applied = notes] \in RunState
         /\ [x EXCEPT !.applied = notes].request = x.request
         /\ [x EXCEPT !.applied = notes].applied = notes
         /\ [x EXCEPT !.applied = notes].generation = x.generation
         /\ [x EXCEPT !.applied = notes].report = x.report
BY DEF RunState
----------------------------------------------------------------------------
(***************************************************************************)
(* The steps that leave the run and its reports alone.                     *)
(***************************************************************************)
LEMMA DeliveryInit == Init => DeliveryInv
<1> SUFFICES ASSUME Init PROVE DeliveryInv
  OBVIOUS
<1>1. ToSet(<<>>) = {}
  BY DEF ToSet
<1>2. TypeOK
  BY DeliveryAssumption DEF Init, TypeOK, Locations
<1> QED
  BY <1>1, <1>2
  DEF Init, DeliveryInv, RunInv, ReportInv, RowsInv, HandlerInv, AnswerInv, Queued,
      Handling

LEMMA FaultCount ==
  ASSUME TypeOK, Fault \/ UNCHANGED faults
  PROVE  faults' \in 0..MaxFaults
BY DeliveryAssumption DEF TypeOK, Fault

LEMMA WebhookStep ==
  ASSUME DeliveryInv, NEW m \in Messages, Webhook(m)
  PROVE  DeliveryInv'
<1> DEFINE row == <<m, deliveries[m] + 1>>
<1>0. /\ TypeOK /\ queue \in Seq(Row)
      /\ UNCHANGED <<pc, batch, handled, aside, run, created, sent, faults>>
  BY DEF DeliveryInv, TypeOK, Webhook
<1>1. row \in Row /\ Mail(row) = m /\ deliveries' \in [Messages -> 0..MaxDeliveries]
  BY <1>0, DeliveryAssumption DEF Webhook, TypeOK, Row, Mail
<1>2. queue' \in Seq(Row)
  BY <1>0, <1>1, AppendedRow DEF Webhook
<1>3. TypeOK'
  BY <1>0, <1>1, <1>2 DEF TypeOK
<1> QED
  BY <1>0, <1>3
  DEF DeliveryInv, RunInv, ReportInv, RowsInv, HandlerInv, AnswerInv, Answered, TakenIn

LEMMA LoopStep ==
  ASSUME DeliveryInv, Collect \/ Acknowledge \/ Fail \/ Crash \/ Rest
  PROVE  DeliveryInv'
<1>0. TypeOK /\ queue \in Seq(Row) /\ batch \in Seq(Row)
  BY DEF DeliveryInv, TypeOK
<1>1. /\ UNCHANGED <<deliveries, run, created, sent>> /\ faults' \in 0..MaxFaults
      /\ pc' \in {"polling", "handling"}
      /\ (handled' = {} /\ aside' = {}) \/ UNCHANGED <<handled, aside>>
  BY <1>0, FaultCount DEF Collect, Acknowledge, Fail, Crash, Rest, vars
<1>2. queue' \in Seq(Row)
  BY <1>0, RowsLeft DEF Acknowledge, Collect, Fail, Crash, Rest, vars
<1>3. batch' \in Seq(Row)
  <2>1. CASE Collect
    BY <1>0, <2>1, RowsLeft DEF Collect
  <2>2. CASE Fail
    BY <1>0, <2>2, Rows DEF Fail, DeliveryInv, RowsInv, Handling
  <2>3. CASE batch' = <<>>
    BY <2>3
  <2>4. CASE UNCHANGED batch
    BY <1>0, <2>4
  <2> QED
    BY <2>1, <2>2, <2>3, <2>4 DEF Acknowledge, Crash, Rest, vars
<1>4. TypeOK'
  BY <1>0, <1>1, <1>2, <1>3 DEF TypeOK, Locations
<1>5. AnswerInv'
  BY <1>1 DEF DeliveryInv, AnswerInv, Answered
<1> QED
  BY <1>1, <1>4, <1>5
  DEF DeliveryInv, RunInv, ReportInv, RowsInv, HandlerInv, Handling
----------------------------------------------------------------------------
(***************************************************************************)
(* The handlers.                                                           *)
(***************************************************************************)

\* A handler returns: its mail was answered, or its row is put aside.
LEMMA FinishStep ==
  ASSUME DeliveryInv, batch # <<>>, Finish,
         \/ Answered(Mail(Head(batch))) /\ UNCHANGED aside
         \/ aside' = aside \cup {Head(batch)},
         Fault \/ UNCHANGED faults,
         UNCHANGED <<deliveries, queue, run, created, sent>>
  PROVE  DeliveryInv'
<1>1. /\ TypeOK /\ batch \in Seq(Row) /\ Head(batch) \in Row /\ batch' \in Seq(Row)
      /\ handled' = handled \cup {Head(batch)} /\ pc' = "handling"
      /\ faults' \in 0..MaxFaults
  BY Rows, FaultCount DEF DeliveryInv, TypeOK, Finish
<1>2. TypeOK'
  BY <1>1 DEF TypeOK, Locations
<1>3. AnswerInv'
  BY <1>1 DEF DeliveryInv, AnswerInv, Answered
<1> QED
  BY <1>1, <1>2, <1>3 DEF DeliveryInv, RunInv, ReportInv, RowsInv, HandlerInv, Handling

\* A row is put aside: its mail cannot be used, or there is no run to note it in.
LEMMA AsideStep ==
  ASSUME DeliveryInv, Quarantine \/ DropNote
  PROVE  DeliveryInv'
<1>1. /\ batch # <<>> /\ Finish /\ aside' = aside \cup {Head(batch)}
      /\ Fault \/ UNCHANGED faults
      /\ UNCHANGED <<deliveries, queue, run, created, sent>>
  BY DEF Quarantine, DropNote
<1> QED
  BY <1>1, FinishStep

\* A handler goes on, and has changed the run but not its reports.
LEMMA GoOnStep ==
  ASSUME DeliveryInv, batch # <<>>, run # None, pc' \in Handling,
         run' \in RunState, HandlerInv',
         run'.request = run.request, run'.report = run.report,
         run'.generation = run.generation,
         UNCHANGED <<deliveries, queue, batch, handled, aside, created, sent, faults>>
  PROVE  DeliveryInv'
<1>0. TypeOK /\ run' # None
  BY RunFields DEF DeliveryInv
<1>1. TypeOK'
  BY <1>0 DEF TypeOK, Locations, Handling
<1>2. RowsInv' /\ AnswerInv'
  BY <1>0 DEF DeliveryInv, RowsInv, AnswerInv, Answered, Queued
<1>3. RunInv' /\ ReportInv'
  BY <1>0 DEF DeliveryInv, RunInv, ReportInv
<1> QED
  BY <1>1, <1>2, <1>3 DEF DeliveryInv

LEMMA StartCommissionStep ==
  ASSUME DeliveryInv, StartCommission
  PROVE  DeliveryInv'
<1>0. /\ TypeOK /\ batch \in Seq(Row) /\ batch # <<>> /\ Head(batch) \in Row
      /\ Mail(Head(batch)) = Commission /\ run \in RunState \cup {None}
      /\ UNCHANGED <<deliveries, queue, sent, faults>>
  BY Rows DEF DeliveryInv, TypeOK, StartCommission
<1>1. CASE Found(Head(batch)) /\ run.report = None
  <2>1. /\ run # None /\ pc' = "coordinating"
        /\ UNCHANGED <<run, created, batch, handled, aside>>
    BY <1>1 DEF StartCommission, Found
  <2>2. HandlerInv'
    BY <1>0, <2>1 DEF HandlerInv
  <2> QED
    BY <1>0, <2>1, <2>2, GoOnStep DEF Handling
<1>2. CASE /\ Found(Head(batch)) /\ run.report # None
           /\ run.report.status = "pending"
  <2>1. /\ run # None /\ pc' = "mailing"
        /\ UNCHANGED <<run, created, batch, handled, aside>>
    BY <1>2 DEF StartCommission, Found
  <2>2. HandlerInv'
    BY <1>0, <1>2, <2>1 DEF DeliveryInv, HandlerInv, ReportInv
  <2> QED
    BY <1>0, <2>1, <2>2, GoOnStep DEF Handling
<1>3. CASE /\ Found(Head(batch)) /\ run.report # None
           /\ run.report.status # "pending"
  <2>1. run # None /\ Finish /\ UNCHANGED <<run, created, aside>>
    BY <1>3 DEF StartCommission, Found
  <2>2. run.report \in Report
    BY <1>0, <1>3, <2>1, RunFields
  <2>3. run.report.status = "delivered"
    BY <1>3, <2>2, ReportFields
  <2>4. Answered(Commission)
    BY <1>3, <2>1, <2>3 DEF DeliveryInv, ReportInv, Answered
  <2> QED
    BY <1>0, <2>1, <2>4, FinishStep
<1>4. CASE ~Found(Head(batch))
  <2>1. run = None
    BY <1>0, <1>4 DEF DeliveryInv, RunInv, Found
  <2>2. /\ run' = NewRun(Head(batch)) /\ created' = created + 1
        /\ pc' = "coordinating" /\ UNCHANGED <<batch, handled, aside>>
    BY <1>4 DEF StartCommission
  <2>3. /\ NewRun(Head(batch)) \in RunState
        /\ NewRun(Head(batch)).request = Head(batch)
        /\ NewRun(Head(batch)).report = None
    BY <1>0 DEF NewRun, RunState
  <2>4. run' \in RunState /\ run' # None
    BY <2>2, <2>3, RunFields
  <2>5. created = 0 /\ sent = {}
    BY <2>1 DEF DeliveryInv, RunInv
  <2>6. TypeOK'
    BY <1>0, <2>2, <2>4, <2>5 DEF TypeOK, Locations
  <2>7. RunInv' /\ ReportInv'
    BY <1>0, <2>2, <2>3, <2>4, <2>5 DEF RunInv, ReportInv
  <2>8. RowsInv' /\ AnswerInv'
    BY <1>0, <2>2, <2>4 DEF DeliveryInv, RowsInv, AnswerInv, Answered, Queued
  <2>9. HandlerInv'
    BY <1>0, <2>2 DEF HandlerInv
  <2> QED
    BY <2>6, <2>7, <2>8, <2>9 DEF DeliveryInv
<1> QED
  BY <1>1, <1>2, <1>3, <1>4

LEMMA StartNoteStep ==
  ASSUME DeliveryInv, StartNote
  PROVE  DeliveryInv'
<1> DEFINE row == Head(batch)
<1>0. /\ TypeOK /\ batch \in Seq(Row) /\ batch # <<>>
      /\ row \in Row /\ row \in ToSet(batch) /\ Mail(row) \in Notes
      /\ run \in RunState \cup {None} /\ run # None
      /\ UNCHANGED <<deliveries, queue, created, sent, faults>>
  BY Rows DEF DeliveryInv, TypeOK, StartNote
<1>1. run # None /\ run \in RunState
  BY <1>0
<1>2. CASE run.report # None /\ run.report.request = row
  <2>1. run.report \in Report /\ Mail(row) \in run.report.covers /\ UNCHANGED run
    BY <1>1, <1>2, RunFields DEF DeliveryInv, ReportInv, StartNote
  <2>2. CASE run.report.status = "pending"
    <3>1. pc' = "mailing" /\ UNCHANGED <<batch, handled, aside>>
      BY <1>2, <2>2 DEF StartNote
    <3>2. HandlerInv'
      BY <1>2, <2>1, <3>1 DEF HandlerInv
    <3> QED
      BY <1>0, <1>1, <2>1, <3>1, <3>2, GoOnStep DEF Handling
  <2>3. CASE run.report.status = "delivered"
    <3>1. Finish /\ UNCHANGED aside
      BY <1>2, <2>3 DEF StartNote
    <3>2. Answered(Mail(row))
      BY <1>1, <1>2, <2>1, <2>3 DEF DeliveryInv, ReportInv, Answered
    <3> QED
      BY <1>0, <2>1, <3>1, <3>2, FinishStep
  <2> QED
    BY <2>1, <2>2, <2>3, ReportFields
<1>3. CASE ~(run.report # None /\ run.report.request = row)
  <2> DEFINE notes == run.applied \cup {Mail(row)}
             new == [run EXCEPT !.applied = notes]
  <2>1. notes \in SUBSET Notes
    BY <1>0, <1>1, RunFields
  <2>2. /\ new \in RunState /\ new.request = run.request /\ new.applied = notes
        /\ new.generation = run.generation /\ new.report = run.report
    BY <1>1, <2>1, RunEdits
  <2>3. /\ run' = new /\ pc' \in {"recording", "working"}
        /\ UNCHANGED <<batch, handled, aside>>
    BY <1>3 DEF StartNote
  <2> HIDE DEF new
  <2>4. HandlerInv'
    BY <2>2, <2>3 DEF HandlerInv, TakenIn
  <2> QED
    BY <1>0, <1>1, <2>2, <2>3, <2>4, GoOnStep DEF Handling
<1> QED
  BY <1>2, <1>3

LEMMA WorkStep ==
  ASSUME DeliveryInv, Coordinate \/ Work
  PROVE  DeliveryInv'
<1>0. /\ TypeOK /\ batch # <<>> /\ run # None /\ run \in RunState
      /\ UNCHANGED <<deliveries, queue, batch, handled, aside, created, sent, faults>>
      /\ pc \in {"coordinating", "working"} /\ pc' \in {"working", "recording"}
      /\ TakenIn(Mail(Head(batch)))
  <2> USE DEF Coordinate, Work
  <2>1. pc \in {"coordinating", "working"} /\ pc' \in {"working", "recording"}
    OBVIOUS
  <2>2. batch # <<>> /\ run # None
    BY <2>1 DEF DeliveryInv, RowsInv, Handling
  <2>3. TakenIn(Mail(Head(batch)))
    BY <2>1 DEF DeliveryInv, HandlerInv, TakenIn
  <2> QED
    BY <2>1, <2>2, <2>3 DEF DeliveryInv, TypeOK
<1>1. /\ run' \in RunState /\ run'.request = run.request
      /\ run'.report = run.report /\ run'.generation = run.generation
      /\ run'.applied = run.applied
  <2>1. CASE UNCHANGED run
    BY <1>0, <2>1
  <2>2. ASSUME NEW answer \in {"attached", "failed"},
               run' = [run EXCEPT !.cloud = answer]
        PROVE  /\ run' \in RunState /\ run'.request = run.request
               /\ run'.report = run.report /\ run'.generation = run.generation
               /\ run'.applied = run.applied
    <3> DEFINE new == [run EXCEPT !.cloud = answer]
    <3>1. /\ new \in RunState /\ new.request = run.request
          /\ new.report = run.report /\ new.generation = run.generation
          /\ new.applied = run.applied
      BY <1>0, RunEdits
    <3> QED
      BY <2>2, <3>1
  <2>3. CASE run' = [run EXCEPT !.worked = TRUE]
    <3> DEFINE new == [run EXCEPT !.worked = TRUE]
    <3>1. /\ new \in RunState /\ new.request = run.request
          /\ new.report = run.report /\ new.generation = run.generation
          /\ new.applied = run.applied
      BY <1>0, RunEdits
    <3> QED
      BY <2>3, <3>1
  <2> QED
    BY <2>1, <2>2, <2>3 DEF Coordinate, Work
<1>2. HandlerInv'
  BY <1>0, <1>1 DEF HandlerInv, TakenIn
<1> QED
  BY <1>0, <1>1, <1>2, GoOnStep DEF Handling

\* What record_report saves.
LEMMA RecordedRun ==
  ASSUME NEW x \in RunState, NEW r \in Report
  PROVE  LET y == [x EXCEPT !.generation = @ + 1, !.report = r]
         IN  /\ y \in RunState /\ y.request = x.request /\ y.applied = x.applied
             /\ y.generation = x.generation + 1 /\ y.report = r
<1>1. x.generation + 1 \in Nat
  BY DEF RunState
<1>2. ASSUME NEW n \in Nat
      PROVE  LET y == [x EXCEPT !.generation = n, !.report = r]
             IN  /\ y \in RunState /\ y.request = x.request /\ y.applied = x.applied
                 /\ y.generation = n /\ y.report = r
  BY DEF RunState
<1> QED
  BY <1>1, <1>2

LEMMA RecordStep ==
  ASSUME DeliveryInv, RecordReport
  PROVE  DeliveryInv'
<1> DEFINE new == [generation |-> run.generation + 1, request |-> RequestKey,
                   covers |-> Covered, status |-> "pending"]
<1>0. /\ TypeOK /\ batch # <<>> /\ batch \in Seq(Row) /\ run # None /\ run \in RunState
      /\ pc = "recording" /\ pc' = "mailing" /\ TakenIn(Mail(Head(batch)))
      /\ UNCHANGED <<deliveries, queue, batch, handled, aside, created, sent, faults>>
      /\ Mail(run.request) = Commission
  BY DEF RecordReport, DeliveryInv, TypeOK, RowsInv, HandlerInv, RunInv, Handling
<1>1. RequestKey \in Row /\ Mail(RequestKey) \in Covered /\ Mail(Head(batch)) \in Covered
  BY <1>0, Rows, RunFields DEF RequestKey, Covered, TakenIn
<1>2. Covered \in SUBSET Messages /\ Commission \in Covered
  BY <1>0, RunFields DEF Covered, Messages
<1>3. run.generation \in Nat
  BY <1>0, RunFields
<1>4. /\ new \in Report /\ new.generation = run.generation + 1
      /\ new.covers = Covered /\ new.request = RequestKey /\ new.status = "pending"
  BY <1>1, <1>2, <1>3 DEF Report
<1>5. run' = [run EXCEPT !.generation = @ + 1, !.report = new] /\ new # None
  BY <1>4, ReportFields DEF RecordReport
<1> HIDE DEF new
<1>6. /\ run' \in RunState /\ run'.request = run.request
      /\ run'.generation = run.generation + 1 /\ run'.report = new
  <2> DEFINE y == [run EXCEPT !.generation = @ + 1, !.report = new]
  <2>1. /\ y \in RunState /\ y.request = run.request
        /\ y.generation = run.generation + 1 /\ y.report = new
    BY <1>0, <1>4, RecordedRun
  <2> HIDE DEF y
  <2>2. run' = y
    BY <1>5 DEF y
  <2> QED
    BY <2>1, <2>2
<1>7. run' # None
  BY <1>6, RunFields
<1>8. TypeOK'
  BY <1>0, <1>6 DEF TypeOK, Locations
<1>9. RunInv' /\ RowsInv' /\ AnswerInv'
  BY <1>0, <1>6, <1>7
  DEF DeliveryInv, RunInv, RowsInv, AnswerInv, Answered, Queued
<1>10. ReportInv'
  <2>1. \A s \in sent : s.generation \in Nat /\ s.generation <= run.generation
    BY <1>0 DEF DeliveryInv, TypeOK, ReportInv
  <2>2. \A s \in sent : s.generation <= run.generation + 1 /\ s.generation # run.generation + 1
    BY <1>3, <2>1
  <2> QED
    BY <1>0, <1>1, <1>2, <1>4, <1>5, <1>6, <2>2 DEF ReportInv
<1>11. HandlerInv'
  BY <1>0, <1>1, <1>4, <1>5, <1>6 DEF HandlerInv
<1> QED
  BY <1>8, <1>9, <1>10, <1>11 DEF DeliveryInv

LEMMA MailStep ==
  ASSUME DeliveryInv, MailReport
  PROVE  DeliveryInv'
<1> DEFINE new == [generation |-> run.report.generation, covers |-> run.report.covers]
<1>0. /\ TypeOK /\ batch # <<>> /\ batch \in Seq(Row) /\ run # None /\ run \in RunState
      /\ run.report # None /\ run.report \in Report
      /\ Mail(Head(batch)) \in run.report.covers
      /\ run.report.generation = run.generation
      /\ pc = "mailing" /\ sent' = sent \cup {new}
      /\ UNCHANGED <<deliveries, queue, handled, aside, run, created>>
  BY RunFields
  DEF MailReport, DeliveryInv, TypeOK, RowsInv, HandlerInv, ReportInv, Handling
<1>1. new \in [generation : Nat, covers : SUBSET Messages]
  BY <1>0, ReportFields
<1>2. /\ new.covers = run.report.covers /\ new.generation = run.generation
      /\ run.generation \in Nat
  BY <1>0, RunFields
<1> HIDE DEF new
<1>3. /\ batch' \in Seq(Row) /\ ToSet(batch') \subseteq ToSet(batch)
      /\ \/ pc' = "marking" /\ UNCHANGED batch
         \/ pc' = "handling"
      /\ faults' \in 0..MaxFaults
  BY <1>0, Rows, FaultCount DEF MailReport
<1>4. TypeOK'
  BY <1>0, <1>1, <1>3 DEF TypeOK, Locations
<1>5. RunInv' /\ ReportInv'
  BY <1>0, <1>2 DEF DeliveryInv, RunInv, ReportInv
<1>6. RowsInv'
  BY <1>0, <1>3 DEF DeliveryInv, RowsInv, Queued, Handling
<1>7. HandlerInv'
  BY <1>0, <1>2, <1>3 DEF HandlerInv
<1>8. AnswerInv'
  BY <1>0 DEF DeliveryInv, AnswerInv, Answered, Queued
<1> QED
  BY <1>4, <1>5, <1>6, <1>7, <1>8 DEF DeliveryInv

LEMMA MarkStep ==
  ASSUME DeliveryInv, MarkDelivered
  PROVE  DeliveryInv'
<1> DEFINE report == [run.report EXCEPT !.status = "delivered"]
           new == [run EXCEPT !.report = report]
<1>0. /\ TypeOK /\ batch # <<>> /\ batch \in Seq(Row) /\ run # None /\ run \in RunState
      /\ run.report # None /\ run.report \in Report
      /\ Mail(Head(batch)) \in run.report.covers
      /\ (\E s \in sent : s.covers = run.report.covers)
      /\ pc = "marking" /\ Finish
      /\ UNCHANGED <<deliveries, queue, aside, created, sent, faults>>
  BY RunFields
  DEF MarkDelivered, DeliveryInv, TypeOK, RowsInv, HandlerInv, ReportInv, Handling
<1>1. /\ report \in Report /\ report.generation = run.report.generation
      /\ report.covers = run.report.covers /\ report.request = run.report.request
  BY <1>0 DEF Report
<1>2. report # None
  BY <1>1, ReportFields
<1>3. run' = new
  BY DEF MarkDelivered
<1> HIDE DEF report
<1>4. /\ new \in RunState /\ new.report = report /\ new.request = run.request
      /\ new.generation = run.generation
  BY <1>0, <1>1 DEF RunState
<1> HIDE DEF new
<1>5. run' \in RunState /\ run' # None
  BY <1>3, <1>4, RunFields
<1>6. /\ Head(batch) \in Row
      /\ batch' \in Seq(Row) /\ ToSet(batch') \subseteq ToSet(batch)
      /\ handled' = handled \cup {Head(batch)} /\ pc' = "handling"
  BY <1>0, Rows DEF Finish
<1>7. TypeOK'
  BY <1>0, <1>5, <1>6 DEF TypeOK, Locations
<1>8. RunInv' /\ ReportInv'
  BY <1>0, <1>1, <1>2, <1>3, <1>4, <1>5 DEF DeliveryInv, RunInv, ReportInv
<1>9. RowsInv' /\ HandlerInv'
  BY <1>0, <1>5, <1>6 DEF DeliveryInv, RowsInv, HandlerInv, Queued, Handling
<1>10. AnswerInv'
  BY <1>0, <1>6 DEF DeliveryInv, AnswerInv, Answered, Queued
<1> QED
  BY <1>7, <1>8, <1>9, <1>10 DEF DeliveryInv

----------------------------------------------------------------------------
(***************************************************************************)
(* The theorems.                                                           *)
(***************************************************************************)
LEMMA DeliveryStep == DeliveryInv /\ [Next]_vars => DeliveryInv'
<1> SUFFICES ASSUME DeliveryInv, [Next]_vars PROVE DeliveryInv'
  OBVIOUS
<1>1. CASE UNCHANGED vars
  BY <1>1
  DEF vars, DeliveryInv, TypeOK, RunInv, ReportInv, RowsInv, HandlerInv, AnswerInv,
      TakenIn, Answered, Queued
<1>2. CASE Next
  BY <1>2, WebhookStep, LoopStep, AsideStep, StartCommissionStep, StartNoteStep, WorkStep,
     RecordStep, MailStep, MarkStep
  DEF Next, Serve
<1> QED
  BY <1>1, <1>2

\* The inductive invariant: what the run has taken in, what its report covers,
\* what was sent and what the queue still holds agree (serve, handle_commission,
\* handle_note, record_report, mail_report).
THEOREM Invariance == Spec => []DeliveryInv
BY DeliveryInit, DeliveryStep, PTL DEF Spec

\* Every variable keeps its type, whatever is delivered, fails or dies.
THEOREM TypeCorrect == Spec => []TypeOK
<1>1. DeliveryInv => TypeOK
  BY DEF DeliveryInv
<1> QED
  BY <1>1, Invariance, PTL

\* However often a commission is delivered, retried or replayed, it starts one
\* run (find_commission).
THEOREM OneRun == Spec => []OneRunPerCommission
<1>1. DeliveryInv => OneRunPerCommission
  BY DEF DeliveryInv, RunInv, OneRunPerCommission
<1> QED
  BY <1>1, Invariance, PTL

\* Only an acknowledgement takes rows off the queue, and only handled ones.
LEMMA RowsAcknowledged ==
  ASSUME DeliveryInv, [Next]_vars
  PROVE  Queued \ Queued' \subseteq handled
<1>0. queue \in Seq(Row)
  BY DEF DeliveryInv, TypeOK
<1>1. CASE Acknowledge
  BY <1>0, <1>1, RowsLeft DEF Acknowledge, Queued
<1>2. ASSUME NEW m \in Messages, Webhook(m)
      PROVE  Queued \subseteq Queued'
  <2>1. <<m, deliveries[m] + 1>> \in Row \/ UNCHANGED queue
    BY <1>2, DeliveryAssumption DEF Webhook, DeliveryInv, TypeOK, Row
  <2> QED
    BY <1>0, <1>2, <2>1, AppendedRow DEF Webhook, Queued
<1>3. CASE UNCHANGED queue
  BY <1>3 DEF Queued
<1> QED
  BY <1>1, <1>2, <1>3
  DEF Next, Serve, Collect, Quarantine, StartCommission, Coordinate, Work, RecordReport,
      MailReport, MarkDelivered, StartNote, DropNote, Fail, Crash, Rest, vars

\* A row leaves the queue only when a report written with its mail in mind was
\* accepted, or the row was quarantined or dropped as a note for a run that is not
\* there (serve, record_report, mail_report, quarantine, handle_note).
THEOREM NoMailUnanswered == Spec => AcknowledgedIsAnswered
<1>1. DeliveryInv /\ [Next]_vars =>
        \A row \in Queued \ Queued' : Answered(Mail(row)) \/ row \in aside
  BY RowsAcknowledged DEF DeliveryInv, AnswerInv
<1> QED
  BY <1>1, Invariance, PTL DEF Spec, AcknowledgedIsAnswered

\* A text that is sent again under its key is the latest report.
SentOnce == \A s, t \in sent : s.generation = t.generation => s.covers = t.covers

LEMMA SentOnceStep == DeliveryInv /\ SentOnce /\ [Next]_vars => SentOnce'
<1> SUFFICES ASSUME DeliveryInv, SentOnce, [Next]_vars PROVE SentOnce'
  OBVIOUS
<1>1. CASE UNCHANGED sent
  BY <1>1 DEF SentOnce
<1>2. CASE MailReport
  <2> DEFINE new == [generation |-> run.report.generation, covers |-> run.report.covers]
  <2>1. /\ run # None /\ run.report # None
        /\ run.report.generation = run.generation
        /\ \A s \in sent : s.generation = run.generation => s.covers = run.report.covers
    BY <1>2 DEF MailReport, DeliveryInv, RowsInv, HandlerInv, ReportInv, Handling
  <2>2. new.generation = run.generation /\ new.covers = run.report.covers
    BY <2>1
  <2>3. sent' = sent \cup {new}
    BY <1>2 DEF MailReport
  <2> HIDE DEF new
  <2> QED
    BY <2>1, <2>2, <2>3 DEF SentOnce
<1> QED
  BY <1>1, <1>2
  DEF Next, Serve, Webhook, Collect, Acknowledge, StartCommission, Coordinate, Work,
      RecordReport, MarkDelivered, StartNote, DropNote, Quarantine, Fail, Crash, Rest, vars

\* An idempotency key stands for one report text (record_report, mail_report).
THEOREM OneTextPerKey == Spec => []KeyNamesOneReport
<1>1. Init => SentOnce
  BY DEF Init, SentOnce
<1>2. DeliveryInv /\ SentOnce => KeyNamesOneReport
  BY DEF DeliveryInv, TypeOK, SentOnce, KeyNamesOneReport
<1> QED
  BY <1>1, <1>2, Invariance, SentOnceStep, PTL DEF Spec
=============================================================================
