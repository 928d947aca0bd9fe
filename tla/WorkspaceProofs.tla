---------------------------- MODULE WorkspaceProofs ----------------------------
(***************************************************************************)
(* Proofs about Workspace, for any jobs, keys, runs and requests under way.*)
(***************************************************************************)
EXTENDS Workspace, TLAPS

\* The answer r can be given to request p.
Backed(p, r) ==
  \E row \in receipts : row.key = p.key /\ row.job = p.job /\ row.run = r

\* A receipt stands for one run of one job under its key, and every accepted
\* request was answered from one.
IntakeInv ==
  /\ \A a, b \in receipts : a.key = b.key => a = b
  /\ \A p \in Posts : Accepted(p) => Backed(p, answer[p])

\* The runner has a run of this job, or its envelope is queued.
Kept(x) ==
  x.job \in Legible =>
    runs[x.run] # None \/ \E m \in messages : m.run = x.run /\ m.job = x.job

QueueInv ==
  /\ \A m \in quarantined : m.job \notin Legible
  /\ \A x \in receipts \cup Legacy : Kept(x)

\* Only a projection takes a receipt out of the list.
ListInv == \A row \in receipts : row.superseded => console[row.run] # None

\* The deliverable, if there is one, was independently verified.
IsVerified(r, file) == file # 0 => <<r, file>> \in verified

ArtifactInv ==
  /\ \A r \in Runs : runs[r] # None /\ runs[r].complete => IsVerified(r, runs[r].file)
  /\ \A c \in calls : IsVerified(c.run, c.file)
  /\ \A r \in Runs : console[r] # None => IsVerified(r, console[r].file)
  /\ reading # None => /\ IsVerified(reading.run, reading.declared)
                       /\ reading.bytes \in {0, reading.declared}

WorkspaceInv == TypeOK /\ IntakeInv /\ QueueInv /\ ListInv /\ ArtifactInv
----------------------------------------------------------------------------
(***************************************************************************)
(* Records and rows.                                                       *)
(***************************************************************************)
LEMMA RowFields ==
  /\ \A m \in Envelope : m.key \in Keys /\ m.job \in Jobs /\ m.run \in Runs
  /\ \A row \in Receipt : /\ row.key \in Keys /\ row.job \in Jobs /\ row.run \in Runs
                          /\ row.superseded \in BOOLEAN
  /\ \A c \in Call : c.run \in Runs /\ c.file \in Files
BY DEF Envelope, Receipt, Call

LEMMA RecordFields ==
  /\ \A x \in RunState : x # None /\ x.file \in Files /\ x.complete \in BOOLEAN
  /\ \A x \in Projection : x # None /\ x.file \in Files
  /\ \A x \in Download : /\ x # None /\ x.run \in Runs
                         /\ x.declared \in Files /\ x.bytes \in Files
BY WorkspaceAssumption DEF RunState, Projection, Download

LEMMA NewReceipt ==
  ASSUME NEW m \in Envelope
  PROVE  /\ ReceiptFor(m) \in Receipt /\ ReceiptFor(m).key = m.key
         /\ ReceiptFor(m).job = m.job /\ ReceiptFor(m).run = m.run
         /\ ~ReceiptFor(m).superseded
BY DEF ReceiptFor, Envelope, Receipt

\* The UPDATE of one receipt when run r is projected.
SupersededRow(row, r) == [row EXCEPT !.superseded = @ \/ row.run = r]

LEMMA SupersededFields ==
  ASSUME NEW row \in Receipt, NEW r
  PROVE  /\ SupersededRow(row, r) \in Receipt
         /\ SupersededRow(row, r).key = row.key
         /\ SupersededRow(row, r).job = row.job
         /\ SupersededRow(row, r).run = row.run
         /\ SupersededRow(row, r).superseded => row.superseded \/ row.run = r
<1>1. CASE row.run = r
  <2>1. SupersededRow(row, r) = [row EXCEPT !.superseded = TRUE]
    BY <1>1 DEF SupersededRow, Receipt
  <2> QED
    BY <1>1, <2>1 DEF Receipt
<1>2. CASE row.run # r
  <2>1. SupersededRow(row, r) = row
    BY <1>2 DEF SupersededRow, Receipt
  <2> QED
    BY <2>1
<1> QED
  BY <1>1, <1>2

LEMMA FaultCount ==
  ASSUME TypeOK, Fault \/ UNCHANGED faults
  PROVE  faults' \in 0..MaxFaults
BY WorkspaceAssumption DEF TypeOK, Fault

LEMMA WorkspaceInit == Init => WorkspaceInv
<1> SUFFICES ASSUME Init PROVE WorkspaceInv
  OBVIOUS
<1>1. TypeOK
  BY WorkspaceAssumption DEF Init, TypeOK, Files
<1>2. IntakeInv
  BY WorkspaceAssumption DEF Init, IntakeInv, Accepted
<1> QED
  BY <1>1, <1>2 DEF Init, WorkspaceInv, QueueInv, ListInv, ArtifactInv, Kept
----------------------------------------------------------------------------
(***************************************************************************)
(* createManualJob.                                                        *)
(***************************************************************************)

\* One request answers, if it does, from a receipt that is there.
LEMMA AnswersBacked ==
  ASSUME TypeOK, IntakeInv, NEW p \in Posts, receipts \subseteq receipts', NEW x,
         \/ UNCHANGED answer
         \/ answer' = [answer EXCEPT ![p] = x] /\ (x = Refused \/ Backed(p, x)')
  PROVE  \A q \in Posts : Accepted(q)' => Backed(q, answer[q])'
<1>1. ASSUME NEW q \in Posts, Accepted(q)', answer'[q] = answer[q]
      PROVE  Backed(q, answer[q])'
  BY <1>1 DEF IntakeInv, Accepted, Backed
<1>2. CASE UNCHANGED answer
  BY <1>1, <1>2
<1>3. CASE answer' = [answer EXCEPT ![p] = x] /\ (x = Refused \/ Backed(p, x)')
  <2>1. /\ answer'[p] = x
        /\ \A q \in Posts \ {p} : answer'[q] = answer[q]
    BY <1>3 DEF TypeOK
  <2>2. Accepted(p)' => Backed(p, answer[p])'
    BY <1>3, <2>1, WorkspaceAssumption DEF Accepted, Backed
  <2> QED
    BY <1>1, <2>1, <2>2
<1> QED
  BY <1>2, <1>3

\* Where a request looks only, and answers from a receipt or refuses.
LEMMA LookStep ==
  ASSUME WorkspaceInv, NEW p \in Posts, LookUp(p) \/ LookUpLegacy(p) \/ Replay(p)
  PROVE  WorkspaceInv'
<1>0. /\ TypeOK /\ IntakeInv /\ UNCHANGED <<messages, receipts, runner, publication>>
  BY DEF WorkspaceInv, LookUp, LookUpLegacy, Replay
<1>1. PICK x \in Runs \cup {Refused}, place \in {"legacy", "restoring", "inserting", "done"} :
        /\ \/ UNCHANGED answer
           \/ answer' = [answer EXCEPT ![p] = x] /\ (x = Refused \/ Backed(p, x))
        /\ pc' = [pc EXCEPT ![p] = place]
  <2>1. ASSUME NEW row \in ReceiptsOf(p), AnswerWith(p, row)
        PROVE  \E x \in Runs \cup {Refused} :
                 /\ answer' = [answer EXCEPT ![p] = x]
                 /\ x = Refused \/ Backed(p, x)
                 /\ pc' = [pc EXCEPT ![p] = "done"]
    <3>1. row \in receipts /\ row.key = p.key /\ row.run \in Runs
      BY <1>0, RowFields DEF TypeOK, ReceiptsOf
    <3> QED
      BY <2>1, <3>1 DEF AnswerWith, Answer, Goto, Backed
  <2>2. ASSUME Answer(p, Refused)
        PROVE  /\ answer' = [answer EXCEPT ![p] = Refused]
               /\ pc' = [pc EXCEPT ![p] = "done"]
    BY <2>2 DEF Answer, Goto
  <2>3. CASE LookUp(p) \/ Replay(p)
    BY <2>1, <2>2, <2>3 DEF LookUp, Replay, Goto
  <2>4. CASE LookUpLegacy(p)
    BY <2>2, <2>4 DEF LookUpLegacy, CheckSource, Goto
  <2> QED
    BY <2>3, <2>4
<1>2. TypeOK'
  <2>1. faults' \in 0..MaxFaults
    BY <1>0, FaultCount DEF LookUp, LookUpLegacy, Replay
  <2> QED
    BY <1>0, <1>1, <2>1 DEF TypeOK, runner, publication
<1>3. IntakeInv'
  <2>1. receipts' = receipts /\ (Backed(p, x) => Backed(p, x)')
    BY <1>0 DEF Backed
  <2>2. \A q \in Posts : Accepted(q)' => Backed(q, answer[q])'
    BY <1>0, <1>1, <2>1, AnswersBacked
  <2> QED
    BY <1>0, <2>1, <2>2 DEF IntakeInv
<1> QED
  BY <1>0, <1>2, <1>3
  DEF WorkspaceInv, QueueInv, ListInv, ArtifactInv, Kept, IsVerified, runner, publication

LEMMA RestoreStep ==
  ASSUME WorkspaceInv, NEW p \in Posts, Restore(p)
  PROVE  WorkspaceInv'
<1> DEFINE found == {n \in Legacy : n.key = p.key /\ ReceiptsOf(p) = {}}
<1>0. /\ TypeOK /\ IntakeInv /\ UNCHANGED <<messages, runner, publication>>
      /\ found \subseteq Envelope /\ found \subseteq Legacy
  BY WorkspaceAssumption DEF WorkspaceInv, Restore
<1>1. /\ \/ UNCHANGED answer
         \/ answer' = [answer EXCEPT ![p] = Refused]
      /\ \E place \in {"replaying", "done"} : pc' = [pc EXCEPT ![p] = place]
  BY DEF Restore, Answer, Goto
<1>2. \/ UNCHANGED receipts
      \/ receipts' = receipts \cup {ReceiptFor(m) : m \in found}
  BY DEF Restore
<1>3. /\ receipts \subseteq receipts'
      /\ \A row \in receipts' \ receipts : \E m \in found : row = ReceiptFor(m)
  BY <1>2
<1> HIDE DEF found
<1>4. \A row \in receipts' \ receipts :
        /\ row \in Receipt /\ ~row.superseded
        /\ \E m \in found : row = ReceiptFor(m) /\ row.key = m.key
                            /\ row.job = m.job /\ row.run = m.run
  BY <1>0, <1>3, NewReceipt
<1>5. TypeOK'
  <2>1. faults' \in 0..MaxFaults
    BY <1>0, FaultCount DEF Restore
  <2>2. receipts' \subseteq Receipt
    BY <1>0, <1>4 DEF TypeOK
  <2> QED
    BY <1>0, <1>1, <2>1, <2>2 DEF TypeOK, runner, publication
<1>6. IntakeInv'
  <2>1. \A q \in Posts : Accepted(q)' => Backed(q, answer[q])'
    BY <1>0, <1>1, <1>3, AnswersBacked
  <2>2. ASSUME NEW a \in receipts', NEW b \in receipts', a.key = b.key
        PROVE  a = b
    <3>1. CASE a \in receipts /\ b \in receipts
      BY <1>0, <2>2, <3>1 DEF IntakeInv
    <3>2. CASE a \notin receipts \/ b \notin receipts
      <4>1. /\ \A m \in found : m.key = p.key /\ m \in Legacy
            /\ found # {} => \A row \in receipts : row.key # p.key
        BY DEF found, ReceiptsOf
      <4>2. a \notin receipts /\ b \notin receipts
        BY <1>4, <2>2, <3>2, <4>1
      <4>3. PICK m \in found, n \in found : a = ReceiptFor(m) /\ b = ReceiptFor(n)
        BY <1>4, <4>2
      <4>4. m = n
        BY <4>1, WorkspaceAssumption
      <4> QED
        BY <4>3, <4>4
    <3> QED
      BY <3>1, <3>2
  <2> QED
    BY <2>1, <2>2 DEF IntakeInv
<1>7. QueueInv'
  <2>1. /\ \A x \in receipts \cup Legacy : Kept(x)
        /\ UNCHANGED <<messages, runs, quarantined>>
    BY <1>0 DEF WorkspaceInv, QueueInv, runner
  <2>2. \A row \in receipts' \ receipts : Kept(row)
    BY <1>0, <1>4, <2>1 DEF Kept
  <2> QED
    BY <2>1, <2>2 DEF WorkspaceInv, QueueInv, Kept
<1>8. ListInv' /\ ArtifactInv'
  BY <1>0, <1>4
  DEF WorkspaceInv, ListInv, ArtifactInv, IsVerified, runner, publication
<1> QED
  BY <1>5, <1>6, <1>7, <1>8 DEF WorkspaceInv

LEMMA InsertStep ==
  ASSUME WorkspaceInv, NEW p \in Posts, Insert(p)
  PROVE  WorkspaceInv'
<1> DEFINE m == [key |-> p.key, job |-> p.job, run |-> p]
<1>0. /\ TypeOK /\ IntakeInv /\ UNCHANGED <<runner, publication>>
      /\ m \in Envelope
      /\ m.key = p.key /\ m.job = p.job /\ m.run = p /\ p \in Runs
  BY WorkspaceAssumption DEF WorkspaceInv, Insert, Envelope, Runs
<1>1. /\ ReceiptFor(m) \in Receipt /\ ReceiptFor(m).key = p.key
      /\ ReceiptFor(m).job = p.job /\ ReceiptFor(m).run = p
      /\ ~ReceiptFor(m).superseded
  BY <1>0, NewReceipt
<1>2. \/ /\ ReceiptsOf(p) = {}
         /\ messages' = messages \cup {m}
         /\ receipts' = receipts \cup {ReceiptFor(m)}
         /\ UNCHANGED answer \/ answer' = [answer EXCEPT ![p] = p]
      \/ UNCHANGED <<messages, receipts, answer>>
  BY DEF Insert, Answer
<1> HIDE DEF m
<1>3. TypeOK'
  <2>1. faults' \in 0..MaxFaults
    BY <1>0, FaultCount DEF Insert
  <2>2. \E place \in {"replaying", "done"} : pc' = [pc EXCEPT ![p] = place]
    BY DEF Insert, Answer, Goto
  <2> QED
    BY <1>0, <1>1, <1>2, <2>1, <2>2 DEF TypeOK, runner, publication
<1>4. IntakeInv'
  <2>1. CASE UNCHANGED <<messages, receipts, answer>>
    BY <1>0, <2>1 DEF IntakeInv, Accepted, Backed
  <2>2. CASE /\ ReceiptsOf(p) = {}
             /\ receipts' = receipts \cup {ReceiptFor(m)}
             /\ UNCHANGED answer \/ answer' = [answer EXCEPT ![p] = p]
    <3>1. Backed(p, p)' /\ receipts \subseteq receipts'
      BY <1>1, <2>2 DEF Backed
    <3>2. \A q \in Posts : Accepted(q)' => Backed(q, answer[q])'
      BY <1>0, <2>2, <3>1, AnswersBacked
    <3>3. \A row \in receipts : row.key # p.key
      BY <2>2 DEF ReceiptsOf
    <3> QED
      BY <1>0, <1>1, <2>2, <3>2, <3>3 DEF IntakeInv
  <2> QED
    BY <1>2, <2>1, <2>2
<1>5. QueueInv'
  <2>1. /\ messages \subseteq messages' /\ UNCHANGED <<runs, quarantined>>
        /\ \A x \in receipts \cup Legacy : Kept(x)
        /\ \A m0 \in quarantined : m0.job \notin Legible
    BY <1>0, <1>2 DEF WorkspaceInv, QueueInv, runner
  <2>2. \A x \in receipts \cup Legacy : Kept(x)'
    BY <2>1 DEF Kept
  <2>3. \A x \in receipts' : x \in receipts \/ Kept(x)'
    BY <1>0, <1>1, <1>2 DEF Kept
  <2> QED
    BY <2>1, <2>2, <2>3 DEF QueueInv
<1>6. ListInv' /\ ArtifactInv'
  BY <1>0, <1>1, <1>2
  DEF WorkspaceInv, ListInv, ArtifactInv, IsVerified, runner, publication
<1> QED
  BY <1>3, <1>4, <1>5, <1>6 DEF WorkspaceInv
----------------------------------------------------------------------------
(***************************************************************************)
(* The runner.                                                             *)
(***************************************************************************)

\* A run is created, or its deliverable changes.
LEMMA RunWritten ==
  ASSUME WorkspaceInv, NEW r \in Runs, NEW state \in RunState,
         runs' = [runs EXCEPT ![r] = state],
         UNCHANGED <<intake, quarantined, publication, faults>>,
         verified \subseteq verified', verified' \subseteq Runs \X Files,
         state.complete => IsVerified(r, state.file)'
  PROVE  WorkspaceInv'
<1>0. /\ TypeOK
      /\ UNCHANGED <<messages, receipts, pc, answer, console, objects, calls, reading>>
      /\ runs'[r] = state /\ state # None
      /\ \A q \in Runs \ {r} : runs'[q] = runs[q]
  BY RecordFields DEF WorkspaceInv, TypeOK, intake, publication
<1>1. TypeOK'
  BY <1>0 DEF TypeOK
<1>2. IntakeInv' /\ ListInv'
  BY <1>0 DEF WorkspaceInv, IntakeInv, ListInv, Accepted, Backed
<1>3. QueueInv'
  <2>1. \A q \in Runs : runs[q] # None => runs'[q] # None
    BY <1>0
  <2>2. \A x \in receipts \cup Legacy : Kept(x) /\ x.run \in Runs
    BY <1>0, RowFields, WorkspaceAssumption DEF WorkspaceInv, QueueInv, TypeOK
  <2>3. \A x \in receipts \cup Legacy : Kept(x)'
    BY <1>0, <2>1, <2>2 DEF Kept
  <2> QED
    BY <1>0, <2>3 DEF WorkspaceInv, QueueInv
<1>4. ArtifactInv'
  <2>1. \A q, f : IsVerified(q, f) => IsVerified(q, f)'
    BY DEF IsVerified
  <2>2. \A q \in Runs : runs'[q] # None /\ runs'[q].complete => IsVerified(q, runs[q].file)'
    BY <1>0, <2>1 DEF WorkspaceInv, ArtifactInv, IsVerified
  <2> QED
    BY <1>0, <2>1, <2>2 DEF WorkspaceInv, ArtifactInv, IsVerified
<1> QED
  BY <1>1, <1>2, <1>3, <1>4 DEF WorkspaceInv

LEMMA RunStep ==
  ASSUME WorkspaceInv, NEW r \in Runs, GenerateMedia(r) \/ Complete(r) \/ Reopen(r)
  PROVE  WorkspaceInv'
<1>0. /\ TypeOK /\ runs[r] # None /\ runs[r] \in RunState
      /\ UNCHANGED <<intake, quarantined, publication, faults>>
      /\ verified \subseteq Runs \X Files
  BY DEF WorkspaceInv, TypeOK, GenerateMedia, Complete, Reopen, Update
<1>1. runs[r].file \in Files /\ Files \subseteq Nat
  BY <1>0, RecordFields, WorkspaceAssumption DEF Files
<1>2. CASE GenerateMedia(r)
  <2> DEFINE n == runs[r].file + 1
             state == [runs[r] EXCEPT !.file = n]
  <2>1. n \in Files
    BY <1>1, <1>2, WorkspaceAssumption DEF GenerateMedia, Files
  <2>2. state \in RunState /\ ~state.complete
    BY <1>0, <1>2, <2>1 DEF GenerateMedia, RunState
  <2>3. runs' = [runs EXCEPT ![r] = state] /\ UNCHANGED verified
    BY <1>2 DEF GenerateMedia, Update
  <2> HIDE DEF state
  <2> QED
    BY <1>0, <2>2, <2>3, RunWritten
<1>3. CASE Complete(r)
  <2> DEFINE state == [runs[r] EXCEPT !.complete = TRUE]
  <2>1. state \in RunState /\ state.file = runs[r].file
    BY <1>0 DEF RunState
  <2>2. /\ runs' = [runs EXCEPT ![r] = state]
        /\ verified' = verified \cup {<<r, f>> : f \in {runs[r].file} \ {0}}
    BY <1>3 DEF Complete, Update
  <2> HIDE DEF state
  <2>3. /\ verified \subseteq verified' /\ verified' \subseteq Runs \X Files
        /\ state.file # 0 => <<r, state.file>> \in verified'
    BY <1>0, <1>1, <2>1, <2>2
  <2> QED
    BY <1>0, <2>1, <2>2, <2>3, RunWritten DEF IsVerified
<1>4. CASE Reopen(r)
  <2> DEFINE state == [runs[r] EXCEPT !.complete = FALSE]
  <2>1. state \in RunState /\ ~state.complete
    BY <1>0 DEF RunState
  <2>2. runs' = [runs EXCEPT ![r] = state] /\ UNCHANGED verified
    BY <1>4 DEF Reopen, Update
  <2> HIDE DEF state
  <2> QED
    BY <1>0, <2>1, <2>2, RunWritten
<1> QED
  BY <1>2, <1>3, <1>4

LEMMA EnvelopeStep ==
  ASSUME WorkspaceInv, NEW m \in messages, Commission(m) \/ Quarantine(m) \/ Acknowledge(m)
  PROVE  WorkspaceInv'
<1>0. TypeOK /\ m \in Envelope /\ m.run \in Runs
  BY RowFields DEF WorkspaceInv, TypeOK
<1>1. CASE Commission(m)
  <2> DEFINE state == [file |-> 0, complete |-> FALSE]
  <2>1. state \in RunState /\ ~state.complete
    BY WorkspaceAssumption DEF RunState, Files
  <2>2. /\ runs' = [runs EXCEPT ![m.run] = state] /\ UNCHANGED verified
        /\ UNCHANGED <<intake, quarantined, publication, faults>>
        /\ verified \subseteq Runs \X Files
    BY <1>0, <1>1 DEF Commission, TypeOK
  <2> HIDE DEF state
  <2> QED
    BY <1>0, <2>1, <2>2, RunWritten
<1>2. CASE Quarantine(m)
  <2>1. /\ UNCHANGED <<intake, runs, verified, publication, faults>>
        /\ quarantined' = quarantined \cup {m} /\ m.job \notin Legible
    BY <1>2 DEF Quarantine
  <2> QED
    BY <1>0, <2>1
    DEF WorkspaceInv, TypeOK, IntakeInv, Accepted, Backed, QueueInv, Kept, ListInv,
        ArtifactInv, IsVerified, intake, publication
<1>3. CASE Acknowledge(m)
  <2>1. /\ UNCHANGED <<receipts, pc, answer, runner, publication, faults>>
        /\ messages' = messages \ {m}
        /\ runs[m.run] # None \/ m \in quarantined
    BY <1>3 DEF Acknowledge
  <2>2. QueueInv'
    <3>1. m.job \in Legible => runs[m.run] # None
      BY <2>1 DEF WorkspaceInv, QueueInv
    <3>2. \A x \in receipts \cup Legacy : Kept(x)'
      BY <2>1, <3>1 DEF WorkspaceInv, QueueInv, Kept, runner
    <3> QED
      BY <2>1, <3>2 DEF WorkspaceInv, QueueInv, runner
  <2> QED
    BY <1>0, <2>1, <2>2
    DEF WorkspaceInv, TypeOK, IntakeInv, Accepted, Backed, ListInv, ArtifactInv,
        IsVerified, runner, publication
<1> QED
  BY <1>1, <1>2, <1>3

----------------------------------------------------------------------------
(***************************************************************************)
(* The publication, and the download.                                      *)
(***************************************************************************)

\* What follows from a request that is given up, checked, refused or done.
LEMMA CallsWritten ==
  ASSUME TypeOK, ArtifactInv, NEW c \in calls,
         \/ Refuse(c) \/ Check(c) \/ Succeed(c)
         \/ calls' = (calls \ {c}) \cup {[c EXCEPT !.owner = None]}
  PROVE  /\ calls' \subseteq Call
         /\ \A d \in calls' : IsVerified(d.run, d.file)
<1>0. c \in Call /\ calls \subseteq Call /\ \A d \in calls : IsVerified(d.run, d.file)
  BY DEF TypeOK, ArtifactInv
<1>1. ASSUME NEW d \in Call, d.run = c.run, d.file = c.file
      PROVE  d \in Call /\ IsVerified(d.run, d.file)
  BY <1>0, <1>1
<1>2. /\ [c EXCEPT !.checked = TRUE] \in Call
      /\ [c EXCEPT !.checked = TRUE].run = c.run
      /\ [c EXCEPT !.checked = TRUE].file = c.file
      /\ [c EXCEPT !.owner = None] \in Call
      /\ [c EXCEPT !.owner = None].run = c.run
      /\ [c EXCEPT !.owner = None].file = c.file
  BY <1>0 DEF Call
<1>3. ASSUME NEW kind \in {"upload", "ready"}
      PROVE  /\ Request(c.owner, kind, c.run, c.file) \in Call
             /\ Request(c.owner, kind, c.run, c.file).run = c.run
             /\ Request(c.owner, kind, c.run, c.file).file = c.file
  BY <1>0 DEF Call, Request
<1>4. \A d \in Following(c) : d \in Call /\ IsVerified(d.run, d.file)
  BY <1>1, <1>3 DEF Following
<1> QED
  BY <1>0, <1>1, <1>2, <1>4 DEF Refuse, Check, Succeed

\* The steps of requests that write no projection.
LEMMA RequestStep ==
  ASSUME WorkspaceInv, NEW c \in calls,
         GiveUp(c) \/ CheckReady(c) \/ CheckUpload(c) \/ StoreArtifact(c)
  PROVE  WorkspaceInv'
<1>0. /\ TypeOK /\ ArtifactInv /\ UNCHANGED <<intake, runner, console, reading>>
      /\ c \in Call /\ c.run \in Runs /\ c.file \in Files
  BY RowFields
  DEF WorkspaceInv, GiveUp, CheckReady, CheckUpload, StoreArtifact, TypeOK
<1>1. \/ Refuse(c) \/ Check(c) \/ Succeed(c)
      \/ calls' = (calls \ {c}) \cup {[c EXCEPT !.owner = None]}
  BY DEF GiveUp, CheckReady, CheckUpload, StoreArtifact
<1>2. /\ calls' \subseteq Call
      /\ \A d \in calls' : IsVerified(d.run, d.file)
  BY <1>0, <1>1, CallsWritten
<1>3. objects' \in [Runs -> Files]
  <2>1. UNCHANGED objects \/ \E left \in {0, c.file, objects[c.run]} :
          objects' = [objects EXCEPT ![c.run] = left]
    BY DEF GiveUp, CheckReady, CheckUpload, StoreArtifact
  <2>2. 0 \in Files /\ objects[c.run] \in Files
    BY <1>0, WorkspaceAssumption DEF TypeOK, Files
  <2> QED
    BY <1>0, <2>1, <2>2 DEF TypeOK
<1>4. faults' \in 0..MaxFaults
  BY <1>0, FaultCount DEF GiveUp, CheckReady, CheckUpload, StoreArtifact
<1>5. TypeOK'
  BY <1>0, <1>2, <1>3, <1>4 DEF TypeOK, intake, runner
<1>6. IntakeInv' /\ QueueInv' /\ ListInv'
  BY <1>0
  DEF WorkspaceInv, IntakeInv, QueueInv, ListInv, Accepted, Backed, Kept, intake, runner
<1>7. ArtifactInv'
  BY <1>0, <1>2 DEF ArtifactInv, IsVerified, runner
<1> QED
  BY <1>5, <1>6, <1>7 DEF WorkspaceInv

LEMMA PublishStep ==
  ASSUME WorkspaceInv, NEW r \in Runs, NEW process \in {Serve, Cli}, Publish(process, r)
  PROVE  WorkspaceInv'
<1> DEFINE c == Request(process, "staged", r, VerifiedArtifact(r))
<1>0. /\ TypeOK /\ ArtifactInv /\ runs[r] # None /\ runs[r] \in RunState
      /\ UNCHANGED <<intake, runner, console, objects, reading, faults>>
      /\ calls' = calls \cup {c}
  BY DEF WorkspaceInv, TypeOK, Publish
<1>1. VerifiedArtifact(r) \in Files /\ IsVerified(r, VerifiedArtifact(r))
  BY <1>0, RecordFields, WorkspaceAssumption
  DEF VerifiedArtifact, Files, ArtifactInv, IsVerified
<1>2. c \in Call /\ c.run = r /\ c.file = VerifiedArtifact(r)
  BY <1>1 DEF Request, Call
<1> HIDE DEF c
<1>3. TypeOK'
  BY <1>0, <1>2 DEF TypeOK, intake, runner
<1>4. IntakeInv' /\ QueueInv' /\ ListInv'
  BY <1>0
  DEF WorkspaceInv, IntakeInv, QueueInv, ListInv, Accepted, Backed, Kept, intake, runner
<1>5. ArtifactInv'
  BY <1>0, <1>1, <1>2 DEF ArtifactInv, IsVerified, runner
<1> QED
  BY <1>3, <1>4, <1>5 DEF WorkspaceInv

\* The batch that shows a projection takes its receipt out of the list.
LEMMA ProjectionStep ==
  ASSUME WorkspaceInv, NEW c \in calls, WriteProjection(c)
  PROVE  WorkspaceInv'
<1>0. /\ TypeOK /\ ArtifactInv /\ IntakeInv
      /\ UNCHANGED <<messages, pc, answer, runner, objects, reading>>
      /\ c \in Call /\ c.run \in Runs /\ c.file \in Files /\ receipts \subseteq Receipt
      /\ c.kind \in {"staged", "ready"}
  BY RowFields DEF WorkspaceInv, WriteProjection, TypeOK, Call
<1>1. /\ calls' \subseteq Call
      /\ \A d \in calls' : IsVerified(d.run, d.file)
  BY <1>0, CallsWritten DEF WriteProjection
<1>2. faults' \in 0..MaxFaults
  BY <1>0, FaultCount DEF WriteProjection
<1>3. CASE UNCHANGED <<console, receipts>>
  <2>1. TypeOK'
    BY <1>0, <1>1, <1>2, <1>3 DEF TypeOK, runner
  <2>2. IntakeInv' /\ QueueInv' /\ ListInv'
    BY <1>0, <1>3
    DEF WorkspaceInv, IntakeInv, QueueInv, ListInv, Accepted, Backed, Kept, runner
  <2>3. ArtifactInv'
    BY <1>0, <1>1, <1>3 DEF ArtifactInv, IsVerified, runner
  <2> QED
    BY <2>1, <2>2, <2>3 DEF WorkspaceInv
<1>4. CASE console' = Projected(c) /\ receipts' = Superseded(c.run)
  <2> DEFINE shown == [file |-> c.file, status |-> c.kind]
  <2>1. shown \in Projection /\ shown.file = c.file
    BY <1>0 DEF Projection
  <2>2. console' = [console EXCEPT ![c.run] = shown]
    BY <1>4 DEF Projected
  <2>3. shown # None
    BY <2>1, RecordFields
  <2> HIDE DEF shown
  <2>4. /\ console'[c.run] = shown
        /\ \A r \in Runs \ {c.run} : console'[r] = console[r]
        /\ console' \in [Runs -> Projection \cup {None}]
    BY <1>0, <2>1, <2>2 DEF TypeOK
  <2>5. receipts' = {SupersededRow(row, c.run) : row \in receipts}
    BY <1>4 DEF Superseded, SupersededRow
  <2>6. \A row \in receipts :
          LET new == SupersededRow(row, c.run)
          IN  /\ new \in Receipt /\ new.key = row.key /\ new.job = row.job
              /\ new.run = row.run
              /\ new.superseded => row.superseded \/ row.run = c.run
    BY <1>0, SupersededFields
  <2>7. TypeOK'
    BY <1>0, <1>1, <1>2, <2>4, <2>5, <2>6 DEF TypeOK, runner
  <2>8. IntakeInv'
    <3>1. \A a, b \in receipts' : a.key = b.key => a = b
      BY <1>0, <2>5, <2>6 DEF IntakeInv
    <3>2. \A p \in Posts : Accepted(p) => Backed(p, answer[p])'
      BY <1>0, <2>5, <2>6 DEF IntakeInv, Backed
    <3> QED
      BY <1>0, <3>1, <3>2 DEF IntakeInv, Accepted, Backed
  <2>9. QueueInv'
    <3>1. /\ \A x \in receipts \cup Legacy : Kept(x)
          /\ \A m \in quarantined : m.job \notin Legible
      BY DEF WorkspaceInv, QueueInv
    <3>2. \A x \in receipts' \cup Legacy : Kept(x)
      BY <2>5, <2>6, <3>1 DEF Kept
    <3> QED
      BY <1>0, <3>1, <3>2 DEF QueueInv, Kept, runner
  <2>10. ListInv'
    <3>1. \A row \in receipts : row.run \in Runs /\ (row.superseded => console[row.run] # None)
      BY <1>0, RowFields DEF WorkspaceInv, ListInv
    <3> QED
      BY <2>3, <2>4, <2>5, <2>6, <3>1 DEF ListInv
  <2>11. ArtifactInv'
    <3>1. IsVerified(c.run, c.file)
      BY <1>0 DEF ArtifactInv
    <3> QED
      BY <1>0, <1>1, <2>1, <2>4, <3>1 DEF ArtifactInv, IsVerified, runner
  <2> QED
    BY <2>7, <2>8, <2>9, <2>10, <2>11 DEF WorkspaceInv
<1> QED
  BY <1>3, <1>4 DEF WriteProjection

LEMMA DownloadStep ==
  ASSUME WorkspaceInv, (\E r \in Runs : ReadProjection(r)) \/ ServeObject
  PROVE  WorkspaceInv'
<1>0. /\ TypeOK /\ ArtifactInv
      /\ UNCHANGED <<intake, runner, console, objects, calls, faults>>
  BY DEF WorkspaceInv, ReadProjection, ServeObject
<1>1. /\ reading' \in Download \cup {None}
      /\ reading' # None => /\ IsVerified(reading'.run, reading'.declared)
                            /\ reading'.bytes \in {0, reading'.declared}
  <2>1. ASSUME NEW r \in Runs, NEW file \in Files, Declared(r, file, "ready"),
               reading' = [run |-> r, declared |-> file, bytes |-> 0]
        PROVE  /\ reading' \in Download
               /\ IsVerified(reading'.run, reading'.declared)
               /\ reading'.bytes \in {0, reading'.declared}
    <3>1. console[r] # None /\ console[r].file = file
      BY <2>1 DEF Declared
    <3>2. IsVerified(r, file)
      BY <1>0, <3>1 DEF ArtifactInv
    <3>3. 0 \in Files
      BY WorkspaceAssumption DEF Files
    <3> QED
      BY <2>1, <3>2, <3>3 DEF Download
  <2>2. CASE ServeObject
    <3>1. /\ reading # None /\ reading \in Download
          /\ IsVerified(reading.run, reading.declared)
      BY <1>0, <2>2 DEF ServeObject, TypeOK, ArtifactInv
    <3>2. CASE reading' = None
      BY <3>2
    <3>3. CASE reading' = [reading EXCEPT !.bytes = reading.declared]
      <4> DEFINE new == [reading EXCEPT !.bytes = reading.declared]
      <4>1. /\ new \in Download /\ new.run = reading.run
            /\ new.declared = reading.declared /\ new.bytes = reading.declared
        BY <3>1 DEF Download
      <4> QED
        BY <3>1, <3>3, <4>1
    <3> QED
      BY <2>2, <3>2, <3>3 DEF ServeObject
  <2> QED
    BY <2>1, <2>2 DEF ReadProjection
<1>2. TypeOK'
  BY <1>0, <1>1 DEF TypeOK, intake, runner
<1>3. IntakeInv' /\ QueueInv' /\ ListInv'
  BY <1>0
  DEF WorkspaceInv, IntakeInv, QueueInv, ListInv, Accepted, Backed, Kept, intake, runner
<1>4. ArtifactInv'
  BY <1>0, <1>1 DEF ArtifactInv, IsVerified, runner
<1> QED
  BY <1>2, <1>3, <1>4 DEF WorkspaceInv

----------------------------------------------------------------------------
(***************************************************************************)
(* The theorems.                                                           *)
(***************************************************************************)
LEMMA WorkspaceStep == WorkspaceInv /\ [Next]_vars => WorkspaceInv'
<1> SUFFICES ASSUME WorkspaceInv, [Next]_vars PROVE WorkspaceInv'
  OBVIOUS
<1>1. CASE UNCHANGED vars
  BY <1>1
  DEF vars, intake, runner, publication, WorkspaceInv, TypeOK, IntakeInv, QueueInv,
      ListInv, ArtifactInv, Accepted, Backed, Kept, IsVerified
<1>2. CASE Next
  BY <1>2, LookStep, RestoreStep, InsertStep, RunStep, EnvelopeStep, RequestStep,
     PublishStep, ProjectionStep, DownloadStep
  DEF Next
<1> QED
  BY <1>1, <1>2

\* The inductive invariant: the receipts, the queue, the list and the artifacts
\* agree after every statement (createManualJob, ack, publish).
THEOREM Invariance == Spec => []WorkspaceInv
BY WorkspaceInit, WorkspaceStep, PTL DEF Spec

\* Every variable keeps its type, whatever overlaps, fails or is late.
THEOREM TypeCorrect == Spec => []TypeOK
<1>1. WorkspaceInv => TypeOK
  BY DEF WorkspaceInv
<1> QED
  BY <1>1, Invariance, PTL

\* Requests with one key that are accepted are told the same run, of the job
\* they asked for (createManualJob).
THEOREM OneRunForAKey == Spec => []OneRunPerKey
<1>1. WorkspaceInv => OneRunPerKey
  BY DEF WorkspaceInv, IntakeInv, OneRunPerKey, Backed
<1> QED
  BY <1>1, Invariance, PTL

\* An accepted job that the runner can read is queued until the runner has a
\* run of it (the batch of createManualJob, ack).
THEOREM AcceptedStays == Spec => []AcceptedIsKept
<1>1. WorkspaceInv => AcceptedIsKept
  BY DEF WorkspaceInv, IntakeInv, QueueInv, AcceptedIsKept, Kept, Backed
<1> QED
  BY <1>1, Invariance, PTL

\* An accepted job always has a row that the list of its workspace is taken from
\* (GET and PUT of the runs).
THEOREM AcceptedHasRow == Spec => []AcceptedIsEligible
<1>1. WorkspaceInv => AcceptedIsEligible
  BY DEF WorkspaceInv, IntakeInv, ListInv, AcceptedIsEligible, Eligible, Backed
<1> QED
  BY <1>1, Invariance, PTL

\* A download serves what was declared, and that was verified
\* (serveWorkspaceArtifact, _verified_artifacts).
THEOREM DownloadIsVerified == Spec => []ServedIsVerified
<1>1. WorkspaceInv => ServedIsVerified
  BY DEF WorkspaceInv, ArtifactInv, IsVerified, ServedIsVerified
<1> QED
  BY <1>1, Invariance, PTL
=============================================================================
