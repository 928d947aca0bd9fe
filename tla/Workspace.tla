----------------------------- MODULE Workspace -----------------------------
(***************************************************************************)
(* The customer's workspace: jobs posted from the dashboard to the Worker  *)
(* (index.js), the runner that takes them up, and the projections and      *)
(* artifacts it publishes back (console.py).                               *)
(*                                                                         *)
(* A statement or batch of D1, an R2 operation and a handler of the runner *)
(* are one action each; requests to the Worker interleave between them.    *)
(* RunDelivery has the queue and the handlers in detail, RallyRun the turns*)
(* of a run: here a run is its deliverable and whether it is complete.     *)
(***************************************************************************)
EXTENDS Integers, FiniteSets

CONSTANTS
  Keys,        \* idempotency keys
  Jobs,        \* the bodies of jobs, told apart by their fingerprints
  Legible,     \* the jobs that classify_dashboard accepts
  Tries,       \* tell requests for the same job apart
  Posts,       \* POST requests: [key, job, try]; each mints one run id
  Legacy,      \* envelopes queued before workspace_jobs existed
  Serve, Cli,  \* the processes of the runner: --serve and --publish-console
  None, Refused,
  MaxFiles,    \* bound: media generated for one run
  MaxCalls,    \* bound: requests of the runner under way
  MaxFaults    \* bound: failed statements, lost answers and timeouts

\* The id of a run: the request that minted it, or the old envelope's.
Runs == Posts \cup {m.run : m \in Legacy}

Envelope == [key : Keys, job : Jobs, run : Runs]

Files == 0..MaxFiles  \* 0 is no file

Receipt == [key : Keys, job : Jobs, run : Runs, superseded : BOOLEAN]

Call == [owner : {Serve, Cli, None}, kind : {"staged", "upload", "ready"},
         run : Runs, file : Files, checked : BOOLEAN]

\* What state.json says of a run's deliverable; what the console shows of it; and
\* a download, with what was declared and the bytes it serves (0 until then).
RunState == [file : Files, complete : BOOLEAN]

Projection == [file : Files, status : {"staged", "ready"}]

Download == [run : Runs, declared : Files, bytes : Files]

ASSUME WorkspaceAssumption ==
  /\ Posts \subseteq [key : Keys, job : Jobs, try : Tries]
  /\ Legible \subseteq Jobs
  /\ Legacy \subseteq Envelope
  /\ \A m, n \in Legacy : m.key = n.key => m = n
  /\ {None, Refused} \cap (Runs \cup {Serve, Cli}) = {}
  /\ None \notin RunState \cup Projection \cup Download
  /\ Serve # Cli /\ None # Refused
  /\ MaxFiles \in Nat /\ MaxCalls \in Nat \ {0} /\ MaxFaults \in Nat

VARIABLES
  messages,     \* D1 table messages: the dashboard envelopes in it
  receipts,     \* D1 table workspace_jobs
  pc,           \* where each post is
  answer,       \* what each post was answered
  runs,         \* the runner's state.json of each run
  quarantined,  \* envelopes the runner refused
  verified,     \* the deliverables of runs that were independently complete
  console,      \* D1 table console_runs
  objects,      \* R2: the deliverable stored for each run, 0 if none
  calls,        \* the runner's requests under way
  reading,      \* a download, or None
  faults

intake == <<messages, receipts, pc, answer>>
runner == <<runs, quarantined, verified>>
publication == <<console, objects, calls, reading>>
vars == <<intake, runner, publication, faults>>

TypeOK ==
  /\ messages \subseteq Envelope
  /\ receipts \subseteq Receipt
  /\ pc \in [Posts -> {"looking", "legacy", "restoring", "inserting",
                       "replaying", "done"}]
  /\ answer \in [Posts -> Runs \cup {None, Refused}]
  /\ runs \in [Runs -> RunState \cup {None}]
  /\ quarantined \subseteq Envelope
  /\ verified \subseteq Runs \X Files
  /\ console \in [Runs -> Projection \cup {None}]
  /\ objects \in [Runs -> Files]
  /\ calls \subseteq Call
  /\ reading \in Download \cup {None}
  /\ faults \in 0..MaxFaults

Init ==
  /\ messages = Legacy /\ receipts = {}
  /\ pc = [p \in Posts |-> "looking"]
  /\ answer = [p \in Posts |-> None]
  /\ runs = [r \in Runs |-> None]
  /\ quarantined = {} /\ verified = {}
  /\ console = [r \in Runs |-> None]
  /\ objects = [r \in Runs |-> 0]
  /\ calls = {} /\ reading = None /\ faults = 0

Fault == faults < MaxFaults /\ faults' = faults + 1

----------------------------------------------------------------------------
(***************************************************************************)
(* createManualJob                                                         *)
(***************************************************************************)
Goto(p, place) == pc' = [pc EXCEPT ![p] = place]

Answer(p, what) ==
  /\ answer' = [answer EXCEPT ![p] = what]
  /\ Goto(p, "done")

AnswerAnyJob(p, row) == Answer(p, row.run)  \* mutant: fingerprints not compared

\* acceptedManualJobResponse: 202, or 409 for another job under the same key.
AnswerWith(p, row) == Answer(p, IF row.job = p.job THEN row.run ELSE Refused)

ReceiptsOf(p) == {row \in receipts : row.key = p.key}
QueuedFor(p) == {m \in messages : m.key = p.key}

\* The receipt of an earlier request with the same key.
LookUp(p) ==
  /\ pc[p] = "looking"
  /\ \/ /\ \E row \in ReceiptsOf(p) : AnswerWith(p, row)
        /\ UNCHANGED faults
     \/ ReceiptsOf(p) = {} /\ Goto(p, "legacy") /\ UNCHANGED <<answer, faults>>
     \/ Answer(p, Refused) /\ Fault
  /\ UNCHANGED <<messages, receipts, runner, publication>>

\* requireContinuationSource: a job may continue a run of the workspace, which
\* has to be there. It changes nothing, and no step comes of the read.
CheckSource(p) == (Goto(p, "inserting") /\ UNCHANGED answer) \/ Answer(p, Refused)

\* acceptedManualJob: an envelope without a receipt has to be of this job.
LookUpLegacy(p) ==
  /\ pc[p] = "legacy"
  /\ \/ /\ \E m \in QueuedFor(p) :
             IF m.job = p.job THEN Goto(p, "restoring") /\ UNCHANGED answer
                              ELSE Answer(p, Refused)
        /\ UNCHANGED faults
     \/ QueuedFor(p) = {} /\ CheckSource(p) /\ UNCHANGED faults
     \/ Answer(p, Refused) /\ Fault
  /\ UNCHANGED <<messages, receipts, runner, publication>>

ReceiptFor(m) ==
  [key |-> m.key, job |-> m.job, run |-> m.run, superseded |-> FALSE]

\* INSERT OR IGNORE of the envelope that was read, which may be acknowledged
\* by now; one that has no receipt is of Legacy.
Restore(p) ==
  /\ pc[p] = "restoring"
  /\ \/ /\ receipts' = receipts \cup
             {ReceiptFor(m) :
                m \in {n \in Legacy : n.key = p.key /\ ReceiptsOf(p) = {}}}
        /\ Goto(p, "replaying") /\ UNCHANGED <<answer, faults>>
     \/ Answer(p, Refused) /\ Fault /\ UNCHANGED receipts
  /\ UNCHANGED <<messages, runner, publication>>

\* The batch of both INSERTs; event_id is unique in both tables.
Insert(p) ==
  LET m == [key |-> p.key, job |-> p.job, run |-> p]
  IN  /\ pc[p] = "inserting"
      /\ \/ /\ ReceiptsOf(p) = {} /\ QueuedFor(p) = {}
            /\ messages' = messages \cup {m}
            /\ receipts' = receipts \cup {ReceiptFor(m)}
            /\ \/ Answer(p, p) /\ UNCHANGED faults
               \/ Goto(p, "replaying") /\ UNCHANGED answer /\ Fault
         \/ /\ \/ ReceiptsOf(p) \cup QueuedFor(p) # {} /\ UNCHANGED faults
               \/ Fault
            /\ Goto(p, "replaying")
            /\ UNCHANGED <<messages, receipts, answer>>
      /\ UNCHANGED <<runner, publication>>

\* The loser of the batch, and a restored request, answer with the receipt.
Replay(p) ==
  /\ pc[p] = "replaying"
  /\ \/ /\ \E row \in ReceiptsOf(p) : AnswerWith(p, row)
        /\ UNCHANGED faults
     \/ ReceiptsOf(p) = {} /\ Answer(p, Refused) /\ UNCHANGED faults
     \/ Answer(p, Refused) /\ Fault
  /\ UNCHANGED <<messages, receipts, runner, publication>>

----------------------------------------------------------------------------
(***************************************************************************)
(* The runner                                                              *)
(***************************************************************************)

\* find_commission, or Run.create with the run id of the envelope.
Commission(m) ==
  /\ m \in messages /\ m.job \in Legible
  /\ runs[m.run] = None
  /\ runs' = [runs EXCEPT ![m.run] = [file |-> 0, complete |-> FALSE]]
  /\ UNCHANGED <<intake, quarantined, verified, publication, faults>>

\* classify_dashboard refuses the envelope, and the serve loop puts it aside.
Quarantine(m) ==
  /\ m \in messages /\ m.job \notin Legible
  /\ quarantined' = quarantined \cup {m}
  /\ UNCHANGED <<intake, runs, verified, publication, faults>>

AcknowledgeCollected(m) ==  \* mutant: every collected row is acknowledged
  /\ m \in messages
  /\ messages' = messages \ {m}
  /\ UNCHANGED <<receipts, pc, answer, runner, publication, faults>>

\* ack: only rows whose handler has returned are deleted.
Acknowledge(m) ==
  /\ m \in messages
  /\ runs[m.run] # None \/ m \in quarantined
  /\ messages' = messages \ {m}
  /\ UNCHANGED <<receipts, pc, answer, runner, publication, faults>>

\* The serve process publishes between the steps of a run.
Busy(process) == \E c \in calls : c.owner = process

Update(r, state) ==
  /\ runs[r] # None
  /\ ~Busy(Serve)
  /\ runs' = [runs EXCEPT ![r] = state]
  /\ UNCHANGED <<intake, quarantined, publication, faults>>

\* prepare_media writes the deliverable anew, under the same name, while the
\* run has work to do.
GenerateMedia(r) ==
  /\ Update(r, [runs[r] EXCEPT !.file = @ + 1])
  /\ ~runs[r].complete /\ runs[r].file < MaxFiles
  /\ UNCHANGED verified

\* The last item is approved by another worker.
Complete(r) ==
  /\ Update(r, [runs[r] EXCEPT !.complete = TRUE])
  /\ ~runs[r].complete
  /\ verified' = verified \cup {<<r, f>> : f \in {runs[r].file} \ {0}}

\* A note reopens the work.
Reopen(r) ==
  /\ Update(r, [runs[r] EXCEPT !.complete = FALSE])
  /\ runs[r].complete
  /\ UNCHANGED verified

----------------------------------------------------------------------------
(***************************************************************************)
(* publish: the staged projection, the artifact, the ready projection.     *)
(***************************************************************************)
\* A staged projection claims nothing that has to be checked.
Request(process, kind, r, file) ==
  [owner |-> process, kind |-> kind, run |-> r, file |-> file,
   checked |-> kind = "staged"]

NullArtifact(r) ==  \* mutant: null where no artifact is expected
  IF runs[r].complete THEN runs[r].file ELSE None

\* _verified_artifacts: a deliverable is shown once its run is complete.
VerifiedArtifact(r) == IF runs[r].complete THEN runs[r].file ELSE 0

\* build_snapshot and the first PUT.
Publish(process, r) ==
  /\ runs[r] # None /\ ~Busy(process) /\ Cardinality(calls) < MaxCalls
  /\ calls' = calls \cup {Request(process, "staged", r, VerifiedArtifact(r))}
  /\ UNCHANGED <<intake, runner, console, objects, reading, faults>>

\* The request that follows a successful one; the file is read again for it,
\* and has to be the one of the snapshot.
Following(c) ==
  IF c.kind = "staged" /\ c.file # 0 /\ runs[c.run].file = c.file
    THEN {Request(c.owner, "upload", c.run, c.file)}
  ELSE IF c.kind = "upload" THEN {Request(c.owner, "ready", c.run, c.file)}
  ELSE {}

\* The runner has given up on a request that is late; nothing follows it.
Succeed(c) ==
  calls' = (calls \ {c}) \cup IF c.owner = None THEN {} ELSE Following(c)

Refuse(c) == calls' = calls \ {c}

Check(c) == calls' = (calls \ {c}) \cup {[c EXCEPT !.checked = TRUE]}

\* A timeout, or the end of the process: the request may still take effect.
GiveUp(c) ==
  /\ c \in calls /\ c.owner # None
  /\ Fault
  /\ calls' = (calls \ {c}) \cup {[c EXCEPT !.owner = None]}
  /\ UNCHANGED <<intake, runner, console, objects, reading>>

Superseded(r) ==
  {[row EXCEPT !.superseded = @ \/ row.run = r] : row \in receipts}

\* readyArtifactsAreStored.
CheckReady(c) ==
  /\ c \in calls /\ c.kind = "ready" /\ ~c.checked
  /\ IF objects[c.run] = c.file THEN Check(c) ELSE Refuse(c)
  /\ UNCHANGED <<intake, runner, console, objects, reading, faults>>

Projected(c) ==
  [console EXCEPT ![c.run] = [file |-> c.file, status |-> c.kind]]

SupersedeFirst(c) ==  \* mutant: two statements, not a batch
  /\ c \in calls /\ c.kind # "upload" /\ c.checked
  /\ receipts' = Superseded(c.run)
  /\ \/ console' = Projected(c) /\ Succeed(c) /\ UNCHANGED faults
     \/ Refuse(c) /\ Fault /\ UNCHANGED console
  /\ UNCHANGED <<messages, pc, answer, runner, objects, reading>>

\* The batch of PUT /v1/console/runs: whatever comes last is what is shown.
\* A batch that fails may have happened.
WriteProjection(c) ==
  /\ c \in calls /\ c.kind # "upload" /\ c.checked
  /\ \/ /\ console' = Projected(c) /\ receipts' = Superseded(c.run)
        /\ \/ Succeed(c) /\ UNCHANGED faults
           \/ Refuse(c) /\ Fault
     \/ Refuse(c) /\ Fault /\ UNCHANGED <<console, receipts>>
  /\ UNCHANGED <<messages, pc, answer, runner, objects, reading>>

Declared(r, file, status) ==
  /\ console[r] # None /\ file # 0
  /\ console[r] = [file |-> file, status |-> status]

\* publishConsoleArtifact, up to the put: declared, staged, the same checksum.
CheckUpload(c) ==
  /\ c \in calls /\ c.kind = "upload" /\ ~c.checked
  /\ IF Declared(c.run, c.file, "staged") THEN Check(c) ELSE Refuse(c)
  /\ UNCHANGED <<intake, runner, console, objects, reading, faults>>

\* The put; an object that does not verify is deleted, and a put that fails may
\* have happened.
StoreArtifact(c) ==
  /\ c \in calls /\ c.kind = "upload" /\ c.checked
  /\ \/ objects' = [objects EXCEPT ![c.run] = c.file] /\ Succeed(c)
        /\ UNCHANGED faults
     \/ /\ \E left \in {0, c.file, objects[c.run]} :
             objects' = [objects EXCEPT ![c.run] = left]
        /\ Refuse(c) /\ Fault
  /\ UNCHANGED <<intake, runner, console, reading>>

----------------------------------------------------------------------------
(***************************************************************************)
(* serveWorkspaceArtifact                                                  *)
(***************************************************************************)

\* The projection is read: the artifact has to be ready.
ReadProjection(r) ==
  /\ reading # None => reading.bytes # 0
  /\ \E file \in Files :
       /\ Declared(r, file, "ready")
       /\ reading' = [run |-> r, declared |-> file, bytes |-> 0]
  /\ UNCHANGED <<intake, runner, console, objects, calls, faults>>

ServeUnchecked ==  \* mutant: the object is not compared with its receipt
  /\ reading # None /\ reading.bytes = 0
  /\ reading' = [reading EXCEPT !.bytes = objects[reading.run]]
  /\ UNCHANGED <<intake, runner, console, objects, calls, faults>>

\* The object is read and compared with what was declared; 503 otherwise.
ServeObject ==
  /\ reading # None /\ reading.bytes = 0
  /\ reading' = IF objects[reading.run] = reading.declared
                  THEN [reading EXCEPT !.bytes = objects[reading.run]] ELSE None
  /\ UNCHANGED <<intake, runner, console, objects, calls, faults>>

----------------------------------------------------------------------------
Next ==
  \/ \E p \in Posts :
       \/ LookUp(p) \/ LookUpLegacy(p) \/ Restore(p) \/ Insert(p)
       \/ Replay(p)
  \/ \E m \in messages : Commission(m) \/ Quarantine(m) \/ Acknowledge(m)
  \/ \E r \in Runs :
       \/ GenerateMedia(r) \/ Complete(r) \/ Reopen(r)
       \/ Publish(Serve, r) \/ Publish(Cli, r) \/ ReadProjection(r)
  \/ \E c \in calls :
       \/ GiveUp(c) \/ CheckReady(c) \/ WriteProjection(c)
       \/ CheckUpload(c) \/ StoreArtifact(c)
  \/ ServeObject

Spec == Init /\ [][Next]_vars

----------------------------------------------------------------------------
(***************************************************************************)
(* Properties                                                              *)
(***************************************************************************)
Accepted(p) == answer[p] \in Runs

\* Whatever requests with one key overlap, fail or are repeated, those that are
\* accepted are told the same run, and it is a run of the job they asked for
\* (createManualJob; the unique event_id and the fingerprint).
OneRunPerKey ==
  \A p, q \in {s \in Posts : Accepted(s)} :
    p.key = q.key => answer[p] = answer[q] /\ p.job = q.job

\* An accepted job that the runner can read is never lost: until the runner has
\* a run of it, its envelope is queued (the batch of createManualJob, ack).
AcceptedIsKept ==
  \A p \in Posts : Accepted(p) /\ p.job \in Legible =>
    \/ runs[answer[p]] # None
    \/ \E m \in messages : m.run = answer[p]

\* The rows that GET /v1/workspace/runs orders by updated_at, to show the newest.
Eligible(r) ==
  \/ console[r] # None
  \/ \E row \in receipts : row.run = r /\ ~row.superseded

\* An accepted job always has a row that the list of its workspace is taken from:
\* the queued row gives way to the runner's projection and nothing comes between.
\* The list shows the newest 40 rows, or as many as asked for up to 100.
AcceptedIsEligible == \A p \in Posts : Accepted(p) => Eligible(answer[p])

\* A download serves the deliverable that the projection declared when it was
\* asked for, and one that was there when every item of its run had become
\* independently signed off; late uploads and late projections of other processes
\* notwithstanding (serveWorkspaceArtifact, _independently_complete).
ServedIsVerified ==
  reading # None /\ reading.bytes # 0 =>
    /\ reading.bytes = reading.declared
    /\ <<reading.run, reading.bytes>> \in verified

\* What queuedRunProjection says of a job without a projection, "Accepted into
\* Rally and waiting for the runner to begin.": the runner can still begin it.
QueuedIsWaiting ==
  \A row \in receipts : ~row.superseded /\ console[row.run] = None =>
    \/ runs[row.run] # None
    \/ \E m \in messages : m.run = row.run
=============================================================================
