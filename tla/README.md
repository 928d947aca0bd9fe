# Rally in TLA+

Rally runs a small team of command-line models (Claude, Antigravity, Codex) on a
task that a person commissions by mail or from a workspace page. One worker
holds the turn at a time; what it replies is evidence and never authority, and
an item of the checklist counts as done only when a worker other than the one
that did it says so. Around that loop stand a mail edge, a report delivery, an
optional cloud coordinator, a control plane that keeps the credentials of
hosted connectors, an approval ledger for tool calls, and a sign-in by mail.

This directory models the parts of that system whose correctness depends on
order: of replies, crashes, redeliveries, leases, clocks and operators. Formatting,
prompts, subprocesses, sealing and HTTP are abstracted or left out.

To check everything, parse a module with `tlasany M.tla`, run a configuration
with `tlc -config X.cfg MCM.tla`, and check the proofs about M with
`tlapm MProofs.tla`.

## Inventory

| component | state it keeps | operations | source |
|---|---|---|---|
| Checklist gate | none (pure) | `reconcile`, `is_complete`, `blocking`, `digest` | `src/src/envelope.py` |
| Run lifecycle | `runs/<id>/state.json` | `take_turn`, `loop`, Second Wind, `handle_commission`, `handle_note`, `--stop`, `--retry`, `--resume` | `src/src/runner.py` |
| Message intake and report delivery | D1 table `messages`; `state.json` (`report_delivery`) | Worker `/inbound`, `/pending`, `/ack`; `collect`, `serve`, `record_report`, `mail_report` | `src/src/worker/index.js`, `src/src/ingress.py`, `src/src/runner.py` |
| Mail out and send ledger | `runs/ledger.json` | `Ledger.check_and_reserve`, `send` | `src/src/transport.py` |
| Workspace jobs and artifacts | D1 tables `messages`, `workspace_jobs`, `console_runs`; R2 objects; the deliverable in a run's workspace | `createManualJob`, `/ack`, `publish`, PUT of projections and artifacts, list, download | `src/src/worker/index.js`, `src/src/console.py`, `src/src/ingress.py`, `src/src/media.py` |
| Cloud coordinator | Firestore record of a commission | create, reclaim, finish, replay | `src/cloud/service.py`, `src/cloud/store.py`, `src/cloud/a2a_adapter.py` |
| Connector grants | `connector_credentials` (sealed secret, certification, lease), OAuth flows | put, verify, invoke, rotate, quarantine, disconnect; OAuth start, callback, cancel | `src/cloud/credential_vault.py`, `src/cloud/connector_oauth.py`, `src/cloud/hosted_connector_execution.py`, `src/cloud/control_plane.py` |
| Human approvals | `connector-approvals.json` | request, review, approve, consume, expire, evict | `src/cloud/connector_approvals.py`, `src/cloud/connector_gateway.py` |
| Sign-in | magic links, rate windows, login codes, sessions | reserve, publish, issue, activate, invalidate, consume; issue and exchange a code, revoke a session | `src/cloud/magic_links.py`, `src/cloud/auth_sessions.py`, `src/cloud/control_plane.py` |
| Teammates | `teammates` | create, list | `src/cloud/teammate_store.py` |

`PROJECT.json` lists these and ten further parts that hold no concurrent state
of their own (policies and presets, Keychain wrappers, MCP transport, worker
command lines, media, reports, the A2A task store, the ADK agent, the site and
the infrastructure), with what a model uses of each or the reason it is left out.

### How the parts interact

* **Mail in.** Resend calls the Worker's `/inbound` with a message, possibly several
  times. The Worker stores one row per event id. The runner polls `/pending`
  (`collect`), handles the rows one by one in `serve`, and deletes the ones it
  handled with `/ack`. A row whose handler raised stays queued; a mail that cannot be used is
  written to `quarantine.jsonl` and acknowledged without a report.
* **A run.** `handle_commission` finds or creates the run of a message, asks the
  coordinator for a handoff (`attach_cloud_coordination`), and enters `loop`. The loop
  calls `take_turn`, which dispatches one worker command and gives its reply to
  `reconcile`. All state of the run is in `state.json`, replaced by a rename.
* **Mail out.** `record_report` saves the report with an idempotency key before
  `mail_report` calls the provider. Every mail is charged to the send ledger first, which
  may refuse it: a refused turn update halts the run, a refused report is retried by the
  serve loop. Operator commands are processes of their own that read and replace the same
  `state.json` and `ledger.json`, without a lock.
* **Coordinator.** The runner's commission, an HTTP client and the A2A executor all
  reach `submit_commission`. Concurrent requests under one key meet only in Firestore
  transactions on the commission record.
* **Workspace.** A post creates a job: an envelope in the queue and a receipt, in one
  batch. The runner takes the envelope up as a commission, and publishes what it has as
  projections (PUT) and artifacts (PUT to R2); the list shows a receipt until a projection
  has superseded it. Posts, `/ack`, PUTs of two processes and downloads meet only
  in D1 and R2.
* **Connectors.** Requests on one connection (OAuth callback, manual store, verify,
  invoke, disconnect) share only its vault record and its OAuth flow documents. Between
  two transactions a request talks to a provider, which is when others act.
* **Approvals.** Gateway processes and the human's commands share a ledger file under
  an `flock`.
* **Sign-in.** The request publishes to Pub/Sub; pushes of that message and browser
  pages share the link document, and pages share the login codes.

### What is hard, and what makes each part correct

| component | what is hard | what has to hold |
|---|---|---|
| Checklist gate | replies that repeat ids, claim for others, propose any state | no approval by the owner; one step of review per turn; nothing lost |
| Run lifecycle | recoveries, reopening, crashes between saves, three counters that must bound the loop | custody changes only by a recovery and ends with its turn; the loop returns; a finished run is reported as such |
| Intake and delivery | duplicated webhooks, lost acknowledgements, exceptions, crashes between saving and sending | one run per commission; what is acknowledged was answered or put aside; a key names one text; the queue drains |
| Mail out | two processes that replace files under each other, refused and lost sends, windows that move | what is mailed stays near the ceilings; a report marked delivered was mailed; every mail is answered |
| Workspace | overlapping posts under one key, late PUTs, two publishers, two validators of one job | one run per key; an accepted job is kept and stays eligible for the list; a download is verified |
| Cloud coordinator | attempts that outlive their lease and still finish | no coordinator starts beside a live lease; a ready handoff is final, and everybody is told the same |
| Connector grants | transactions that raise after committing, leases, late verifications, provider-side state | an execution keeps the connection to itself; ready means certified; no live grant forgotten; a disconnect sticks; leases end |
| Human approvals | clocks read before the lock, eviction of a full ledger, crashes | one execution per approval, of the approved call, in time |
| Sign-in | push retries overlapping, lost answers, a link in several tabs | one login per link; no link before its mail; deliveries settle |

## The modules

| module | what it is | extends / uses |
|---|---|---|
| `Checklist` | the transitions of `reconcile`, as operators | |
| `RallyRun` | one run, from commission to report | EXTENDS `Checklist`; INSTANCE `VerifiedWork` |
| `VerifiedWork` | what a run promises: the abstract review | |
| `RunDelivery` | the mails of a commission, the serve loop, the reports | |
| `MailOut` | the send ledger and the mails charged to it, by the serving process and by commands | |
| `Workspace` | posts of jobs, the queue, projections and artifacts | |
| `Coordinator` | requests under one idempotency key | INSTANCE `Handoff` |
| `Handoff` | what the coordinator promises: one handoff, chosen once | |
| `ConnectorGrants` | one tenant's connection for one connector | |
| `Approvals` | the approval ledger of one run | |
| `SignIn` | links, their delivery, login codes and sessions | |
| `MC<module>` | the finite constants of the runs | EXTENDS `<module>` |
| `RallyRunProofs`, `CoordinatorProofs`, `ConnectorGrantsProofs`, `ApprovalsProofs`, `SignInProofs`, `RunDeliveryProofs`, `WorkspaceProofs`, `MailOutProofs` | the theorems about a component | EXTENDS the component, `TLAPS` and library theorems |

A definition marked `\* mutant` is a wrong version of the one below it. No
specification uses it; it says which bug the property named with it in
`PROJECT.json` ("mutants") catches.

### Checklist and RallyRun

A checklist is a set of items. The Python list may hold two copies of one id
(`reconcile` appends every copy of a proposed id), and its dictionary keeps the
last: `Readings` is the choice of that copy. `Accept` is the chain of `if`/`elif`
in `reconcile`, one operator per transition, in the order of the code. A proposal
is any set of raw items, with up to `MaxCopies` copies of each id, any state (one
value, "other", stands for all unknown strings), and any owner.

The variables of `RallyRun` up to `report` are fields of `state.json`; `pc`, `entry` and
`result` are the position of the process and are lost in a crash. An action ends
where `Run.save` is called:

| action | code |
|---|---|
| `RefuseTurn`, `AgentFails`, `NoEnvelope`, `Reprompt`, `StopReprompting`, `AcceptTurn`, `Judge` | the parts of `take_turn` between its saves: kill switch, failing worker, reply without an envelope, accepted reply, guards |
| `StartSecondWind`, `FinishSecondWind`, `GiveUpOn` | `start_second_wind`, `finish_second_wind`, the two failure paths |
| `LoopLimit`, `RecordHalt`, `RecordReport` | `loop`; `write_report` and `record_report` |
| `HandleCommission`, `HandleNote`, `ApplyGuidance`, `HandleStop` | the handlers of `serve`, `apply_human_note` |
| `CmdStop`, `CmdRetry`, `CmdResume` | the commands of `main` |
| `Crash` | the process dies, or an exception leaves the handler |

`VerifiedWork` keeps for each item only whether it is pending, submitted (by whom)
or approved (by whom). In one step a single worker moves each item at most one
step, or a person asks for more. `RallyRun` maps its items with `AbstractItem`, and
`ImplementsVerifiedWork` is the refinement.

### RunDelivery

`queue` is the D1 table, a row being a mail with the number of the webhook call that
stored it (a repeated call after the row was deleted makes a new row).
`pc`, `batch` and `handled` are the locals of `serve`; `run` is the part of
`state.json` the delivery uses; `sent` is what the mail provider accepted. The turn
loop is one action, `Work`. `Fail` is an exception in a handler, `Crash` a killed
process, and both keep what was saved, as does a lost answer in `MailReport` or
`Acknowledge`.

| action | code |
|---|---|
| `Webhook` | the Worker's `/inbound` |
| `Collect` | `collect`: all rows, or all but one whose mail cannot be fetched yet |
| `Quarantine` | the rows `serve` takes for handled without a handler having done its work: `collect` found no email id, met a provider error that is not retryable or no original headers, `classify` ignores the mail, or `handle_note` raises `NoteRejected` |
| `DropNote`, `StartNote` | `handle_note`, for a run that cannot be loaded, and for one that can |
| `StartCommission`, `Coordinate`, `Work` | `handle_commission` |
| `RecordReport`, `MailReport`, `MarkDelivered` | `record_report`, `mail_report` |
| `Acknowledge` | `/ack` at the end of a batch |

Which mail is unusable is an input: `Quarantine` may take any row, and counts as one of the
`MaxFaults`. `aside` are the rows of the batch that end so. A reply may come in
before its commission, since the dashboard shows the id of a run when it accepts the job; then
it is dropped. So `AcknowledgedIsAnswered` is a statement about steps: a row
that leaves the queue was answered, or is in `aside` in the step that removes it. A quarantine
that is followed by a lost acknowledgement is undone, and the row has a new chance.
`QueueDrains` says that from some time on the queue is empty. Report mail is switched on.

### MailOut

`file` is `state.json` of each run, reduced to the turn number, the halt, a stored STOP and the
report with its number; `ledger` is `ledger.json`, with ages instead of times. `job[p]` holds
what a process read and has not written back: its copy of the run, and between
`Reserve` and `WriteLedger` its copy of the ledger. `Serve` holds `serve.lock`; `Cli` is an
operator's command.

| action | code |
|---|---|
| `HandleCommission`, `HandleStop`, `HandleGuidance`, `RetryReport`, `SkipAnswered` | `serve` and its handlers, up to the loop |
| `CmdStop` and `StopSaved`, `CmdRetry`, `CmdResume` | the commands of `main` |
| `RefuseTurn`, `Dispatch`, `SaveTurn`, `LoopLimit` | `take_turn` and `loop`, as far as they save, mail or halt |
| `RecordReport` | `record_report` |
| `Reserve`, `WriteLedger` | `check_and_reserve`, before and at the replacement of the file |
| `Send`, `RefusedSend`, `SaveDelivered` | `send`, an HTTP error, the save after the answer |
| `Crash` | any other exception, a lost answer (after `Send`), or the death of a process |

`sent` and `today` are the provider's side: the first report under each key, and what was
mailed within a day. `lost` says that a replacement of the ledger lost a charge, and
`shared` are the runs that two processes saved over each other.
`CeilingsHold` and `DeliveredIsMailed` except these two cases, and each is violated without its
exception: the code has no protection there. The rest of `CeilingsHold` is not the guard of
`check_and_reserve`: a report is charged once and may be mailed when its charge has left
the window, so what is mailed passes a ceiling by one for each run, and by no more.
A shared run can pass it by more: when two processes save it over each other, an earlier report can
be mailed after a later one was charged, so that two reports whose charges have left the
window are mailed in the next one. That takes two commands, two faults and a ceiling of two mails
per run, more than `mail_out` has; it came out when the proof of the unrestricted property failed.

A mail is acknowledged when its handler returns; the batch and its lost acknowledgement are
in `RunDelivery`, the checklist, reprompts and recoveries in `RallyRun`. A run whose mail is
switched off, or has no recipient, sends nothing and is left out.

### Workspace

`pc[p]` is how far the request `p` is in `createManualJob`: one action per statement or
batch of D1 (`LookUp`, `LookUpLegacy`, `Restore`, `Insert`, `Replay`). A request mints the
run id, so the id is the request itself; the fingerprint of a job is the job. `Fault` is a
statement that fails, or a batch, put or answer that is lost after it took effect.

On the runner's side `Commission`, `Quarantine` and `Acknowledge` are the serve loop, reduced
to what the workspace sees of it (`RunDelivery` has it in full). `runs[r]` is the deliverable
in the workspace of the run, as a version, and whether `_independently_complete` holds.
`calls` are HTTP requests under way: `Publish` starts with the staged projection, and each success
brings the request that follows it. `GiveUp` is a timeout or the end of the process: the
request stays and may take effect at any later time. `CheckReady`, `WriteProjection`,
`CheckUpload`, `StoreArtifact`, `ReadProjection` and `ServeObject` are the two halves of the three
handlers of the Worker that read and then act.

### Coordinator

`record` is the document of one key. Firestore holds a copy under the run id and one
under the key, written in the same transaction. `Read`, `Create` and `Reclaim` are the
steps of `submit_commission`; `Succeed`, `Fail` and `AnswerStored` are those of
`finish_coordination`. `LeaseExpires` may happen under a running attempt:
`COORDINATION_LEASE_SECONDS` is 330, Cloud Run's timeout is 300 (`main.tf:334`), yet the
handler is not cancelled when its client goes away, so the model does not rely on it.
`ImplementsHandoff` is the refinement: in `Handoff` one attempt's handoff is chosen once, and every
request that is told a handoff is told that one.

### ConnectorGrants

`conn` is the vault document. Each of the vault's methods is a Firestore transaction and
so one action, named after the method. `pc[r]` and `job[r]` are the locals of an HTTP
request, whose handler is its first action (`StartOAuth`, `StoreToken`, `VerifyConnector`,
`Invoke`, `Disconnect`). `live` and `version` are the provider's side: which of the grants
that Rally was given exist, and which refresh token of a grant the provider honours. `told`
are the grants whose owner was told to revoke them, `receipts` the execution receipts.

| part | actions |
|---|---|
| OAuth flow | `Discover`, `Register`, `StartRegistered`, `PutFlow`, `ConsumeFlow`, `CancelFlow`, `CheckVault`, `Exchange`, `RejectGrant`, `Put`, `CleanUp` |
| verification | `BeginVerification`, `Certify`, `FinishVerification` |
| a tool call | `StartReceipt`, `Claim`, `RuntimeMaterial`, `EnforceToolPolicy`, `Refresh`, `Rotate`, `EndCall`, `Quarantine`, `Release`, `Record` |
| disconnect | `BeginDisconnect`, `RevokeGrant`, `Delete` |

`Ambiguous` lets a transaction commit and raise, `Deadline` is the
execution deadline, `Crash` the death of a request. A lease of 90 seconds outlives the 50
seconds of an execution, so `LeaseExpires` skips a lease whose execution is running; a
verification has no such bound and may be overtaken. A cancelled execution
whose lease stays behind is covered by `Claim` and `Release` ending without the lease
being given back.

### Approvals

`ledger` is the file. `Load` takes the lock, reads and expires; `Request`, `Approve`,
`Consume` change and replace the file and free the lock. `op[p].at` is the time that was
read before waiting for the lock. `agreed` and `executed` record what a human approved
and what was executed. A call stands for its run, connector, tool and
argument digest, which `consume` compares together.

### SignIn

A message, its token and its document are one member of `Links`, because `issue` derives
the token from the delivery id. `Push` to `Nack` are the statements of
`deliver_magic_link`, each call possibly failing before or after it took effect (`Fault`).
`Consume`, `IssueCode`, `Exchange` and `SignOut` are the routes of the browser; a page may
present the code of another one (the same address opened again).

## The runs

| run | question | instance | result |
|---|---|---|---|
| `run_review` | can a reply get work approved by its owner, take over work, or lose any? | 3 workers, 2 items, nobody, the second worker or a stranger named as owner, 4 turns, 1 recovery, 1 note | `TypeOK`, `IndependentVerification`, `HandoffIsForTurnHolder`, `CustodyIsGranted` and `ImplementsVerifiedWork` hold |
| `run_returns` | does a run always come back? | 2 workers, 1 item, 3 turns, 1 reprompt, 1 recovery, blocked turn mail, 1 note, 1 command, 1 crash | `RunReturns` holds |
| `delivery` | what do redelivery and failures do? | a commission, a reply and a STOP, 2 deliveries each, 2 faults | five properties hold |
| `say_fails_closed` | does a failed coordination keep workers away? | the same mails, no fault needed | violated |
| `mail_out` | do ceilings, keys and answers survive refused sends, retries and a command beside the serving process? | 1 run of 1 turn, a commission and one reply of two kinds, 1 command, 1 fault, 1 mail per hour and run, day of 2 hours | four properties hold |
| `say_stop_halts` | does a STOP keep the next turn from being dispatched? | a commission and a STOP, 2 turns, no command, no fault | violated |
| `jobs` | what can overlapping posts and late publications do? | 3 posts under one key for 2 jobs, 1 of them legible, 1 old envelope, 2 files, 2 requests under way, 1 fault | five properties hold |
| `say_job_waits` | does a queued job wait for a runner that can begin it? | the same posts | violated |
| `coordinator` | may attempts and answers disagree? | 4 requests, 2 objectives | four properties hold |
| `grants` | what can requests do to one connection? | 3 requests, each of any kind, 1 crash, ambiguous transactions, revocable provider | seven properties hold |
| `approvals` | can an approval be spent twice, late or on another call? | 2 processes, 3 ids, 2 calls, 2 records, time 0..2 | four properties hold |
| `sign_in` | can a link fail its owner or serve two? | 1 link, 1 address, 2 pushes, 3 pages, 2 faults, 1 new window, limit 1 | five properties hold |

What each property says is in the comment above it in its module.

### Bounds, and why they are enough

* `RallyRun`: three workers are the smallest rotation in which an approver, an owner and
  a backup differ; two items are needed to see one lost. Four turns
  hold claim, submission, rejection or approval, and one more. One recovery and one
  note put a handoff and a reopening before or after each of them. A reply holds one copy
  of an id in the runs; the theorems are about any number of copies.
  `RawVerifiers` and `RawRejections` are single values in the runs: a new item keeps
  them, but no transition looks at the verifier, and the rejection count is
  covered by its limit. The proofs have no such bounds.
* `RunDelivery`: one reply and one STOP are two different later requests, which is what
  it takes for the request of the last report to be replaced. Two faults cover a
  fault and a fault during the recovery from it; a mail that is put in quarantine is one of them.
* `MailOut`: one command beside the serving process is what it takes for a file to be
  overwritten and a charge to be lost; one fault makes a report pending that was
  charged. With one mail per run and hour, and a day of two hours, the report of a turn
  that was mailed is refused until the window has moved. `PerRun` and `PerHour` are equal
  to keep the run small, so with one run the hour alone never decides. The numbers of
  replies, commands and faults are bounded (`MaxReplies`, `MaxCommands`, `MaxFaults`): two
  replies whose reports are refused in turn displace each other's report and are worked
  on again each time, until the window moves.
* `Workspace`: two posts of one job race for the key, and a post of another job presents
  the same key; the old envelope is of the second job, which no runner can begin. An
  accepted post that was restored from an old envelope of a legible job is outside this instance: with
  it the states are too many. The theorem `AcceptedStays` covers it. Two files and two
  requests are what it takes for one upload to overtake another. Two of the posts are
  symmetric, and the run checks safety only. Requests are finite, so the
  system stops and deadlock is not checked.
* `Coordinator`: two attempts can be superseded by a third while a fourth request is
  answered as a duplicate. The requests and the objectives are symmetric.
* `ConnectorGrants`: one request works while a second changes the record under it, and a third
  takes over. A connection may exist at the start, which saves the
  requests that would build it. Requests are finite, so the system stops, and deadlock is
  not checked.
* `Approvals`: the ledger has to fill (2 records), to evict one, and still be asked
  for the evicted id (3 ids). Two processes race for the lock and one of the
  two may be a human's. Time 0..2 with a lifetime of 1 gives before, at and after.
* `SignIn`: two pushes overlap; of three pages, one follows the link, one presents
  its code, one follows the link again. Requests made before the model starts are
  in the initial rate, and the limit for all addresses may refuse any request.
  The system stops when its link is used, so deadlock is not checked.

### Fairness

* `RallyRun`: `WF(RunnerStep)`. A process inside the loop takes its next step; each
  worker command has a timeout. Nothing is assumed of persons, mails or crashes.
* `RunDelivery`: `WF(Serve)`. `serve` polls for ever and is restarted by its supervisor;
  its calls have timeouts. Webhooks and faults are not fair, and faults are bounded.
* `MailOut`: `WF(Take)` and `WF(Step(p))`, as for `RunDelivery`: worker commands and provider
  calls have timeouts (`urlopen(..., timeout=30)`); and `WF(Tick)`: time passes between
  polls. Nothing is assumed of persons, commands or faults.
* `ConnectorGrants`: `WF(Step(r))` for each request (`asyncio` deadlines and HTTP timeouts)
  and `WF(LeaseExpires)` (time passes). No fairness on persons and flows.
* `SignIn`: `WF(HandlerStep(h))`, and `SF` of pushing each message: Pub/Sub pushes an
  unacknowledged message again (ack deadline 30 s, kept for 600 s), and the handlers
  that are in its way finish. Faults are bounded, so some push succeeds.
* `Workspace`, `Coordinator` and `Approvals` state safety only.

## What is proved

Every safety invariant, every action property and both refinements that the runs check
are theorems of `Spec`, for every value of the constants that the `ASSUME` of the component allows:
any numbers of workers, items, requests, processes, links, pages, mails and runs, and any limits
and bounds on faults. `N` in `Spec => []N` is the definition the run checks.

| module | theorem | statement |
|---|---|---|
| `RallyRunProofs` | `TypeCorrect`, `IndependentReview`, `CustodyEndsWithTheTurn` | `[]TypeOK`, `[]IndependentVerification`, `[]HandoffIsForTurnHolder` |
| | `OnlyGrantedCustody`, `WorkIsVerified` | `CustodyIsGranted`, and the refinement `ImplementsVerifiedWork` |
| `CoordinatorProofs` | `TypeCorrect`, `LeasesExclude`, `AnswersAgree` | `[]TypeOK`, `OneCoordinatorPerLease`, `[]ReadyAnswersAgree` |
| | `HandoffIsFinal` | the refinement `ImplementsHandoff` |
| `ConnectorGrantsProofs` | `TypeCorrect`, `ExecutionIsProtected`, `ReadyOnEvidence`, `ReceiptsHold` | `[]TypeOK`, `[]LeaseProtectsExecution`, `[]ReadyIsCertified`, `[]ReceiptsAreEvidence` |
| | `DisconnectIsFinal` | `DisconnectSticks` |
| | `GrantsKept` | `[]GrantsAccountedFor`, if `Ambiguous => Revocable` |
| `ApprovalsProofs` | `TypeCorrect`, `OneExecution`, `SpentBeforeExpiry`, `ActiveStay` | `[]TypeOK`, `[]ExecutedOnceAsApproved`, `[]SpentInTime`, `ActiveRecordsStay` |
| `SignInProofs` | `TypeCorrect`, `OneLogin`, `MailedBeforeUse`, `SettledWorks` | `[]TypeOK`, `[]OneLoginPerLink`, `[]UsableWasMailed`, `[]SettledLinkWorks` |
| `RunDeliveryProofs` | `TypeCorrect`, `OneRun`, `NoMailUnanswered`, `OneTextPerKey` | `[]TypeOK`, `[]OneRunPerCommission`, `AcknowledgedIsAnswered`, `[]KeyNamesOneReport` |
| `WorkspaceProofs` | `TypeCorrect`, `OneRunForAKey`, `AcceptedStays`, `AcceptedHasRow`, `DownloadIsVerified` | `[]TypeOK`, `[]OneRunPerKey`, `[]AcceptedIsKept`, `[]AcceptedIsEligible`, `[]ServedIsVerified` |
| `MailOutProofs` | `TypeCorrect`, `DeliveredWasMailed`, `MailWithinCeilings` | `[]TypeOK`, `[]DeliveredIsMailed`, `[]CeilingsHold` |

`GrantsKept` has a hypothesis because the property fails without it: at a provider that
revokes nothing, a delete that commits and raises leaves a grant without a record (see
"Where the code and what is said about it differ"). The other modules also state their inductive invariant as a theorem, `Invariance`.

### The inductive invariants, and why they are needed

Hardly any of the properties is inductive alone. Each proof has one invariant, one lemma for each
action or group of like actions, and one for the initial states; TLC checked each
invariant on the instance of its run first.

* `RallyRun`, `ReviewedRun`. The approving step compares the worker with `x.owner`; if
  a submitted item had no worker as owner, that comparison would let its author
  approve it. `ReviewInv` adds that an item awaiting verification is owned by a worker,
  because submission and takeover both write the turn holder as owner and nothing else reaches
  that state: a new item starts open or claimed (`NewItemStarts`), and reopening clears the
  owner only with the state (`GuidanceReviewed`). Handoffs need no strengthening: the turn moves
  only in the step that closes the handoff. For custody and the refinement, an item is followed
  through one `Accept` (`AcceptOwner`, `AcceptMoves`), and `ReconcileKeeps` says no id is lost.
* `Coordinator`, `CoordinatorInv`. Attempts under way have numbers the record has reached
  (`AttemptsAreCounted`), pairwise different, and a record whose lease runs says "coordinating"
  (`LeasedIsUnderWay`), so that one that failed has no lease left; a stored handoff was
  written by the attempt that owned the record, which is over (`ReadyIsSettled`); whoever
  reclaims had read no handoff.
* `ConnectorGrants`, `GrantsInv`. The lease cannot be taken from an execution
  (`HoldsLease`), what a request holds in memory fits the step it has reached (`JobIsWhole`), a secret
  is of a grant that was brought (`Brought`), a delete follows a revocation
  (`RevokedIsDead`), and receipts are completed last.
* `Approvals`, `ApprovalsInv`. The holder of the lock has loaded the file as it still is
  (`LockHolderIsCurrent`), and a caller has a spent approval to itself
  (`CallersAreApproved`). The time is the one read before the lock, so `SpentInTime` needs that it
  is not later than the clock.
* `SignIn`, `SignInInv`. What a push has done to its link when it reaches a step, while it is
  the only push (`PushInv`, `PushedOnce`); and the one login of a link is with one page, which
  consumed it, has its code or has its session (`OneHolder`).
* `RunDelivery`, `DeliveryInv`. A report has the latest generation and its text went out
  under its key only (`ReportInv`); the mail at hand is taken in before its report is written
  (`HandlerInv`); what is to be acknowledged was answered or put aside
  (`AnswerInv`).
* `Workspace`, `WorkspaceInv`. One receipt for a key; every receipt and old envelope is queued or
  has its run (`Kept`); every projection, upload and download names a verified file
  (`ArtifactInv`).
* `MailOut`, `MailInv`. A process that works alone on a run has the report of the file
  (`CopiesAgree`), and what was mailed under the number of the stored report is its text
  (`TextInv`). For the ceilings, `Matched` gives each mail of the day a charge of its own in the
  ledger, made no earlier than any other use of it, except a report whose charge has left
  the window; such a report is the last of its run (`InTurn`), since the charge of the last
  number is not older than what was mailed of the numbers before (`ChargesInv`). So a run has one
  mail without a charge at most, and the sums follow by counting (`TwoParts`).

### Assumptions

The assumptions on constants say that limits are natural numbers, that sets of mails, stops and
workers relate as their names say, and that `None` is not a record, a run or a mail: `None` stands
for Python's `None` and for a missing document. `MailOut` assumes that the runs are finitely many, which
`CeilingsHold` needs to count them. The prover has no theory of `SelectSeq`, so `Kept`
(`MailOut`) and `Without` (`RunDelivery`) say what it returns, as a set with that one member.

### What is only model-checked

Liveness (`RunReturns`, `QueueDrains`, `MailsAnswered`, `LeasesEnd`, `RequestSettles`): it
rests on fairness and ENABLED, which are outside what the prover does. The three violations
are runs of their own, with the exceptions in `CeilingsHold`, `DeliveredIsMailed` and
`SettledLinkWorks` seen by removing them.

## Where the code and what is said about it differ

Three runs end in a violation, each of a sentence of the repository.

* `QueuedIsWaiting`: the Worker accepts a title with a tab and a goal with a carriage return
  (`src/src/worker/index.js:786`), `classify_dashboard` refuses both
  (`src/src/ingress.py:739`). The job is quarantined and acknowledged, no projection ever
  supersedes its receipt, and the list says "waiting for the runner to begin" for good
  (`src/src/worker/index.js:855`).
* `FailsClosed`: a reply to the report of a failed coordination enters the loop without
  looking at `cloud_coordinator`, and a replay takes the failed record for an accepted one
  (`src/docs/DEMO.md:24`).
* `StopRefusesNextTurn`: `serve` reads the next message when the handler of this one has
  returned, which is when the run has halted; a STOP that comes in meanwhile waits
  behind all of its turns (`src/docs/SPEC.md:294`, `src/docs/RUNBOOK.md:78`).

Further differences were met and have no run of their own:

* the loser of the race in `store.create` is given the record of the winner without
  comparing the commission (`src/cloud/service.py:315`; line 265 and
  `src/cloud/tests/test_service.py:80` reject a conflicting task);
* a note whose handler failed after it was applied, or that comes again after its
  acknowledgement when another report was recorded, is applied and worked on again
  (`src/src/runner.py:1137`, `src/docs/SPEC.md:315`);
* a note for a run that cannot be loaded is dropped and acknowledged, with no record in the
  quarantine (`src/src/runner.py:1128`), where `src/docs/SECURITY.md:33` has acknowledgement
  "only after successful or intentionally quarantined handling";
* the page of one run reads its projection and then its receipt in two statements
  (`src/src/worker/index.js:1567`), so an accepted job whose projection is written in between is
  "run not found" once;
* `--stop` of a run the serving process works on is overwritten by the next save of that
  process, and `--stop` of a run whose commission is still queued is undone by the replay,
  which clears the halt (`src/src/runner.py:1086`, `:1342`); a STOP by mail stays
  stored in `human_note`, so a later `--retry` halts at once;
* the ceiling of sends per run is one per run and day, because entries older than a day are
  dropped before they are counted (`src/src/transport.py:540`, `src/docs/SPEC.md:269`); a breach
  of the hourly ceiling halts the run, where `src/docs/SPEC.md:270` says "queue, do not
  send"; and two processes, or a report charged earlier, can pass a ceiling;
* a `--retry` beside the serving process of the same run records a report under the number
  the other process uses next: the provider takes the second text for a repetition of the first and
  the run says "delivered";
* a crash after the accepted turn that completes the checklist, when the turn budget is
  spent: `loop` looks at the budget and never at the checklist, so the replayed commission
  reports `turn_budget` for a run in which everything is done (`src/docs/FOUNDING.md:180`);
* a projection that arrives late replaces a newer one, since nothing compares `updated_at`;
  what is served stays verified, and the next publication repairs the page;
* an envelope from before the receipts that is acknowledged before its request is repeated:
  the repetition starts a second run;
* a reply may put two items of one id on the checklist (`src/docs/SPEC.md:107`);
* a disputed item does not halt the run while a blocked one can still be recovered
  (`src/docs/SPEC.md:196`, `src/src/runner.py:888`);
* a completed run reopened by a note keeps the reason of its first halt, so `--retry`
  accepts it again (`src/src/runner.py:940`, `:1361`);
* guidance that arrives at a spent turn budget is stored and not worked on
  (`src/docs/SPEC.md:144`);
* a delete that commits without being acknowledged, at a provider without revocation,
  leaves a live grant nobody was told of: the retry finds no record
  (`src/docs/SECURITY.md:23`). `Revocable = FALSE` with `Ambiguous = TRUE` shows it;
* two overlapping pushes of one sign-in message: the one that fails disables a
  link the other has activated and acknowledged. `SettledLinkWorks` excepts such
  links (`late`) and is violated without the exception.

## What is not modelled, and why

* `RallyRun` takes a command to be typed while no process works on the run; the overlap is in
  `MailOut`. Two commands at the same time, `--run` (a run no mail commissioned) and
  `--max-turns` are not modelled.
* Teammates: one Firestore transaction that reserves a unique address.
* The Google sign-in form, which leads to the same `issue_code`.
* The normalisation of a projection and the bytes of an artifact: a file is a version, and
  a checksum tells versions apart.
* Classification of a mail (sender rules, authentication results, attachments) and the errors of
  the mail provider that are not retryable: the outcome is an input (`Quarantine`).
* The order and the limit of the list of runs, which shows the newest 40 rows of a workspace, or as many
  as asked for up to 100. `AcceptedIsEligible` says that a job is among the rows it takes them from.
* The count behind the limit of sign-in requests for all addresses: `Reserve` may refuse any
  request.
* Two idempotency keys with one run id at the coordinator: no caller in the repository
  sends them.
* Gateway policies, presets, sealing, Keychain, MCP transport, media conversion,
  report formatting and pages: pure functions, I/O or library calls.

## Plan

Written so far, in this order, the most important behaviour first: `Checklist`,
`RallyRun` with `VerifiedWork` and its proofs, `ConnectorGrants`, `RunDelivery`, `Coordinator`
with `Handoff`, `Approvals`, `SignIn`, `Workspace`, `MailOut`. Each of them but
`Checklist`, whose operators are proved about in `RallyRunProofs`, has its `...Proofs` module.

Next modules:

1. The A2A and HTTP entry with several keys (`Coordinator`).
2. `Workspace` on top of `RunDelivery`: the queue and the serve loop as one module, so that
   a job and a mail share the acknowledgement.

Abstract specifications worth stating: a connection as one register with exclusive
use (`ConnectorGrants`), an approval as a token that is spent at most once (`Approvals`),
a key as a register that is written once (`Workspace`), and a mailbox with at-least-once handling (`RunDelivery`).

Next theorems, in order:

1. The refinements of the abstract specifications above, as `Spec => Abstract!Spec`, once they
   are written; their steps need no more than the invariants that are proved already.
2. The action property behind `DeliveredIsMailed`: a report that was mailed keeps its text.
3. What the keyed coordinator promises, for several keys that name one run.
