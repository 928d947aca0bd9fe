------------------------------ MODULE RallyRun ------------------------------
(***************************************************************************)
(* One run of the Rally runner, from its commission to its report: the     *)
(* turn loop of src/src/runner.py (take_turn, loop, Second Wind, human     *)
(* notes, --stop, --retry, --resume) over the checklist of module          *)
(* Checklist.                                                              *)
(*                                                                         *)
(* The variables up to report are the fields of state.json.  Run.save      *)
(* replaces that file in one rename, so an action ends where the code      *)
(* saves, and a crash or an uncaught exception between two saves loses     *)
(* only pc and result, the position of the process.  One process works on  *)
(* the run at a time, and a command is typed while none does.  What the    *)
(* queue and the report delivery do is in module RunDelivery.              *)
(***************************************************************************)
EXTENDS Checklist, Sequences

CONSTANTS
  AgentOrder,      \* agent_order: the rotation, a sequence of the workers
  TurnsMax,        \* limits.turns_max
  RepromptsMax,    \* limits.reprompts_max
  NoProgressHalt,  \* limits.no_progress_halt
  MaxRecoveries,   \* continuity.max_recoveries_per_run, 0 when disabled
  MailMayBlock,    \* whether the send ceilings may refuse a turn update
  MaxNotes,        \* bound: notes the commissioner sends
  MaxCommands,     \* bound: --stop, --retry and --resume commands
  MaxCrashes       \* bound: crashes and uncaught exceptions

ASSUME RunAssumption ==
  /\ AgentOrder \in Seq(Agents) /\ AgentOrder # <<>>
  /\ TurnsMax \in Nat
  /\ RepromptsMax \in Nat
  /\ NoProgressHalt \in Nat
  /\ MaxRecoveries \in Nat
  /\ MailMayBlock \in BOOLEAN
  /\ MaxNotes \in Nat
  /\ MaxCommands \in Nat
  /\ MaxCrashes \in Nat

VARIABLES
  checklist,   \* the accepted items
  turn,        \* accepted turns
  actor,       \* the worker that holds the turn
  halt,        \* halt.reason, or None
  reprompts,   \* replies without an envelope since the last accepted one
  streak,      \* digest_streak
  lastDigest,  \* last_digest
  note,        \* human_note: None, "guidance" or "STOP"
  used,        \* continuity.recoveries_used
  active,      \* continuity.active: the recovery handoff, or None
  attempted,   \* the ids of the "blocked" records of continuity.history
  report,      \* report_halt of the last recorded report, or None
  inbox,       \* the commissioner's note that is queued: its kind, or None
  pc,          \* what the process does with the run
  entry,       \* how it was entered: None, "commission", "note" or "cli"
  result,      \* the reason take_turn or loop returned, or None
  notes, commands, crashes  \* counters of the bounds

disk    == <<checklist, turn, actor, halt, reprompts, streak, lastDigest, note,
             used, active, attempted, report>>
process == <<pc, entry, result>>
bounds  == <<notes, commands, crashes>>
vars    == <<disk, inbox, process, bounds>>

Reasons == {"complete", "blocked", "disputed", "turn_budget", "no_progress",
            "agent_error", "stopped_by_human", "send ceiling"}

\* A recovery handoff names the backup and the items it may take over.
Handoffs == [to : Agents, items : SUBSET Ids]

Locations == {"idle", "stopping", "looping", "unparsed", "accepted",
              "returned", "reporting"}

TypeOK ==
  /\ checklist \subseteq Item
  /\ turn \in Nat
  /\ actor \in Agents
  /\ halt \in Reasons \cup {None}
  /\ reprompts \in Nat
  /\ streak \in Nat
  /\ lastDigest \subseteq Ids \X States \X Names
  /\ note \in {None, "guidance", "STOP"}
  /\ used \in 0..MaxRecoveries
  /\ active \in Handoffs \cup {None}
  /\ attempted \subseteq Ids
  /\ report \in Reasons \cup {None}
  /\ inbox \in {None, "guidance", "STOP"}
  /\ pc \in Locations
  /\ entry \in {None, "commission", "note", "cli"}
  /\ result \in Reasons \cup {None}
  /\ notes \in 0..MaxNotes
  /\ commands \in 0..MaxCommands
  /\ crashes \in 0..MaxCrashes

\* Run.create: an empty checklist, turn 0, the first worker of the order.
Init ==
  /\ checklist = {} /\ turn = 0 /\ actor = AgentOrder[1]
  /\ halt = None /\ reprompts = 0 /\ streak = 0 /\ lastDigest = {}
  /\ note = None /\ used = 0 /\ active = None /\ attempted = {}
  /\ report = None /\ inbox = None
  /\ pc = "idle" /\ entry = None /\ result = None
  /\ notes = 0 /\ commands = 0 /\ crashes = 0

NextActor(a) ==
  IF \E k \in 1..Len(AgentOrder) : AgentOrder[k] = a
    THEN LET k == CHOOSE n \in 1..Len(AgentOrder) : AgentOrder[n] = a
         IN  AgentOrder[(k % Len(AgentOrder)) + 1]
    ELSE AgentOrder[1]

----------------------------------------------------------------------------
(***************************************************************************)
(* Second Wind: the bounded handoff of a failure to the next worker.       *)
(***************************************************************************)
CanRecover == used < MaxRecoveries

\* start_second_wind(from_actor = a, items).  A handoff that is still active
\* is recorded as failed and replaced.
StartSecondWind(a, items) ==
  /\ CanRecover
  /\ used' = used + 1
  /\ active' = [to |-> NextActor(a), items |-> items]
  /\ actor' = NextActor(a)
  /\ halt' = None
  /\ reprompts' = 0

LingeringSecondWind == UNCHANGED active  \* mutant: the handoff stays open

\* finish_second_wind: a handoff ends with the accepted turn of its backup.
FinishSecondWind ==
  active' = IF active # None /\ active.to = actor THEN None ELSE active

\* The claimed items of the worker that failed.
ClaimedBy(a) ==
  {x.id : x \in {y \in checklist : y.state = "claimed" /\ y.owner = a}}

\* Blocked items that no recovery of kind "blocked" was started for.
UnrecoveredBlocks ==
  {x.id : x \in {y \in checklist : y.state = "blocked"}} \ attempted

\* The items the turn holder may take over.
Recoverable == IF active # None /\ active.to = actor THEN active.items ELSE {}

\* A worker that produced nothing: hand over, or halt with agent_error.
GiveUpOn(a) ==
  \/ /\ StartSecondWind(a, ClaimedBy(a))
     /\ pc' = "looping"
     /\ UNCHANGED result
  \/ /\ ~CanRecover
     /\ halt' = "agent_error"
     /\ pc' = "returned" /\ result' = "agent_error"
     /\ UNCHANGED <<used, active, actor, reprompts>>

----------------------------------------------------------------------------
(***************************************************************************)
(* take_turn                                                               *)
(***************************************************************************)
InTurn == pc = "looping" /\ turn < TurnsMax

\* The kill switch is read before a turn is dispatched.
RefuseTurn ==
  /\ InTurn /\ note = "STOP"
  /\ halt' = "stopped_by_human"
  /\ pc' = "returned" /\ result' = "stopped_by_human"
  /\ UNCHANGED <<checklist, turn, actor, reprompts, streak, lastDigest, note,
                 used, active, attempted, report, inbox, entry, bounds>>

\* run_agent: the worker's command fails or times out, whichever adapter runs it.
AgentFails ==
  /\ InTurn /\ note # "STOP"
  /\ GiveUpOn(actor)
  /\ UNCHANGED <<checklist, turn, streak, lastDigest, note, attempted, report,
                 inbox, entry, bounds>>

NoEnvelopeUncounted ==  \* mutant: the reprompt counter is not advanced
  /\ InTurn /\ note # "STOP"
  /\ pc' = "unparsed"
  /\ UNCHANGED <<disk, inbox, entry, result, bounds>>

\* extract finds no envelope in the reply; the count is saved before it is acted on.
NoEnvelope ==
  /\ InTurn /\ note # "STOP"
  /\ reprompts' = reprompts + 1
  /\ pc' = "unparsed"
  /\ UNCHANGED <<checklist, turn, actor, halt, streak, lastDigest, note, used,
                 active, attempted, report, inbox, entry, result, bounds>>

Reprompt ==
  /\ pc = "unparsed" /\ reprompts <= RepromptsMax
  /\ pc' = "looping"
  /\ UNCHANGED <<disk, inbox, entry, result, bounds>>

StopReprompting ==
  /\ pc = "unparsed" /\ reprompts > RepromptsMax
  /\ GiveUpOn(actor)
  /\ UNCHANGED <<checklist, turn, streak, lastDigest, note, attempted, report,
                 inbox, entry, bounds>>

\* The turn update is refused by a send ceiling: the accepted checklist is
\* saved, the turn is not counted.
TurnMailBlocked ==
  /\ MailMayBlock
  /\ halt' = "turn_budget"
  /\ pc' = "returned" /\ result' = "send ceiling"
  /\ UNCHANGED <<turn, actor, streak, lastDigest, active>>

\* The update is mailed: progress, turn and turn holder move on.
TurnMailed(accepted) ==
  /\ streak' = IF Digest(accepted) = lastDigest THEN streak + 1 ELSE 0
  /\ lastDigest' = Digest(accepted)
  /\ turn' = turn + 1
  /\ actor' = NextActor(actor)
  /\ FinishSecondWind
  /\ pc' = "accepted"
  /\ UNCHANGED <<halt, result>>

\* A reply with an envelope.  Scope is open on turns 0 and 1.
AcceptTurn ==
  /\ InTurn /\ note # "STOP"
  /\ \E proposed \in Proposals, by_id \in Readings(checklist) :
       LET accepted == Reconcile(by_id, proposed, actor, turn <= 1, Recoverable)
       IN  /\ checklist' = accepted
           /\ TurnMailBlocked \/ TurnMailed(accepted)
  /\ reprompts' = 0
  /\ note' = None
  /\ UNCHANGED <<used, attempted, report, inbox, entry, bounds>>

\* The guards after an accepted turn, in the order of the code.
Judge ==
  /\ pc = "accepted"
  /\ LET items == UnrecoveredBlocks
         stuck == Blocking(checklist)
         open  == stuck = {} /\ ~IsComplete(checklist)
     IN  \/ /\ stuck # {} /\ items # {} /\ CanRecover
            /\ used' = used + 1
            /\ active' = [to |-> actor, items |-> items]
            /\ halt' = None /\ reprompts' = 0
            /\ attempted' = attempted \cup items
            /\ pc' = "looping" /\ UNCHANGED result
         \/ /\ \/ IsComplete(checklist) /\ result' = "complete"
               \/ /\ stuck # {} /\ (items = {} \/ ~CanRecover)
                  /\ \E x \in stuck : result' = x.state
               \/ open /\ turn >= TurnsMax /\ result' = "turn_budget"
               \/ /\ open /\ turn < TurnsMax /\ streak >= NoProgressHalt
                  /\ result' = "no_progress"
            /\ pc' = "returned"
            /\ UNCHANGED <<halt, reprompts, used, active, attempted>>
         \/ /\ open /\ turn < TurnsMax /\ streak < NoProgressHalt
            /\ pc' = "looping"
            /\ UNCHANGED <<halt, reprompts, used, active, attempted, result>>
  /\ UNCHANGED <<checklist, turn, actor, streak, lastDigest, note, report,
                 inbox, entry, bounds>>

----------------------------------------------------------------------------
(***************************************************************************)
(* loop, and what its caller does with the reason it returns.              *)
(***************************************************************************)

\* A halt that is already there is kept.
RecordHalt ==
  /\ pc = "returned"
  /\ halt' = IF halt # None THEN halt ELSE result
  /\ pc' = "reporting"
  /\ UNCHANGED <<checklist, turn, actor, reprompts, streak, lastDigest, note,
                 used, active, attempted, report, inbox, entry, result, bounds>>

LoopLimit ==
  /\ pc = "looping" /\ turn >= TurnsMax
  /\ halt' = "turn_budget"
  /\ pc' = "reporting" /\ result' = "turn_budget"
  /\ UNCHANGED <<checklist, turn, actor, reprompts, streak, lastDigest, note,
                 used, active, attempted, report, inbox, entry, bounds>>

\* write_report and record_report; the handler of a note is then done with it.
RecordReport ==
  /\ pc = "reporting"
  /\ report' = result
  /\ inbox' = IF entry = "note" THEN None ELSE inbox
  /\ pc' = "idle" /\ entry' = None /\ result' = None
  /\ UNCHANGED <<checklist, turn, actor, halt, reprompts, streak, lastDigest,
                 note, used, active, attempted, bounds>>

----------------------------------------------------------------------------
(***************************************************************************)
(* The ways into the loop.                                                 *)
(***************************************************************************)

\* handle_commission: the queue holds the commission until a report of it is
\* recorded, and every delivery before that clears the halt and resumes.  A
\* coordination that failed, reported without a turn, is in RunDelivery.
HandleCommission ==
  /\ pc = "idle" /\ report = None
  /\ halt' = None
  /\ pc' = "looping" /\ entry' = "commission"
  /\ UNCHANGED <<checklist, turn, actor, reprompts, streak, lastDigest, note,
                 used, active, attempted, report, inbox, result, bounds>>

\* The commissioner replies to the thread.
SendNote ==
  /\ inbox = None /\ notes < MaxNotes
  /\ inbox' \in {"guidance", "STOP"}
  /\ notes' = notes + 1
  /\ UNCHANGED <<disk, process, commands, crashes>>

Reopened(x) ==
  [id |-> x.id, state |-> "open", owner |-> None, verified_by |-> None,
   rejections |-> x.rejections]

\* The item apply_human_note adds to a checklist that is all done.
FollowUp(i) == [id |-> i, state |-> "open", owner |-> None,
                verified_by |-> None, rejections |-> 0]

NextId == 1 + CHOOSE i \in IdsOf(checklist) : \A j \in IdsOf(checklist) : j <= i

\* apply_human_note: stuck items are reopened, or an all-done checklist gets
\* one more item; nothing is ever approved.
ApplyGuidance ==
  LET stuck == Blocking(checklist)
  IN  \/ /\ stuck # {}
         /\ checklist' = (checklist \ stuck) \cup {Reopened(x) : x \in stuck}
         /\ halt' = None /\ reprompts' = 0 /\ streak' = 0
      \/ /\ stuck = {} /\ IsComplete(checklist)
         /\ NextId \in Ids
         /\ checklist' = checklist \cup {FollowUp(NextId)}
         /\ halt' = None /\ reprompts' = 0 /\ streak' = 0
      \/ /\ stuck = {} /\ ~IsComplete(checklist)
         /\ UNCHANGED <<checklist, halt, reprompts, streak>>

\* handle_note.  The message stays queued until its own report is recorded.
HandleNote ==
  /\ pc = "idle" /\ inbox # None
  /\ note' = inbox
  /\ entry' = "note"
  /\ \/ /\ inbox = "STOP"
        /\ pc' = "stopping"
        /\ UNCHANGED <<checklist, halt, reprompts, streak>>
     \/ /\ inbox = "guidance"
        /\ ApplyGuidance
        /\ pc' = "looping"
  /\ UNCHANGED <<turn, actor, lastDigest, used, active, attempted, report, inbox,
                 result, bounds>>

HandleStop ==
  /\ pc = "stopping"
  /\ halt' = "stopped_by_human"
  /\ pc' = "reporting" /\ result' = "stopped_by_human"
  /\ UNCHANGED <<checklist, turn, actor, reprompts, streak, lastDigest, note,
                 used, active, attempted, report, inbox, entry, bounds>>

\* --stop
CmdStop ==
  /\ pc = "idle" /\ commands < MaxCommands
  /\ halt' = "stopped_by_human"
  /\ commands' = commands + 1
  /\ UNCHANGED <<checklist, turn, actor, reprompts, streak, lastDigest, note,
                 used, active, attempted, report, inbox, process, notes,
                 crashes>>

\* --retry
CmdRetry ==
  /\ pc = "idle" /\ commands < MaxCommands
  /\ halt \notin {None, "complete"}
  /\ halt' = None
  /\ pc' = "looping" /\ entry' = "cli"
  /\ commands' = commands + 1
  /\ UNCHANGED <<checklist, turn, actor, reprompts, streak, lastDigest, note,
                 used, active, attempted, report, inbox, result, notes, crashes>>

\* --resume: neither the halt nor the checklist is looked at.
CmdResume ==
  /\ pc = "idle" /\ commands < MaxCommands
  /\ pc' = "looping" /\ entry' = "cli"
  /\ commands' = commands + 1
  /\ UNCHANGED <<disk, inbox, result, notes, crashes>>

\* The process dies, or an exception leaves the handler.
Crash ==
  /\ pc # "idle" /\ crashes < MaxCrashes
  /\ pc' = "idle" /\ entry' = None /\ result' = None
  /\ crashes' = crashes + 1
  /\ UNCHANGED <<disk, inbox, notes, commands>>

----------------------------------------------------------------------------
RunnerStep ==
  \/ RefuseTurn \/ AgentFails \/ NoEnvelope \/ Reprompt \/ StopReprompting
  \/ AcceptTurn \/ Judge \/ RecordHalt \/ LoopLimit \/ RecordReport
  \/ HandleStop

\* A reported run rests until a person acts on it; it stops nowhere else.
Rest == pc = "idle" /\ report # None /\ UNCHANGED vars

Next ==
  \/ RunnerStep
  \/ HandleCommission \/ SendNote \/ HandleNote
  \/ CmdStop \/ CmdRetry \/ CmdResume
  \/ Crash \/ Rest

Spec == Init /\ [][Next]_vars

\* A process that is inside the loop takes its next step.
FairSpec == Spec /\ WF_vars(RunnerStep)

----------------------------------------------------------------------------
(***************************************************************************)
(* Properties                                                              *)
(***************************************************************************)

\* The invariant the second model is paid for: a done item names an owner and
\* a verifier, both workers, and they differ.  It must survive blocks of done
\* items, Second Wind custody, human reopening, copies of one id in a reply
\* and crashes (reconcile, start_second_wind, apply_human_note).
IndependentVerification ==
  \A x \in checklist :
    x.state = "done" =>
      /\ x.owner \in Agents
      /\ x.verified_by \in Agents
      /\ x.verified_by # x.owner

\* An active recovery handoff belongs to the worker that holds the turn: it is
\* closed or replaced before the turn passes to anyone else, so the custody
\* it grants cannot be used later (start_second_wind, finish_second_wind).
HandoffIsForTurnHolder == active # None => active.to = actor

\* No two items have one id.
UniqueIds(items) == \A x, y \in items : x.id = y.id => x = y

\* Work under way changes hands only by the runner's authority: when a claimed
\* or blocked item gets a new worker as owner, that worker is the backup of an
\* active handoff that names the item, or a person reopened the item first.
\* Where a reply has left two items of one id, either may be taken for the
\* other, and nothing is claimed.
CustodyIsGranted ==
  [][UniqueIds(checklist) /\ UniqueIds(checklist') =>
       \A y \in checklist' : \A x \in checklist :
         /\ y.id = x.id
         /\ x.state \in {"claimed", "blocked"} /\ x.owner \in Agents
         /\ y.owner \in Agents /\ y.owner # x.owner
         => active # None /\ active.to = y.owner /\ y.id \in active.items]_vars

\* Reprompts, recoveries and turns are all bounded, so a run that is being
\* worked on comes back to its caller with a reason, whatever the models
\* reply (loop, take_turn, start_second_wind).
RunReturns == pc = "looping" ~> pc \in {"reporting", "idle"}

----------------------------------------------------------------------------
\* The item as the abstract specification sees it.
AbstractItem(x) ==
  [id       |-> x.id,
   phase    |-> IF x.state = "awaiting-verification" THEN "submitted"
                ELSE IF x.state = "done" THEN "approved" ELSE "pending",
   by       |-> IF x.state \in {"awaiting-verification", "done"}
                  THEN x.owner ELSE None,
   approver |-> IF x.state = "done" THEN x.verified_by ELSE None]

work == {AbstractItem(x) : x \in checklist}

Work == INSTANCE VerifiedWork WITH Nobody <- None

\* Every accepted turn moves each item at most one step of the review, by the
\* worker that holds the turn, and loses none: the run implements
\* VerifiedWork (reconcile, apply_human_note).
ImplementsVerifiedWork == Work!Spec
============================================================================
