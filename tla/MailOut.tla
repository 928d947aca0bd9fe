------------------------------ MODULE MailOut ------------------------------
(***************************************************************************)
(* The mail that leaves Rally: turn updates and final reports, charged to  *)
(* the send ledger (class Ledger of src/src/transport.py), by the serving  *)
(* process and by operator commands that work on the same two files,       *)
(* state.json of a run and ledger.json.                                    *)
(*                                                                         *)
(* Each file is read whole, changed in memory and replaced whole, and no   *)
(* lock spans the read and the replacement.  A process keeps its copy of a *)
(* run from the moment it loads it until it ends.  Both writers of a file  *)
(* use the same temporary name, so of two overlapping replacements one may *)
(* also raise: that is a replacement followed by Crash.  serve.lock admits *)
(* one serving process; one command at a time is a bound of the model.     *)
(***************************************************************************)
EXTENDS Integers, Sequences, FiniteSets

CONSTANTS
  Runs,
  Mails,        \* commissions and replies of the commissioner
  Commissions,  \* the mails that commission a run
  Stops,        \* the replies that say STOP
  RunOf,        \* the run each mail is about
  Serve,        \* the process that holds serve.lock
  Cli,          \* the process of an operator's command
  None,
  TurnsMax,     \* limits.turns_max
  PerRun, PerHour, PerDay,  \* the ceilings of check_and_reserve
  Hour, Day,    \* their windows, in ticks
  MaxReplies,   \* bound: replies
  MaxCommands,  \* bound: operator commands
  MaxFaults     \* bound: refused sends, lost answers and deaths

\* generation names the idempotency key.  A text is told by the mail it answers,
\* or by the command that wrote it.
Report == [generation : Nat \ {0}, request : Mails \cup {None}, command : Nat,
           status : {"pending", "delivered"}]

\* stop: human_note holds a STOP.
RunFile == [turn : Nat, stop : BOOLEAN,
            halt : {"none", "stopped", "complete", "other"},
            generation : Nat, report : Report \cup {None}]

\* key is the generation of a report, 0 for a turn update.
Charge == [run : Runs, key : Nat, age : 0..Day-1]

Job == [run : Runs \cup {None}, mail : Mails \cup {None},
        copy : RunFile \cup {None}, sending : {"turn", "report"},
        view : Seq(Charge)]

ASSUME MailOutAssumption ==
  /\ RunOf \in [Mails -> Runs]
  /\ Commissions \subseteq Mails /\ Stops \subseteq Mails \ Commissions
  /\ None \notin Mails \cup Runs \cup Report \cup RunFile /\ Serve # Cli
  /\ IsFiniteSet(Runs)
  /\ {TurnsMax, PerRun, PerHour, PerDay, Hour, Day} \subseteq Nat \ {0}
  /\ Hour < Day
  /\ {MaxReplies, MaxCommands, MaxFaults} \subseteq Nat

VARIABLES
  file,      \* state.json of each run
  ledger,    \* ledger.json: the charged sends, oldest first
  inbox,     \* the queued mails, in the order the serve loop tries them
  arrived,   \* the mails that were ever queued
  pc, job,   \* where each process is, and its locals
  sent,      \* the reports the provider mailed, the first under each key
  today,     \* what the provider mailed within a day, while nothing was lost
  lost,      \* whether a replacement of the ledger lost a charge
  shared,    \* the runs that were saved while another process held a copy
  commands, faults

files == <<file, ledger>>
history == <<sent, today, lost, shared>>
vars == <<files, inbox, arrived, pc, job, history, commands, faults>>

Processes == {Serve, Cli}

Locations == {"idle", "stopping", "turning", "reserving", "writing", "sending",
              "saving", "recording"}

TypeOK ==
  /\ file \in [Runs -> RunFile \cup {None}]
  /\ ledger \in Seq(Charge) /\ today \in Seq(Charge)
  /\ inbox \in Seq(Mails) /\ arrived \subseteq Mails
  /\ pc \in [Processes -> Locations]
  /\ job \in [Processes -> Job]
  /\ sent \subseteq Runs \X Report
  /\ lost \in BOOLEAN /\ shared \subseteq Runs
  /\ commands \in 0..MaxCommands /\ faults \in 0..MaxFaults

JobFor(r, m, state, sending) ==
  [run |-> r, mail |-> m, copy |-> state, sending |-> sending, view |-> <<>>]

NoJob == JobFor(None, None, None, "turn")

NewFile == [turn |-> 0, stop |-> FALSE, halt |-> "none", generation |-> 0,
            report |-> None]

Init ==
  /\ file = [r \in Runs |-> None]
  /\ ledger = <<>> /\ today = <<>> /\ lost = FALSE
  /\ inbox = <<>> /\ arrived = {}
  /\ pc = [p \in Processes |-> "idle"]
  /\ job = [p \in Processes |-> NoJob]
  /\ sent = {} /\ shared = {}
  /\ commands = 0 /\ faults = 0

----------------------------------------------------------------------------
\* The sequence of the members of s that are in set, in their order: a set with
\* this one member.
Kept(s, set) ==
  {[i \in DOMAIN f |-> s[f[i]]] :
     f \in {g \in UNION {[1..n -> DOMAIN s] : n \in 0..Len(s)} :
             /\ \A i, j \in DOMAIN g : i < j => g[i] < g[j]
             /\ {g[i] : i \in DOMAIN g} = {k \in DOMAIN s : s[k] \in set}}}

(***************************************************************************)
(* The environment: mails, time, faults.                                   *)
(***************************************************************************)
Fault == faults < MaxFaults /\ faults' = faults + 1

\* Mail comes in; a reply goes to a run that exists.
Arrive(m) ==
  /\ m \notin arrived
  /\ m \notin Commissions =>
       /\ file[RunOf[m]] # None
       /\ Cardinality(arrived \ Commissions) < MaxReplies
  /\ arrived' = arrived \cup {m}
  /\ inbox' = Append(inbox, m)
  /\ UNCHANGED <<files, pc, job, history, commands, faults>>

\* mutant: the windows never move on.
OlderKept(L) ==
  {[i \in DOMAIN L |-> [L[i] EXCEPT !.age = IF @ + 1 < Day THEN @ + 1 ELSE @]]}

\* mutant: charges of a day ago are kept.
OlderUnpruned(L) == {[i \in DOMAIN L |-> [L[i] EXCEPT !.age = @ + 1]]}

\* Charges of a day ago are dropped by every later reader, and so is what was mailed.
Older(L) ==
  {[i \in DOMAIN kept |-> [kept[i] EXCEPT !.age = @ + 1]] :
     kept \in Kept(L, {e \in Charge : e.age + 1 < Day})}

\* A tick is long against a send and the saves around it; worker commands take time.
Tick ==
  /\ \A p \in Processes : pc[p] \notin {"writing", "sending", "saving", "recording"}
  /\ ledger' \in Older(ledger)
  /\ today' \in Older(today)
  /\ UNCHANGED <<file, inbox, arrived, pc, job, sent, lost, shared, commands,
                 faults>>

----------------------------------------------------------------------------
(***************************************************************************)
(* Files and processes.                                                    *)
(***************************************************************************)
Goto(p, place) == pc' = [pc EXCEPT ![p] = place]

Copy(p) == job[p].copy

\* Run.save: the copy replaces the file, whatever is in it by now.
SaveRun(p, r, state) ==
  /\ file' = [file EXCEPT ![r] = state]
  /\ shared' = IF \E q \in Processes \ {p} : pc[q] # "idle" /\ job[q].run = r
                 THEN shared \cup {r} ELSE shared

\* The copy changes and is saved, and the process goes on.
Save(p, state, place) ==
  /\ job' = [job EXCEPT ![p].copy = state]
  /\ SaveRun(p, job[p].run, state)
  /\ Goto(p, place)

\* The serve loop acknowledges a mail whose handler returned, and tries one
\* whose handler raised again after the others.
End(p, answered) ==
  /\ Goto(p, "idle")
  /\ job' = [job EXCEPT ![p] = NoJob]
  /\ IF job[p].mail = None
       THEN UNCHANGED inbox
       ELSE \E others \in Kept(inbox, Mails \ {job[p].mail}) :
              inbox' = IF answered THEN others ELSE Append(others, job[p].mail)

----------------------------------------------------------------------------
(***************************************************************************)
(* handle_commission and handle_note.                                      *)
(***************************************************************************)

\* The stored report answers this mail: it is only mailed again.
Answered(m, state) ==
  /\ state # None
  /\ state.report # None
  /\ m \notin Commissions => state.report.request = m

\* apply_human_note: a STOP is stored; guidance replaces it, and reopens the run or
\* not.
Noted(state, stop) ==
  IF stop THEN {[state EXCEPT !.stop = TRUE]}
  ELSE {[state EXCEPT !.stop = FALSE, !.halt = h] : h \in {"none", state.halt}}

\* serve tries the mail m next, for a run whose file holds state.
Tries(m, state) ==
  /\ pc[Serve] = "idle" /\ inbox # <<>>
  /\ m = Head(inbox) /\ state = file[RunOf[m]]

Handling(m, state, sending, place) ==
  /\ job' = [job EXCEPT ![Serve] = JobFor(RunOf[m], m, state, sending)]
  /\ Goto(Serve, place)
  /\ UNCHANGED <<ledger, inbox, arrived, sent, today, lost, commands, faults>>

SkipAnswered(m, state) ==
  /\ Tries(m, state) /\ Answered(m, state) /\ state.report.status = "delivered"
  /\ inbox' = Tail(inbox)
  /\ UNCHANGED <<files, arrived, pc, job, history, commands, faults>>

RetryReport(m, state) ==
  /\ Tries(m, state) /\ Answered(m, state) /\ state.report.status = "pending"
  /\ Handling(m, state, "report", "reserving")
  /\ UNCHANGED <<file, shared>>

\* The run is created, or an incomplete one is resumed without its halt.
HandleCommission(m, state) ==
  /\ Tries(m, state) /\ m \in Commissions /\ ~Answered(m, state)
  /\ \/ /\ state = None
        /\ Handling(m, NewFile, "turn", "turning")
        /\ SaveRun(Serve, RunOf[m], NewFile)
     \/ /\ state # None
        /\ Handling(m, [state EXCEPT !.halt = "none"], "turn", "turning")
        /\ UNCHANGED <<file, shared>>

HandleStop(m, state) ==
  /\ Tries(m, state) /\ m \in Stops /\ ~Answered(m, state)
  /\ LET stopped == [state EXCEPT !.stop = TRUE, !.halt = "stopped"]
     IN  /\ Handling(m, stopped, "turn", "recording")
         /\ SaveRun(Serve, RunOf[m], stopped)

HandleGuidance(m, state) ==
  /\ Tries(m, state) /\ m \notin Commissions \cup Stops /\ ~Answered(m, state)
  /\ \E noted \in Noted(state, FALSE) :
       /\ Handling(m, noted, "turn", "turning")
       /\ SaveRun(Serve, RunOf[m], noted)

Take ==
  \E m \in Mails : \E state \in {file[RunOf[m]]} :
    \/ SkipAnswered(m, state) \/ RetryReport(m, state)
    \/ HandleCommission(m, state) \/ HandleStop(m, state) \/ HandleGuidance(m, state)

----------------------------------------------------------------------------
(***************************************************************************)
(* The operator's commands.                                                *)
(***************************************************************************)
Command(r, state, place) ==
  /\ pc[Cli] = "idle" /\ commands < MaxCommands
  /\ commands' = commands + 1
  /\ job' = [job EXCEPT ![Cli] = JobFor(r, None, state, "turn")]
  /\ Goto(Cli, place)
  /\ UNCHANGED <<ledger, inbox, arrived, sent, today, lost, faults>>

CmdStop(r) ==
  /\ file[r] # None
  /\ Command(r, [file[r] EXCEPT !.halt = "stopped"], "stopping")
  /\ UNCHANGED <<file, shared>>

StopSaved ==
  /\ pc[Cli] = "stopping"
  /\ SaveRun(Cli, job[Cli].run, Copy(Cli))
  /\ End(Cli, TRUE)
  /\ UNCHANGED <<ledger, arrived, sent, today, lost, commands, faults>>

CmdRetry(r) ==
  /\ file[r] # None
  /\ file[r].halt \notin {"none", "complete"}
  /\ LET state == [file[r] EXCEPT !.halt = "none"]
     IN  Command(r, state, "turning") /\ SaveRun(Cli, r, state)

\* --resume, alone or with a --note; a note that says STOP sets no halt yet.
CmdResume(r) ==
  /\ file[r] # None
  /\ \/ /\ Command(r, file[r], "turning")
        /\ UNCHANGED <<file, shared>>
     \/ \E stop \in BOOLEAN : \E state \in Noted(file[r], stop) :
          Command(r, state, "turning") /\ SaveRun(Cli, r, state)

----------------------------------------------------------------------------
(***************************************************************************)
(* take_turn and loop.                                                     *)
(***************************************************************************)

\* The kill switch of take_turn looks at the copy's human_note.
RefuseTurn(p) ==
  /\ pc[p] = "turning" /\ Copy(p).turn < TurnsMax /\ Copy(p).stop
  /\ Save(p, [Copy(p) EXCEPT !.halt = "stopped"], "recording")
  /\ UNCHANGED <<ledger, inbox, arrived, sent, today, lost, commands, faults>>

LoopLimit(p) ==
  /\ pc[p] = "turning" /\ Copy(p).turn >= TurnsMax
  /\ Save(p, [Copy(p) EXCEPT !.halt = "other"], "recording")
  /\ UNCHANGED <<ledger, inbox, arrived, sent, today, lost, commands, faults>>

\* A worker is dispatched: its turn is accepted and mailed, or halts the run.
Dispatch(p) ==
  /\ pc[p] = "turning" /\ Copy(p).turn < TurnsMax /\ ~Copy(p).stop
  /\ \/ /\ job' = [job EXCEPT ![p].sending = "turn"]
        /\ Goto(p, "reserving")
        /\ UNCHANGED <<file, shared>>
     \/ Save(p, [Copy(p) EXCEPT !.halt = "other"], "recording")
  /\ UNCHANGED <<ledger, inbox, arrived, sent, today, lost, commands, faults>>

\* The accepted turn is saved; the loop goes on, or ends with a halt unless
\* the copy has one.
SaveTurn(p) ==
  /\ pc[p] = "saving" /\ job[p].sending = "turn"
  /\ LET state == [Copy(p) EXCEPT !.turn = @ + 1]
     IN  \/ state.turn < TurnsMax /\ Save(p, state, "turning")
         \/ \E h \in {"complete", "other"} :
              Save(p, [state EXCEPT !.halt = IF @ = "none" THEN h ELSE @],
                   "recording")
  /\ UNCHANGED <<ledger, inbox, arrived, sent, today, lost, commands, faults>>

----------------------------------------------------------------------------
(***************************************************************************)
(* record_report, mail_report and mail_turn.                               *)
(***************************************************************************)
Record(p, number) ==
  /\ pc[p] = "recording"
  /\ LET report == [generation |-> number, request |-> job[p].mail,
                    command |-> IF p = Cli THEN commands ELSE 0,
                    status |-> "pending"]
         state == [Copy(p) EXCEPT !.generation = number, !.report = report]
     IN  /\ job' = [job EXCEPT ![p].copy = state, ![p].sending = "report"]
         /\ SaveRun(p, job[p].run, state)
         /\ Goto(p, "reserving")
  /\ UNCHANGED <<ledger, inbox, arrived, sent, today, lost, commands, faults>>

\* mutant: a later report has the key of the first.
RecordSameKey(p) == Record(p, 1)

RecordReport(p) == Record(p, Copy(p).generation + 1)

Key(p) == IF job[p].sending = "report" THEN Copy(p).report.generation ELSE 0

ChargeOf(p) == [run |-> job[p].run, key |-> Key(p), age |-> 0]

\* The charge of an earlier attempt to send this report.
Reserved(p, L) ==
  /\ Key(p) # 0
  /\ \E i \in DOMAIN L : L[i].run = job[p].run /\ L[i].key = Key(p)

ForRun(L, r) == Cardinality({i \in DOMAIN L : L[i].run = r})

InHour(L) == Cardinality({i \in DOMAIN L : L[i].age < Hour})

\* mutant: one send too many is let through.
BlockedAbove(L, r) ==
  \/ ForRun(L, r) > PerRun
  \/ InHour(L) > PerHour
  \/ Len(L) > PerDay

Blocked(L, r) ==
  \/ ForRun(L, r) >= PerRun
  \/ InHour(L) >= PerHour
  \/ Len(L) >= PerDay

\* SendBlocked: take_turn halts the run without taking the turn.  A report is given
\* up by a command and retried by the serve loop.
NotSent(p) ==
  /\ \/ /\ job[p].sending = "turn"
        /\ Save(p, [Copy(p) EXCEPT !.halt = "other"], "recording")
        /\ UNCHANGED inbox
     \/ /\ job[p].sending = "report"
        /\ End(p, FALSE)
        /\ UNCHANGED <<file, shared>>
  /\ UNCHANGED <<sent, today, lost>>

\* check_and_reserve up to its write, and the write.
Reserve(p) ==
  /\ pc[p] = "reserving"
  /\ \/ /\ Reserved(p, ledger)
        /\ Goto(p, "sending")
        /\ UNCHANGED <<file, inbox, job, history>>
     \/ /\ ~Reserved(p, ledger) /\ Blocked(ledger, job[p].run)
        /\ NotSent(p)
     \/ /\ ~Reserved(p, ledger) /\ ~Blocked(ledger, job[p].run)
        /\ job' = [job EXCEPT ![p].view = ledger]
        /\ Goto(p, "writing")
        /\ UNCHANGED <<file, inbox, history>>
  /\ UNCHANGED <<ledger, arrived, commands, faults>>

WriteLedger(p) ==
  /\ pc[p] = "writing"
  /\ ledger' = Append(job[p].view, ChargeOf(p))
  /\ lost' = (lost \/ ledger # job[p].view)
  /\ today' = IF lost' THEN <<>> ELSE today
  /\ job' = [job EXCEPT ![p].view = <<>>]
  /\ Goto(p, "sending")
  /\ UNCHANGED <<file, inbox, arrived, sent, shared, commands, faults>>

\* The provider mails a text once under one key.
Send(p) ==
  /\ pc[p] = "sending"
  /\ LET again == \E s \in sent : s[1] = job[p].run /\ s[2].generation = Key(p)
     IN  /\ sent' = IF Key(p) = 0 \/ again THEN sent
                    ELSE sent \cup {<<job[p].run, Copy(p).report>>}
         /\ today' = IF lost \/ again THEN today ELSE Append(today, ChargeOf(p))
  /\ Goto(p, "saving")
  /\ UNCHANGED <<files, inbox, arrived, job, lost, shared, commands, faults>>

RefusedSend(p) ==
  /\ pc[p] = "sending" /\ Fault
  /\ NotSent(p)
  /\ UNCHANGED <<ledger, arrived, commands>>

SaveDelivered(p) ==
  /\ pc[p] = "saving" /\ job[p].sending = "report"
  /\ SaveRun(p, job[p].run, [Copy(p) EXCEPT !.report.status = "delivered"])
  /\ End(p, TRUE)
  /\ UNCHANGED <<ledger, arrived, sent, today, lost, commands, faults>>

\* An exception leaves the handler, or the process dies: before the provider has the
\* mail, or (from "saving") when the answer is lost after it.
Crash(p) ==
  /\ pc[p] # "idle" /\ Fault
  /\ End(p, FALSE)
  /\ UNCHANGED <<files, arrived, history, commands>>

----------------------------------------------------------------------------
Step(p) ==
  \/ RefuseTurn(p) \/ LoopLimit(p) \/ Dispatch(p) \/ SaveTurn(p) \/ RecordReport(p)
  \/ Reserve(p) \/ WriteLedger(p) \/ Send(p) \/ SaveDelivered(p)

Next ==
  \/ \E m \in Mails : Arrive(m)
  \/ Tick
  \/ Take
  \/ \E r \in Runs : CmdStop(r) \/ CmdRetry(r) \/ CmdResume(r)
  \/ StopSaved
  \/ \E p \in Processes : Step(p) \/ RefusedSend(p) \/ Crash(p)

Spec == Init /\ [][Next]_vars

\* Workers and provider calls have timeouts, serve polls for ever, time passes.
FairSpec ==
  /\ Spec
  /\ WF_vars(Take) /\ \A p \in Processes : WF_vars(Step(p))
  /\ WF_vars(Tick)

----------------------------------------------------------------------------
(***************************************************************************)
(* Properties.                                                             *)
(***************************************************************************)

\* A charge is made once, before the first attempt, and a report may be mailed when its
\* charge has left the window.  A run has one such report at a time, so what is mailed
\* in a day, or in an hour, passes a ceiling by at most one for each run, unless a
\* replacement of ledger.json has lost a charge of the other process.  A run that two
\* processes saved over each other may have an earlier report mailed after a later one
\* was charged: it is excepted, see README.
CeilingsHold ==
  ~lost =>
    /\ \A r \in Runs \ shared : ForRun(today, r) <= PerRun + 1
    /\ shared = {} => /\ InHour(today) <= PerHour + Cardinality(Runs)
                       /\ Len(today) <= PerDay + Cardinality(Runs)

\* A report that mail_report has marked delivered was mailed: the provider had not
\* been given another text under its idempotency key before.  Runs that two processes
\* saved over each other are excepted, see README.
DeliveredIsMailed ==
  \A r \in Runs \ shared :
    (file[r] # None /\ file[r].report # None /\ file[r].report.status = "delivered")
      => <<r, [file[r].report EXCEPT !.status = "pending"]>> \in sent

\* Whatever the ceilings refuse and however sends fail, serve answers every mail in
\* the end: the windows of the ledger move on and the report is retried.
MailsAnswered ==
  \A m \in Mails : m \in arrived ~> (\A i \in DOMAIN inbox : inbox[i] # m)

\* "A reply of STOP halts the run immediately" (src/docs/SPEC.md:294): no worker is
\* dispatched for a run while a STOP for it has come in.  Violated: serve looks at
\* the next mail only when loop has come to its end.
StopRefusesNextTurn ==
  [][\A p \in Processes : Dispatch(p) =>
       \A i \in DOMAIN inbox : inbox[i] \in Stops => RunOf[inbox[i]] # job[p].run]_vars

=============================================================================
