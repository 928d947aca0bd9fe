----------------------------- MODULE MailOutProofs -----------------------------
(***************************************************************************)
(* Proofs about MailOut, for any number of runs, mails, commands, replies  *)
(* and faults, and any ceilings and windows.                               *)
(***************************************************************************)
EXTENDS MailOut, FiniteSetTheorems, TLAPS

Busy(p) == pc[p] # "idle"

\* What a process needs of its copy in each place.
HasReport(p) == Copy(p).report # None /\ Copy(p).report.status = "pending"

JobOK(p) ==
  /\ Busy(p) => job[p].run \in Runs /\ Copy(p) # None /\ file[job[p].run] # None
  /\ pc[p] \in {"reserving", "writing", "sending", "saving"}
       /\ job[p].sending = "report" => HasReport(p)
  /\ pc[p] = "writing" => ~Blocked(job[p].view, job[p].run)

JobInv == \A p \in Processes : JobOK(p)

\* A reply is to a run that exists.
Known(m) == m \notin Commissions => file[RunOf[m]] # None

MailsInv ==
  /\ \A i \in DOMAIN inbox : Known(inbox[i])
  /\ \A p \in Processes : job[p].mail # None => Known(job[p].mail)

\* A stored report is the last one of its run.
Latest(state) == state.report # None => state.report.generation = state.generation

ReportInv ==
  /\ \A r \in Runs : file[r] # None => Latest(file[r])
  /\ \A p \in Processes : Busy(p) => Latest(Copy(p))

\* A process that works alone on a run has the report that is in its file.
SameReport(p, r) ==
  /\ Copy(p).generation = file[r].generation
  /\ Copy(p).report = file[r].report

CopiesAgree == \A r \in Runs \ shared : \A p \in Processes :
  Busy(p) /\ job[p].run = r => SameReport(p, r)

\* What the provider mailed under the number of the stored report is its text.
TextInv == \A r \in Runs \ shared : \A s \in sent : s[1] = r =>
  /\ file[r] # None
  /\ s[2].generation <= file[r].generation
  /\ s[2].generation = file[r].generation =>
       file[r].report # None /\ s[2] = [file[r].report EXCEPT !.status = "pending"]

SavedIsMailed == \A p \in Processes :
  pc[p] = "saving" /\ job[p].sending = "report" /\ job[p].run \notin shared
    => <<job[p].run, Copy(p).report>> \in sent

DeliveryInv == TextInv /\ SavedIsMailed /\ DeliveredIsMailed

\* The ledger holds no more than the ceilings admit.
Within(L) ==
  /\ \A r \in Runs : ForRun(L, r) <= PerRun
  /\ InHour(L) <= PerHour
  /\ Len(L) <= PerDay

\* Charges have numbers that were given; the charge of the last report is not older
\* than what was mailed of the reports before it.
ChargesInv == \A r \in Runs \ shared : \A j \in DOMAIN ledger : ledger[j].run = r =>
  /\ ledger[j].key # 0 => file[r] # None /\ ledger[j].key <= file[r].generation
  /\ ledger[j].key # 0 /\ ledger[j].key = file[r].generation =>
       \A i \in DOMAIN today :
         today[i].run = r /\ today[i].key \notin {0, ledger[j].key}
           => ledger[j].age <= today[i].age

MailedInv == \A i \in DOMAIN today : today[i].key # 0 =>
  \E s \in sent : s[1] = today[i].run /\ s[2].generation = today[i].key

\* A report is mailed while its charge is in the ledger.
ReservedInv == \A p \in Processes :
  pc[p] = "sending" /\ job[p].sending = "report" => Reserved(p, ledger)

\* An attempt to mail a turn update has a charge of its own.
TurnOut(p) == pc[p] = "sending" /\ job[p].sending = "turn"

OwnCharge(w, m) ==
  /\ \A p \in Processes : TurnOut(p) => /\ w[p] # 0
                                        /\ ledger[w[p]] = ChargeOf(p)
                                        /\ \A i \in DOMAIN today : m[i] # w[p]
  /\ \A p, q \in Processes : TurnOut(p) /\ TurnOut(q) /\ w[p] = w[q] => p = q

\* Each mail has a charge of its own, made before it, except for a report whose charge
\* has left the window: nothing was mailed of its run's reports since that charge.
Charged(m) ==
  /\ \A i \in DOMAIN today : m[i] # 0 =>
       /\ ledger[m[i]].run = today[i].run
       /\ ledger[m[i]].key = today[i].key
       /\ today[i].age <= ledger[m[i]].age
  /\ \A i \in DOMAIN today : today[i].key = 0 =>
       m[i] # 0 /\ ledger[m[i]].age = today[i].age
  /\ \A i, j \in DOMAIN today : m[i] = m[j] /\ m[i] # 0 => i = j

\* Two reports of a run, mailed one after the other by one process at a time.
Later(i, j) ==
  /\ i < j
  /\ today[i].run = today[j].run /\ today[i].run \notin shared
  /\ today[i].key # 0 /\ today[j].key # 0

InTurn(m) == \A i, j \in DOMAIN today :
  Later(i, j) => m[j] # 0 /\ ledger[m[j]].age <= today[i].age

Matched ==
  \E m \in [DOMAIN today -> 0..Len(ledger)], w \in [Processes -> 0..Len(ledger)] :
    Charged(m) /\ InTurn(m) /\ OwnCharge(w, m)

LedgerInv ==
  ~lost => Within(ledger) /\ ChargesInv /\ MailedInv /\ ReservedInv /\ Matched

MailInv ==
  TypeOK /\ JobInv /\ MailsInv /\ ReportInv /\ CopiesAgree /\ DeliveryInv /\ LedgerInv
----------------------------------------------------------------------------
(***************************************************************************)
(* Sequences of mails and of charges.                                      *)
(***************************************************************************)
LEMMA KeptRows ==
  ASSUME NEW S, NEW s \in Seq(S), NEW set, NEW t \in Kept(s, set)
  PROVE  /\ t \in Seq(S) /\ Len(t) <= Len(s)
         /\ \E f \in [DOMAIN t -> DOMAIN s] :
              /\ \A i, j \in DOMAIN t : i < j => f[i] < f[j]
              /\ \A i \in DOMAIN t : t[i] = s[f[i]] /\ s[f[i]] \in set
              /\ \A k \in DOMAIN s : s[k] \in set => \E i \in DOMAIN t : f[i] = k
<1>1. PICK f \in UNION {[1..n -> DOMAIN s] : n \in 0..Len(s)} :
        /\ \A i, j \in DOMAIN f : i < j => f[i] < f[j]
        /\ {f[i] : i \in DOMAIN f} = {k \in DOMAIN s : s[k] \in set}
        /\ t = [i \in DOMAIN f |-> s[f[i]]]
  BY DEF Kept
<1>2. PICK n \in 0..Len(s) : f \in [1..n -> DOMAIN s]
  BY <1>1
<1>3. /\ n \in Nat /\ n <= Len(s) /\ DOMAIN f = 1..n
      /\ \A i \in 1..n : f[i] \in DOMAIN s /\ s[f[i]] \in S
  BY <1>2
<1>4. t = [i \in 1..n |-> s[f[i]]]
  BY <1>1, <1>3
<1>5. t \in Seq(S) /\ Len(t) = n /\ DOMAIN t = 1..n
  BY <1>3, <1>4
<1>6. \A i \in 1..n : f[i] \in {k \in DOMAIN s : s[k] \in set}
  BY <1>1, <1>3
<1>7. \A k \in DOMAIN s : s[k] \in set => \E i \in 1..n : f[i] = k
  BY <1>1, <1>3
<1>8. \A i, j \in 1..n : i < j => f[i] < f[j]
  BY <1>1, <1>3
<1>9. f \in [DOMAIN t -> DOMAIN s]
  BY <1>2, <1>5
<1> QED
  BY <1>3, <1>4, <1>5, <1>6, <1>7, <1>8, <1>9

LEMMA Constants ==
  /\ TurnsMax \in Nat \ {0} /\ PerRun \in Nat \ {0} /\ PerHour \in Nat \ {0}
  /\ PerDay \in Nat \ {0} /\ Hour \in Nat \ {0} /\ Day \in Nat \ {0} /\ Hour < Day
  /\ IsFiniteSet(Runs) /\ Serve # Cli /\ RunOf \in [Mails -> Runs]
  /\ None \notin Mails /\ None \notin Runs /\ None \notin Report /\ None \notin RunFile
  /\ MaxFaults \in Nat /\ MaxCommands \in Nat
  /\ Commissions \subseteq Mails /\ Stops \subseteq Mails \ Commissions
BY MailOutAssumption

LEMMA ChargeFields ==
  ASSUME NEW c
  PROVE  /\ c \in Charge => c.run \in Runs /\ c.key \in Nat /\ c.age \in 0..Day-1
         /\ c \in Charge /\ c.age + 1 < Day =>
              /\ [c EXCEPT !.age = @ + 1] \in Charge
              /\ [c EXCEPT !.age = @ + 1].run = c.run
              /\ [c EXCEPT !.age = @ + 1].key = c.key
              /\ [c EXCEPT !.age = @ + 1].age = c.age + 1
<1>1. ASSUME c \in Charge
      PROVE  c.run \in Runs /\ c.key \in Nat /\ c.age \in 0..Day-1
  BY <1>1 DEF Charge
<1>2. ASSUME c \in Charge, c.age + 1 < Day
      PROVE  /\ [c EXCEPT !.age = @ + 1] \in Charge
             /\ [c EXCEPT !.age = @ + 1].run = c.run
             /\ [c EXCEPT !.age = @ + 1].key = c.key
             /\ [c EXCEPT !.age = @ + 1].age = c.age + 1
  <2>1. c.age + 1 \in 0..Day-1
    BY <1>1, <1>2, Constants
  <2> QED
    BY <1>2, <2>1 DEF Charge
<1> QED
  BY <1>1, <1>2

\* A tick makes the charges older and drops those of a day ago.
LEMMA Aged ==
  ASSUME NEW L \in Seq(Charge), NEW K \in Older(L)
  PROVE  /\ K \in Seq(Charge) /\ Len(K) <= Len(L)
         /\ \E f \in [DOMAIN K -> DOMAIN L] :
              /\ \A i, j \in DOMAIN K : i < j => f[i] < f[j]
              /\ \A i \in DOMAIN K :
                   /\ K[i].run = L[f[i]].run /\ K[i].key = L[f[i]].key
                   /\ K[i].age = L[f[i]].age + 1
              /\ \A k \in DOMAIN L : L[k].age + 1 < Day => \E i \in DOMAIN K : f[i] = k
<1> DEFINE Young == {e \in Charge : e.age + 1 < Day}
<1>1. PICK t \in Kept(L, Young) : K = [i \in DOMAIN t |-> [t[i] EXCEPT !.age = @ + 1]]
  BY DEF Older
<1>2. t \in Seq(Charge) /\ Len(t) <= Len(L)
  BY KeptRows
<1>3. PICK f \in [DOMAIN t -> DOMAIN L] :
        /\ \A i, j \in DOMAIN t : i < j => f[i] < f[j]
        /\ \A i \in DOMAIN t : t[i] = L[f[i]] /\ L[f[i]] \in Young
        /\ \A k \in DOMAIN L : L[k] \in Young => \E i \in DOMAIN t : f[i] = k
  <2> HIDE DEF Young
  <2> QED BY KeptRows
<1>4. DOMAIN t = 1..Len(t) /\ Len(t) \in Nat /\ DOMAIN K = DOMAIN t
  BY <1>1, <1>2
<1>5. \A i \in DOMAIN t : /\ K[i] \in Charge
                           /\ K[i].run = L[f[i]].run /\ K[i].key = L[f[i]].key
                           /\ K[i].age = L[f[i]].age + 1
  BY <1>1, <1>3, ChargeFields
<1>6. K \in Seq(Charge) /\ Len(K) = Len(t)
  <2>1. K = [i \in 1..Len(t) |-> K[i]] /\ \A i \in 1..Len(t) : K[i] \in Charge
    BY <1>1, <1>4, <1>5
  <2> QED
    BY <2>1, <1>4
<1>7. \A k \in DOMAIN L : L[k].age + 1 < Day => L[k] \in Young
  OBVIOUS
<1> HIDE DEF Young
<1>8. f \in [DOMAIN K -> DOMAIN L]
  BY <1>3, <1>4
<1>9. /\ \A i, j \in DOMAIN K : i < j => f[i] < f[j]
      /\ \A i \in DOMAIN K : /\ K[i].run = L[f[i]].run /\ K[i].key = L[f[i]].key
                             /\ K[i].age = L[f[i]].age + 1
      /\ \A k \in DOMAIN L : L[k].age + 1 < Day => \E i \in DOMAIN K : f[i] = k
  BY <1>3, <1>4, <1>5, <1>7
<1> QED
  BY <1>2, <1>6, <1>8, <1>9

\* What a new charge changes.
LEMMA Extended ==
  ASSUME NEW S, NEW s \in Seq(S), NEW x \in S
  PROVE  /\ Append(s, x) \in Seq(S) /\ Len(Append(s, x)) = Len(s) + 1
         /\ DOMAIN s = 1..Len(s) /\ DOMAIN Append(s, x) = 1..(Len(s) + 1)
         /\ Append(s, x)[Len(s) + 1] = x
         /\ \A i \in 1..Len(s) : Append(s, x)[i] = s[i]
         /\ Len(s) \in Nat
OBVIOUS
----------------------------------------------------------------------------
(***************************************************************************)
(* What a step does to one process and to the file of its run.             *)
(***************************************************************************)
OthersSame(p) == \A q \in Processes \ {p} : pc'[q] = pc[q] /\ job'[q] = job[q]

Shapes == pc \in [Processes -> Locations] /\ job \in [Processes -> Job]

\* The job of p keeps all but its copy, what it sends and what it has read.
SameErrand(p) == job'[p].run = job[p].run /\ job'[p].mail = job[p].mail

LEMMA JobFields ==
  ASSUME NEW j \in Job
  PROVE  /\ j.run \in Runs \cup {None} /\ j.mail \in Mails \cup {None}
         /\ j.copy \in RunFile \cup {None} /\ j.sending \in {"turn", "report"}
         /\ j.view \in Seq(Charge)
BY DEF Job

LEMMA NewCopy ==
  ASSUME Shapes, NEW p \in Processes, NEW state \in RunFile, NEW place \in Locations,
         job' = [job EXCEPT ![p].copy = state], Goto(p, place)
  PROVE  /\ Shapes' /\ OthersSame(p) /\ SameErrand(p) /\ pc'[p] = place
         /\ job'[p].copy = state /\ job'[p].sending = job[p].sending
         /\ job'[p].view = job[p].view
<1>1. /\ [job[p] EXCEPT !.copy = state] \in Job
      /\ [job[p] EXCEPT !.copy = state].copy = state
      /\ [job[p] EXCEPT !.copy = state].run = job[p].run
      /\ [job[p] EXCEPT !.copy = state].mail = job[p].mail
      /\ [job[p] EXCEPT !.copy = state].sending = job[p].sending
      /\ [job[p] EXCEPT !.copy = state].view = job[p].view
  BY DEF Shapes, Job
<1> DEFINE j == [job[p] EXCEPT !.copy = state]
<1>2. job' = [job EXCEPT ![p] = j]
  OBVIOUS
<1> HIDE DEF j
<1> QED
  BY <1>1, <1>2 DEF Shapes, OthersSame, SameErrand, Goto, j

LEMMA NewSending ==
  ASSUME Shapes, NEW p \in Processes, NEW place \in Locations,
         job' = [job EXCEPT ![p].sending = "turn"], Goto(p, place)
  PROVE  /\ Shapes' /\ OthersSame(p) /\ SameErrand(p) /\ pc'[p] = place
         /\ job'[p].copy = job[p].copy /\ job'[p].sending = "turn"
<1> DEFINE j == [job[p] EXCEPT !.sending = "turn"]
<1>1. /\ j \in Job /\ j.copy = job[p].copy /\ j.run = job[p].run
      /\ j.mail = job[p].mail /\ j.sending = "turn"
  BY DEF Shapes, Job
<1>2. job' = [job EXCEPT ![p] = j]
  OBVIOUS
<1> HIDE DEF j
<1> QED
  BY <1>1, <1>2 DEF Shapes, OthersSame, SameErrand, Goto

LEMMA NewReport ==
  ASSUME Shapes, NEW p \in Processes, NEW state \in RunFile, NEW place \in Locations,
         job' = [job EXCEPT ![p].copy = state, ![p].sending = "report"], Goto(p, place)
  PROVE  /\ Shapes' /\ OthersSame(p) /\ SameErrand(p) /\ pc'[p] = place
         /\ job'[p].copy = state /\ job'[p].sending = "report"
<1> DEFINE j == [job[p] EXCEPT !.copy = state, !.sending = "report"]
<1>1. /\ j \in Job /\ j.copy = state /\ j.run = job[p].run
      /\ j.mail = job[p].mail /\ j.sending = "report"
  BY DEF Shapes, Job
<1>2. job' = [job EXCEPT ![p] = j]
  BY DEF Shapes
<1> HIDE DEF j
<1> QED
  BY <1>1, <1>2 DEF Shapes, OthersSame, SameErrand, Goto

LEMMA NewView ==
  ASSUME Shapes, NEW p \in Processes, NEW view \in Seq(Charge), NEW place \in Locations,
         job' = [job EXCEPT ![p].view = view], Goto(p, place)
  PROVE  /\ Shapes' /\ OthersSame(p) /\ SameErrand(p) /\ pc'[p] = place
         /\ job'[p].copy = job[p].copy /\ job'[p].sending = job[p].sending
         /\ job'[p].view = view
<1> DEFINE j == [job[p] EXCEPT !.view = view]
<1>1. /\ j \in Job /\ j.copy = job[p].copy /\ j.run = job[p].run
      /\ j.mail = job[p].mail /\ j.sending = job[p].sending /\ j.view = view
  BY DEF Shapes, Job
<1>2. job' = [job EXCEPT ![p] = j]
  OBVIOUS
<1> HIDE DEF j
<1> QED
  BY <1>1, <1>2 DEF Shapes, OthersSame, SameErrand, Goto

LEMMA StartedJob ==
  ASSUME Shapes, NEW p \in Processes, NEW j \in Job, NEW place \in Locations,
         job' = [job EXCEPT ![p] = j], Goto(p, place)
  PROVE  Shapes' /\ OthersSame(p) /\ pc'[p] = place /\ job'[p] = j
BY DEF Shapes, OthersSame, Goto

LEMMA JobForFields ==
  ASSUME NEW r \in Runs, NEW m \in Mails \cup {None}, NEW state \in RunFile,
         NEW sending \in {"turn", "report"}
  PROVE  /\ JobFor(r, m, state, sending) \in Job
         /\ JobFor(r, m, state, sending).run = r
         /\ JobFor(r, m, state, sending).copy = state
         /\ JobFor(r, m, state, sending).sending = sending
BY DEF JobFor, Job

LEMMA Ended ==
  ASSUME Shapes, inbox \in Seq(Mails), NEW p \in Processes, NEW answered \in BOOLEAN,
         End(p, answered)
  PROVE  /\ Shapes' /\ OthersSame(p) /\ pc'[p] = "idle" /\ job'[p] = NoJob
         /\ inbox' \in Seq(Mails)
<1>1. NoJob \in Job
  BY DEF NoJob, JobFor, Job
<1>2. Shapes' /\ OthersSame(p) /\ pc'[p] = "idle" /\ job'[p] = NoJob
  BY <1>1 DEF End, Shapes, OthersSame, Goto, Locations
<1>3. inbox' \in Seq(Mails)
  <2>1. CASE job[p].mail = None
    BY <2>1 DEF End
  <2>2. CASE job[p].mail # None
    <3>1. PICK others \in Kept(inbox, Mails \ {job[p].mail}) :
            inbox' = IF answered THEN others ELSE Append(others, job[p].mail)
      BY <2>2 DEF End
    <3>2. others \in Seq(Mails)
      BY KeptRows
    <3>3. job[p].mail \in Mails
      BY <2>2, JobFields DEF Shapes
    <3> QED
      BY <3>1, <3>2, <3>3
  <2> QED
    BY <2>1, <2>2
<1> QED
  BY <1>2, <1>3

LEMMA Saved ==
  ASSUME file \in [Runs -> RunFile \cup {None}], shared \subseteq Runs, NEW p \in Processes,
         NEW r \in Runs, NEW state \in RunFile, SaveRun(p, r, state)
  PROVE  /\ file' \in [Runs -> RunFile \cup {None}] /\ file'[r] = state
         /\ \A t \in Runs \ {r} : file'[t] = file[t]
         /\ shared \subseteq shared' /\ shared' \subseteq Runs
         /\ \A q \in Processes \ {p} : Busy(q) /\ job[q].run = r => r \in shared'
BY DEF SaveRun, Busy

\* A run file, and what the handlers write into it.
LEMMA StateFields ==
  ASSUME NEW state \in RunFile
  PROVE  /\ state # None /\ state.generation \in Nat /\ state.turn \in Nat
         /\ state.report \in Report \cup {None}
         /\ state.halt \in {"none", "stopped", "complete", "other"}
         /\ state.stop \in BOOLEAN
BY Constants DEF RunFile

Halts == {"none", "stopped", "complete", "other"}

Alike(s, t) == s \in RunFile /\ s.generation = t.generation /\ s.report = t.report

LEMMA Written ==
  ASSUME NEW state \in RunFile
  PROVE  /\ \A h \in Halts : Alike([state EXCEPT !.halt = h], state)
         /\ \A h \in Halts : \A b \in BOOLEAN :
              Alike([state EXCEPT !.stop = b, !.halt = h], state)
         /\ \A b \in BOOLEAN : Alike([state EXCEPT !.stop = b], state)
         /\ Alike([state EXCEPT !.turn = @ + 1], state)
<1>1. ASSUME NEW h \in Halts
      PROVE  Alike([state EXCEPT !.halt = h], state)
  BY DEF RunFile, Halts, Alike
<1>2. ASSUME NEW h \in Halts, NEW b \in BOOLEAN
      PROVE  Alike([state EXCEPT !.stop = b, !.halt = h], state)
  BY DEF RunFile, Halts, Alike
<1>3. ASSUME NEW b \in BOOLEAN
      PROVE  Alike([state EXCEPT !.stop = b], state)
  BY DEF RunFile, Alike
<1>4. Alike([state EXCEPT !.turn = @ + 1], state)
  BY DEF RunFile, Alike
<1> QED
  BY <1>1, <1>2, <1>3, <1>4

LEMMA NewFileFields ==
  /\ NewFile \in RunFile /\ NewFile.report = None /\ NewFile.generation = 0
BY DEF NewFile, RunFile
----------------------------------------------------------------------------
(***************************************************************************)
(* Steps that give no report a number, mail none and mark none delivered.  *)
(***************************************************************************)
Base == TypeOK /\ JobInv /\ ReportInv /\ CopiesAgree

\* p works on r with a copy that has the report of the file, and may have saved it.
HasFile(p, r, state) ==
  /\ (file' = file /\ shared' = shared) \/ SaveRun(p, r, state)
  /\ Latest(state)
  /\ file[r] = None => state = NewFile /\ SaveRun(p, r, state)
  /\ r \notin shared' /\ file[r] # None =>
       state.generation = file[r].generation /\ state.report = file[r].report
  /\ pc'[p] # "idle" => job'[p].run = r /\ job'[p].copy = state

Plain(p) ==
  /\ OthersSame(p) /\ sent' = sent
  /\ pc'[p] # "saving"
  /\ \E r \in Runs, state \in RunFile : HasFile(p, r, state)

LEMMA PlainWork ==
  ASSUME Base, NEW p \in Processes, Busy(p), NEW state, Alike(state, Copy(p)),
         OthersSame(p), sent' = sent, pc'[p] # "saving",
         (file' = file /\ shared' = shared) \/ SaveRun(p, job[p].run, state),
         pc'[p] # "idle" => job'[p].run = job[p].run /\ job'[p].copy = state
  PROVE  Plain(p)
<1> DEFINE r == job[p].run
<1>1. r \in Runs /\ state \in RunFile
  BY DEF Base, JobInv, JobOK, Alike
<1>2. shared \subseteq shared'
  BY <1>1, Saved DEF Base, TypeOK
<1>3. Latest(state)
  BY DEF Base, ReportInv, Latest, Alike
<1>4. r \notin shared' => state.generation = file[r].generation /\ state.report = file[r].report
  BY <1>1, <1>2 DEF Base, CopiesAgree, SameReport, Alike
<1>5. file[r] # None
  BY DEF Base, JobInv, JobOK
<1> QED
  BY <1>1, <1>3, <1>4, <1>5 DEF Plain, HasFile

\* The conditions of a process depend on its own place, job and file.
LEMMA OthersOK ==
  ASSUME Base, NEW p \in Processes, OthersSame(p), JobOK(p)',
         \A r \in Runs : file[r] # None => file'[r] # None
  PROVE  JobInv'
<1> SUFFICES ASSUME NEW q \in Processes, q # p
             PROVE  JobOK(q)'
  BY DEF JobInv
<1>1. JobOK(q) /\ pc'[q] = pc[q] /\ job'[q] = job[q]
  BY DEF Base, JobInv, OthersSame
<1> QED
  BY <1>1 DEF JobOK, Busy, Copy, HasReport

\* The copy changes, but not its report, and is saved.
LEMMA SavesCopy ==
  ASSUME Base, NEW p \in Processes, Busy(p), NEW state, Alike(state, Copy(p)),
         NEW place \in {"turning", "recording"}, Save(p, state, place), sent' = sent
  PROVE  /\ Shapes' /\ JobInv' /\ Plain(p)
         /\ file' \in [Runs -> RunFile \cup {None}] /\ shared' \subseteq Runs
         /\ pc'[p] = place
<1>1. job[p].run \in Runs /\ state \in RunFile /\ place \in Locations
  BY DEF Base, JobInv, JobOK, Alike, Locations
<1>2. /\ Shapes' /\ OthersSame(p) /\ SameErrand(p) /\ pc'[p] = place
      /\ job'[p].copy = state
  <2>1. Shapes /\ job' = [job EXCEPT ![p].copy = state] /\ Goto(p, place)
    BY DEF Base, TypeOK, Shapes, Save
  <2> QED
    BY <1>1, <2>1, NewCopy
<1>3. /\ file' \in [Runs -> RunFile \cup {None}] /\ file'[job[p].run] = state
      /\ \A t \in Runs \ {job[p].run} : file'[t] = file[t]
      /\ shared' \subseteq Runs
  BY <1>1, Saved DEF Base, TypeOK, Save
<1>4. Plain(p)
  BY <1>2, PlainWork DEF Save, SameErrand
<1>5. state # None /\ \A r \in Runs : file[r] # None => file'[r] # None
  BY <1>1, <1>3, StateFields
<1>6. JobOK(p)'
  BY <1>1, <1>2, <1>3, <1>5 DEF JobOK, Busy, Copy, SameErrand
<1> QED
  BY <1>2, <1>3, <1>4, <1>5, <1>6, OthersOK

\* A step of p that leaves the ledger alone and sends nothing.
Idle(p) == Plain(p) /\ UNCHANGED <<ledger, today, lost>> /\ pc'[p] # "sending"

LEMMA TurnSteps ==
  ASSUME Base, NEW p \in Processes,
         RefuseTurn(p) \/ LoopLimit(p) \/ Dispatch(p) \/ SaveTurn(p)
  PROVE  TypeOK' /\ JobInv' /\ Idle(p)
<1>1. Busy(p) /\ Copy(p) \in RunFile /\ job[p].run \in Runs /\ file[job[p].run] # None
  <2>1. Busy(p)
    BY DEF RefuseTurn, LoopLimit, Dispatch, SaveTurn, Busy
  <2>2. job[p] \in Job
    BY DEF Base, TypeOK
  <2> QED
    BY <2>1, <2>2, JobFields DEF Base, JobInv, JobOK, Copy
<1>2. UNCHANGED <<ledger, inbox, arrived, sent, today, lost, commands, faults>>
  BY DEF RefuseTurn, LoopLimit, Dispatch, SaveTurn
<1>3. ASSUME NEW state, Alike(state, Copy(p)), NEW place \in {"turning", "recording"},
             Save(p, state, place)
      PROVE  TypeOK' /\ JobInv' /\ Idle(p)
  BY <1>1, <1>2, <1>3, SavesCopy DEF Base, TypeOK, Shapes, Idle
<1>4. CASE RefuseTurn(p)
  <2>1. Alike([Copy(p) EXCEPT !.halt = "stopped"], Copy(p))
    BY <1>1, Written DEF Halts
  <2> QED
    BY <1>3, <1>4, <2>1 DEF RefuseTurn
<1>5. CASE LoopLimit(p)
  <2>1. Alike([Copy(p) EXCEPT !.halt = "other"], Copy(p))
    BY <1>1, Written DEF Halts
  <2> QED
    BY <1>3, <1>5, <2>1 DEF LoopLimit
<1>6. CASE Dispatch(p)
  <2>1. Alike([Copy(p) EXCEPT !.halt = "other"], Copy(p))
    BY <1>1, Written DEF Halts
  <2>2. CASE Save(p, [Copy(p) EXCEPT !.halt = "other"], "recording")
    BY <1>3, <2>1, <2>2
  <2>3. CASE /\ job' = [job EXCEPT ![p].sending = "turn"]
             /\ Goto(p, "reserving")
             /\ UNCHANGED <<file, shared>>
    <3>1. /\ Shapes' /\ OthersSame(p) /\ SameErrand(p) /\ pc'[p] = "reserving"
          /\ job'[p].copy = job[p].copy /\ job'[p].sending = "turn"
      BY <2>3, NewSending DEF Base, TypeOK, Shapes, Locations
    <3>2. Alike(Copy(p), Copy(p))
      BY <1>1 DEF Alike
    <3>3. Plain(p)
      BY <1>1, <1>2, <2>3, <3>1, <3>2, PlainWork DEF Copy, SameErrand
    <3>4. JobOK(p)'
      BY <1>1, <2>3, <3>1, StateFields DEF JobOK, Busy, Copy, SameErrand
    <3>5. JobInv'
      BY <2>3, <3>1, <3>4, OthersOK
    <3>6. TypeOK'
      BY <1>2, <2>3, <3>1 DEF Base, TypeOK, Shapes
    <3> QED
      BY <1>2, <3>1, <3>3, <3>5, <3>6 DEF Idle
  <2> QED
    BY <1>6, <2>2, <2>3 DEF Dispatch
<1>7. CASE SaveTurn(p)
  <2> DEFINE state == [Copy(p) EXCEPT !.turn = @ + 1]
  <2>1. Alike(state, Copy(p)) /\ state \in RunFile
    BY <1>1, Written DEF Alike
  <2>2. CASE Save(p, state, "turning")
    BY <1>3, <2>1, <2>2
  <2> HIDE DEF state
  <2>3. ASSUME NEW h \in {"complete", "other"},
               Save(p, [state EXCEPT !.halt = IF @ = "none" THEN h ELSE @], "recording")
        PROVE  TypeOK' /\ JobInv' /\ Idle(p)
    <3>1. (IF state.halt = "none" THEN h ELSE state.halt) \in Halts
      BY <2>1, <2>3, StateFields DEF Halts
    <3>2. Alike([state EXCEPT !.halt = IF @ = "none" THEN h ELSE @], state)
      BY <2>1, <3>1, Written
    <3>3. Alike([state EXCEPT !.halt = IF @ = "none" THEN h ELSE @], Copy(p))
      BY <2>1, <3>2 DEF Alike
    <3> QED
      BY <1>3, <2>3, <3>3
  <2> QED
    BY <1>7, <2>2, <2>3 DEF SaveTurn, state
<1> QED
  BY <1>4, <1>5, <1>6, <1>7

LEMMA Ends ==
  ASSUME Base, NEW p \in Processes, Busy(p), NEW answered \in BOOLEAN, End(p, answered),
         sent' = sent,
         (file' = file /\ shared' = shared) \/ SaveRun(p, job[p].run, Copy(p))
  PROVE  /\ Shapes' /\ JobInv' /\ Plain(p) /\ inbox' \in Seq(Mails)
         /\ file' \in [Runs -> RunFile \cup {None}] /\ shared' \subseteq Runs
         /\ pc'[p] = "idle"
<1>1. /\ Shapes' /\ OthersSame(p) /\ pc'[p] = "idle" /\ job'[p] = NoJob
      /\ inbox' \in Seq(Mails)
  BY Ended DEF Base, TypeOK, Shapes
<1>2. Copy(p) \in RunFile /\ job[p].run \in Runs
  <2>1. job[p] \in Job
    BY DEF Base, TypeOK
  <2> QED
    BY <2>1, JobFields DEF Base, JobInv, JobOK, Copy
<1>3. /\ file' \in [Runs -> RunFile \cup {None}] /\ shared' \subseteq Runs
      /\ \A r \in Runs : file[r] # None => file'[r] # None
  BY <1>2, Saved, StateFields DEF Base, TypeOK
<1>4. Alike(Copy(p), Copy(p))
  BY <1>2 DEF Alike
<1>5. Plain(p)
  BY <1>1, <1>4, PlainWork
<1>6. JobOK(p)'
  BY <1>1 DEF JobOK, Busy
<1> QED
  BY <1>1, <1>3, <1>5, <1>6, OthersOK

LEMMA NotSentStep ==
  ASSUME Base, NEW p \in Processes, pc[p] \in {"reserving", "sending"}, NotSent(p)
  PROVE  /\ Shapes' /\ JobInv' /\ Plain(p) /\ inbox' \in Seq(Mails)
         /\ file' \in [Runs -> RunFile \cup {None}] /\ shared' \subseteq Runs
         /\ pc'[p] # "sending" /\ UNCHANGED <<sent, today, lost>>
<1>1. Busy(p) /\ sent' = sent /\ UNCHANGED <<sent, today, lost>>
  BY DEF NotSent, Busy
<1>2. CASE Save(p, [Copy(p) EXCEPT !.halt = "other"], "recording") /\ UNCHANGED inbox
  <2>1. job[p] \in Job
    BY DEF Base, TypeOK
  <2>2. Copy(p) \in RunFile
    BY <1>1, <2>1, JobFields DEF Base, JobInv, JobOK, Copy
  <2>3. Alike([Copy(p) EXCEPT !.halt = "other"], Copy(p))
    BY <2>2, Written DEF Halts
  <2> QED
    BY <1>1, <1>2, <2>3, SavesCopy DEF Base, TypeOK
<1>3. CASE End(p, FALSE) /\ UNCHANGED <<file, shared>>
  BY <1>1, <1>3, Ends
<1> QED
  BY <1>2, <1>3, <1>1 DEF NotSent

LEMMA StopStep ==
  ASSUME Base, StopSaved
  PROVE  TypeOK' /\ JobInv' /\ Idle(Cli)
<1>1. Cli \in Processes /\ Busy(Cli)
  BY DEF Processes, StopSaved, Busy
<1>2. UNCHANGED <<ledger, arrived, sent, today, lost, commands, faults>>
  BY DEF StopSaved
<1>3. /\ Shapes' /\ JobInv' /\ Plain(Cli) /\ inbox' \in Seq(Mails)
      /\ file' \in [Runs -> RunFile \cup {None}] /\ shared' \subseteq Runs
      /\ pc'[Cli] = "idle"
  BY <1>1, <1>2, Ends DEF StopSaved
<1> QED
  BY <1>2, <1>3 DEF Base, TypeOK, Shapes, Idle

LEMMA FaultSteps ==
  ASSUME Base, NEW p \in Processes, RefusedSend(p) \/ Crash(p)
  PROVE  TypeOK' /\ JobInv' /\ Idle(p)
<1>1. faults' \in 0..MaxFaults
  <2>1. faults < MaxFaults /\ faults' = faults + 1
    BY DEF RefusedSend, Crash, Fault
  <2>2. faults \in 0..MaxFaults
    BY DEF Base, TypeOK
  <2> QED
    BY <2>1, <2>2, Constants
<1>2. CASE RefusedSend(p)
  <2>1. /\ Shapes' /\ JobInv' /\ Plain(p) /\ inbox' \in Seq(Mails)
        /\ file' \in [Runs -> RunFile \cup {None}] /\ shared' \subseteq Runs
        /\ pc'[p] # "sending" /\ UNCHANGED <<sent, today, lost>>
    BY <1>2, NotSentStep DEF RefusedSend
  <2> QED
    BY <1>1, <1>2, <2>1 DEF RefusedSend, Base, TypeOK, Shapes, Idle
<1>3. CASE Crash(p)
  <2>1. /\ Shapes' /\ JobInv' /\ Plain(p) /\ inbox' \in Seq(Mails)
        /\ file' \in [Runs -> RunFile \cup {None}] /\ shared' \subseteq Runs
        /\ pc'[p] = "idle"
    BY <1>3, Ends DEF Crash, Busy, files, history
  <2> QED
    BY <1>1, <1>3, <2>1 DEF Crash, files, history, Base, TypeOK, Shapes, Idle
<1> QED
  BY <1>2, <1>3

\* check_and_reserve and its write change neither the copy nor the file.
LEMMA SameCopy ==
  ASSUME Base, NEW p \in Processes, Busy(p), OthersSame(p), SameErrand(p),
         job'[p].copy = job[p].copy, job'[p].sending = job[p].sending,
         UNCHANGED <<file, sent, shared>>,
         pc[p] \in {"reserving", "writing"}, pc'[p] \in {"writing", "sending"},
         pc'[p] = "writing" => ~Blocked(job'[p].view, job'[p].run)
  PROVE  JobInv' /\ Plain(p)
<1>1. Copy(p) \in RunFile
  <2>1. job[p] \in Job
    BY DEF Base, TypeOK
  <2> QED
    BY <2>1, JobFields DEF Base, JobInv, JobOK, Copy
<1>2. Alike(Copy(p), Copy(p))
  BY <1>1 DEF Alike
<1>3. Plain(p)
  BY <1>2, PlainWork DEF Copy, SameErrand
<1>4. JobOK(p)
  BY DEF Base, JobInv
<1>5. JobOK(p)'
  BY <1>4 DEF JobOK, Busy, Copy, SameErrand, HasReport, Blocked, ForRun, InHour
<1> QED
  BY <1>3, <1>5, OthersOK

LEMMA ReserveStep ==
  ASSUME Base, NEW p \in Processes, Reserve(p)
  PROVE  /\ TypeOK' /\ JobInv' /\ Plain(p) /\ UNCHANGED <<ledger, today, lost>>
         /\ \/ pc'[p] # "sending"
            \/ /\ pc'[p] = "sending" /\ job' = job /\ Reserved(p, ledger)
               /\ file' = file /\ shared' = shared
<1>1. Busy(p) /\ pc[p] = "reserving" /\ UNCHANGED <<ledger, arrived, commands, faults>>
  BY DEF Reserve, Busy
<1>2. CASE /\ Reserved(p, ledger)
           /\ Goto(p, "sending")
           /\ UNCHANGED <<file, inbox, job, history>>
  <2>1. /\ pc' \in [Processes -> Locations] /\ OthersSame(p) /\ SameErrand(p)
        /\ pc'[p] = "sending"
    BY <1>2 DEF Base, TypeOK, Goto, Locations, OthersSame, SameErrand
  <2>2. JobInv' /\ Plain(p)
    BY <1>1, <1>2, <2>1, SameCopy DEF history
  <2> QED
    BY <1>1, <1>2, <2>1, <2>2 DEF Base, TypeOK, history
<1>3. CASE NotSent(p)
  <2>1. /\ Shapes' /\ JobInv' /\ Plain(p) /\ inbox' \in Seq(Mails)
        /\ file' \in [Runs -> RunFile \cup {None}] /\ shared' \subseteq Runs
        /\ pc'[p] # "sending" /\ UNCHANGED <<sent, today, lost>>
    BY <1>1, <1>3, NotSentStep
  <2> QED
    BY <1>1, <2>1 DEF Base, TypeOK, Shapes
<1>4. CASE /\ ~Blocked(ledger, job[p].run)
           /\ job' = [job EXCEPT ![p].view = ledger]
           /\ Goto(p, "writing")
           /\ UNCHANGED <<file, inbox, history>>
  <2>1. /\ Shapes' /\ OthersSame(p) /\ SameErrand(p) /\ pc'[p] = "writing"
        /\ job'[p].copy = job[p].copy /\ job'[p].sending = job[p].sending
        /\ job'[p].view = ledger
    BY <1>4, NewView DEF Base, TypeOK, Shapes, Locations
  <2>2. JobInv' /\ Plain(p)
    BY <1>1, <1>4, <2>1, SameCopy DEF history, SameErrand
  <2> QED
    BY <1>1, <1>4, <2>1, <2>2 DEF Base, TypeOK, history, Shapes
<1> QED
  BY <1>2, <1>3, <1>4 DEF Reserve

(***************************************************************************)
(* A process takes up a run.                                               *)
(***************************************************************************)
LEMMA Starts ==
  ASSUME Base, NEW p \in Processes, NEW r \in Runs, NEW m \in Mails \cup {None},
         NEW state \in RunFile, NEW sending \in {"turn", "report"},
         NEW place \in {"stopping", "turning", "recording", "reserving"},
         job' = [job EXCEPT ![p] = JobFor(r, m, state, sending)], Goto(p, place),
         sent' = sent, (file' = file /\ shared' = shared) \/ SaveRun(p, r, state),
         file[r] = None => state = NewFile /\ SaveRun(p, r, state),
         file[r] # None => Alike(state, file[r]),
         sending = "report" => state.report # None /\ state.report.status = "pending"
  PROVE  /\ Shapes' /\ JobInv' /\ Plain(p) /\ pc'[p] = place
         /\ file' \in [Runs -> RunFile \cup {None}] /\ shared' \subseteq Runs
<1>1. /\ JobFor(r, m, state, sending) \in Job
      /\ JobFor(r, m, state, sending).run = r
      /\ JobFor(r, m, state, sending).copy = state
      /\ JobFor(r, m, state, sending).sending = sending
  BY JobForFields
<1>2. Shapes' /\ OthersSame(p) /\ pc'[p] = place /\ job'[p] = JobFor(r, m, state, sending)
  BY <1>1, StartedJob DEF Base, TypeOK, Shapes, Locations
<1>3. /\ file' \in [Runs -> RunFile \cup {None}] /\ shared' \subseteq Runs
      /\ shared \subseteq shared' /\ file'[r] # None
      /\ \A t \in Runs : file[t] # None => file'[t] # None
  <2>1. CASE file' = file /\ shared' = shared
    <3>1. file[r] # None
      <4>1. ASSUME file[r] = None
            PROVE  FALSE
        <5>1. SaveRun(p, r, state)
          BY <4>1
        <5>2. file'[r] = state
          BY <5>1, Saved DEF Base, TypeOK
        <5> QED
          BY <2>1, <4>1, <5>2, StateFields
      <4> QED
        BY <4>1
    <3> QED
      BY <2>1, <3>1 DEF Base, TypeOK
  <2>2. CASE SaveRun(p, r, state)
    BY <2>2, Saved, StateFields DEF Base, TypeOK
  <2> QED
    BY <2>1, <2>2
<1>4. Latest(state)
  BY NewFileFields DEF Base, ReportInv, Latest, Alike
<1>5. Plain(p)
  BY <1>1, <1>2, <1>4 DEF Plain, HasFile, Alike
<1>6. JobOK(p)'
  BY <1>1, <1>2, <1>3, StateFields DEF JobOK, Busy, Copy, HasReport
<1> QED
  BY <1>2, <1>3, <1>5, <1>6, OthersOK

LEMMA HandlingSteps ==
  ASSUME Base, NEW m \in Mails, Known(m), NEW state \in {file[RunOf[m]]},
         \/ RetryReport(m, state) \/ HandleCommission(m, state)
         \/ HandleStop(m, state) \/ HandleGuidance(m, state)
  PROVE  TypeOK' /\ JobInv' /\ Idle(Serve)
<1> DEFINE r == RunOf[m]
<1>1. /\ r \in Runs /\ Serve \in Processes /\ state = file[r]
      /\ state # None => state \in RunFile
  BY Constants DEF Base, TypeOK, Processes
<1> HIDE DEF r
<1>2. ASSUME NEW copy \in RunFile, NEW sending \in {"turn", "report"},
             NEW place \in {"turning", "recording", "reserving"},
             Handling(m, copy, sending, place),
             (file' = file /\ shared' = shared) \/ SaveRun(Serve, r, copy),
             state = None => copy = NewFile /\ SaveRun(Serve, r, copy),
             state # None => Alike(copy, state),
             sending = "report" => copy.report # None /\ copy.report.status = "pending"
      PROVE  TypeOK' /\ JobInv' /\ Idle(Serve)
  <2>1. UNCHANGED <<ledger, inbox, arrived, sent, today, lost, commands, faults>>
    BY <1>2 DEF Handling
  <2>2. job' = [job EXCEPT ![Serve] = JobFor(r, m, copy, sending)] /\ Goto(Serve, place)
    BY <1>2 DEF Handling, r
  <2>3. /\ Shapes' /\ JobInv' /\ Plain(Serve) /\ pc'[Serve] = place
        /\ file' \in [Runs -> RunFile \cup {None}] /\ shared' \subseteq Runs
    BY <1>1, <1>2, <2>1, <2>2, Starts
  <2> QED
    BY <2>1, <2>3 DEF Base, TypeOK, Shapes, Idle
<1>3. CASE RetryReport(m, state)
  <2>1. state # None /\ state.report # None /\ state.report.status = "pending"
    BY <1>3 DEF RetryReport, Answered
  <2>2. state \in RunFile /\ Alike(state, state)
    BY <1>1, <2>1 DEF Alike
  <2> QED
    BY <1>2, <1>3, <2>1, <2>2 DEF RetryReport
<1>4. CASE HandleCommission(m, state)
  <2>1. CASE /\ state = None
             /\ Handling(m, NewFile, "turn", "turning") /\ SaveRun(Serve, r, NewFile)
    BY <1>2, <2>1, NewFileFields
  <2>2. CASE /\ state # None
             /\ Handling(m, [state EXCEPT !.halt = "none"], "turn", "turning")
             /\ UNCHANGED <<file, shared>>
    <3>1. Alike([state EXCEPT !.halt = "none"], state)
      BY <1>1, <2>2, Written DEF Halts
    <3> QED
      BY <1>2, <2>2, <3>1 DEF Alike
  <2> QED
    BY <1>4, <2>1, <2>2 DEF HandleCommission, r
<1>5. CASE HandleStop(m, state)
  <2> DEFINE stopped == [state EXCEPT !.stop = TRUE, !.halt = "stopped"]
  <2>1. state # None
    BY <1>1, <1>5, Constants DEF HandleStop, Known, r
  <2>2. Alike(stopped, state)
    BY <1>1, <2>1, Written DEF Halts
  <2> QED
    BY <1>2, <1>5, <2>1, <2>2 DEF HandleStop, Alike, r
<1>6. CASE HandleGuidance(m, state)
  <2>1. PICK noted \in Noted(state, FALSE) :
          Handling(m, noted, "turn", "turning") /\ SaveRun(Serve, r, noted)
    BY <1>6 DEF HandleGuidance, r
  <2>2. state # None
    BY <1>1, <1>6 DEF HandleGuidance, Known, r
  <2>3. Alike(noted, state)
    <3>1. state \in RunFile /\ state.halt \in Halts
      BY <1>1, <2>2, StateFields DEF Halts
    <3>2. PICK h \in {"none", state.halt} :
            noted = [state EXCEPT !.stop = FALSE, !.halt = h]
      BY <2>1 DEF Noted
    <3>3. h \in Halts
      BY <3>1 DEF Halts
    <3> QED
      BY <3>1, <3>2, <3>3, Written
  <2> QED
    BY <1>2, <2>1, <2>2, <2>3 DEF Alike
<1> QED
  BY <1>3, <1>4, <1>5, <1>6

LEMMA CommandSteps ==
  ASSUME Base, NEW r \in Runs, CmdStop(r) \/ CmdRetry(r) \/ CmdResume(r)
  PROVE  TypeOK' /\ JobInv' /\ Idle(Cli)
<1>1. Cli \in Processes /\ file[r] # None /\ file[r] \in RunFile
  BY DEF Base, TypeOK, Processes, CmdStop, CmdRetry, CmdResume
<1>2. ASSUME NEW copy, Alike(copy, file[r]), NEW place \in {"stopping", "turning"},
             Command(r, copy, place),
             (file' = file /\ shared' = shared) \/ SaveRun(Cli, r, copy)
      PROVE  TypeOK' /\ JobInv' /\ Idle(Cli)
  <2>1. UNCHANGED <<ledger, inbox, arrived, sent, today, lost, faults>>
    BY <1>2 DEF Command
  <2>2. commands' \in 0..MaxCommands
    <3>1. commands < MaxCommands /\ commands' = commands + 1
      BY <1>2 DEF Command
    <3>2. commands \in 0..MaxCommands
      BY DEF Base, TypeOK
    <3> QED
      BY <3>1, <3>2, Constants
  <2>3. job' = [job EXCEPT ![Cli] = JobFor(r, None, copy, "turn")] /\ Goto(Cli, place)
    BY <1>2 DEF Command
  <2>4. copy \in RunFile
    BY <1>2 DEF Alike
  <2>5. /\ Shapes' /\ JobInv' /\ Plain(Cli) /\ pc'[Cli] = place
        /\ file' \in [Runs -> RunFile \cup {None}] /\ shared' \subseteq Runs
    BY <1>1, <1>2, <2>1, <2>3, <2>4, Starts
  <2> QED
    BY <2>1, <2>2, <2>5 DEF Base, TypeOK, Shapes, Idle
<1>3. CASE CmdStop(r)
  <2>1. Alike([file[r] EXCEPT !.halt = "stopped"], file[r])
    BY <1>1, Written DEF Halts
  <2> QED
    BY <1>2, <1>3, <2>1 DEF CmdStop
<1>4. CASE CmdRetry(r)
  <2>1. Alike([file[r] EXCEPT !.halt = "none"], file[r])
    BY <1>1, Written DEF Halts
  <2> QED
    BY <1>2, <1>4, <2>1 DEF CmdRetry
<1>5. CASE CmdResume(r)
  <2>1. CASE Command(r, file[r], "turning") /\ UNCHANGED <<file, shared>>
    BY <1>1, <1>2, <2>1 DEF Alike
  <2>2. ASSUME NEW stop \in BOOLEAN, NEW state \in Noted(file[r], stop),
               Command(r, state, "turning"), SaveRun(Cli, r, state)
        PROVE  Alike(state, file[r])
    <3>1. file[r].halt \in Halts
      BY <1>1, StateFields DEF Halts
    <3>2. CASE stop
      BY <1>1, <2>2, <3>2, Written DEF Noted
    <3>3. CASE ~stop
      <4>1. PICK h \in {"none", file[r].halt} :
              state = [file[r] EXCEPT !.stop = FALSE, !.halt = h]
        BY <2>2, <3>3 DEF Noted
      <4> QED
        BY <1>1, <3>1, <4>1, Written DEF Halts
    <3> QED
      BY <3>2, <3>3
  <2> QED
    BY <1>2, <1>5, <2>1, <2>2 DEF CmdResume
<1> QED
  BY <1>3, <1>4, <1>5

\* The key and the charge of what a process is about to mail.
LEMMA Charges ==
  ASSUME Base, NEW p \in Processes, pc[p] \in {"reserving", "writing", "sending", "saving"}
  PROVE  /\ Copy(p) \in RunFile /\ job[p].run \in Runs
         /\ job[p].sending \in {"turn", "report"}
         /\ job[p].sending = "turn" => Key(p) = 0
         /\ job[p].sending = "report" =>
              /\ Copy(p).report \in Report /\ Copy(p).report.status = "pending"
              /\ Key(p) = Copy(p).generation /\ Key(p) = Copy(p).report.generation
              /\ Key(p) # 0
         /\ Key(p) \in Nat
         /\ ChargeOf(p) \in Charge /\ ChargeOf(p).run = job[p].run
         /\ ChargeOf(p).key = Key(p) /\ ChargeOf(p).age = 0
<1>1. Busy(p)
  BY DEF Busy
<1>2. job[p] \in Job
  BY DEF Base, TypeOK
<1>3. Copy(p) \in RunFile /\ job[p].run \in Runs /\ job[p].sending \in {"turn", "report"}
  BY <1>1, <1>2, JobFields DEF Base, JobInv, JobOK, Copy
<1>4. job[p].sending = "turn" => Key(p) = 0
  BY DEF Key
<1>5. job[p].sending = "report" =>
        /\ Copy(p).report \in Report /\ Copy(p).report.status = "pending"
        /\ Key(p) = Copy(p).generation /\ Key(p) = Copy(p).report.generation
  BY <1>1, <1>3, StateFields
  DEF Base, JobInv, JobOK, HasReport, ReportInv, Latest, Key
<1>6. job[p].sending = "report" => Key(p) \in Nat \ {0}
  BY <1>5 DEF Report
<1>7. Key(p) \in Nat
  BY <1>3, <1>4, <1>6
<1>8. 0 \in 0..Day-1
  BY Constants
<1> QED
  BY <1>3, <1>4, <1>5, <1>6, <1>7, <1>8 DEF ChargeOf, Charge

LEMMA WriteStep ==
  ASSUME Base, NEW p \in Processes, WriteLedger(p)
  PROVE  TypeOK' /\ JobInv' /\ Plain(p) /\ file' = file /\ shared' = shared
         /\ pc'[p] = "sending" /\ SameErrand(p) /\ job'[p].copy = job[p].copy
         /\ job'[p].sending = job[p].sending
<1>1. /\ pc[p] = "writing" /\ Busy(p)
      /\ UNCHANGED <<file, inbox, arrived, sent, shared, commands, faults>>
  BY DEF WriteLedger, Busy
<1>2. <<>> \in Seq(Charge)
  OBVIOUS
<1>3. /\ Shapes' /\ OthersSame(p) /\ SameErrand(p) /\ pc'[p] = "sending"
      /\ job'[p].copy = job[p].copy /\ job'[p].sending = job[p].sending
  BY <1>2, NewView DEF WriteLedger, Base, TypeOK, Shapes, Locations
<1>4. JobInv' /\ Plain(p)
  BY <1>1, <1>3, SameCopy
<1>5. ChargeOf(p) \in Charge
  BY <1>1, Charges
<1>6. job[p].view \in Seq(Charge)
  BY JobFields DEF Base, TypeOK
<1>7. ledger' \in Seq(Charge)
  BY <1>5, <1>6 DEF WriteLedger
<1>8. lost' \in BOOLEAN /\ today' \in Seq(Charge)
  <2>1. lost' \in BOOLEAN
    BY DEF WriteLedger
  <2>2. today' = <<>> \/ today' = today
    BY DEF WriteLedger
  <2> QED
    BY <2>1, <2>2, <1>2 DEF Base, TypeOK
<1> QED
  BY <1>1, <1>3, <1>4, <1>7, <1>8 DEF Base, TypeOK, Shapes
----------------------------------------------------------------------------
(***************************************************************************)
(* A report is recorded, mailed and marked delivered.                      *)
(***************************************************************************)
\* p saves state, and has it as its copy if it goes on.
Writes(p, state) ==
  /\ OthersSame(p) /\ state \in RunFile /\ SaveRun(p, job[p].run, state)
  /\ pc'[p] \notin {"saving", "sending"}
  /\ Busy(p)' => job'[p].run = job[p].run /\ job'[p].copy = state
  /\ UNCHANGED <<sent, ledger, today, lost>>

LEMMA RecordStep ==
  ASSUME Base, NEW p \in Processes, RecordReport(p)
  PROVE  /\ TypeOK' /\ JobInv' /\ Busy(p)
         /\ \E state : /\ Writes(p, state) /\ Latest(state)
                       /\ state.generation = Copy(p).generation + 1
                       /\ state.report.status = "pending"
<1> DEFINE number == Copy(p).generation + 1
           report == [generation |-> number, request |-> job[p].mail,
                      command |-> IF p = Cli THEN commands ELSE 0,
                      status |-> "pending"]
           state == [Copy(p) EXCEPT !.generation = number, !.report = report]
<1>1. /\ pc[p] = "recording" /\ Busy(p)
      /\ UNCHANGED <<ledger, inbox, arrived, sent, today, lost, commands, faults>>
  BY DEF RecordReport, Record, Busy
<1>2. Copy(p) \in RunFile /\ job[p].run \in Runs /\ job[p].mail \in Mails \cup {None}
  <2>1. job[p] \in Job
    BY DEF Base, TypeOK
  <2> QED
    BY <1>1, <2>1, JobFields DEF Base, JobInv, JobOK, Copy
<1>3. number \in Nat \ {0}
  BY <1>2, StateFields
<1>4. commands \in Nat
  BY Constants DEF Base, TypeOK
<1>5. report \in Report /\ report.generation = number /\ report.status = "pending"
  <2> HIDE DEF number
  <2> QED
    BY <1>2, <1>3, <1>4 DEF Report
<1>6. state \in RunFile /\ state.generation = number /\ state.report = report
  <2>1. number \in Nat \ {0} /\ report \in Report
    BY <1>3, <1>5
  <2> HIDE DEF number, report
  <2> QED
    <3>1. ASSUME NEW n \in Nat \ {0}, NEW made \in Report
          PROVE  LET new == [Copy(p) EXCEPT !.generation = n, !.report = made]
                 IN  new \in RunFile /\ new.generation = n /\ new.report = made
      <4>1. Copy(p) \in RunFile
        BY <1>2
      <4> QED
        BY <4>1 DEF RunFile
    <3> QED
      BY <2>1, <3>1, Zenon
<1>7. /\ job' = [job EXCEPT ![p].copy = state, ![p].sending = "report"]
      /\ SaveRun(p, job[p].run, state)
      /\ Goto(p, "reserving")
  BY DEF RecordReport, Record
<1> HIDE DEF state
<1>8. /\ Shapes' /\ OthersSame(p) /\ SameErrand(p) /\ pc'[p] = "reserving"
      /\ job'[p].copy = state /\ job'[p].sending = "report"
  BY <1>6, <1>7, NewReport DEF Base, TypeOK, Shapes, Locations
<1>9. /\ file' \in [Runs -> RunFile \cup {None}] /\ shared' \subseteq Runs
      /\ file'[job[p].run] = state
      /\ \A t \in Runs \ {job[p].run} : file'[t] = file[t]
  BY <1>2, <1>6, <1>7, Saved DEF Base, TypeOK
<1>10. JobOK(p)'
  BY <1>2, <1>5, <1>6, <1>8, <1>9, StateFields, Constants
  DEF JobOK, Busy, Copy, HasReport, SameErrand
<1>11. JobInv'
  BY <1>6, <1>8, <1>9, <1>10, OthersOK, StateFields
<1>12. TypeOK'
  BY <1>1, <1>8, <1>9 DEF Base, TypeOK, Shapes
<1>13. Writes(p, state)
  BY <1>1, <1>6, <1>7, <1>8 DEF Writes, SameErrand
<1>14. Latest(state) /\ state.report.status = "pending"
  BY <1>5, <1>6 DEF Latest
<1> QED
  BY <1>1, <1>6, <1>11, <1>12, <1>13, <1>14

LEMMA Delivered ==
  ASSUME NEW state \in RunFile, state.report \in Report
  PROVE  LET new == [state EXCEPT !.report.status = "delivered"]
         IN  /\ new \in RunFile /\ new.generation = state.generation
             /\ new.report = [state.report EXCEPT !.status = "delivered"]
<1> DEFINE report == [state.report EXCEPT !.status = "delivered"]
<1>1. report \in Report
  BY DEF Report
<1>2. [state EXCEPT !.report.status = "delivered"] = [state EXCEPT !.report = report]
  BY DEF RunFile
<1> HIDE DEF report
<1>3. /\ [state EXCEPT !.report = report] \in RunFile
      /\ [state EXCEPT !.report = report].generation = state.generation
      /\ [state EXCEPT !.report = report].report = report
  BY <1>1 DEF RunFile
<1> QED
  BY <1>2, <1>3 DEF report

LEMMA DeliveredReport ==
  ASSUME NEW report \in Report, report.status = "pending"
  PROVE  /\ [report EXCEPT !.status = "delivered"] \in Report
         /\ [report EXCEPT !.status = "delivered"].generation = report.generation
         /\ [[report EXCEPT !.status = "delivered"] EXCEPT !.status = "pending"] = report
         /\ [report EXCEPT !.status = "pending"] = report
BY DEF Report

LEMMA DeliveredStep ==
  ASSUME Base, NEW p \in Processes, SaveDelivered(p)
  PROVE  /\ TypeOK' /\ JobInv' /\ Busy(p) /\ pc[p] = "saving"
         /\ job[p].sending = "report" /\ pc'[p] = "idle"
         /\ \E state : /\ Writes(p, state) /\ Latest(state)
                       /\ state.generation = Copy(p).generation
                       /\ state.report = [Copy(p).report EXCEPT !.status = "delivered"]
<1> DEFINE state == [Copy(p) EXCEPT !.report.status = "delivered"]
<1>1. /\ pc[p] = "saving" /\ Busy(p) /\ job[p].sending = "report"
      /\ UNCHANGED <<ledger, arrived, sent, today, lost, commands, faults>>
      /\ SaveRun(p, job[p].run, state) /\ End(p, TRUE)
  BY DEF SaveDelivered, Busy
<1>2. /\ Copy(p) \in RunFile /\ job[p].run \in Runs /\ Copy(p).report \in Report
      /\ Copy(p).report.status = "pending"
      /\ Copy(p).generation = Copy(p).report.generation
  BY <1>1, Charges
<1>3. /\ state \in RunFile /\ state.generation = Copy(p).generation
      /\ state.report = [Copy(p).report EXCEPT !.status = "delivered"]
  BY <1>2, Delivered
<1> HIDE DEF state
<1>4. /\ Shapes' /\ OthersSame(p) /\ pc'[p] = "idle" /\ inbox' \in Seq(Mails)
  BY <1>1, Ended DEF Base, TypeOK, Shapes
<1>5. /\ file' \in [Runs -> RunFile \cup {None}] /\ shared' \subseteq Runs
      /\ file'[job[p].run] = state
      /\ \A t \in Runs \ {job[p].run} : file'[t] = file[t]
  BY <1>1, <1>2, <1>3, Saved DEF Base, TypeOK
<1>6. JobInv'
  <2>1. JobOK(p)'
    BY <1>4 DEF JobOK, Busy
  <2> QED
    BY <1>3, <1>4, <1>5, <2>1, OthersOK, StateFields
<1>7. TypeOK'
  BY <1>1, <1>4, <1>5 DEF Base, TypeOK, Shapes
<1>8. Writes(p, state)
  BY <1>1, <1>3, <1>4 DEF Writes, Busy
<1>9. Latest(state)
  BY <1>2, <1>3, DeliveredReport DEF Latest
<1> QED
  BY <1>1, <1>3, <1>4, <1>6, <1>7, <1>8, <1>9

\* The provider had mailed under this key before.
Again(p) == \E s \in sent : s[1] = job[p].run /\ s[2].generation = Key(p)

LEMMA SendStep ==
  ASSUME Base, NEW p \in Processes, Send(p)
  PROVE  /\ TypeOK' /\ JobInv' /\ OthersSame(p) /\ pc[p] = "sending" /\ pc'[p] = "saving"
         /\ UNCHANGED <<file, ledger, job, lost, shared>>
         /\ sent' = IF Key(p) = 0 \/ Again(p) THEN sent
                    ELSE sent \cup {<<job[p].run, Copy(p).report>>}
         /\ today' = IF lost \/ Again(p) THEN today ELSE Append(today, ChargeOf(p))
<1>1. /\ pc[p] = "sending" /\ Goto(p, "saving")
      /\ UNCHANGED <<files, inbox, arrived, job, lost, shared, commands, faults>>
      /\ sent' = IF Key(p) = 0 \/ Again(p) THEN sent
                 ELSE sent \cup {<<job[p].run, Copy(p).report>>}
      /\ today' = IF lost \/ Again(p) THEN today ELSE Append(today, ChargeOf(p))
  BY DEF Send, Again
<1>2. pc' \in [Processes -> Locations] /\ OthersSame(p) /\ pc'[p] = "saving"
  BY <1>1 DEF Base, TypeOK, Goto, Locations, OthersSame
<1>3. /\ job[p].run \in Runs /\ ChargeOf(p) \in Charge
      /\ Key(p) # 0 => Copy(p).report \in Report
  BY <1>1, Charges
<1>4. sent' \subseteq Runs \X Report
  BY <1>1, <1>3 DEF Base, TypeOK
<1>5. today' \in Seq(Charge)
  BY <1>1, <1>3 DEF Base, TypeOK
<1>6. TypeOK'
  BY <1>1, <1>2, <1>4, <1>5 DEF Base, TypeOK, files
<1>7. JobOK(p)
  BY DEF Base, JobInv
<1>8. JobOK(p)'
  BY <1>1, <1>2, <1>7 DEF JobOK, Busy, Copy, HasReport, files
<1>9. JobInv'
  BY <1>1, <1>2, <1>8, OthersOK DEF files
<1> QED
  BY <1>1, <1>2, <1>6, <1>9 DEF files
----------------------------------------------------------------------------
(***************************************************************************)
(* What is stored of a report, what processes know of it and what was      *)
(* mailed agree.                                                           *)
(***************************************************************************)
LEMMA FileEffect ==
  ASSUME Base, NEW p \in Processes, NEW r \in Runs, NEW state \in RunFile,
         (file' = file /\ shared' = shared) \/ SaveRun(p, r, state)
  PROVE  /\ shared \subseteq shared'
         /\ \A t \in Runs \ {r} : file'[t] = file[t]
         /\ file'[r] = state \/ (file'[r] = file[r] /\ file' = file)
         /\ file' # file =>
              \A q \in Processes \ {p} : Busy(q) /\ job[q].run = r => r \in shared'
<1>1. CASE file' = file /\ shared' = shared
  BY <1>1
<1>2. CASE SaveRun(p, r, state)
  BY <1>2, Saved DEF Base, TypeOK
<1> QED
  BY <1>1, <1>2

LEMMA PlainReports ==
  ASSUME Base, DeliveryInv, TypeOK', NEW p \in Processes, Plain(p)
  PROVE  ReportInv' /\ CopiesAgree' /\ DeliveryInv'
<1>1. PICK r \in Runs, state \in RunFile : HasFile(p, r, state)
  BY DEF Plain
<1>2. /\ OthersSame(p) /\ sent' = sent /\ pc'[p] # "saving"
      /\ (file' = file /\ shared' = shared) \/ SaveRun(p, r, state)
      /\ Latest(state)
      /\ file[r] = None => state = NewFile /\ SaveRun(p, r, state)
      /\ r \notin shared' /\ file[r] # None =>
           state.generation = file[r].generation /\ state.report = file[r].report
      /\ pc'[p] # "idle" => job'[p].run = r /\ job'[p].copy = state
  BY <1>1 DEF Plain, HasFile
<1>3. /\ shared \subseteq shared'
      /\ \A t \in Runs \ {r} : file'[t] = file[t]
      /\ file'[r] = state \/ (file'[r] = file[r] /\ file' = file)
      /\ file' # file => \A q \in Processes \ {p} : Busy(q) /\ job[q].run = r => r \in shared'
  BY <1>2, FileEffect
<1>4. \A q \in Processes \ {p} : pc'[q] = pc[q] /\ job'[q] = job[q]
  BY <1>2 DEF OthersSame
<1>5. file[r] = None => file'[r] = state /\ state = NewFile
  BY <1>2, Saved DEF Base, TypeOK
<1>6. file'[r] # None /\ state # None
  BY <1>3, <1>5, StateFields
<1>7. r \notin shared' /\ file[r] # None =>
        /\ file'[r].generation = file[r].generation /\ file'[r].report = file[r].report
        /\ state.generation = file'[r].generation /\ state.report = file'[r].report
  BY <1>2, <1>3
<1>8. ReportInv'
  <2>1. \A t \in Runs : file'[t] # None => Latest(file'[t])
    BY <1>2, <1>3 DEF Base, ReportInv, Latest
  <2>2. \A q \in Processes : pc'[q] # "idle" => Latest(job'[q].copy)
    BY <1>2, <1>4 DEF Base, ReportInv, Busy, Copy, Latest
  <2> QED
    BY <2>1, <2>2 DEF ReportInv, Busy, Copy, Latest
<1>9. CopiesAgree'
  <2> SUFFICES ASSUME NEW t \in Runs, t \notin shared', NEW q \in Processes,
                      pc'[q] # "idle", job'[q].run = t
               PROVE  /\ job'[q].copy.generation = file'[t].generation
                      /\ job'[q].copy.report = file'[t].report
    BY DEF CopiesAgree, SameReport, Busy, Copy
  <2>1. CASE q = p
    <3>1. t = r /\ job'[q].copy = state
      BY <1>2, <2>1
    <3> QED
      BY <1>5, <1>7, <3>1
  <2>2. CASE q # p
    <3>1. pc[q] # "idle" /\ job[q].run = t /\ job'[q] = job[q] /\ t \notin shared
      BY <1>3, <1>4, <2>2
    <3>2. /\ job[q].copy.generation = file[t].generation
          /\ job[q].copy.report = file[t].report
      BY <3>1 DEF Base, CopiesAgree, SameReport, Busy, Copy
    <3>3. CASE t # r
      BY <1>3, <3>1, <3>2, <3>3
    <3>4. CASE t = r
      <4>1. file' = file
        BY <1>3, <2>2, <3>1, <3>4 DEF Busy
      <4> QED
        BY <3>1, <3>2, <4>1
    <3> QED
      BY <3>3, <3>4
  <2> QED
    BY <2>1, <2>2
<1>10. TextInv'
  <2> SUFFICES ASSUME NEW t \in Runs, t \notin shared', NEW s \in sent, s[1] = t
               PROVE  /\ file'[t] # None
                      /\ s[2].generation <= file'[t].generation
                      /\ s[2].generation = file'[t].generation =>
                           /\ file'[t].report # None
                           /\ s[2] = [file'[t].report EXCEPT !.status = "pending"]
    BY <1>2 DEF TextInv
  <2>1. /\ file[t] # None
        /\ s[2].generation <= file[t].generation
        /\ s[2].generation = file[t].generation =>
             /\ file[t].report # None
             /\ s[2] = [file[t].report EXCEPT !.status = "pending"]
    BY <1>3 DEF DeliveryInv, TextInv
  <2>2. CASE t = r
    BY <1>6, <1>7, <2>1, <2>2
  <2>3. CASE t # r
    BY <1>3, <2>1, <2>3
  <2> QED
    BY <2>2, <2>3
<1>11. SavedIsMailed'
  <2> SUFFICES ASSUME NEW q \in Processes, pc'[q] = "saving", job'[q].sending = "report",
                      job'[q].run \notin shared'
               PROVE  <<job'[q].run, job'[q].copy.report>> \in sent'
    BY DEF SavedIsMailed, Copy
  <2>1. q # p /\ pc[q] = "saving" /\ job'[q] = job[q] /\ job[q].run \notin shared
    BY <1>2, <1>3, <1>4
  <2> QED
    BY <1>2, <2>1 DEF DeliveryInv, SavedIsMailed, Copy
<1>12. DeliveredIsMailed'
  <2> SUFFICES ASSUME NEW t \in Runs, t \notin shared', file'[t] # None,
                      file'[t].report # None, file'[t].report.status = "delivered"
               PROVE  <<t, [file'[t].report EXCEPT !.status = "pending"]>> \in sent
    BY <1>2 DEF DeliveredIsMailed
  <2>1. file[t] # None /\ file'[t].report = file[t].report
    BY <1>3, <1>5, <1>7, NewFileFields
  <2> QED
    BY <1>3, <2>1 DEF DeliveryInv, DeliveredIsMailed
<1> QED
  BY <1>8, <1>9, <1>10, <1>11, <1>12 DEF DeliveryInv

LEMMA WriteReports ==
  ASSUME Base, NEW p \in Processes, Busy(p), NEW state, Writes(p, state), Latest(state)
  PROVE  /\ ReportInv' /\ CopiesAgree'
         /\ job[p].run \in Runs /\ file'[job[p].run] = state /\ state \in RunFile
         /\ \A t \in Runs \ {job[p].run} : file'[t] = file[t]
         /\ shared \subseteq shared' /\ sent' = sent
         /\ \A q \in Processes : pc'[q] = "saving" =>
              q # p /\ pc[q] = "saving" /\ job'[q] = job[q]
<1> DEFINE r == job[p].run
<1>1. r \in Runs
  BY DEF Base, JobInv, JobOK
<1>2. /\ OthersSame(p) /\ state \in RunFile /\ SaveRun(p, r, state) /\ sent' = sent
      /\ pc'[p] # "saving"
      /\ pc'[p] # "idle" => job'[p].run = r /\ job'[p].copy = state
  BY DEF Writes, Busy
<1> HIDE DEF r
<1>3. /\ file'[r] = state /\ \A t \in Runs \ {r} : file'[t] = file[t]
      /\ shared \subseteq shared'
      /\ \A q \in Processes \ {p} : Busy(q) /\ job[q].run = r => r \in shared'
  BY <1>1, <1>2, Saved DEF Base, TypeOK
<1>4. \A q \in Processes \ {p} : pc'[q] = pc[q] /\ job'[q] = job[q]
  BY <1>2 DEF OthersSame
<1>5. ReportInv'
  <2>1. \A t \in Runs : file'[t] # None => Latest(file'[t])
    BY <1>3 DEF Base, ReportInv, Latest
  <2>2. \A q \in Processes : pc'[q] # "idle" => Latest(job'[q].copy)
    BY <1>2, <1>4 DEF Base, ReportInv, Busy, Copy, Latest
  <2> QED
    BY <2>1, <2>2 DEF ReportInv, Busy, Copy, Latest
<1>6. CopiesAgree'
  <2> SUFFICES ASSUME NEW t \in Runs, t \notin shared', NEW q \in Processes,
                      pc'[q] # "idle", job'[q].run = t
               PROVE  /\ job'[q].copy.generation = file'[t].generation
                      /\ job'[q].copy.report = file'[t].report
    BY DEF CopiesAgree, SameReport, Busy, Copy
  <2>1. CASE q = p
    BY <1>2, <1>3, <2>1
  <2>2. CASE q # p
    <3>1. pc[q] # "idle" /\ job[q].run = t /\ job'[q] = job[q] /\ t \notin shared /\ t # r
      BY <1>3, <1>4, <2>2 DEF Busy
    <3>2. /\ job[q].copy.generation = file[t].generation
          /\ job[q].copy.report = file[t].report
      BY <3>1 DEF Base, CopiesAgree, SameReport, Busy, Copy
    <3> QED
      BY <1>3, <3>1, <3>2
  <2> QED
    BY <2>1, <2>2
<1> QED
  BY <1>1, <1>2, <1>3, <1>4, <1>5, <1>6 DEF r

LEMMA RecordReports ==
  ASSUME Base, DeliveryInv, TypeOK', NEW p \in Processes, Busy(p), NEW state,
         Writes(p, state), Latest(state), state.generation = Copy(p).generation + 1,
         state.report.status = "pending"
  PROVE  ReportInv' /\ CopiesAgree' /\ DeliveryInv'
<1> DEFINE r == job[p].run
<1>1. /\ ReportInv' /\ CopiesAgree'
      /\ r \in Runs /\ file'[r] = state /\ state \in RunFile
      /\ \A t \in Runs \ {r} : file'[t] = file[t]
      /\ shared \subseteq shared' /\ sent' = sent
      /\ \A q \in Processes : pc'[q] = "saving" => q # p /\ pc[q] = "saving" /\ job'[q] = job[q]
  BY WriteReports
<1>2. state # None /\ state.generation \in Nat
  BY <1>1, StateFields
<1>3. r \notin shared' => file[r] # None /\ state.generation = file[r].generation + 1
                         /\ file[r].generation \in Nat
  BY <1>1, StateFields DEF Base, TypeOK, CopiesAgree, SameReport, JobInv, JobOK
<1>4. TextInv'
  <2> SUFFICES ASSUME NEW t \in Runs, t \notin shared', NEW s \in sent, s[1] = t
               PROVE  /\ file'[t] # None
                      /\ s[2].generation <= file'[t].generation
                      /\ s[2].generation = file'[t].generation =>
                           /\ file'[t].report # None
                           /\ s[2] = [file'[t].report EXCEPT !.status = "pending"]
    BY <1>1 DEF TextInv
  <2>1. /\ file[t] # None
        /\ s[2].generation <= file[t].generation
        /\ s[2].generation = file[t].generation =>
             /\ file[t].report # None
             /\ s[2] = [file[t].report EXCEPT !.status = "pending"]
    BY <1>1 DEF DeliveryInv, TextInv
  <2>2. CASE t = r
    <3>1. s[2].generation \in Nat
      <4>1. s \in Runs \X Report
        BY DEF Base, TypeOK
      <4> QED
        BY <4>1 DEF Report
    <3> QED
      BY <1>1, <1>2, <1>3, <2>1, <2>2, <3>1
  <2>3. CASE t # r
    BY <1>1, <2>1, <2>3
  <2> QED
    BY <2>2, <2>3
<1>5. SavedIsMailed'
  BY <1>1 DEF DeliveryInv, SavedIsMailed, Copy
<1>6. DeliveredIsMailed'
  <2> SUFFICES ASSUME NEW t \in Runs, t \notin shared', file'[t] # None,
                      file'[t].report # None, file'[t].report.status = "delivered"
               PROVE  <<t, [file'[t].report EXCEPT !.status = "pending"]>> \in sent
    BY <1>1 DEF DeliveredIsMailed
  <2>1. t # r
    BY <1>1
  <2> QED
    BY <1>1, <2>1 DEF DeliveryInv, DeliveredIsMailed
<1> QED
  BY <1>1, <1>4, <1>5, <1>6 DEF DeliveryInv

LEMMA DeliveredReports ==
  ASSUME Base, DeliveryInv, TypeOK', NEW p \in Processes, Busy(p), NEW state,
         pc[p] = "saving", job[p].sending = "report",
         Writes(p, state), Latest(state), state.generation = Copy(p).generation,
         state.report = [Copy(p).report EXCEPT !.status = "delivered"]
  PROVE  ReportInv' /\ CopiesAgree' /\ DeliveryInv'
<1> DEFINE r == job[p].run
<1>1. /\ ReportInv' /\ CopiesAgree'
      /\ r \in Runs /\ file'[r] = state /\ state \in RunFile
      /\ \A t \in Runs \ {r} : file'[t] = file[t]
      /\ shared \subseteq shared' /\ sent' = sent
      /\ \A q \in Processes : pc'[q] = "saving" => q # p /\ pc[q] = "saving" /\ job'[q] = job[q]
  BY WriteReports
<1>2. Copy(p).report \in Report /\ Copy(p).report.status = "pending"
  BY Charges
<1>3. /\ state # None /\ state.report # None
      /\ [state.report EXCEPT !.status = "pending"] = Copy(p).report
      /\ [Copy(p).report EXCEPT !.status = "pending"] = Copy(p).report
  <2> DEFINE report == Copy(p).report
             marked == [report EXCEPT !.status = "delivered"]
  <2>1. /\ marked \in Report /\ [marked EXCEPT !.status = "pending"] = report
        /\ [report EXCEPT !.status = "pending"] = report
    BY <1>2, DeliveredReport
  <2>2. state.report = marked
    OBVIOUS
  <2>3. marked # None /\ state # None
    BY <1>1, <2>1, StateFields, Constants
  <2> HIDE DEF marked, report
  <2>4. [state.report EXCEPT !.status = "pending"] = report
    BY <2>1, <2>2
  <2> QED
    BY <2>1, <2>2, <2>3, <2>4 DEF report
<1>4. r \notin shared' => /\ file[r].generation = state.generation
                         /\ file[r].report = Copy(p).report
                         /\ <<r, Copy(p).report>> \in sent
  BY <1>1 DEF Base, CopiesAgree, SameReport, DeliveryInv, SavedIsMailed
<1>5. TextInv'
  <2> SUFFICES ASSUME NEW t \in Runs, t \notin shared', NEW s \in sent, s[1] = t
               PROVE  /\ file'[t] # None
                      /\ s[2].generation <= file'[t].generation
                      /\ s[2].generation = file'[t].generation =>
                           /\ file'[t].report # None
                           /\ s[2] = [file'[t].report EXCEPT !.status = "pending"]
    BY <1>1 DEF TextInv
  <2>1. /\ file[t] # None
        /\ s[2].generation <= file[t].generation
        /\ s[2].generation = file[t].generation =>
             /\ file[t].report # None
             /\ s[2] = [file[t].report EXCEPT !.status = "pending"]
    BY <1>1 DEF DeliveryInv, TextInv
  <2>2. CASE t = r
    BY <1>1, <1>3, <1>4, <2>1, <2>2
  <2>3. CASE t # r
    BY <1>1, <2>1, <2>3
  <2> QED
    BY <2>2, <2>3
<1>6. SavedIsMailed'
  BY <1>1 DEF DeliveryInv, SavedIsMailed, Copy
<1>7. DeliveredIsMailed'
  <2> SUFFICES ASSUME NEW t \in Runs, t \notin shared', file'[t] # None,
                      file'[t].report # None, file'[t].report.status = "delivered"
               PROVE  <<t, [file'[t].report EXCEPT !.status = "pending"]>> \in sent
    BY <1>1 DEF DeliveredIsMailed
  <2>1. CASE t = r
    BY <1>1, <1>3, <1>4, <2>1
  <2>2. CASE t # r
    BY <1>1, <2>2 DEF DeliveryInv, DeliveredIsMailed
  <2> QED
    BY <2>1, <2>2
<1> QED
  BY <1>1, <1>5, <1>6, <1>7 DEF DeliveryInv

LEMMA SendReports ==
  ASSUME Base, DeliveryInv, TypeOK', NEW p \in Processes, Send(p)
  PROVE  ReportInv' /\ CopiesAgree' /\ DeliveryInv'
<1>1. /\ OthersSame(p) /\ pc[p] = "sending" /\ pc'[p] = "saving"
      /\ UNCHANGED <<file, ledger, job, lost, shared>>
      /\ sent' = IF Key(p) = 0 \/ Again(p) THEN sent
                 ELSE sent \cup {<<job[p].run, Copy(p).report>>}
  BY SendStep
<1>2. \A q \in Processes \ {p} : pc'[q] = pc[q]
  BY <1>1 DEF OthersSame
<1>3. /\ Copy(p) \in RunFile /\ job[p].run \in Runs
      /\ job[p].sending = "turn" => Key(p) = 0
      /\ job[p].sending = "report" =>
           /\ Copy(p).report \in Report /\ Copy(p).report.status = "pending"
           /\ Key(p) = Copy(p).generation /\ Key(p) = Copy(p).report.generation
           /\ Key(p) # 0
      /\ job[p].sending \in {"turn", "report"}
  BY <1>1, Charges
<1>4. ReportInv' /\ CopiesAgree'
  <2>1. \A q \in Processes : pc'[q] # "idle" => pc[q] # "idle"
    BY <1>1, <1>2
  <2> QED
    BY <1>1, <2>1 DEF Base, ReportInv, CopiesAgree, SameReport, Busy, Copy, Latest
<1>5. job[p].run \notin shared =>
        /\ file[job[p].run] # None /\ file[job[p].run].generation = Copy(p).generation
        /\ file[job[p].run].report = Copy(p).report
  BY <1>1, <1>3 DEF Base, CopiesAgree, SameReport, Busy, JobInv, JobOK
<1>6. job[p].sending = "report" =>
        /\ Copy(p).report # None
        /\ [Copy(p).report EXCEPT !.status = "pending"] = Copy(p).report
  BY <1>3, DeliveredReport, Constants
<1>7. TextInv'
  <2> SUFFICES ASSUME NEW t \in Runs, t \notin shared, NEW s \in sent', s[1] = t
               PROVE  /\ file[t] # None
                      /\ s[2].generation <= file[t].generation
                      /\ s[2].generation = file[t].generation =>
                           /\ file[t].report # None
                           /\ s[2] = [file[t].report EXCEPT !.status = "pending"]
    BY <1>1 DEF TextInv
  <2>1. CASE s \in sent
    BY <2>1 DEF DeliveryInv, TextInv
  <2>2. CASE s \notin sent
    <3>1. s = <<job[p].run, Copy(p).report>> /\ Key(p) # 0
      BY <1>1, <2>2
    <3>2. t = job[p].run /\ s[2] = Copy(p).report /\ job[p].sending = "report"
      BY <1>3, <3>1
    <3>3. file[t].generation \in Nat
      BY <1>3, <1>5, <3>2, StateFields
    <3> QED
      BY <1>3, <1>5, <1>6, <3>2, <3>3
  <2> QED
    BY <2>1, <2>2
<1>8. SavedIsMailed'
  <2> SUFFICES ASSUME NEW q \in Processes, pc'[q] = "saving", job[q].sending = "report",
                      job[q].run \notin shared
               PROVE  <<job[q].run, Copy(q).report>> \in sent'
    BY <1>1 DEF SavedIsMailed, Copy
  <2>1. CASE q = p
    <3>1. CASE Again(p)
      <4>1. PICK s \in sent : s[1] = job[p].run /\ s[2].generation = Key(p)
        BY <3>1 DEF Again
      <4>2. s = <<s[1], s[2]>>
        BY <4>1 DEF Base, TypeOK
      <4>3. s[2] = [file[job[p].run].report EXCEPT !.status = "pending"]
        BY <1>3, <1>5, <2>1, <4>1 DEF DeliveryInv, TextInv
      <4> QED
        BY <1>1, <1>5, <1>6, <2>1, <4>1, <4>2, <4>3
    <3>2. CASE ~Again(p)
      BY <1>1, <1>3, <2>1, <3>2
    <3> QED
      BY <3>1, <3>2
  <2>2. CASE q # p
    BY <1>1, <1>2, <2>2 DEF DeliveryInv, SavedIsMailed
  <2> QED
    BY <2>1, <2>2
<1>9. DeliveredIsMailed'
  BY <1>1 DEF DeliveryInv, DeliveredIsMailed
<1> QED
  BY <1>4, <1>7, <1>8, <1>9 DEF DeliveryInv
----------------------------------------------------------------------------
(***************************************************************************)
(* The ledger and what was mailed.                                         *)
(***************************************************************************)

\* The stored report of a run that one process at a time works on stays the last, or
\* a new one is written.
Onward == \A r \in Runs \ shared' : file[r] # None =>
  /\ file'[r] # None
  /\ file'[r].generation \in {file[r].generation, file[r].generation + 1}

LEMMA ChargesKept ==
  ASSUME Base, ChargesInv, UNCHANGED <<ledger, today>>, shared \subseteq shared', Onward
  PROVE  ChargesInv'
<1> SUFFICES ASSUME NEW r \in Runs, r \notin shared', NEW j \in DOMAIN ledger,
                    ledger[j].run = r, ledger[j].key # 0
             PROVE  /\ file'[r] # None /\ ledger[j].key <= file'[r].generation
                    /\ ledger[j].key = file'[r].generation =>
                         \A i \in DOMAIN today :
                           today[i].run = r /\ today[i].key \notin {0, ledger[j].key}
                             => ledger[j].age <= today[i].age
  BY DEF ChargesInv
<1>1. /\ file[r] # None /\ ledger[j].key <= file[r].generation
      /\ ledger[j].key = file[r].generation =>
           \A i \in DOMAIN today :
             today[i].run = r /\ today[i].key \notin {0, ledger[j].key}
               => ledger[j].age <= today[i].age
  BY DEF ChargesInv
<1>2. ledger[j].key \in Nat
  <2>1. ledger[j] \in Charge
    BY DEF Base, TypeOK
  <2> QED
    BY <2>1, ChargeFields
<1>3. file[r].generation \in Nat
  BY <1>1, StateFields DEF Base, TypeOK
<1>4. /\ file'[r] # None
      /\ file'[r].generation = file[r].generation
           \/ file'[r].generation = file[r].generation + 1
  BY <1>1 DEF Onward
<1> QED
  BY <1>1, <1>2, <1>3, <1>4

LEMMA LedgerFrame ==
  ASSUME Base, LedgerInv, UNCHANGED <<ledger, today, lost>>, sent \subseteq sent',
         shared \subseteq shared', Onward,
         \A q \in Processes : pc'[q] = "sending" =>
           \/ pc[q] = "sending" /\ job'[q] = job[q]
           \/ job'[q] = job[q] /\ job[q].sending = "report" /\ Reserved(q, ledger)
  PROVE  LedgerInv'
<1> SUFFICES ASSUME ~lost
             PROVE  (Within(ledger) /\ ChargesInv /\ MailedInv /\ ReservedInv /\ Matched)'
  BY DEF LedgerInv
<1>1. Within(ledger)'
  BY DEF LedgerInv, Within, ForRun, InHour
<1>2. ChargesInv /\ MailedInv /\ ReservedInv /\ Matched
  BY DEF LedgerInv
<1>3. ChargesInv'
  BY <1>2, ChargesKept
<1>4. MailedInv'
  BY <1>2 DEF MailedInv
<1>5. ReservedInv'
  BY <1>2 DEF ReservedInv, Reserved, Key, Copy
<1>6. PICK m \in [DOMAIN today -> 0..Len(ledger)], w \in [Processes -> 0..Len(ledger)] :
        Charged(m) /\ InTurn(m) /\ OwnCharge(w, m)
  BY <1>2 DEF Matched
<1>7. Charged(m)' /\ InTurn(m)'
  BY <1>6 DEF Charged, InTurn, Later
<1>8. OwnCharge(w, m)'
  <2>1. \A q \in Processes : TurnOut(q)' => TurnOut(q) /\ job'[q] = job[q]
    BY DEF TurnOut
  <2>2. \A q \in Processes : TurnOut(q)' => /\ w[q] # 0 /\ ledger'[w[q]] = ChargeOf(q)'
                                            /\ \A i \in DOMAIN today' : m[i] # w[q]
    BY <1>6, <2>1 DEF OwnCharge, ChargeOf, Key, Copy
  <2> QED
    BY <1>6, <2>1, <2>2 DEF OwnCharge
<1>9. Matched'
  BY <1>6, <1>7, <1>8 DEF Matched
<1> QED
  BY <1>1, <1>3, <1>4, <1>5, <1>9

LEMMA PlainOnward ==
  ASSUME Base, NEW p \in Processes, Plain(p)
  PROVE  Onward /\ shared \subseteq shared' /\ sent' = sent
         /\ \A r \in Runs : file[r] # None => file'[r] # None
<1>1. PICK r \in Runs, state \in RunFile : HasFile(p, r, state)
  BY DEF Plain
<1>2. /\ (file' = file /\ shared' = shared) \/ SaveRun(p, r, state)
      /\ r \notin shared' /\ file[r] # None => state.generation = file[r].generation
  BY <1>1 DEF HasFile
<1>3. /\ shared \subseteq shared'
      /\ \A t \in Runs \ {r} : file'[t] = file[t]
      /\ file'[r] = state \/ file'[r] = file[r]
  BY <1>2, FileEffect
<1> QED
  BY <1>2, <1>3, StateFields DEF Onward, Plain

LEMMA IdleLedger ==
  ASSUME Base, LedgerInv, NEW p \in Processes, Idle(p)
  PROVE  LedgerInv'
<1>1. Onward /\ shared \subseteq shared' /\ sent' = sent
  BY PlainOnward DEF Idle
<1>2. \A q \in Processes : pc'[q] = "sending" => pc[q] = "sending" /\ job'[q] = job[q]
  BY DEF Idle, Plain, OthersSame
<1> QED
  BY <1>1, <1>2, LedgerFrame DEF Idle

LEMMA WriteOnward ==
  ASSUME Base, LedgerInv, NEW p \in Processes, Busy(p), NEW state, Writes(p, state),
         state.generation \in {Copy(p).generation, Copy(p).generation + 1}
  PROVE  LedgerInv'
<1> DEFINE r == job[p].run
<1>1. r \in Runs /\ state \in RunFile /\ SaveRun(p, r, state)
  BY DEF Writes, Base, JobInv, JobOK
<1>2. /\ file'[r] = state /\ \A t \in Runs \ {r} : file'[t] = file[t]
      /\ shared \subseteq shared'
  BY <1>1, Saved DEF Base, TypeOK
<1>3. r \notin shared' => Copy(p).generation = file[r].generation
  BY <1>1, <1>2 DEF Base, CopiesAgree, SameReport
<1>4. Onward
  BY <1>1, <1>2, <1>3, StateFields DEF Onward
<1>5. \A q \in Processes : pc'[q] = "sending" => pc[q] = "sending" /\ job'[q] = job[q]
  BY DEF Writes, OthersSame
<1> QED
  BY <1>2, <1>4, <1>5, LedgerFrame DEF Writes

LEMMA ReserveLedger ==
  ASSUME Base, LedgerInv, NEW p \in Processes, Reserve(p)
  PROVE  LedgerInv'
<1>1. /\ Plain(p) /\ UNCHANGED <<ledger, today, lost>>
      /\ \/ pc'[p] # "sending"
         \/ /\ pc'[p] = "sending" /\ job' = job /\ Reserved(p, ledger)
            /\ file' = file /\ shared' = shared
  BY ReserveStep
<1>2. Onward /\ shared \subseteq shared' /\ sent' = sent
  BY <1>1, PlainOnward
<1>3. Reserved(p, ledger) => job[p].sending = "report"
  BY Charges DEF Reserve, Reserved
<1>4. \A q \in Processes : pc'[q] = "sending" =>
        \/ pc[q] = "sending" /\ job'[q] = job[q]
        \/ job'[q] = job[q] /\ job[q].sending = "report" /\ Reserved(q, ledger)
  BY <1>1, <1>3 DEF Plain, OthersSame
<1> QED
  BY <1>1, <1>2, <1>4, LedgerFrame

LEMMA FiniteParts ==
  ASSUME NEW S, NEW s \in Seq(S), NEW part \in SUBSET (DOMAIN s)
  PROVE  /\ IsFiniteSet(part) /\ Cardinality(part) \in Nat
         /\ IsFiniteSet(DOMAIN s) /\ Cardinality(DOMAIN s) = Len(s) /\ Len(s) \in Nat
<1>1. DOMAIN s = 1..Len(s) /\ Len(s) \in Nat
  OBVIOUS
<1>2. IsFiniteSet(1..Len(s)) /\ Cardinality(1..Len(s)) = Len(s)
  <2>1. ASSUME NEW n \in Nat
        PROVE  IsFiniteSet(1..n) /\ Cardinality(1..n) = n
    <3>1. IsFiniteSet(1..n) /\ Cardinality(1..n) = IF 1 > n THEN 0 ELSE n - 1 + 1
      BY FS_Interval
    <3> QED
      BY <3>1
  <2> QED
    BY <1>1, <2>1
<1>3. IsFiniteSet(part)
  BY <1>1, <1>2, FS_Subset
<1> QED
  BY <1>1, <1>2, <1>3, FS_CardinalityType

\* A subset of a set and one more has at most one more member.
LEMMA OneMore ==
  ASSUME NEW S, IsFiniteSet(S), NEW x, NEW T \in SUBSET (S \cup {x})
  PROVE  IsFiniteSet(T) /\ Cardinality(T) <= Cardinality(S) + 1
<1>1. /\ IsFiniteSet(S \cup {x})
      /\ Cardinality(S \cup {x}) = IF x \in S THEN Cardinality(S) ELSE Cardinality(S) + 1
  BY FS_AddElement
<1>2. IsFiniteSet(T) /\ Cardinality(T) <= Cardinality(S \cup {x})
  BY <1>1, FS_Subset
<1>3. Cardinality(S) \in Nat /\ Cardinality(T) \in Nat
  BY <1>2, FS_CardinalityType
<1> QED
  BY <1>1, <1>2, <1>3

LEMMA Counts ==
  ASSUME NEW L \in Seq(Charge)
  PROVE  InHour(L) \in Nat /\ Len(L) \in Nat /\ \A r : ForRun(L, r) \in Nat
<1>1. InHour(L) \in Nat
  <2>1. {i \in DOMAIN L : L[i].age < Hour} \in SUBSET (DOMAIN L)
    OBVIOUS
  <2> QED
    BY <2>1, FiniteParts DEF InHour
<1>2. ASSUME NEW r
      PROVE  ForRun(L, r) \in Nat
  <2>1. {i \in DOMAIN L : L[i].run = r} \in SUBSET (DOMAIN L)
    OBVIOUS
  <2> QED
    BY <2>1, FiniteParts DEF ForRun
<1> QED
  BY <1>1, <1>2

\* A charge that is not blocked stays within the ceilings.
LEMMA StillWithin ==
  ASSUME NEW L \in Seq(Charge), NEW c \in Charge, Within(L), ~Blocked(L, c.run)
  PROVE  Within(Append(L, c))
<1> DEFINE A == Append(L, c)
           n == Len(L) + 1
<1>1. /\ A \in Seq(Charge) /\ Len(A) = n /\ DOMAIN L = 1..Len(L) /\ DOMAIN A = 1..n
      /\ A[n] = c /\ \A i \in 1..Len(L) : A[i] = L[i]
      /\ Len(L) \in Nat
  BY Extended
<1> HIDE DEF A
<1>2. \A i \in DOMAIN A : i = n \/ (i \in DOMAIN L /\ A[i] = L[i])
  BY <1>1
<1>3. InHour(A) <= PerHour
  <2> DEFINE S == {i \in DOMAIN L : L[i].age < Hour}
             T == {i \in DOMAIN A : A[i].age < Hour}
  <2>1. S \in SUBSET (DOMAIN L) /\ T \in SUBSET (S \cup {n})
    BY <1>2
  <2>2. IsFiniteSet(S) /\ Cardinality(S) \in Nat
    BY <2>1, FiniteParts
  <2>3. IsFiniteSet(T) /\ Cardinality(T) <= Cardinality(S) + 1
    <3> HIDE DEF S, T, n
    <3> QED
      BY <2>1, <2>2, OneMore
  <2>4. Cardinality(S) < PerHour
    BY <2>2, Constants DEF Blocked, InHour
  <2>5. Cardinality(T) \in Nat
    BY <2>3, FS_CardinalityType
  <2> QED
    BY <2>2, <2>3, <2>4, <2>5, Constants DEF InHour
<1>4. ASSUME NEW r \in Runs
      PROVE  ForRun(A, r) <= PerRun
  <2> DEFINE S == {i \in DOMAIN L : L[i].run = r}
             T == {i \in DOMAIN A : A[i].run = r}
  <2>1. S \in SUBSET (DOMAIN L)
    OBVIOUS
  <2>2. IsFiniteSet(S) /\ Cardinality(S) \in Nat
    BY <2>1, FiniteParts
  <2>3. CASE c.run = r
    <3>1. T \in SUBSET (S \cup {n})
      BY <1>2
    <3>2. IsFiniteSet(T) /\ Cardinality(T) <= Cardinality(S) + 1
      <4> HIDE DEF S, T, n
      <4> QED
        BY <3>1, <2>2, OneMore
    <3>3. Cardinality(S) < PerRun
      BY <2>2, <2>3, Constants DEF Blocked, ForRun
    <3>4. Cardinality(T) \in Nat
      BY <3>2, FS_CardinalityType
    <3> QED
      BY <2>2, <3>2, <3>3, <3>4, Constants DEF ForRun
  <2>4. CASE c.run # r
    <3>1. T = S
      BY <1>1, <1>2, <2>4
    <3> QED
      BY <3>1 DEF Within, ForRun
  <2> QED
    BY <2>3, <2>4
<1>5. Len(A) <= PerDay
  BY <1>1, Constants DEF Blocked
<1> QED
  BY <1>3, <1>4, <1>5 DEF Within, A

LEMMA WriteMatched ==
  ASSUME Base, ~lost', LedgerInv, NEW p \in Processes, WriteLedger(p)
  PROVE  (Within(ledger) /\ ChargesInv /\ MailedInv /\ ReservedInv /\ Matched)'
<1> DEFINE n == Len(ledger) + 1
           c == ChargeOf(p)
<1>1. /\ pc[p] = "writing" /\ ledger = job[p].view /\ ~lost /\ today' = today
      /\ ledger' = Append(ledger, c) /\ sent' = sent /\ file' = file /\ shared' = shared
  BY DEF WriteLedger, Base, TypeOK
<1>2. /\ SameErrand(p) /\ job'[p].copy = job[p].copy /\ job'[p].sending = job[p].sending
      /\ OthersSame(p) /\ pc'[p] = "sending"
  BY WriteStep DEF Plain
<1>3. /\ c \in Charge /\ c.run = job[p].run /\ c.key = Key(p) /\ c.age = 0
      /\ Copy(p) \in RunFile /\ job[p].run \in Runs
      /\ job[p].sending \in {"turn", "report"}
      /\ job[p].sending = "turn" => Key(p) = 0
      /\ job[p].sending = "report" => Key(p) = Copy(p).generation /\ Key(p) # 0
      /\ Key(p) \in Nat
  BY <1>1, Charges
<1>4. /\ ledger' \in Seq(Charge) /\ DOMAIN ledger = 1..Len(ledger) /\ Len(ledger) \in Nat
      /\ DOMAIN ledger' = 1..n /\ Len(ledger') = n
      /\ ledger'[n] = c /\ \A i \in 1..Len(ledger) : ledger'[i] = ledger[i]
  BY <1>1, <1>3, Extended DEF Base, TypeOK
<1>5. Within(ledger) /\ ChargesInv /\ MailedInv /\ ReservedInv /\ Matched
  BY <1>1 DEF LedgerInv
<1>6. ChargeOf(p)' = c /\ Key(p)' = Key(p)
  BY <1>2 DEF ChargeOf, Key, Copy, SameErrand
<1> HIDE DEF c, n
<1>7. Within(ledger)'
  <2>1. ~Blocked(ledger, c.run)
    BY <1>1, <1>3 DEF Base, JobInv, JobOK
  <2>2. Within(Append(ledger, c))
    BY <1>3, <1>5, <2>1, StillWithin DEF Base, TypeOK
  <2> QED
    BY <1>1, <2>2 DEF Within, ForRun, InHour
<1>8. \A i \in DOMAIN today : today[i] \in Charge /\ today[i].age \in Nat
  <2> SUFFICES ASSUME NEW i \in DOMAIN today
               PROVE  today[i] \in Charge /\ today[i].age \in Nat
    OBVIOUS
  <2>1. today[i] \in Charge
    BY DEF Base, TypeOK
  <2>2. today[i].age \in 0..Day-1
    BY <2>1, ChargeFields
  <2> QED
    BY <2>1, <2>2, Constants
<1>9. ChargesInv'
  <2> SUFFICES ASSUME NEW r \in Runs, r \notin shared, NEW j \in DOMAIN ledger',
                      ledger'[j].run = r, ledger'[j].key # 0
               PROVE  /\ file[r] # None /\ ledger'[j].key <= file[r].generation
                      /\ ledger'[j].key = file[r].generation =>
                           \A i \in DOMAIN today :
                             today[i].run = r /\ today[i].key \notin {0, ledger'[j].key}
                               => ledger'[j].age <= today[i].age
    BY <1>1 DEF ChargesInv
  <2>1. CASE j = n
    <3>1. r = job[p].run /\ job[p].sending = "report" /\ ledger'[j] = c
      BY <1>3, <1>4, <2>1
    <3>2. file[r] # None /\ Copy(p).generation = file[r].generation
      BY <1>1, <3>1 DEF Base, JobInv, JobOK, Busy, CopiesAgree, SameReport
    <3>3. c.key = file[r].generation
      BY <1>3, <3>1, <3>2
    <3>4. file[r].generation \in Nat
      BY <1>3, <3>2, StateFields
    <3> QED
      BY <1>3, <1>8, <3>1, <3>2, <3>3, <3>4
  <2>2. CASE j # n
    <3>1. j \in DOMAIN ledger /\ ledger'[j] = ledger[j]
      BY <1>4, <2>2 DEF n
    <3> QED
      BY <1>5, <3>1 DEF ChargesInv
  <2> QED
    BY <2>1, <2>2
<1>10. MailedInv'
  BY <1>1, <1>5 DEF MailedInv
<1>11. ReservedInv'
  <2> SUFFICES ASSUME NEW q \in Processes, pc'[q] = "sending", job'[q].sending = "report"
               PROVE  Reserved(q, ledger)'
    BY DEF ReservedInv
  <2>1. CASE q = p
    <3>1. n \in DOMAIN ledger' /\ ledger'[n].run = job'[p].run /\ ledger'[n].key = Key(p)'
      BY <1>2, <1>3, <1>4, <1>6 DEF SameErrand, n
    <3> QED
      BY <1>2, <1>3, <1>6, <2>1, <3>1 DEF Reserved
  <2>2. CASE q # p
    <3>1. pc[q] = "sending" /\ job'[q] = job[q]
      BY <1>2, <2>2 DEF OthersSame
    <3>2. Reserved(q, ledger) /\ Key(q)' = Key(q)
      BY <1>5, <3>1 DEF ReservedInv, Key, Copy
    <3>3. PICK i \in DOMAIN ledger : ledger[i].run = job[q].run /\ ledger[i].key = Key(q)
      BY <3>2 DEF Reserved
    <3>4. i \in DOMAIN ledger' /\ ledger'[i] = ledger[i]
      BY <1>4 DEF n
    <3> QED
      BY <3>1, <3>2, <3>3, <3>4 DEF Reserved
  <2> QED
    BY <2>1, <2>2
<1>12. PICK m \in [DOMAIN today -> 0..Len(ledger)], w \in [Processes -> 0..Len(ledger)] :
        Charged(m) /\ InTurn(m) /\ OwnCharge(w, m)
  BY <1>5 DEF Matched
<1>13. PICK v \in [Processes -> 0..Len(ledger')] :
         v[p] = n /\ \A q \in Processes \ {p} : v[q] = w[q]
  <2>1. [w EXCEPT ![p] = n] \in [Processes -> 0..Len(ledger')]
    BY <1>4 DEF n
  <2> QED
    BY <2>1
<1>14. /\ m \in [DOMAIN today' -> 0..Len(ledger')]
       /\ n # 0 /\ \A q \in Processes : w[q] # n
       /\ \A i \in DOMAIN today : m[i] # n
  BY <1>1, <1>4 DEF n
<1>15. \A k \in 0..Len(ledger) : k # 0 => ledger'[k] = ledger[k]
  BY <1>4
<1>16. Charged(m)'
  BY <1>1, <1>12, <1>15 DEF Charged
<1>17. InTurn(m)'
  BY <1>1, <1>12, <1>15 DEF InTurn, Later
<1>18. OwnCharge(v, m)'
  <2>1. ASSUME NEW q \in Processes, q # p, TurnOut(q)'
        PROVE  TurnOut(q) /\ ChargeOf(q)' = ChargeOf(q)
    BY <1>2, <2>1 DEF OthersSame, TurnOut, ChargeOf, Key, Copy
  <2>2. ASSUME NEW q \in Processes, TurnOut(q)'
        PROVE  /\ v[q] # 0 /\ ledger'[v[q]] = ChargeOf(q)'
               /\ \A i \in DOMAIN today' : m[i] # v[q]
    <3>1. CASE q = p
      BY <1>1, <1>4, <1>6, <1>13, <1>14, <3>1
    <3>2. CASE q # p
      BY <1>1, <1>12, <1>13, <1>14, <1>15, <2>1, <2>2, <3>2 DEF OwnCharge
    <3> QED
      BY <3>1, <3>2
  <2>3. ASSUME NEW q \in Processes, NEW u \in Processes, TurnOut(q)', TurnOut(u)', v[q] = v[u]
        PROVE  q = u
    BY <1>12, <1>13, <1>14, <2>1, <2>3 DEF OwnCharge
  <2> QED
    BY <2>2, <2>3 DEF OwnCharge
<1>19. Matched'
  BY <1>13, <1>14, <1>16, <1>17, <1>18 DEF Matched
<1> QED
  BY <1>7, <1>9, <1>10, <1>11, <1>19

\* What p is about to mail has a charge that no earlier mail has.
LEMMA SendsCharge ==
  ASSUME Base, ~lost, LedgerInv, NEW p \in Processes, pc[p] = "sending", ~Again(p),
         NEW m \in [DOMAIN today -> 0..Len(ledger)],
         NEW w \in [Processes -> 0..Len(ledger)], Charged(m), OwnCharge(w, m)
  PROVE  \E k \in DOMAIN ledger :
           /\ ledger[k].run = job[p].run /\ ledger[k].key = Key(p)
           /\ Key(p) = 0 => ledger[k].age = 0
           /\ \A i \in DOMAIN today : m[i] # k
           /\ \A q \in Processes \ {p} : TurnOut(q) => w[q] # k
<1>1. /\ ChargeOf(p).run = job[p].run /\ ChargeOf(p).key = Key(p) /\ ChargeOf(p).age = 0
      /\ job[p].sending \in {"turn", "report"}
      /\ job[p].sending = "turn" => Key(p) = 0
      /\ job[p].sending = "report" => Key(p) # 0
  BY Charges
<1>2. DOMAIN ledger = 1..Len(ledger) /\ Len(ledger) \in Nat
  BY DEF Base, TypeOK
<1>3. CASE job[p].sending = "turn"
  <2>1. w[p] # 0 /\ ledger[w[p]] = ChargeOf(p) /\ \A i \in DOMAIN today : m[i] # w[p]
    BY <1>3 DEF OwnCharge, TurnOut
  <2>2. w[p] \in DOMAIN ledger
    BY <1>2, <2>1
  <2>3. \A q \in Processes \ {p} : TurnOut(q) => w[q] # w[p]
    BY <1>3 DEF OwnCharge, TurnOut
  <2> QED
    BY <1>1, <1>3, <2>1, <2>2, <2>3
<1>4. CASE job[p].sending = "report"
  <2>1. PICK k \in DOMAIN ledger : ledger[k].run = job[p].run /\ ledger[k].key = Key(p)
    BY <1>4 DEF LedgerInv, ReservedInv, Reserved
  <2>2. Key(p) # 0
    BY <1>1, <1>4
  <2>3. ASSUME NEW i \in DOMAIN today, m[i] = k
        PROVE  FALSE
    <3>1. today[i].run = job[p].run /\ today[i].key = Key(p)
      BY <1>2, <2>1, <2>3 DEF Charged
    <3> QED
      BY <2>2, <3>1 DEF LedgerInv, MailedInv, Again
  <2>4. ASSUME NEW q \in Processes, TurnOut(q), w[q] = k
        PROVE  FALSE
    <3>1. ledger[k] = ChargeOf(q)
      BY <2>4 DEF OwnCharge
    <3>2. ChargeOf(q).key = 0
      BY <2>4 DEF TurnOut, ChargeOf, Key
    <3> QED
      BY <2>1, <2>2, <3>1, <3>2
  <2> QED
    BY <2>1, <2>2, <2>3, <2>4
<1> QED
  BY <1>1, <1>3, <1>4

LEMMA SendMatched ==
  ASSUME Base, ~lost, LedgerInv, NEW p \in Processes, Send(p), ~Again(p)
  PROVE  (Within(ledger) /\ ChargesInv /\ MailedInv /\ ReservedInv /\ Matched)'
<1> DEFINE n == Len(today) + 1
           c == ChargeOf(p)
<1>1. /\ OthersSame(p) /\ pc[p] = "sending" /\ pc'[p] = "saving"
      /\ UNCHANGED <<file, ledger, job, lost, shared>>
      /\ sent' = IF Key(p) = 0 THEN sent ELSE sent \cup {<<job[p].run, Copy(p).report>>}
      /\ today' = Append(today, c)
  BY SendStep
<1>2. /\ c \in Charge /\ c.run = job[p].run /\ c.key = Key(p) /\ c.age = 0
      /\ job[p].run \in Runs /\ job[p].sending \in {"turn", "report"}
      /\ job[p].sending = "turn" => Key(p) = 0
      /\ job[p].sending = "report" =>
           Key(p) = Copy(p).generation /\ Key(p) = Copy(p).report.generation
  BY <1>1, Charges
<1>3. /\ DOMAIN today = 1..Len(today) /\ Len(today) \in Nat
      /\ DOMAIN today' = 1..n
      /\ today'[n] = c /\ \A i \in 1..Len(today) : today'[i] = today[i]
  BY <1>1, <1>2, Extended DEF Base, TypeOK
<1>4. Within(ledger) /\ ChargesInv /\ MailedInv /\ ReservedInv /\ Matched
  BY DEF LedgerInv
<1>5. \A q \in Processes \ {p} : pc'[q] = pc[q]
  BY <1>1 DEF OthersSame
<1>6. job[p].run \notin shared /\ Key(p) # 0 => Key(p) = file[job[p].run].generation
  BY <1>1, <1>2 DEF Base, CopiesAgree, SameReport, Busy
<1>7. \A i \in DOMAIN today : today[i].run = job[p].run /\ today[i].key # 0
        => today[i].key # Key(p)
  BY <1>4 DEF MailedInv, Again
<1> HIDE DEF c
<1>8. \A i \in DOMAIN today' : \/ i = n /\ today'[i] = c
                               \/ i \in DOMAIN today /\ today'[i] = today[i] /\ i # n
  BY <1>3
<1> HIDE DEF n
<1>9. Within(ledger)'
  BY <1>1, <1>4 DEF Within, ForRun, InHour
<1>10. ChargesInv'
  <2> SUFFICES ASSUME NEW r \in Runs, r \notin shared, NEW j \in DOMAIN ledger,
                      ledger[j].run = r, ledger[j].key # 0
               PROVE  /\ file[r] # None /\ ledger[j].key <= file[r].generation
                      /\ ledger[j].key = file[r].generation =>
                           \A i \in DOMAIN today' :
                             today'[i].run = r /\ today'[i].key \notin {0, ledger[j].key}
                               => ledger[j].age <= today'[i].age
    BY <1>1 DEF ChargesInv
  <2>1. file[r] # None /\ ledger[j].key <= file[r].generation
    BY <1>4 DEF ChargesInv
  <2>2. ASSUME ledger[j].key = file[r].generation, NEW i \in DOMAIN today',
               today'[i].run = r, today'[i].key \notin {0, ledger[j].key}
        PROVE  ledger[j].age <= today'[i].age
    <3>1. i # n
      BY <1>2, <1>6, <1>8, <2>2
    <3>2. i \in DOMAIN today /\ today'[i] = today[i]
      BY <1>8, <3>1
    <3> QED
      BY <1>4, <2>2, <3>2 DEF ChargesInv
  <2> QED
    BY <2>1, <2>2
<1>11. MailedInv'
  <2> SUFFICES ASSUME NEW i \in DOMAIN today', today'[i].key # 0
               PROVE  \E s \in sent' : s[1] = today'[i].run /\ s[2].generation = today'[i].key
    BY DEF MailedInv
  <2>1. CASE i = n
    <3>1. today'[i] = c /\ Key(p) # 0 /\ Copy(p).report.generation = Key(p)
      BY <1>2, <1>8, <2>1
    <3>2. <<job[p].run, Copy(p).report>> \in sent'
      BY <1>1, <3>1
    <3> QED
      BY <1>2, <3>1, <3>2
  <2>2. CASE i # n
    BY <1>1, <1>4, <1>8, <2>2 DEF MailedInv
  <2> QED
    BY <2>1, <2>2
<1>12. ReservedInv'
  BY <1>1, <1>4, <1>5 DEF ReservedInv, Reserved, Key, Copy
<1>13. PICK m \in [DOMAIN today -> 0..Len(ledger)], w \in [Processes -> 0..Len(ledger)] :
         Charged(m) /\ InTurn(m) /\ OwnCharge(w, m)
  BY <1>4 DEF Matched
<1>14. PICK k \in DOMAIN ledger :
         /\ ledger[k].run = job[p].run /\ ledger[k].key = Key(p)
         /\ Key(p) = 0 => ledger[k].age = 0
         /\ \A i \in DOMAIN today : m[i] # k
         /\ \A q \in Processes \ {p} : TurnOut(q) => w[q] # k
  BY <1>1, <1>13, SendsCharge
<1>15. k # 0 /\ k \in 0..Len(ledger) /\ ledger[k].age \in Nat
  <2>1. DOMAIN ledger = 1..Len(ledger) /\ Len(ledger) \in Nat /\ ledger[k] \in Charge
    BY DEF Base, TypeOK
  <2>2. ledger[k].age \in 0..Day-1
    BY <2>1, ChargeFields
  <2> QED
    BY <2>1, <2>2, Constants
<1>16. PICK mm \in [DOMAIN today' -> 0..Len(ledger)] :
         mm[n] = k /\ \A i \in DOMAIN today : mm[i] = m[i]
  <2>1. [i \in DOMAIN today' |-> IF i = n THEN k ELSE m[i]]
          \in [DOMAIN today' -> 0..Len(ledger)]
    BY <1>8, <1>15
  <2>2. n \in DOMAIN today' /\ \A i \in DOMAIN today : i \in DOMAIN today' /\ i # n
    BY <1>3 DEF n
  <2> QED
    BY <2>1, <2>2
<1>17. Charged(mm)'
  <2>1. \A i \in DOMAIN today' : mm[i] # 0 =>
          /\ ledger[mm[i]].run = today'[i].run
          /\ ledger[mm[i]].key = today'[i].key
          /\ today'[i].age <= ledger[mm[i]].age
    <3> SUFFICES ASSUME NEW i \in DOMAIN today', mm[i] # 0
                 PROVE  /\ ledger[mm[i]].run = today'[i].run
                        /\ ledger[mm[i]].key = today'[i].key
                        /\ today'[i].age <= ledger[mm[i]].age
      OBVIOUS
    <3>1. CASE i = n
      BY <1>2, <1>8, <1>14, <1>15, <1>16, <3>1
    <3>2. CASE i # n
      BY <1>8, <1>13, <1>16, <3>2 DEF Charged
    <3> QED
      BY <3>1, <3>2
  <2>2. \A i \in DOMAIN today' : today'[i].key = 0 =>
          mm[i] # 0 /\ ledger[mm[i]].age = today'[i].age
    BY <1>2, <1>8, <1>13, <1>14, <1>15, <1>16 DEF Charged
  <2>3. \A i, j \in DOMAIN today' : mm[i] = mm[j] /\ mm[i] # 0 => i = j
    BY <1>8, <1>13, <1>14, <1>16 DEF Charged
  <2> QED
    BY <1>1, <2>1, <2>2, <2>3 DEF Charged
<1>18. InTurn(mm)'
  <2> SUFFICES ASSUME NEW i \in DOMAIN today', NEW j \in DOMAIN today', i < j,
                      today'[i].run = today'[j].run, today'[i].run \notin shared,
                      today'[i].key # 0, today'[j].key # 0
               PROVE  mm[j] # 0 /\ ledger[mm[j]].age <= today'[i].age
    BY <1>1 DEF InTurn, Later
  <2>1. i # n /\ i \in DOMAIN today /\ today'[i] = today[i]
    BY <1>3, <1>8 DEF n
  <2>2. CASE j = n
    <3>1. today[i].run = job[p].run /\ Key(p) # 0
      BY <1>2, <1>8, <2>1, <2>2
    <3>2. today[i].key \notin {0, ledger[k].key} /\ ledger[k].key = file[job[p].run].generation
      BY <1>6, <1>7, <1>14, <2>1, <3>1
    <3> QED
      BY <1>2, <1>4, <1>14, <1>15, <1>16, <2>1, <2>2, <3>1, <3>2 DEF ChargesInv
  <2>3. CASE j # n
    <3>1. j \in DOMAIN today /\ today'[j] = today[j] /\ Later(i, j)
      BY <1>8, <2>1, <2>3 DEF Later
    <3> QED
      BY <1>13, <1>16, <2>1, <3>1 DEF InTurn
  <2> QED
    BY <2>2, <2>3
<1>19. OwnCharge(w, mm)'
  <2>1. ASSUME NEW q \in Processes, TurnOut(q)'
        PROVE  /\ q # p /\ TurnOut(q) /\ ChargeOf(q)' = ChargeOf(q)
    BY <1>1, <1>5, <2>1 DEF TurnOut, ChargeOf, Key, Copy
  <2>2. ASSUME NEW q \in Processes, TurnOut(q)'
        PROVE  /\ w[q] # 0 /\ ledger'[w[q]] = ChargeOf(q)'
               /\ \A i \in DOMAIN today' : mm[i] # w[q]
    BY <1>1, <1>8, <1>13, <1>14, <1>16, <2>1, <2>2 DEF OwnCharge
  <2>3. ASSUME NEW q \in Processes, NEW u \in Processes, TurnOut(q)', TurnOut(u)', w[q] = w[u]
        PROVE  q = u
    BY <1>13, <2>1, <2>3 DEF OwnCharge
  <2> QED
    BY <2>2, <2>3 DEF OwnCharge
<1>20. Matched'
  BY <1>1, <1>13, <1>16, <1>17, <1>18, <1>19 DEF Matched
<1> QED
  BY <1>9, <1>10, <1>11, <1>12, <1>20

LEMMA WriteLedgerInv ==
  ASSUME Base, LedgerInv, NEW p \in Processes, WriteLedger(p)
  PROVE  LedgerInv'
BY WriteMatched DEF LedgerInv

LEMMA SendLedgerInv ==
  ASSUME Base, LedgerInv, NEW p \in Processes, Send(p)
  PROVE  LedgerInv'
<1>1. /\ OthersSame(p) /\ pc[p] = "sending" /\ pc'[p] = "saving"
      /\ UNCHANGED <<file, ledger, job, lost, shared>>
      /\ sent' = IF Key(p) = 0 \/ Again(p) THEN sent
                 ELSE sent \cup {<<job[p].run, Copy(p).report>>}
      /\ today' = IF lost \/ Again(p) THEN today ELSE Append(today, ChargeOf(p))
  BY SendStep
<1>2. CASE lost
  BY <1>1, <1>2 DEF LedgerInv
<1>3. CASE ~lost /\ ~Again(p)
  BY <1>1, <1>3, SendMatched DEF LedgerInv
<1>4. CASE ~lost /\ Again(p)
  <2>1. UNCHANGED <<ledger, today, lost>> /\ sent \subseteq sent'
    BY <1>1, <1>4
  <2>2. Onward
    BY <1>1 DEF Onward
  <2>3. \A q \in Processes : pc'[q] = "sending" => pc[q] = "sending" /\ job'[q] = job[q]
    BY <1>1 DEF OthersSame
  <2> QED
    BY <1>1, <2>1, <2>2, <2>3, LedgerFrame
<1> QED
  BY <1>2, <1>3, <1>4

LEMMA OneToOne ==
  ASSUME NEW S, NEW T, IsFiniteSet(T), NEW f, \A x \in S : f[x] \in T,
         \A x, y \in S : f[x] = f[y] => x = y
  PROVE  /\ IsFiniteSet(S) /\ Cardinality(S) <= Cardinality(T)
         /\ Cardinality(S) \in Nat /\ Cardinality(T) \in Nat
<1>1. PICK g \in [S -> T] : \A x \in S : g[x] = f[x]
  <2>1. [x \in S |-> f[x]] \in [S -> T]
    OBVIOUS
  <2> QED
    BY <2>1
<1>2. g \in Injection(S, T)
  BY <1>1 DEF Injection, IsInjective
<1>3. IsFiniteSet(S) /\ Cardinality(S) <= Cardinality(T)
  BY <1>2, FS_Injection
<1> QED
  BY <1>3, FS_CardinalityType

\* A function on the indexes of a sequence that keeps their order is one-to-one.
LEMMA InOrder ==
  ASSUME NEW S, NEW K \in Seq(S), NEW L \in Seq(S), NEW f \in [DOMAIN K -> DOMAIN L],
         \A i, j \in DOMAIN K : i < j => f[i] < f[j]
  PROVE  \A i, j \in DOMAIN K : f[i] = f[j] => i = j
<1> SUFFICES ASSUME NEW i \in DOMAIN K, NEW j \in DOMAIN K, f[i] = f[j], i # j
             PROVE  FALSE
  OBVIOUS
<1>1. i \in Nat /\ j \in Nat /\ f[i] \in Nat /\ f[j] \in Nat
  <2>1. \A k \in DOMAIN K : k \in Nat
    OBVIOUS
  <2>2. \A k \in DOMAIN L : k \in Nat
    OBVIOUS
  <2> QED
    BY <2>1, <2>2
<1>2. CASE i < j
  BY <1>1, <1>2
<1>3. CASE j < i
  BY <1>1, <1>3
<1> QED
  BY <1>1, <1>2, <1>3

LEMMA AgedWithin ==
  ASSUME NEW L \in Seq(Charge), NEW K \in Older(L), Within(L)
  PROVE  Within(K)
<1>1. K \in Seq(Charge) /\ Len(K) <= Len(L) /\ Len(L) \in Nat /\ Len(K) \in Nat
  BY Aged
<1>2. PICK f \in [DOMAIN K -> DOMAIN L] :
        /\ \A i, j \in DOMAIN K : i < j => f[i] < f[j]
        /\ \A i \in DOMAIN K : /\ K[i].run = L[f[i]].run /\ K[i].key = L[f[i]].key
                               /\ K[i].age = L[f[i]].age + 1
  BY Aged
<1>3. \A i, j \in DOMAIN K : f[i] = f[j] => i = j
  BY <1>1, <1>2, InOrder
<1>4. ASSUME NEW r \in Runs
      PROVE  ForRun(K, r) <= PerRun
  <2> DEFINE S == {i \in DOMAIN K : K[i].run = r}
             T == {i \in DOMAIN L : L[i].run = r}
  <2>1. \A i \in S : f[i] \in T
    BY <1>2
  <2>2. T \in SUBSET (DOMAIN L)
    OBVIOUS
  <2>3. IsFiniteSet(T)
    BY <2>2, FiniteParts
  <2>4. \A x, y \in S : f[x] = f[y] => x = y
    BY <1>3
  <2>5. Cardinality(S) <= Cardinality(T) /\ Cardinality(S) \in Nat /\ Cardinality(T) \in Nat
    <3> HIDE DEF S, T
    <3> QED
      BY <2>1, <2>3, <2>4, OneToOne
  <2>6. Cardinality(T) <= PerRun
    BY DEF Within, ForRun
  <2> QED
    BY <2>5, <2>6, Constants DEF ForRun
<1>5. InHour(K) <= PerHour
  <2> DEFINE S == {i \in DOMAIN K : K[i].age < Hour}
             T == {i \in DOMAIN L : L[i].age < Hour}
  <2>1. ASSUME NEW i \in S
        PROVE  f[i] \in T
    <3>1. f[i] \in DOMAIN L /\ K[i].age = L[f[i]].age + 1
      BY <1>2
    <3>2. L[f[i]] \in Charge
      BY <3>1
    <3>3. L[f[i]].age \in 0..Day-1
      BY <3>2, ChargeFields
    <3> QED
      BY <3>1, <3>3, Constants
  <2>2. T \in SUBSET (DOMAIN L)
    OBVIOUS
  <2>3. IsFiniteSet(T)
    BY <2>2, FiniteParts
  <2>4. \A x, y \in S : f[x] = f[y] => x = y
    BY <1>3
  <2>5. Cardinality(S) <= Cardinality(T) /\ Cardinality(S) \in Nat /\ Cardinality(T) \in Nat
    <3> HIDE DEF S, T
    <3> QED
      BY <2>1, <2>3, <2>4, OneToOne
  <2>6. Cardinality(T) <= PerHour
    BY DEF Within, InHour
  <2> QED
    BY <2>5, <2>6, Constants DEF InHour
<1>6. Len(K) <= PerDay
  BY <1>1, Constants DEF Within
<1> QED
  BY <1>4, <1>5, <1>6 DEF Within

LEMMA TickMatched ==
  ASSUME Base, ~lost, LedgerInv, Tick
  PROVE  (Within(ledger) /\ ChargesInv /\ MailedInv /\ ReservedInv /\ Matched)'
<1>1. /\ UNCHANGED <<file, inbox, arrived, pc, job, sent, lost, shared, commands, faults>>
      /\ \A q \in Processes : pc'[q] # "sending"
      /\ ledger' \in Older(ledger) /\ today' \in Older(today)
  BY DEF Tick
<1>2. ledger \in Seq(Charge) /\ today \in Seq(Charge)
  BY DEF Base, TypeOK
<1>3. Within(ledger) /\ ChargesInv /\ MailedInv /\ Matched
  BY DEF LedgerInv
<1>4. Within(ledger)'
  <2>1. \A K \in Older(ledger) : Within(K)
    BY <1>2, <1>3, AgedWithin
  <2> QED
    BY <1>1, <2>1 DEF Within, ForRun, InHour
<1>5. PICK f \in [DOMAIN ledger' -> DOMAIN ledger] :
        /\ \A i \in DOMAIN ledger' :
             /\ ledger'[i].run = ledger[f[i]].run /\ ledger'[i].key = ledger[f[i]].key
             /\ ledger'[i].age = ledger[f[i]].age + 1
        /\ \A k \in DOMAIN ledger :
             ledger[k].age + 1 < Day => \E i \in DOMAIN ledger' : f[i] = k
  BY <1>1, <1>2, Aged
<1>6. today' \in Seq(Charge) /\ ledger' \in Seq(Charge)
  BY <1>1, <1>2, Aged
<1>7. PICK g \in [DOMAIN today' -> DOMAIN today] :
        /\ \A i, j \in DOMAIN today' : i < j => g[i] < g[j]
        /\ \A i \in DOMAIN today' :
             /\ today'[i].run = today[g[i]].run /\ today'[i].key = today[g[i]].key
             /\ today'[i].age = today[g[i]].age + 1
  BY <1>1, <1>2, Aged
<1>8. \A i, j \in DOMAIN today' : g[i] = g[j] => i = j
  BY <1>2, <1>6, <1>7, InOrder
<1>9. /\ \A k \in DOMAIN ledger : ledger[k].age \in Nat
      /\ \A i \in DOMAIN today : today[i].age \in Nat
  <2>1. \A k \in DOMAIN ledger : ledger[k] \in Charge
    BY <1>2
  <2>2. \A i \in DOMAIN today : today[i] \in Charge
    BY <1>2
  <2>3. \A x : x \in 0..Day-1 => x \in Nat
    BY Constants
  <2>4. \A x : x \in Charge => x.age \in 0..Day-1
    BY ChargeFields
  <2> QED
    BY <2>1, <2>2, <2>3, <2>4
<1>10. \A i \in DOMAIN today' : today[g[i]].age + 1 < Day
  <2> SUFFICES ASSUME NEW i \in DOMAIN today'
               PROVE  today[g[i]].age + 1 < Day
    OBVIOUS
  <2>1. today'[i] \in Charge
    BY <1>6
  <2>2. today'[i].age \in 0..Day-1
    BY <2>1, ChargeFields
  <2> QED
    BY <1>7, <2>2, Constants
<1>11. ChargesInv'
  <2> SUFFICES ASSUME NEW r \in Runs, r \notin shared, NEW j \in DOMAIN ledger',
                      ledger'[j].run = r, ledger'[j].key # 0
               PROVE  /\ file[r] # None /\ ledger'[j].key <= file[r].generation
                      /\ ledger'[j].key = file[r].generation =>
                           \A i \in DOMAIN today' :
                             today'[i].run = r /\ today'[i].key \notin {0, ledger'[j].key}
                               => ledger'[j].age <= today'[i].age
    BY <1>1 DEF ChargesInv
  <2>1. /\ f[j] \in DOMAIN ledger /\ ledger'[j].key = ledger[f[j]].key
        /\ ledger[f[j]].run = r /\ ledger'[j].age = ledger[f[j]].age + 1
    BY <1>5
  <2>2. file[r] # None /\ ledger'[j].key <= file[r].generation
    BY <1>3, <2>1 DEF ChargesInv
  <2>3. ASSUME ledger'[j].key = file[r].generation, NEW i \in DOMAIN today',
               today'[i].run = r, today'[i].key \notin {0, ledger'[j].key}
        PROVE  ledger'[j].age <= today'[i].age
    <3>1. /\ g[i] \in DOMAIN today /\ today[g[i]].run = r
          /\ today[g[i]].key \notin {0, ledger[f[j]].key}
          /\ today'[i].age = today[g[i]].age + 1
      BY <1>7, <2>1, <2>3
    <3>2. ledger[f[j]].age <= today[g[i]].age
      BY <1>3, <2>1, <2>3, <3>1 DEF ChargesInv
    <3> QED
      BY <1>9, <2>1, <3>1, <3>2
  <2> QED
    BY <2>2, <2>3
<1>12. MailedInv'
  BY <1>1, <1>3, <1>7 DEF MailedInv
<1>13. ReservedInv'
  BY <1>1 DEF ReservedInv
<1>14. PICK m \in [DOMAIN today -> 0..Len(ledger)] : Charged(m) /\ InTurn(m)
  BY <1>3 DEF Matched
<1>15. /\ DOMAIN ledger = 1..Len(ledger) /\ Len(ledger) \in Nat
       /\ DOMAIN ledger' = 1..Len(ledger') /\ Len(ledger') \in Nat
  BY <1>2, <1>6
<1>16. PICK mm \in [DOMAIN today' -> 0..Len(ledger')] :
         \A i \in DOMAIN today' :
           \/ mm[i] \in DOMAIN ledger' /\ f[mm[i]] = m[g[i]]
           \/ mm[i] = 0 /\ \A k \in DOMAIN ledger' : f[k] # m[g[i]]
  <2> DEFINE Has(i, k) == \/ k \in DOMAIN ledger' /\ f[k] = m[g[i]]
                          \/ k = 0 /\ \A l \in DOMAIN ledger' : f[l] # m[g[i]]
             h == [i \in DOMAIN today' |-> CHOOSE k \in 0..Len(ledger') : Has(i, k)]
  <2>1. ASSUME NEW i \in DOMAIN today'
        PROVE  \E k \in 0..Len(ledger') : Has(i, k)
    BY <1>15
  <2> HIDE DEF Has
  <2>2. \A i \in DOMAIN today' : h[i] \in 0..Len(ledger') /\ Has(i, h[i])
    BY <2>1
  <2>3. h \in [DOMAIN today' -> 0..Len(ledger')]
    BY <2>2
  <2> HIDE DEF h
  <2> QED
    BY <2>2, <2>3 DEF Has
<1>17. \A i \in DOMAIN today' : mm[i] # 0 =>
         /\ mm[i] \in DOMAIN ledger' /\ f[mm[i]] = m[g[i]] /\ g[i] \in DOMAIN today
         /\ m[g[i]] \in DOMAIN ledger /\ m[g[i]] # 0
  BY <1>5, <1>7, <1>15, <1>16
<1>18. \A i \in DOMAIN today' : m[g[i]] # 0 /\ ledger[m[g[i]]].age + 1 < Day => mm[i] # 0
  <2> SUFFICES ASSUME NEW i \in DOMAIN today', m[g[i]] # 0, ledger[m[g[i]]].age + 1 < Day
               PROVE  mm[i] # 0
    OBVIOUS
  <2>1. m[g[i]] \in DOMAIN ledger
    BY <1>7, <1>14, <1>15
  <2>2. PICK k \in DOMAIN ledger' : f[k] = m[g[i]]
    BY <1>5, <2>1
  <2> QED
    BY <1>15, <1>16, <2>2
<1>19. Charged(mm)'
  <2>1. ASSUME NEW i \in DOMAIN today', mm[i] # 0
        PROVE  /\ ledger'[mm[i]].run = today'[i].run
               /\ ledger'[mm[i]].key = today'[i].key
               /\ today'[i].age <= ledger'[mm[i]].age
    <3>1. /\ ledger[m[g[i]]].run = today[g[i]].run
          /\ ledger[m[g[i]]].key = today[g[i]].key
          /\ today[g[i]].age <= ledger[m[g[i]]].age
      BY <1>14, <1>17, <2>1 DEF Charged
    <3>2. /\ ledger'[mm[i]].run = ledger[m[g[i]]].run
          /\ ledger'[mm[i]].key = ledger[m[g[i]]].key
          /\ ledger'[mm[i]].age = ledger[m[g[i]]].age + 1
      BY <1>5, <1>17, <2>1
    <3>3. ledger[m[g[i]]].age \in Nat /\ today[g[i]].age \in Nat
      BY <1>9, <1>17, <2>1
    <3> QED
      BY <1>7, <3>1, <3>2, <3>3
  <2>2. ASSUME NEW i \in DOMAIN today', today'[i].key = 0
        PROVE  mm[i] # 0 /\ ledger'[mm[i]].age = today'[i].age
    <3>1. m[g[i]] # 0 /\ ledger[m[g[i]]].age = today[g[i]].age
      BY <1>7, <1>14, <2>2 DEF Charged
    <3>2. mm[i] # 0
      BY <1>10, <1>18, <3>1
    <3> QED
      BY <1>5, <1>7, <1>17, <3>1, <3>2
  <2>3. ASSUME NEW i \in DOMAIN today', NEW j \in DOMAIN today', mm[i] = mm[j], mm[i] # 0
        PROVE  i = j
    <3>1. g[i] = g[j]
      BY <1>14, <1>17, <2>3 DEF Charged
    <3> QED
      BY <1>8, <3>1
  <2> QED
    BY <2>1, <2>2, <2>3 DEF Charged
<1>20. InTurn(mm)'
  <2> SUFFICES ASSUME NEW i \in DOMAIN today', NEW j \in DOMAIN today', i < j,
                      today'[i].run = today'[j].run, today'[i].run \notin shared,
                      today'[i].key # 0, today'[j].key # 0
               PROVE  mm[j] # 0 /\ ledger'[mm[j]].age <= today'[i].age
    BY <1>1 DEF InTurn, Later
  <2>1. g[i] \in DOMAIN today /\ g[j] \in DOMAIN today /\ Later(g[i], g[j])
    BY <1>7 DEF Later
  <2>2. m[g[j]] # 0 /\ ledger[m[g[j]]].age <= today[g[i]].age
    BY <1>14, <2>1 DEF InTurn
  <2>3. m[g[j]] \in DOMAIN ledger
    BY <1>14, <1>15, <2>1, <2>2
  <2>4. ledger[m[g[j]]].age \in Nat /\ today[g[i]].age \in Nat
    BY <1>9, <2>1, <2>3
  <2>5. mm[j] # 0
    <3>1. today[g[i]].age + 1 < Day
      BY <1>10
    <3>2. ledger[m[g[j]]].age + 1 < Day
      BY <2>2, <2>4, <3>1, Constants
    <3> QED
      BY <1>18, <2>2, <3>2
  <2>6. ledger'[mm[j]].age = ledger[m[g[j]]].age + 1
    BY <1>5, <1>17, <2>5
  <2> QED
    BY <1>7, <2>2, <2>4, <2>5, <2>6
<1>21. PICK w \in [Processes -> 0..Len(ledger')] : OwnCharge(w, mm)'
  <2>1. [q \in Processes |-> 0] \in [Processes -> 0..Len(ledger')]
    BY <1>15
  <2>2. \A w \in [Processes -> 0..Len(ledger')] : OwnCharge(w, mm)'
    BY <1>1 DEF OwnCharge, TurnOut
  <2> QED
    BY <2>1, <2>2
<1>22. Matched'
  BY <1>16, <1>19, <1>20, <1>21 DEF Matched
<1> QED
  BY <1>4, <1>11, <1>12, <1>13, <1>22
----------------------------------------------------------------------------
(***************************************************************************)
(* The mails that are queued and worked on.                                *)
(***************************************************************************)
NoFileLost == \A r \in Runs : file[r] # None => file'[r] # None

\* Every mail that is queued or worked on was queued or worked on before.
MailsFrom ==
  /\ \A i \in DOMAIN inbox' : \/ \E k \in DOMAIN inbox : inbox'[i] = inbox[k]
                              \/ \E p \in Processes : inbox'[i] = job[p].mail
  /\ \A p \in Processes : \/ job'[p].mail \in {None, job[p].mail}
                          \/ \E k \in DOMAIN inbox : job'[p].mail = inbox[k]

LEMMA MailsKept ==
  ASSUME TypeOK, TypeOK', MailsInv, MailsFrom, NoFileLost
  PROVE  MailsInv'
<1>1. \A m \in Mails : Known(m) => (m \notin Commissions => file'[RunOf[m]] # None)
  BY Constants DEF Known, NoFileLost
<1>2. ASSUME NEW i \in DOMAIN inbox', inbox'[i] \notin Commissions
      PROVE  file'[RunOf[inbox'[i]]] # None
  <2>1. inbox'[i] \in Mails
    BY <1>2 DEF TypeOK
  <2>2. Known(inbox'[i])
    BY <1>2, <2>1, Constants DEF MailsFrom, MailsInv
  <2> QED
    BY <1>1, <1>2, <2>1, <2>2
<1>3. ASSUME NEW p \in Processes, job'[p].mail # None, job'[p].mail \notin Commissions
      PROVE  file'[RunOf[job'[p].mail]] # None
  <2>1. job'[p] \in Job
    BY DEF TypeOK
  <2>2. job'[p].mail \in Mails
    BY <1>3, <2>1, JobFields
  <2>3. Known(job'[p].mail)
    BY <1>3 DEF MailsFrom, MailsInv
  <2> QED
    BY <1>1, <1>3, <2>2, <2>3
<1> QED
  BY <1>2, <1>3 DEF MailsInv, Known

LEMMA EndMails ==
  ASSUME TypeOK, NEW p \in Processes, NEW answered \in BOOLEAN, End(p, answered)
  PROVE  MailsFrom
<1>1. /\ OthersSame(p) /\ job'[p] = NoJob /\ inbox' \in Seq(Mails)
  BY Ended DEF TypeOK, Shapes
<1>2. NoJob.mail = None
  BY DEF NoJob, JobFor
<1>3. CASE job[p].mail = None
  BY <1>1, <1>2, <1>3 DEF End, MailsFrom, OthersSame
<1>4. CASE job[p].mail # None
  <2>1. PICK others \in Kept(inbox, Mails \ {job[p].mail}) :
          inbox' = IF answered THEN others ELSE Append(others, job[p].mail)
    BY <1>4 DEF End
  <2>2. /\ others \in Seq(Mails)
        /\ \A i \in DOMAIN others : \E k \in DOMAIN inbox : others[i] = inbox[k]
    <3>1. inbox \in Seq(Mails)
      BY DEF TypeOK
    <3>2. PICK f \in [DOMAIN others -> DOMAIN inbox] :
            \A i \in DOMAIN others : others[i] = inbox[f[i]]
      BY <2>1, <3>1, KeptRows
    <3>3. others \in Seq(Mails)
      BY <2>1, <3>1, KeptRows
    <3> QED
      BY <3>2, <3>3
  <2>3. \A i \in DOMAIN inbox' :
          (i \in DOMAIN others /\ inbox'[i] = others[i]) \/ inbox'[i] = job[p].mail
    <3>1. job[p].mail \in Mails
      BY <1>4, JobFields DEF TypeOK
    <3>2. /\ DOMAIN others = 1..Len(others) /\ Len(others) \in Nat
          /\ DOMAIN Append(others, job[p].mail) = 1..(Len(others) + 1)
          /\ Append(others, job[p].mail)[Len(others) + 1] = job[p].mail
          /\ \A i \in 1..Len(others) : Append(others, job[p].mail)[i] = others[i]
      BY <2>2, <3>1, Extended
    <3>3. \A i \in 1..(Len(others) + 1) : i = Len(others) + 1 \/ i \in 1..Len(others)
      BY <3>2
    <3> QED
      BY <2>1, <3>2, <3>3
  <2> QED
    BY <1>1, <1>2, <2>2, <2>3 DEF MailsFrom, OthersSame
<1> QED
  BY <1>3, <1>4

\* The mail of a job stays the same in all other steps.
LEMMA SameMails ==
  ASSUME TypeOK, NEW p \in Processes, inbox' = inbox, NEW x, NEW y,
         \/ job' = job
         \/ job' = [job EXCEPT ![p].copy = x]
         \/ job' = [job EXCEPT ![p].sending = x]
         \/ job' = [job EXCEPT ![p].view = x]
         \/ job' = [job EXCEPT ![p].copy = x, ![p].sending = y]
  PROVE  MailsFrom
<1>1. job \in [Processes -> Job] /\ job[p] \in Job
  BY DEF TypeOK
<1>2. /\ [job[p] EXCEPT !.copy = x].mail = job[p].mail
      /\ [job[p] EXCEPT !.sending = x].mail = job[p].mail
      /\ [job[p] EXCEPT !.view = x].mail = job[p].mail
      /\ [job[p] EXCEPT !.copy = x, !.sending = y].mail = job[p].mail
  BY <1>1 DEF Job
<1>3. job'[p] \in {job[p], [job[p] EXCEPT !.copy = x], [job[p] EXCEPT !.sending = x],
                    [job[p] EXCEPT !.view = x], [job[p] EXCEPT !.copy = x, !.sending = y]}
      /\ \A q \in Processes \ {p} : job'[q] = job[q]
  BY <1>1
<1>4. \A q \in Processes : job'[q].mail = job[q].mail
  BY <1>2, <1>3
<1> QED
  BY <1>4 DEF MailsFrom

LEMMA SaveMails ==
  ASSUME TypeOK, NEW p \in Processes, NEW state, NEW place, Save(p, state, place),
         inbox' = inbox
  PROVE  MailsFrom
BY SameMails DEF Save

LEMMA NotSentMails ==
  ASSUME TypeOK, NEW p \in Processes, NotSent(p)
  PROVE  MailsFrom
<1>1. CASE End(p, FALSE)
  BY <1>1, EndMails
<1>2. CASE Save(p, [Copy(p) EXCEPT !.halt = "other"], "recording") /\ UNCHANGED inbox
  BY <1>2, SaveMails
<1> QED
  BY <1>1, <1>2 DEF NotSent

LEMMA StepMails ==
  ASSUME TypeOK, NEW p \in Processes, Step(p) \/ RefusedSend(p) \/ Crash(p)
  PROVE  MailsFrom
<1>1. CASE RefuseTurn(p) \/ LoopLimit(p)
  BY <1>1, SaveMails DEF RefuseTurn, LoopLimit
<1>2. CASE Dispatch(p)
  BY <1>2, SaveMails, SameMails DEF Dispatch
<1>3. CASE SaveTurn(p)
  BY <1>3, SaveMails DEF SaveTurn
<1>4. CASE RecordReport(p)
  BY <1>4, SameMails DEF RecordReport, Record
<1>5. CASE Reserve(p)
  BY <1>5, NotSentMails, SameMails DEF Reserve
<1>6. CASE WriteLedger(p)
  BY <1>6, SameMails DEF WriteLedger
<1>7. CASE Send(p)
  BY <1>7, SameMails DEF Send
<1>8. CASE SaveDelivered(p)
  BY <1>8, EndMails DEF SaveDelivered
<1>9. CASE RefusedSend(p)
  BY <1>9, NotSentMails DEF RefusedSend
<1>10. CASE Crash(p)
  BY <1>10, EndMails DEF Crash
<1> QED
  BY <1>1, <1>2, <1>3, <1>4, <1>5, <1>6, <1>7, <1>8, <1>9, <1>10 DEF Step

LEMMA StartMails ==
  ASSUME TypeOK, NEW p \in Processes, NEW r, NEW m, NEW state, NEW sending,
         job' = [job EXCEPT ![p] = JobFor(r, m, state, sending)], inbox' = inbox,
         m = None \/ \E k \in DOMAIN inbox : m = inbox[k]
  PROVE  MailsFrom
<1>1. JobFor(r, m, state, sending).mail = m
  BY DEF JobFor
<1>2. job'[p] = JobFor(r, m, state, sending) /\ \A q \in Processes \ {p} : job'[q] = job[q]
  BY DEF TypeOK
<1> QED
  BY <1>1, <1>2 DEF MailsFrom

LEMMA HeadOfInbox ==
  ASSUME TypeOK, inbox # <<>>
  PROVE  /\ 1 \in DOMAIN inbox /\ Head(inbox) = inbox[1]
         /\ Tail(inbox) \in Seq(Mails)
         /\ \A i \in DOMAIN Tail(inbox) : \E k \in DOMAIN inbox : Tail(inbox)[i] = inbox[k]
<1>1. inbox \in Seq(Mails) /\ Len(inbox) \in Nat \ {0} /\ DOMAIN inbox = 1..Len(inbox)
  BY DEF TypeOK
<1>2. Tail(inbox) \in Seq(Mails) /\ Len(Tail(inbox)) = Len(inbox) - 1
  BY <1>1
<1>3. \A i \in 1..(Len(inbox) - 1) : Tail(inbox)[i] = inbox[i + 1] /\ i + 1 \in 1..Len(inbox)
  BY <1>1
<1>4. DOMAIN Tail(inbox) = 1..(Len(inbox) - 1)
  BY <1>2
<1> QED
  BY <1>1, <1>2, <1>3, <1>4
----------------------------------------------------------------------------
(***************************************************************************)
(* The invariant.                                                          *)
(***************************************************************************)
Safe == TypeOK /\ JobInv /\ ReportInv /\ CopiesAgree /\ DeliveryInv /\ LedgerInv

\* Mail that comes in, time and an answered mail that is skipped leave the processes and
\* the files alone.
LEMMA QuietSteps ==
  ASSUME Safe, inbox' \in Seq(Mails), arrived' \subseteq Mails,
         UNCHANGED <<file, pc, job, sent, lost, shared, commands, faults>>,
         UNCHANGED <<ledger, today>> \/ Tick
  PROVE  Safe'
<1>1. Base
  BY DEF Safe, Base
<1>2. ledger' \in Seq(Charge) /\ today' \in Seq(Charge)
  <2>1. CASE UNCHANGED <<ledger, today>>
    BY <2>1 DEF Safe, TypeOK
  <2>2. CASE Tick
    BY <2>2, Aged DEF Tick, Safe, TypeOK
  <2> QED
    BY <2>1, <2>2
<1>3. TypeOK'
  BY <1>2 DEF Safe, TypeOK
<1>4. JobInv'
  BY DEF Safe, JobInv, JobOK, Busy, Copy, HasReport, Blocked, ForRun, InHour
<1>5. ReportInv' /\ CopiesAgree'
  BY DEF Safe, ReportInv, CopiesAgree, SameReport, Busy, Copy, Latest
<1>6. DeliveryInv'
  BY DEF Safe, DeliveryInv, TextInv, SavedIsMailed, DeliveredIsMailed, Copy
<1>7. LedgerInv'
  <2>1. CASE UNCHANGED <<ledger, today>>
    <3>1. Onward
      BY DEF Onward
    <3> QED
      BY <1>1, <2>1, <3>1, LedgerFrame DEF Safe
  <2>2. CASE Tick
    BY <1>1, <2>2, TickMatched DEF Safe, LedgerInv
  <2> QED
    BY <2>1, <2>2
<1> QED
  BY <1>3, <1>4, <1>5, <1>6, <1>7 DEF Safe

LEMMA IdleSteps ==
  ASSUME Safe, NEW p \in Processes, TypeOK', JobInv', Idle(p)
  PROVE  Safe' /\ NoFileLost
<1>1. Base /\ DeliveryInv /\ LedgerInv /\ Plain(p)
  BY DEF Safe, Base, Idle
<1>2. ReportInv' /\ CopiesAgree' /\ DeliveryInv'
  BY <1>1, PlainReports
<1>3. LedgerInv'
  BY <1>1, IdleLedger
<1>4. NoFileLost
  BY <1>1, PlainOnward DEF NoFileLost
<1> QED
  BY <1>2, <1>3, <1>4 DEF Safe

LEMMA WriteSteps ==
  ASSUME Safe, NEW p \in Processes, RecordReport(p) \/ SaveDelivered(p)
  PROVE  Safe' /\ NoFileLost
<1>1. Base /\ DeliveryInv /\ LedgerInv
  BY DEF Safe, Base
<1>2. CASE RecordReport(p)
  <2>1. /\ TypeOK' /\ JobInv' /\ Busy(p)
        /\ \E state : /\ Writes(p, state) /\ Latest(state)
                      /\ state.generation = Copy(p).generation + 1
                      /\ state.report.status = "pending"
    BY <1>1, <1>2, RecordStep
  <2>2. PICK state : /\ Writes(p, state) /\ Latest(state)
                     /\ state.generation = Copy(p).generation + 1
                     /\ state.report.status = "pending"
    BY <2>1
  <2>3. ReportInv' /\ CopiesAgree' /\ DeliveryInv'
    BY <1>1, <2>1, <2>2, RecordReports
  <2>4. LedgerInv'
    BY <1>1, <2>1, <2>2, WriteOnward
  <2>5. NoFileLost
    BY <1>1, <2>1, <2>2, WriteReports, StateFields DEF NoFileLost
  <2> QED
    BY <2>1, <2>3, <2>4, <2>5 DEF Safe
<1>3. CASE SaveDelivered(p)
  <2>1. /\ TypeOK' /\ JobInv' /\ Busy(p) /\ pc[p] = "saving"
        /\ job[p].sending = "report"
        /\ \E state : /\ Writes(p, state) /\ Latest(state)
                      /\ state.generation = Copy(p).generation
                      /\ state.report = [Copy(p).report EXCEPT !.status = "delivered"]
    BY <1>1, <1>3, DeliveredStep
  <2>2. PICK state : /\ Writes(p, state) /\ Latest(state)
                     /\ state.generation = Copy(p).generation
                     /\ state.report = [Copy(p).report EXCEPT !.status = "delivered"]
    BY <2>1
  <2>3. ReportInv' /\ CopiesAgree' /\ DeliveryInv'
    BY <1>1, <2>1, <2>2, DeliveredReports
  <2>4. LedgerInv'
    BY <1>1, <2>1, <2>2, WriteOnward
  <2>5. NoFileLost
    BY <1>1, <2>1, <2>2, WriteReports, StateFields DEF NoFileLost
  <2> QED
    BY <2>1, <2>3, <2>4, <2>5 DEF Safe
<1> QED
  BY <1>2, <1>3

LEMMA SendingSteps ==
  ASSUME Safe, NEW p \in Processes, Reserve(p) \/ WriteLedger(p) \/ Send(p)
  PROVE  Safe' /\ NoFileLost
<1>1. Base /\ DeliveryInv /\ LedgerInv
  BY DEF Safe, Base
<1>2. CASE Reserve(p)
  <2>1. TypeOK' /\ JobInv' /\ Plain(p)
    BY <1>1, <1>2, ReserveStep
  <2>2. ReportInv' /\ CopiesAgree' /\ DeliveryInv'
    BY <1>1, <2>1, PlainReports
  <2>3. LedgerInv' /\ NoFileLost
    BY <1>1, <1>2, <2>1, ReserveLedger, PlainOnward DEF NoFileLost
  <2> QED
    BY <2>1, <2>2, <2>3 DEF Safe
<1>3. CASE WriteLedger(p)
  <2>1. TypeOK' /\ JobInv' /\ Plain(p)
    BY <1>1, <1>3, WriteStep
  <2>2. ReportInv' /\ CopiesAgree' /\ DeliveryInv'
    BY <1>1, <2>1, PlainReports
  <2>3. LedgerInv' /\ NoFileLost
    BY <1>1, <1>3, <2>1, WriteLedgerInv, PlainOnward DEF NoFileLost
  <2> QED
    BY <2>1, <2>2, <2>3 DEF Safe
<1>4. CASE Send(p)
  <2>1. TypeOK' /\ JobInv' /\ file' = file
    BY <1>1, <1>4, SendStep
  <2>2. ReportInv' /\ CopiesAgree' /\ DeliveryInv'
    BY <1>1, <1>4, <2>1, SendReports
  <2>3. LedgerInv'
    BY <1>1, <1>4, SendLedgerInv
  <2> QED
    BY <2>1, <2>2, <2>3 DEF Safe, NoFileLost
<1> QED
  BY <1>2, <1>3, <1>4

LEMMA MailStep ==
  ASSUME MailInv, Next
  PROVE  MailInv'
<1>1. Safe /\ Base /\ MailsInv /\ TypeOK
  BY DEF MailInv, Safe, Base
<1>2. Serve \in Processes /\ Cli \in Processes
  BY DEF Processes
<1>3. ASSUME Safe', NoFileLost, MailsFrom
      PROVE  MailInv'
  BY <1>1, <1>3, MailsKept DEF MailInv, Safe
<1>4. ASSUME NEW p \in Processes, TypeOK', JobInv', Idle(p), MailsFrom
      PROVE  MailInv'
  BY <1>1, <1>3, <1>4, IdleSteps
<1>5. ASSUME NEW m \in Mails, Arrive(m)
      PROVE  MailInv'
  <2>1. /\ arrived' \subseteq Mails /\ inbox' = Append(inbox, m)
        /\ UNCHANGED <<file, ledger, pc, job, sent, today, lost, shared, commands, faults>>
    BY <1>1, <1>5 DEF Arrive, files, history, TypeOK
  <2>2. /\ inbox' \in Seq(Mails) /\ DOMAIN inbox' = 1..(Len(inbox) + 1)
        /\ DOMAIN inbox = 1..Len(inbox) /\ inbox'[Len(inbox) + 1] = m
        /\ \A i \in 1..Len(inbox) : inbox'[i] = inbox[i]
        /\ Len(inbox) \in Nat
    BY <1>1, <2>1, Extended DEF TypeOK
  <2>3. Safe'
    BY <1>1, <2>1, <2>2, QuietSteps
  <2>4. Known(m)
    BY <1>5 DEF Arrive, Known
  <2>5. \A i \in DOMAIN inbox' : inbox'[i] = m \/ (i \in DOMAIN inbox /\ inbox'[i] = inbox[i])
    BY <2>2
  <2>6. \A i \in DOMAIN inbox' : Known(inbox'[i])
    BY <1>1, <2>4, <2>5 DEF MailsInv
  <2>7. MailsInv'
    BY <1>1, <2>1, <2>6 DEF MailsInv, Known
  <2> QED
    BY <2>3, <2>7 DEF MailInv, Safe
<1>6. CASE Tick
  <2>1. UNCHANGED <<file, inbox, arrived, pc, job, sent, lost, shared, commands, faults>>
    BY <1>6 DEF Tick
  <2>2. Safe'
    BY <1>1, <1>6, <2>1, QuietSteps DEF TypeOK
  <2> QED
    BY <1>3, <2>1, <2>2 DEF NoFileLost, MailsFrom
<1>7. CASE Take
  <2>1. PICK m \in Mails : \E state \in {file[RunOf[m]]} :
          \/ SkipAnswered(m, state) \/ RetryReport(m, state)
          \/ HandleCommission(m, state) \/ HandleStop(m, state) \/ HandleGuidance(m, state)
    BY <1>7 DEF Take
  <2>2. PICK state \in {file[RunOf[m]]} :
          \/ SkipAnswered(m, state) \/ RetryReport(m, state)
          \/ HandleCommission(m, state) \/ HandleStop(m, state) \/ HandleGuidance(m, state)
    BY <2>1
  <2>3. Tries(m, state)
    BY <2>2 DEF SkipAnswered, RetryReport, HandleCommission, HandleStop, HandleGuidance
  <2>4. /\ 1 \in DOMAIN inbox /\ m = inbox[1]
        /\ Tail(inbox) \in Seq(Mails)
        /\ \A i \in DOMAIN Tail(inbox) : \E k \in DOMAIN inbox : Tail(inbox)[i] = inbox[k]
    BY <1>1, <2>3, HeadOfInbox DEF Tries
  <2>5. Known(m)
    BY <1>1, <2>4 DEF MailsInv
  <2>6. CASE SkipAnswered(m, state)
    <3>1. /\ inbox' = Tail(inbox) /\ arrived' = arrived
          /\ UNCHANGED <<file, ledger, pc, job, sent, today, lost, shared, commands, faults>>
      BY <2>6 DEF SkipAnswered, files, history
    <3>2. Safe'
      BY <1>1, <2>4, <3>1, QuietSteps DEF TypeOK
    <3> QED
      BY <1>3, <2>4, <3>1, <3>2 DEF NoFileLost, MailsFrom
  <2>7. CASE \/ RetryReport(m, state) \/ HandleCommission(m, state)
             \/ HandleStop(m, state) \/ HandleGuidance(m, state)
    <3>1. TypeOK' /\ JobInv' /\ Idle(Serve)
      BY <1>1, <2>5, <2>7, HandlingSteps
    <3>2. \E copy, sending, place : Handling(m, copy, sending, place)
      BY <2>7 DEF RetryReport, HandleCommission, HandleStop, HandleGuidance
    <3>3. PICK copy, sending :
            /\ job' = [job EXCEPT ![Serve] = JobFor(RunOf[m], m, copy, sending)]
            /\ inbox' = inbox
      BY <3>2 DEF Handling
    <3>4. \E k \in DOMAIN inbox : m = inbox[k]
      BY <2>4
    <3>5. MailsFrom
      BY <1>1, <1>2, <3>3, <3>4, StartMails
    <3> QED
      BY <1>2, <1>4, <3>1, <3>5
  <2> QED
    BY <2>2, <2>6, <2>7
<1>8. ASSUME NEW r \in Runs, CmdStop(r) \/ CmdRetry(r) \/ CmdResume(r)
      PROVE  MailInv'
  <2>1. TypeOK' /\ JobInv' /\ Idle(Cli)
    BY <1>1, <1>8, CommandSteps
  <2>2. \E copy, place : Command(r, copy, place)
    BY <1>8 DEF CmdStop, CmdRetry, CmdResume
  <2>3. PICK copy : job' = [job EXCEPT ![Cli] = JobFor(r, None, copy, "turn")] /\ inbox' = inbox
    BY <2>2 DEF Command
  <2>4. MailsFrom
    BY <1>1, <1>2, <2>3, StartMails
  <2> QED
    BY <1>2, <1>4, <2>1, <2>4
<1>9. CASE StopSaved
  <2>1. TypeOK' /\ JobInv' /\ Idle(Cli)
    BY <1>1, <1>9, StopStep
  <2>2. MailsFrom
    BY <1>1, <1>2, <1>9, EndMails DEF StopSaved
  <2> QED
    BY <1>2, <1>4, <2>1, <2>2
<1>10. ASSUME NEW p \in Processes, Step(p) \/ RefusedSend(p) \/ Crash(p)
       PROVE  MailInv'
  <2>1. MailsFrom
    BY <1>1, <1>10, StepMails
  <2>2. CASE RefuseTurn(p) \/ LoopLimit(p) \/ Dispatch(p) \/ SaveTurn(p)
    BY <1>1, <1>4, <2>1, <2>2, TurnSteps
  <2>3. CASE RecordReport(p) \/ SaveDelivered(p)
    BY <1>1, <1>3, <2>1, <2>3, WriteSteps
  <2>4. CASE Reserve(p) \/ WriteLedger(p) \/ Send(p)
    BY <1>1, <1>3, <2>1, <2>4, SendingSteps
  <2>5. CASE RefusedSend(p) \/ Crash(p)
    BY <1>1, <1>4, <2>1, <2>5, FaultSteps
  <2> QED
    BY <1>10, <2>2, <2>3, <2>4, <2>5 DEF Step
<1> QED
  BY <1>5, <1>6, <1>7, <1>8, <1>9, <1>10 DEF Next

LEMMA MailStutter ==
  ASSUME MailInv, UNCHANGED vars
  PROVE  MailInv'
<1>1. UNCHANGED <<file, ledger, inbox, arrived, pc, job, sent, today, lost, shared,
                  commands, faults>>
  BY DEF vars, files, history
<1>2. Safe'
  BY <1>1, QuietSteps DEF MailInv, Safe, TypeOK
<1>3. MailsInv'
  BY <1>1 DEF MailInv, MailsInv, Known
<1> QED
  BY <1>2, <1>3 DEF MailInv, Safe

LEMMA MailInit ==
  ASSUME Init
  PROVE  MailInv
<1>1. /\ file = [r \in Runs |-> None] /\ ledger = <<>> /\ today = <<>> /\ lost = FALSE
      /\ inbox = <<>> /\ arrived = {} /\ pc = [p \in Processes |-> "idle"]
      /\ job = [p \in Processes |-> NoJob] /\ sent = {} /\ shared = {}
      /\ commands = 0 /\ faults = 0
  BY DEF Init
<1>2. NoJob \in Job /\ NoJob.mail = None
  BY DEF NoJob, JobFor, Job
<1>3. TypeOK
  <2>1. commands \in 0..MaxCommands /\ faults \in 0..MaxFaults
    BY <1>1, Constants
  <2>2. inbox \in Seq(Mails) /\ ledger \in Seq(Charge) /\ today \in Seq(Charge)
    BY <1>1
  <2>3. job \in [Processes -> Job] /\ pc \in [Processes -> Locations]
    BY <1>1, <1>2 DEF Locations
  <2>4. file \in [Runs -> RunFile \cup {None}]
    BY <1>1
  <2> QED
    BY <1>1, <2>1, <2>2, <2>3, <2>4 DEF TypeOK
<1>4. JobInv /\ MailsInv /\ ReportInv /\ CopiesAgree
  BY <1>1, <1>2 DEF JobInv, JobOK, Busy, MailsInv, ReportInv, CopiesAgree
<1>5. DeliveryInv
  BY <1>1 DEF DeliveryInv, TextInv, SavedIsMailed, DeliveredIsMailed
<1>6. Within(ledger)
  <2>1. \A r : {i \in DOMAIN <<>> : <<>>[i].run = r} = {}
    OBVIOUS
  <2>2. {i \in DOMAIN <<>> : <<>>[i].age < Hour} = {}
    OBVIOUS
  <2> QED
    BY <1>1, <2>1, <2>2, FS_EmptySet, Constants DEF Within, ForRun, InHour
<1>7. Matched
  <2> DEFINE m == [i \in {} |-> 0]
             w == [p \in Processes |-> 0]
  <2>1. m \in [DOMAIN today -> 0..Len(ledger)] /\ w \in [Processes -> 0..Len(ledger)]
    BY <1>1
  <2>2. Charged(m) /\ InTurn(m) /\ OwnCharge(w, m)
    BY <1>1 DEF Charged, InTurn, OwnCharge, TurnOut
  <2> QED
    BY <2>1, <2>2 DEF Matched
<1>8. ChargesInv /\ MailedInv /\ ReservedInv
  BY <1>1 DEF ChargesInv, MailedInv, ReservedInv
<1> QED
  BY <1>3, <1>4, <1>5, <1>6, <1>7, <1>8 DEF MailInv, LedgerInv

\* Every state of every behaviour of the runner's mail loop, the operator's commands and
\* the send ledger satisfies the invariant.
THEOREM Invariance == Spec => []MailInv
<1>1. Init => MailInv
  BY MailInit
<1>2. MailInv /\ [Next]_vars => MailInv'
  BY MailStep, MailStutter
<1> QED
  BY <1>1, <1>2, PTL DEF Spec

\* The state files, the ledger, the queue and the locals of the processes keep their
\* types: whatever serve, a command or a fault does, state.json and ledger.json hold what
\* Run.load and check_and_reserve can read.
THEOREM TypeCorrect == Spec => []TypeOK
<1>1. MailInv => TypeOK
  BY DEF MailInv
<1> QED
  BY <1>1, Invariance, PTL

\* A report that mail_report marks delivered was mailed under its own text, for a run that
\* no two processes saved over each other.
THEOREM DeliveredWasMailed == Spec => []DeliveredIsMailed
<1>1. MailInv => DeliveredIsMailed
  BY DEF MailInv, DeliveryInv
<1> QED
  BY <1>1, Invariance, PTL

\* Each member of S has a mark of its own: f gives it one in T, or g one in R.
Marked(S, T, R, f, g) ==
  /\ \A x, y \in S : f[x] \in T /\ f[x] = f[y] => x = y
  /\ \A x \in S : f[x] \notin T => g[x] \in R
  /\ \A x, y \in S : f[x] \notin T /\ f[y] \notin T /\ g[x] = g[y] => x = y

LEMMA TwoParts ==
  ASSUME NEW S, NEW T, IsFiniteSet(T), NEW R, IsFiniteSet(R), NEW f, NEW g,
         Marked(S, T, R, f, g)
  PROVE  /\ Cardinality(S) <= Cardinality(T) + Cardinality(R)
         /\ Cardinality(S) \in Nat /\ Cardinality(T) \in Nat /\ Cardinality(R) \in Nat
<1> DEFINE A == {x \in S : f[x] \in T}
           B == {x \in S : f[x] \notin T}
<1>1. /\ S = A \cup B
      /\ \A x \in A : f[x] \in T
      /\ \A x, y \in A : f[x] = f[y] => x = y
      /\ \A x \in B : g[x] \in R
      /\ \A x, y \in B : g[x] = g[y] => x = y
  BY DEF Marked
<1> HIDE DEF A, B
<1>2. /\ IsFiniteSet(A) /\ Cardinality(A) <= Cardinality(T)
      /\ Cardinality(A) \in Nat /\ Cardinality(T) \in Nat
  BY <1>1, OneToOne
<1>3. /\ IsFiniteSet(B) /\ Cardinality(B) <= Cardinality(R)
      /\ Cardinality(B) \in Nat /\ Cardinality(R) \in Nat
  BY <1>1, OneToOne
<1>4. /\ IsFiniteSet(A \cup B)
      /\ Cardinality(A \cup B) = Cardinality(A) + Cardinality(B) - Cardinality(A \cap B)
  BY <1>2, <1>3, FS_Union
<1>5. Cardinality(A \cap B) \in Nat /\ Cardinality(S) \in Nat
  <2>1. A \cap B \in SUBSET A
    OBVIOUS
  <2>2. IsFiniteSet(A \cap B)
    BY <1>2, <2>1, FS_Subset
  <2> QED
    BY <1>1, <1>4, <2>2, FS_CardinalityType
<1> QED
  BY <1>1, <1>2, <1>3, <1>4, <1>5

\* Of the mails of a run that are not matched to a young charge, there is one at most.
LEMMA Unmatched ==
  ASSUME TypeOK, NEW m \in [DOMAIN today -> 0..Len(ledger)], Charged(m), InTurn(m),
         NEW limit \in Nat, NEW i \in DOMAIN today, NEW j \in DOMAIN today,
         today[i].run = today[j].run, today[i].run \notin shared,
         today[i].age < limit, today[j].age < limit,
         m[i] = 0 \/ ~(ledger[m[i]].age < limit), m[j] = 0 \/ ~(ledger[m[j]].age < limit)
  PROVE  i = j
<1>1. /\ today[i] \in Charge /\ today[j] \in Charge /\ i \in Nat /\ j \in Nat
      /\ \A k \in 1..Len(ledger) : ledger[k] \in Charge
      /\ \A k \in 0..Len(ledger) : k # 0 => k \in 1..Len(ledger)
  BY DEF TypeOK
<1>2. \A x : x \in Charge => x.age \in Nat
  <2>1. \A x : x \in 0..Day-1 => x \in Nat
    BY Constants
  <2> QED
    BY <2>1, ChargeFields
<1>3. today[i].key # 0 /\ today[j].key # 0
  BY DEF Charged
<1>4. ASSUME NEW a \in DOMAIN today, NEW z \in DOMAIN today, Later(a, z), today[a].age < limit
      PROVE  m[z] # 0 /\ ledger[m[z]].age < limit
  <2>1. m[z] # 0 /\ ledger[m[z]].age <= today[a].age
    BY <1>4 DEF InTurn
  <2>2. today[a] \in Charge /\ ledger[m[z]] \in Charge
    BY <1>1, <2>1 DEF TypeOK
  <2>3. today[a].age \in Nat /\ ledger[m[z]].age \in Nat
    BY <1>2, <2>2
  <2> QED
    BY <1>4, <2>1, <2>3
<1>5. ~(i < j)
  BY <1>3, <1>4 DEF Later
<1>6. ~(j < i)
  BY <1>3, <1>4 DEF Later
<1> QED
  BY <1>1, <1>5, <1>6

LEMMA Ceilings ==
  ASSUME TypeOK, LedgerInv
  PROVE  CeilingsHold
<1> SUFFICES ASSUME ~lost
             PROVE  /\ \A r \in Runs \ shared : ForRun(today, r) <= PerRun + 1
                    /\ shared = {} => /\ InHour(today) <= PerHour + Cardinality(Runs)
                                       /\ Len(today) <= PerDay + Cardinality(Runs)
  BY DEF CeilingsHold
<1>1. Within(ledger) /\ Matched
  BY DEF LedgerInv
<1>2. PICK m \in [DOMAIN today -> 0..Len(ledger)] : Charged(m) /\ InTurn(m)
  BY <1>1 DEF Matched
<1>3. /\ ledger \in Seq(Charge) /\ DOMAIN ledger = 1..Len(ledger) /\ Len(ledger) \in Nat
      /\ today \in Seq(Charge)
      /\ \A i \in DOMAIN today : m[i] # 0 <=> m[i] \in DOMAIN ledger
  BY DEF TypeOK
<1>4. \A i \in DOMAIN today : today[i].run \in Runs /\ today[i].age \in 0..Day-1
  <2>1. \A i \in DOMAIN today : today[i] \in Charge
    BY <1>3
  <2> QED
    BY <2>1, ChargeFields
<1>5. \A i \in DOMAIN ledger : ledger[i].age \in 0..Day-1
  <2>1. \A i \in DOMAIN ledger : ledger[i] \in Charge
    BY <1>3
  <2> QED
    BY <2>1, ChargeFields
<1>6. \A x \in 0..Day-1 : x < Day /\ x \in Nat
  BY Constants
<1> DEFINE g == [i \in DOMAIN today |-> today[i].run]
<1>7. \A i \in DOMAIN today : g[i] = today[i].run
  OBVIOUS
<1> HIDE DEF g
<1>8. ASSUME NEW limit \in Nat, NEW i \in DOMAIN today, NEW j \in DOMAIN today,
             today[i].run = today[j].run, today[i].run \notin shared,
             today[i].age < limit, today[j].age < limit,
             m[i] = 0 \/ ~(ledger[m[i]].age < limit), m[j] = 0 \/ ~(ledger[m[j]].age < limit)
      PROVE  i = j
  BY <1>2, <1>8, Unmatched
<1>9. ASSUME NEW i \in DOMAIN today, NEW j \in DOMAIN today,
             m[i] \in DOMAIN ledger, m[i] = m[j]
      PROVE  i = j
  BY <1>2, <1>3, <1>9 DEF Charged
<1>10. ASSUME NEW r \in Runs \ shared
       PROVE  ForRun(today, r) <= PerRun + 1
  <2> DEFINE S == {i \in DOMAIN today : today[i].run = r}
             T == {i \in DOMAIN ledger : ledger[i].run = r}
  <2>1. T \in SUBSET (DOMAIN ledger)
    OBVIOUS
  <2>2. IsFiniteSet(T)
    BY <1>3, <2>1, FiniteParts
  <2>3. \A x \in S : m[x] # 0 => m[x] \in T
    BY <1>2, <1>3 DEF Charged
  <2>4. \A x, y \in S : m[x] \in T /\ m[x] = m[y] => x = y
    BY <1>9
  <2>5. \A x \in S : m[x] \notin T => g[x] \in {r}
    BY <1>7
  <2>6. \A x, y \in S : m[x] \notin T /\ m[y] \notin T /\ g[x] = g[y] => x = y
    <3> SUFFICES ASSUME NEW x \in S, NEW y \in S, m[x] \notin T, m[y] \notin T
                 PROVE  x = y
      OBVIOUS
    <3>1. /\ x \in DOMAIN today /\ today[x].run = r /\ today[x].age < Day
          /\ y \in DOMAIN today /\ today[y].run = r /\ today[y].age < Day
      BY <1>4, <1>6
    <3>2. m[x] = 0 /\ m[y] = 0
      BY <2>3
    <3>3. Day \in Nat /\ r \notin shared
      BY <1>10, Constants
    <3> QED
      BY <1>8, <3>1, <3>2, <3>3
  <2>7. IsFiniteSet({r}) /\ Cardinality({r}) = 1
    BY FS_Singleton
  <2>8. Cardinality(S) <= Cardinality(T) + 1 /\ Cardinality(S) \in Nat /\ Cardinality(T) \in Nat
    <3> HIDE DEF S, T
    <3>1. Marked(S, T, {r}, m, g)
      BY <2>4, <2>5, <2>6 DEF Marked
    <3>2. /\ Cardinality(S) <= Cardinality(T) + Cardinality({r})
          /\ Cardinality(S) \in Nat /\ Cardinality(T) \in Nat
      BY <2>2, <2>7, <3>1, TwoParts
    <3> QED
      BY <2>7, <3>2
  <2>9. Cardinality(T) <= PerRun
    BY <1>1 DEF Within, ForRun
  <2> QED
    BY <2>8, <2>9, Constants DEF ForRun
<1>11. ASSUME shared = {}, NEW limit \in Nat, NEW S \in SUBSET DOMAIN today,
              NEW T \in SUBSET DOMAIN ledger,
              \A i \in S : today[i].age < limit,
              \A k \in DOMAIN ledger : ledger[k].age < limit => k \in T
       PROVE  /\ Cardinality(S) <= Cardinality(T) + Cardinality(Runs)
              /\ Cardinality(S) \in Nat /\ Cardinality(T) \in Nat
              /\ Cardinality(Runs) \in Nat
  <2>1. IsFiniteSet(T)
    BY <1>3, FiniteParts
  <2>2. \A x, y \in S : m[x] \in T /\ m[x] = m[y] => x = y
    BY <1>9
  <2>3. \A x \in S : m[x] \notin T => g[x] \in Runs
    BY <1>4, <1>7
  <2>4. \A x \in S : m[x] \notin T => m[x] = 0 \/ ~(ledger[m[x]].age < limit)
    BY <1>3, <1>11
  <2>5. \A x, y \in S : m[x] \notin T /\ m[y] \notin T /\ g[x] = g[y] => x = y
    BY <1>7, <1>8, <1>11, <2>4
  <2>6. IsFiniteSet(Runs)
    BY Constants
  <2>7. Marked(S, T, Runs, m, g)
    BY <2>2, <2>3, <2>5 DEF Marked
  <2> QED
    BY <2>1, <2>6, <2>7, TwoParts
<1>12. ASSUME shared = {}
       PROVE  InHour(today) <= PerHour + Cardinality(Runs)
  <2> DEFINE S == {i \in DOMAIN today : today[i].age < Hour}
             T == {i \in DOMAIN ledger : ledger[i].age < Hour}
  <2>1. /\ S \in SUBSET DOMAIN today /\ T \in SUBSET DOMAIN ledger
        /\ \A i \in S : today[i].age < Hour
        /\ \A k \in DOMAIN ledger : ledger[k].age < Hour => k \in T
    OBVIOUS
  <2>2. /\ Cardinality(S) <= Cardinality(T) + Cardinality(Runs)
        /\ Cardinality(S) \in Nat /\ Cardinality(T) \in Nat
        /\ Cardinality(Runs) \in Nat
    <3> HIDE DEF S, T
    <3> QED
      BY <1>11, <1>12, <2>1, Constants
  <2>3. Cardinality(T) <= PerHour
    BY <1>1 DEF Within, InHour
  <2> QED
    BY <2>2, <2>3, Constants DEF InHour
<1>13. ASSUME shared = {}
       PROVE  Len(today) <= PerDay + Cardinality(Runs)
  <2>1. /\ Cardinality(DOMAIN today) <= Cardinality(DOMAIN ledger) + Cardinality(Runs)
        /\ Cardinality(Runs) \in Nat
    BY <1>4, <1>6, <1>11, <1>13, Constants
  <2>2. Cardinality(DOMAIN today) = Len(today) /\ Len(today) \in Nat
    BY <1>3, FiniteParts
  <2>3. Cardinality(DOMAIN ledger) = Len(ledger)
    BY <1>3, FiniteParts
  <2>4. Len(ledger) <= PerDay
    BY <1>1 DEF Within
  <2> QED
    BY <1>3, <2>1, <2>2, <2>3, <2>4, Constants
<1> QED
  BY <1>10, <1>12, <1>13

\* What the provider mails in a day or in an hour passes the ceilings of check_and_reserve
\* by at most one mail for each run, while no replacement of ledger.json lost a charge.
THEOREM MailWithinCeilings == Spec => []CeilingsHold
<1>1. MailInv => CeilingsHold
  BY Ceilings DEF MailInv
<1> QED
  BY <1>1, Invariance, PTL
=============================================================================
