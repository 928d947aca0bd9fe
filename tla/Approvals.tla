----------------------------- MODULE Approvals -----------------------------
(***************************************************************************)
(* The single-use approvals of one run: the ledger of                      *)
(* src/cloud/connector_approvals.py, the tool calls of the gateway         *)
(* processes (call_allowed_tool of connector_gateway.py) and the commands  *)
(* with which a human approves (connector_cli.py).                         *)
(*                                                                         *)
(* A transaction holds an flock while it loads, changes and replaces the   *)
(* file, and takes its time before it waits for that lock.  A process may  *)
(* die at any step: the lock is freed, and the file is the old or the new  *)
(* one.  A call is a run, connector, tool and arguments, compared as one.  *)
(***************************************************************************)
EXTENDS Integers, FiniteSets

CONSTANTS
  Processes,   \* gateway calls and human commands
  Ids,         \* the approval ids that may be drawn
  Calls,       \* exact calls
  Ttl,         \* seconds a request lives
  MaxRecords,  \* MAX_RECORDS
  MaxTime,     \* bound: the clock
  None

\* ended stands for consumed_at or expired_at.
Record == [status : {"pending", "approved", "consumed", "expired"},
           call : Calls, expires : Nat, ended : Nat]

ASSUME ApprovalAssumption ==
  /\ None \notin Processes \cup Ids \cup Calls \cup Record
  /\ Ttl \in Nat \ {0} /\ MaxRecords \in Nat \ {0} /\ MaxTime \in Nat

VARIABLES
  ledger,    \* the records of the file, by id; None where there is none
  drawn,     \* ids that were ever drawn
  clock,
  lock,      \* the process that holds the flock, or None
  loaded,    \* the ledger each process has loaded
  pc, op,    \* where each process is, and what it does
  agreed,    \* the calls a human approved, by id
  executed   \* the executions under each id, of which call

vars == <<ledger, drawn, clock, lock, loaded, pc, op, agreed, executed>>

Operation == [kind : {"request", "approve", "consume"}, id : Ids \cup {None},
              call : Calls \cup {None}, at : Nat]

TypeOK ==
  /\ ledger \in [Ids -> Record \cup {None}]
  /\ drawn \subseteq Ids
  /\ clock \in 0..MaxTime
  /\ lock \in Processes \cup {None}
  /\ loaded \in [Processes -> [Ids -> Record \cup {None}]]
  /\ pc \in [Processes -> {"idle", "waiting", "locked", "calling"}]
  /\ op \in [Processes -> Operation]
  /\ agreed \in [Ids -> Calls \cup {None}]
  /\ executed \in [Ids -> [Calls -> Nat]]

NoRecords == [i \in Ids |-> None]

Idle == [kind |-> "request", id |-> None, call |-> None, at |-> 0]

Init ==
  /\ ledger = NoRecords /\ drawn = {} /\ clock = 0 /\ lock = None
  /\ loaded = [p \in Processes |-> NoRecords]
  /\ pc = [p \in Processes |-> "idle"]
  /\ op = [p \in Processes |-> Idle]
  /\ agreed = NoRecords
  /\ executed = [i \in Ids |-> [c \in Calls |-> 0]]

----------------------------------------------------------------------------
Goto(p, place) == pc' = [pc EXCEPT ![p] = place]

\* A process that ends forgets what it held.
End(p) ==
  /\ Goto(p, "idle")
  /\ op' = [op EXCEPT ![p] = Idle]
  /\ loaded' = [loaded EXCEPT ![p] = NoRecords]

Takes(p, kind, id, call) ==
  op' = [op EXCEPT ![p] = [kind |-> kind, id |-> id, call |-> call, at |-> clock]]

\* A tool call without an approval, one with an approval id the agent was
\* told, whatever call it belongs to, or the human's command.
Begin(p) ==
  /\ pc[p] = "idle"
  /\ \/ \E c \in Calls : Takes(p, "request", None, c)
     \/ \E i \in drawn, c \in Calls : Takes(p, "consume", i, c)
     \/ \E i \in drawn : Takes(p, "approve", i, None)
  /\ Goto(p, "waiting")
  /\ UNCHANGED <<ledger, drawn, clock, lock, loaded, agreed, executed>>

ExpirePending(L, now) ==  \* mutant: an approval never expires
  [i \in Ids |->
     IF L[i] # None /\ L[i].status = "pending" /\ now >= L[i].expires
       THEN [L[i] EXCEPT !.status = "expired", !.ended = now] ELSE L[i]]

\* _expire
Expire(L, now) ==
  [i \in Ids |->
     IF L[i] # None /\ L[i].status \in {"pending", "approved"}
                    /\ now >= L[i].expires
       THEN [L[i] EXCEPT !.status = "expired", !.ended = now] ELSE L[i]]

SharedLoad(p) ==  \* mutant: the ledger is loaded without the lock
  /\ pc[p] = "waiting"
  /\ lock' = p
  /\ loaded' = [loaded EXCEPT ![p] = Expire(ledger, op[p].at)]
  /\ Goto(p, "locked")
  /\ UNCHANGED <<ledger, drawn, clock, op, agreed, executed>>

\* _exclusive_lock, _load_ledger and _expire, with the time taken before.
Load(p) ==
  /\ pc[p] = "waiting"
  /\ lock = None
  /\ lock' = p
  /\ loaded' = [loaded EXCEPT ![p] = Expire(ledger, op[p].at)]
  /\ Goto(p, "locked")
  /\ UNCHANGED <<ledger, drawn, clock, op, agreed, executed>>

Held(L) == {i \in Ids : L[i] # None}

Terminal(L) == {i \in Held(L) : L[i].status \in {"consumed", "expired"}}

Oldest(L, S) == {i \in S : \A j \in S : L[i].ended <= L[j].ended}

OldestFirst(L) ==  \* mutant: the oldest record goes, whatever its status
  IF Cardinality(Held(L)) < MaxRecords THEN {L}
  ELSE {[L EXCEPT ![i] = None] : i \in Oldest(L, Held(L))}

\* _make_space: the ledgers with room that it may leave, none when every
\* record is active.  It never finds more than MaxRecords records.
MakeSpace(L) ==
  IF Cardinality(Held(L)) < MaxRecords THEN {L}
  ELSE {[L EXCEPT ![i] = None] : i \in Oldest(L, Terminal(L))}

UndatedRecord(o) ==  \* mutant: a request starts without an expiry
  [status |-> "pending", call |-> o.call, ended |-> 0]

NewRecord(o) == [status |-> "pending", call |-> o.call,
                 expires |-> o.at + Ttl, ended |-> 0]

\* request_approval, with an id that is random and so never drawn before.
Request(p) ==
  /\ pc[p] = "locked" /\ op[p].kind = "request"
  /\ IF MakeSpace(loaded[p]) = {}
       THEN ledger' = loaded[p] /\ UNCHANGED drawn
       ELSE \E L \in MakeSpace(loaded[p]), i \in Ids \ drawn :
              /\ ledger' = [L EXCEPT ![i] = NewRecord(op[p])]
              /\ drawn' = drawn \cup {i}
  /\ lock' = None
  /\ End(p)
  /\ UNCHANGED <<clock, agreed, executed>>

\* approve: the human saw the record with get_for_review.
Approve(p) ==
  /\ pc[p] = "locked" /\ op[p].kind = "approve"
  /\ LET i == op[p].id  L == loaded[p]
     IN  IF L[i] # None /\ L[i].status = "pending"
           THEN /\ ledger' = [L EXCEPT ![i].status = "approved"]
                /\ agreed' = [agreed EXCEPT ![i] = L[i].call]
           ELSE ledger' = L /\ UNCHANGED agreed
  /\ lock' = None
  /\ End(p)
  /\ UNCHANGED <<drawn, clock, executed>>

\* What consume asks of the record it finds.
Matches(r, o) == r # None /\ r.status = "approved" /\ r.call = o.call

\* consume.  When the write reports an error after the replacement the
\* approval is spent and the tool is not called.
Consume(p) ==
  /\ pc[p] = "locked" /\ op[p].kind = "consume"
  /\ LET i == op[p].id  L == loaded[p]
     IN  IF Matches(L[i], op[p])
           THEN /\ ledger' = [L EXCEPT ![i].status = "consumed",
                                       ![i].ended = op[p].at]
                /\ \/ Goto(p, "calling") /\ UNCHANGED <<op, loaded>>
                   \/ End(p)
           ELSE ledger' = L /\ End(p)
  /\ lock' = None
  /\ UNCHANGED <<drawn, clock, agreed, executed>>

\* call_allowed_tool goes on to the remote tool, and may fail before it.
Call(p) ==
  /\ pc[p] = "calling"
  /\ \/ executed' = [executed EXCEPT ![op[p].id][op[p].call] = @ + 1]
     \/ UNCHANGED executed
  /\ End(p)
  /\ UNCHANGED <<ledger, drawn, clock, lock, agreed>>

\* A process dies; its lock is freed and its transaction forgotten.
Die(p) ==
  /\ pc[p] # "idle"
  /\ lock' = IF lock = p THEN None ELSE lock
  /\ End(p)
  /\ UNCHANGED <<ledger, drawn, clock, agreed, executed>>

Tick ==
  /\ clock < MaxTime
  /\ clock' = clock + 1
  /\ UNCHANGED <<ledger, drawn, lock, loaded, pc, op, agreed, executed>>

Next ==
  \/ \E p \in Processes : Begin(p) \/ Load(p) \/ Request(p) \/ Approve(p)
                          \/ Consume(p) \/ Call(p) \/ Die(p)
  \/ Tick

Spec == Init /\ [][Next]_vars

----------------------------------------------------------------------------
(***************************************************************************)
(* Properties                                                              *)
(***************************************************************************)

\* An approval allows at most one execution, and only of the exact call that
\* a human approved, however many processes present it, replay it, wait for
\* the lock or die, and even when its record was evicted (consume).
ExecutedOnceAsApproved ==
  \A i \in Ids, c \in Calls :
    executed[i][c] > 0 => executed[i][c] = 1 /\ agreed[i] = c

\* Nobody spends an approval at or after its expiry by the clock it went by,
\* whoever else has looked at the ledger meanwhile (_expire, consume).
SpentInTime ==
  \A i \in Ids :
    ledger[i] # None /\ ledger[i].status = "consumed"
      => ledger[i].ended < ledger[i].expires

\* No record that may still be approved or used is given up for a new one, and
\* none that has ended comes to life again (_make_space, approve, consume).
ActiveRecordsStay ==
  [][\A i \in Held(ledger) :
       IF ledger'[i] = None THEN i \in Terminal(Expire(ledger, clock))
       ELSE i \in Terminal(ledger) => ledger'[i] = ledger[i]]_vars
=============================================================================
