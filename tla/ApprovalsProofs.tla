--------------------------- MODULE ApprovalsProofs ---------------------------
(***************************************************************************)
(* Proofs about Approvals, for every set of processes, ids and calls, and  *)
(* for every lifetime and size of the ledger.                              *)
(***************************************************************************)
EXTENDS Approvals, TLAPS

\* What a process works with was given to it when it began, by the clock of
\* then; an id that it presents was drawn.
OperationsAreWhole ==
  \A p \in Processes :
    /\ op[p].at <= clock
    /\ pc[p] # "idle" =>
         /\ op[p].kind \in {"request", "consume"} => op[p].call \in Calls
         /\ op[p].kind \in {"approve", "consume"} => op[p].id \in drawn
    /\ pc[p] = "calling" => op[p].kind = "consume"

\* One process at a time has loaded the ledger, and what it has loaded is the
\* file as it still is, without what had expired.
LockHolderIsCurrent ==
  \A p \in Processes :
    /\ pc[p] = "locked" <=> lock = p
    /\ pc[p] = "locked" => loaded[p] = Expire(ledger, op[p].at)

\* A record belongs to a drawn id, and an approval is a human's.
RecordsAreHonest ==
  \A i \in Held(ledger) :
    /\ i \in drawn
    /\ ledger[i].status \in {"approved", "consumed"} => agreed[i] = ledger[i].call

\* The approval i was used: its record says so, or was evicted since.
Spent(i) == i \in drawn /\ (ledger[i] = None \/ ledger[i].status = "consumed")

\* A process on its way to the tool has an approval to itself, which was spent
\* for this call and has executed nothing.
CallersAreApproved ==
  \A p \in Processes : pc[p] = "calling" =>
    /\ Spent(op[p].id) /\ agreed[op[p].id] = op[p].call
    /\ \A c \in Calls : executed[op[p].id][c] = 0
    /\ \A q \in Processes \ {p} : pc[q] = "calling" => op[q].id # op[p].id

\* What was executed was spent.
ExecutedIsSpent ==
  \A i \in Ids, c \in Calls : executed[i][c] > 0 => Spent(i)

ApprovalsInv ==
  /\ TypeOK
  /\ OperationsAreWhole
  /\ LockHolderIsCurrent
  /\ RecordsAreHonest
  /\ CallersAreApproved
  /\ ExecutedIsSpent
  /\ ExecutedOnceAsApproved
  /\ SpentInTime
----------------------------------------------------------------------------
(***************************************************************************)
(* What the operators on ledgers return.                                   *)
(***************************************************************************)
Ledgers == [Ids -> Record \cup {None}]

LEMMA RecordFields ==
  ASSUME NEW x \in Record
  PROVE  /\ x # None
         /\ x.status \in {"pending", "approved", "consumed", "expired"}
         /\ x.call \in Calls /\ x.expires \in Nat /\ x.ended \in Nat
BY ApprovalAssumption DEF Record

\* A record in which a status and a time were written is a record.
LEMMA EndedType ==
  ASSUME NEW x \in Record, NEW now \in Nat,
         NEW status \in {"consumed", "expired"}
  PROVE  LET y == [x EXCEPT !.status = status, !.ended = now]
         IN  /\ y \in Record /\ y.status = status /\ y.ended = now
             /\ y.call = x.call /\ y.expires = x.expires
BY DEF Record

LEMMA ApprovedType ==
  ASSUME NEW x \in Record
  PROVE  LET y == [x EXCEPT !.status = "approved"]
         IN  y \in Record /\ y.status = "approved" /\ y.call = x.call
BY DEF Record

\* _expire ends what is active and too old, and nothing else.
LEMMA ExpireEnds ==
  ASSUME NEW L \in Ledgers, NEW now \in Nat
  PROVE  /\ Expire(L, now) \in Ledgers
         /\ \A i \in Ids :
              LET x == Expire(L, now)[i]
              IN  /\ x = None <=> L[i] = None
                  /\ \/ x = L[i]
                     \/ /\ L[i] # None /\ x # None
                        /\ L[i].status \in {"pending", "approved"}
                        /\ x.status = "expired" /\ now >= L[i].expires
                  /\ x # None /\ x.status \in {"pending", "approved"}
                       => x = L[i] /\ now < x.expires
<1> DEFINE Ends(i) == /\ L[i] # None
                      /\ L[i].status \in {"pending", "approved"}
                      /\ now >= L[i].expires
           Ended(i) == [L[i] EXCEPT !.status = "expired", !.ended = now]
<1>1. \A i \in Ids : L[i] # None => L[i] \in Record
  BY DEF Ledgers
<1>2. \A i \in Ids :
        Ends(i) => /\ Ended(i) \in Record /\ Ended(i) # None
                   /\ Ended(i).status = "expired"
  BY <1>1, EndedType, RecordFields
<1>3. Expire(L, now) = [i \in Ids |-> IF Ends(i) THEN Ended(i) ELSE L[i]]
  BY Zenon DEF Expire
<1> HIDE DEF Ended
<1>4. \A i \in Ids : L[i] # None => L[i].expires \in Nat
  BY <1>1, RecordFields
<1> QED
  BY <1>1, <1>2, <1>3, <1>4, ApprovalAssumption DEF Ledgers

\* _make_space gives up a record that has ended, or none.
LEMMA MakeSpaceEvicts ==
  ASSUME NEW L \in Ledgers, NEW M \in MakeSpace(L)
  PROVE  /\ M \in Ledgers
         /\ \A i \in Ids : M[i] = L[i] \/ (M[i] = None /\ i \in Terminal(L))
<1>1. CASE M = L
  BY <1>1
<1>2. CASE \E i \in Terminal(L) : M = [L EXCEPT ![i] = None]
  BY <1>2 DEF Ledgers, Terminal, Held
<1> QED
  BY <1>1, <1>2 DEF MakeSpace, Oldest
----------------------------------------------------------------------------
(***************************************************************************)
(* The type invariant, and what a process holds.                           *)
(***************************************************************************)
LEMMA ApprovalsInit == Init => ApprovalsInv
<1> SUFFICES ASSUME Init PROVE ApprovalsInv
  OBVIOUS
<1> USE ApprovalAssumption DEF Init, NoRecords
<1>1. TypeOK
  BY DEF TypeOK, Idle, Operation
<1>2. OperationsAreWhole /\ LockHolderIsCurrent
  BY DEF OperationsAreWhole, LockHolderIsCurrent, Idle
<1>3. RecordsAreHonest /\ SpentInTime
  BY DEF RecordsAreHonest, SpentInTime, Held
<1>4. CallersAreApproved /\ ExecutedIsSpent /\ ExecutedOnceAsApproved
  BY DEF CallersAreApproved, ExecutedIsSpent, ExecutedOnceAsApproved
<1> QED
  BY <1>1, <1>2, <1>3, <1>4 DEF ApprovalsInv

\* A process between Load and its write: its copy of the ledger.
LEMMA LoadedLedger ==
  ASSUME ApprovalsInv, NEW p \in Processes, pc[p] = "locked"
  PROVE  /\ ledger \in Ledgers /\ op[p].at \in Nat /\ op[p] \in Operation
         /\ loaded[p] = Expire(ledger, op[p].at)
         /\ loaded[p] \in Ledgers
BY ExpireEnds
DEF ApprovalsInv, TypeOK, LockHolderIsCurrent, Operation, Ledgers

LEMMA NewRecordType ==
  ASSUME NEW o \in Operation, o.call \in Calls
  PROVE  /\ NewRecord(o) \in Record
         /\ NewRecord(o).status = "pending" /\ NewRecord(o).call = o.call
BY ApprovalAssumption DEF NewRecord, Record, Operation

LEMMA TypeStep ==
  ApprovalsInv /\ [Next]_vars => TypeOK' /\ OperationsAreWhole'
<1> SUFFICES ASSUME ApprovalsInv, [Next]_vars
             PROVE  TypeOK' /\ OperationsAreWhole'
  OBVIOUS
<1>0. /\ Idle \in Operation /\ Idle.at = 0 /\ NoRecords \in Ledgers
      /\ TypeOK /\ OperationsAreWhole
  BY DEF Idle, Operation, NoRecords, Ledgers, ApprovalsInv
<1> USE DEF TypeOK, OperationsAreWhole, Goto, End
<1>1. ASSUME NEW p \in Processes, Begin(p) PROVE TypeOK' /\ OperationsAreWhole'
  <2>1. clock \in Nat /\ drawn \subseteq Ids
    BY <1>0, ApprovalAssumption
  <2> DEFINE o == op'[p]
  <2>2. /\ op' = [op EXCEPT ![p] = o]
        /\ o \in Operation /\ o.at = clock
        /\ o.kind \in {"request", "consume"} => o.call \in Calls
        /\ o.kind \in {"approve", "consume"} => o.id \in drawn
    <3>1. CASE \E c \in Calls : Takes(p, "request", None, c)
      BY <1>0, <2>1, <3>1 DEF Takes, Operation
    <3>2. CASE \E i \in drawn, c \in Calls : Takes(p, "consume", i, c)
      BY <1>0, <2>1, <3>2 DEF Takes, Operation
    <3>3. CASE \E i \in drawn : Takes(p, "approve", i, None)
      BY <1>0, <2>1, <3>3 DEF Takes, Operation
    <3> QED
      BY <1>1, <3>1, <3>2, <3>3 DEF Begin
  <2>3. /\ pc' = [pc EXCEPT ![p] = "waiting"]
        /\ UNCHANGED <<ledger, drawn, clock, lock, loaded, agreed, executed>>
    BY <1>1 DEF Begin
  <2> HIDE DEF o
  <2>4. TypeOK'
    BY <1>0, <2>2, <2>3
  <2>5. OperationsAreWhole'
    BY <1>0, <2>1, <2>2, <2>3
  <2> QED
    BY <2>4, <2>5
<1>2. ASSUME NEW p \in Processes, Load(p) PROVE TypeOK' /\ OperationsAreWhole'
  <2>1. Expire(ledger, op[p].at) \in Ledgers
    BY <1>0, ExpireEnds DEF Operation, Ledgers
  <2> QED
    BY <1>0, <1>2, <2>1 DEF Load, Ledgers
<1>3. ASSUME NEW p \in Processes, Request(p) PROVE TypeOK' /\ OperationsAreWhole'
  <2>1. ledger' \in Ledgers /\ drawn' \subseteq Ids /\ drawn \subseteq drawn'
    <3>1. NewRecord(op[p]) \in Record
      BY <1>0, <1>3, NewRecordType DEF Request
    <3>2. \A L \in MakeSpace(loaded[p]) : L \in Ledgers
      BY <1>3, LoadedLedger, MakeSpaceEvicts DEF Request
    <3>3. CASE ledger' = loaded[p] /\ UNCHANGED drawn
      BY <1>0, <1>3, <3>3, LoadedLedger DEF Request
    <3>4. ASSUME NEW L \in MakeSpace(loaded[p]), NEW i \in Ids \ drawn,
                 ledger' = [L EXCEPT ![i] = NewRecord(op[p])],
                 drawn' = drawn \cup {i}
          PROVE  /\ ledger' \in Ledgers /\ drawn' \subseteq Ids
                 /\ drawn \subseteq drawn'
      BY <1>0, <3>1, <3>2, <3>4 DEF Ledgers
    <3> QED
      BY <1>3, <3>3, <3>4 DEF Request
  <2> QED
    BY <1>0, <1>3, <2>1 DEF Request, Ledgers
<1>4. ASSUME NEW p \in Processes, Approve(p) PROVE TypeOK' /\ OperationsAreWhole'
  <2>1. op[p].id \in Ids /\ loaded[p] \in Ledgers
    BY <1>0, <1>4, LoadedLedger DEF Approve
  <2>2. ledger' \in Ledgers /\ agreed' \in [Ids -> Calls \cup {None}]
    <3>1. CASE /\ loaded[p][op[p].id] # None
               /\ loaded[p][op[p].id].status = "pending"
      <4>1. loaded[p][op[p].id] \in Record
        BY <2>1, <3>1 DEF Ledgers
      <4>2. /\ [loaded[p][op[p].id] EXCEPT !.status = "approved"] \in Record
            /\ loaded[p][op[p].id].call \in Calls
        BY <4>1, ApprovedType, RecordFields
      <4> QED
        BY <1>0, <1>4, <2>1, <3>1, <4>2 DEF Approve, Ledgers
    <3>2. CASE ~ /\ loaded[p][op[p].id] # None
                 /\ loaded[p][op[p].id].status = "pending"
      BY <1>0, <1>4, <2>1, <3>2 DEF Approve
    <3> QED
      BY <3>1, <3>2
  <2> QED
    BY <1>0, <1>4, <2>2 DEF Approve, Ledgers
<1>5. ASSUME NEW p \in Processes, Consume(p) PROVE TypeOK' /\ OperationsAreWhole'
  <2>1. op[p].id \in Ids /\ loaded[p] \in Ledgers /\ op[p].at \in Nat
    BY <1>0, <1>5, LoadedLedger DEF Consume
  <2>2. ledger' \in Ledgers
    <3>1. CASE Matches(loaded[p][op[p].id], op[p])
      <4>1. loaded[p][op[p].id] \in Record
        BY <2>1, <3>1 DEF Ledgers, Matches
      <4>2. [loaded[p][op[p].id] EXCEPT !.status = "consumed", !.ended = op[p].at]
              \in Record
        BY <2>1, <4>1, EndedType
      <4> QED
        BY <1>5, <2>1, <3>1, <4>2 DEF Consume, Ledgers
    <3>2. CASE ~Matches(loaded[p][op[p].id], op[p])
      BY <1>5, <2>1, <3>2 DEF Consume
    <3> QED
      BY <3>1, <3>2
  <2>3. /\ \/ pc' = [pc EXCEPT ![p] = "calling"] /\ UNCHANGED <<op, loaded>>
           \/ End(p)
        /\ op[p].kind = "consume" /\ lock' = None
        /\ UNCHANGED <<drawn, clock, agreed, executed>>
    BY <1>5 DEF Consume
  <2>4. CASE End(p)
    BY <1>0, <2>2, <2>3, <2>4 DEF Ledgers
  <2>5. CASE pc' = [pc EXCEPT ![p] = "calling"] /\ UNCHANGED <<op, loaded>>
    BY <1>0, <1>5, <2>2, <2>3, <2>5 DEF Ledgers, Consume
  <2> QED
    BY <2>3, <2>4, <2>5
<1>6. ASSUME NEW p \in Processes, Call(p) PROVE TypeOK' /\ OperationsAreWhole'
  <2>1. executed' \in [Ids -> [Calls -> Nat]]
    <3>1. op[p].id \in Ids /\ op[p].call \in Calls
      BY <1>0, <1>6 DEF Call
    <3> DEFINE i == op[p].id
               e == [executed[i] EXCEPT ![op[p].call] = @ + 1]
    <3>2. e \in [Calls -> Nat]
      BY <1>0, <3>1
    <3>3. executed' = [executed EXCEPT ![i] = e] \/ UNCHANGED executed
      BY <1>6 DEF Call
    <3> QED
      BY <1>0, <3>1, <3>2, <3>3
  <2> QED
    BY <1>0, <1>6, <2>1 DEF Call, Ledgers
<1>7. ASSUME NEW p \in Processes, Die(p) PROVE TypeOK' /\ OperationsAreWhole'
  BY <1>0, <1>7 DEF Die, Ledgers
<1>8. CASE Tick
  BY <1>0, <1>8, ApprovalAssumption DEF Tick, Operation
<1>9. CASE UNCHANGED vars
  BY <1>0, <1>9 DEF vars
<1> QED
  BY <1>1, <1>2, <1>3, <1>4, <1>5, <1>6, <1>7, <1>8, <1>9 DEF Next

\* Only the holder of the lock writes the ledger, and it frees the lock then.
LEMMA LockStep == ApprovalsInv /\ [Next]_vars => LockHolderIsCurrent'
<1> SUFFICES ASSUME ApprovalsInv, [Next]_vars PROVE LockHolderIsCurrent'
  OBVIOUS
<1>0. TypeOK /\ LockHolderIsCurrent /\ None \notin Processes
  BY ApprovalAssumption DEF ApprovalsInv
<1> USE DEF TypeOK, LockHolderIsCurrent, Goto, End
<1>1. ASSUME NEW p \in Processes, Begin(p) PROVE LockHolderIsCurrent'
  <2>1. \A q \in Processes \ {p} : op'[q] = op[q]
    BY <1>0, <1>1 DEF Begin, Takes
  <2> QED
    BY <1>0, <1>1, <2>1 DEF Begin
<1>2. ASSUME NEW p \in Processes, Load(p) PROVE LockHolderIsCurrent'
  BY <1>0, <1>2 DEF Load
<1>3. ASSUME NEW p \in Processes, Request(p) PROVE LockHolderIsCurrent'
  BY <1>0, <1>3 DEF Request
<1>4. ASSUME NEW p \in Processes, Approve(p) PROVE LockHolderIsCurrent'
  BY <1>0, <1>4 DEF Approve
<1>5. ASSUME NEW p \in Processes, Consume(p) PROVE LockHolderIsCurrent'
  BY <1>0, <1>5 DEF Consume
<1>6. ASSUME NEW p \in Processes, Call(p) PROVE LockHolderIsCurrent'
  BY <1>0, <1>6 DEF Call
<1>7. ASSUME NEW p \in Processes, Die(p) PROVE LockHolderIsCurrent'
  BY <1>0, <1>7 DEF Die
<1>8. CASE Tick
  BY <1>0, <1>8 DEF Tick
<1>9. CASE UNCHANGED vars
  BY <1>0, <1>9 DEF vars
<1> QED
  BY <1>1, <1>2, <1>3, <1>4, <1>5, <1>6, <1>7, <1>8, <1>9 DEF Next
----------------------------------------------------------------------------
(***************************************************************************)
(* The spending of approvals.                                              *)
(***************************************************************************)
\* Each record a process has loaded is the one of the file, or has expired.
LEMMA LoadedRecords ==
  ASSUME ApprovalsInv, NEW p \in Processes, pc[p] = "locked", NEW i \in Ids
  PROVE  LET x == loaded[p][i]
         IN  /\ x = None <=> ledger[i] = None
             /\ \/ x = ledger[i]
                \/ /\ ledger[i] # None /\ x # None
                   /\ ledger[i].status \in {"pending", "approved"}
                   /\ x.status = "expired" /\ op[p].at >= ledger[i].expires
             /\ x # None /\ x.status \in {"pending", "approved"}
                  => x = ledger[i] /\ op[p].at < x.expires
BY LoadedLedger, ExpireEnds

\* The invariants on executions are kept by a step that executes nothing, lets
\* nobody through to the tool, and leaves what is spent spent.
LEMMA NothingExecuted ==
  ASSUME ApprovalsInv, UNCHANGED executed,
         \A p \in Processes :
           pc'[p] = "calling" => pc[p] = "calling" /\ op'[p] = op[p],
         \A i \in Ids : Spent(i) => Spent(i)' /\ agreed'[i] = agreed[i]
  PROVE  CallersAreApproved' /\ ExecutedIsSpent' /\ ExecutedOnceAsApproved'
<1>1. \A p \in Processes : pc[p] = "calling" => op[p].id \in Ids
  BY DEF ApprovalsInv, TypeOK, CallersAreApproved, Spent
<1>2. CallersAreApproved'
  BY <1>1 DEF ApprovalsInv, CallersAreApproved
<1>3. ExecutedIsSpent'
  BY DEF ApprovalsInv, ExecutedIsSpent
<1>4. ExecutedOnceAsApproved'
  BY DEF ApprovalsInv, ExecutedIsSpent, ExecutedOnceAsApproved
<1> QED
  BY <1>2, <1>3, <1>4

LEMMA RequestSpends ==
  ASSUME ApprovalsInv, NEW p \in Processes, Request(p)
  PROVE  /\ RecordsAreHonest' /\ SpentInTime'
         /\ \A i \in Ids : Spent(i) => Spent(i)'
<1>1. pc[p] = "locked" /\ op[p] \in Operation /\ op[p].call \in Calls
  BY LoadedLedger DEF Request, ApprovalsInv, OperationsAreWhole
<1>2. \A i \in Ids :
        \/ ledger'[i] = loaded[p][i] /\ (i \in drawn => i \in drawn')
        \/ ledger'[i] = None /\ (i \in drawn => i \in drawn')
        \/ /\ i \notin drawn /\ i \in drawn'
           /\ ledger'[i] # None /\ ledger'[i].status = "pending"
  <2>1. CASE MakeSpace(loaded[p]) = {}
    BY <2>1 DEF Request
  <2>2. CASE MakeSpace(loaded[p]) # {}
    <3>1. PICK L \in MakeSpace(loaded[p]), n \in Ids \ drawn :
            /\ ledger' = [L EXCEPT ![n] = NewRecord(op[p])]
            /\ drawn' = drawn \cup {n}
      BY <2>2 DEF Request
    <3>2. L \in Ledgers /\ \A i \in Ids : L[i] = loaded[p][i] \/ L[i] = None
      BY <1>1, LoadedLedger, MakeSpaceEvicts
    <3>3. NewRecord(op[p]) # None /\ NewRecord(op[p]).status = "pending"
      BY <1>1, NewRecordType, RecordFields
    <3> QED
      BY <3>1, <3>2, <3>3 DEF Ledgers
  <2> QED
    BY <2>1, <2>2
<1>3. UNCHANGED agreed
  BY DEF Request
<1>4. RecordsAreHonest'
  BY <1>1, <1>2, <1>3, LoadedRecords DEF RecordsAreHonest, Held, ApprovalsInv
<1>5. SpentInTime'
  BY <1>1, <1>2, LoadedRecords DEF SpentInTime, ApprovalsInv
<1>6. \A i \in Ids : Spent(i) => Spent(i)'
  BY <1>1, <1>2, LoadedRecords DEF Spent
<1> QED
  BY <1>4, <1>5, <1>6

LEMMA ApproveSpends ==
  ASSUME ApprovalsInv, NEW p \in Processes, Approve(p)
  PROVE  /\ RecordsAreHonest' /\ SpentInTime'
         /\ \A i \in Ids : Spent(i) => Spent(i)' /\ agreed'[i] = agreed[i]
<1> DEFINE n == op[p].id
<1>1. pc[p] = "locked" /\ n \in Ids /\ loaded[p] \in Ledgers /\ n \in drawn
  BY LoadedLedger DEF Approve, ApprovalsInv, OperationsAreWhole, TypeOK
<1>2. agreed \in [Ids -> Calls \cup {None}] /\ drawn' = drawn
  BY DEF Approve, ApprovalsInv, TypeOK
<1>3. CASE loaded[p][n] # None /\ loaded[p][n].status = "pending"
  <2>1. loaded[p][n] \in Record
    BY <1>1, <1>3 DEF Ledgers
  <2>2. /\ ledger' = [loaded[p] EXCEPT
                        ![n] = [loaded[p][n] EXCEPT !.status = "approved"]]
        /\ agreed' = [agreed EXCEPT ![n] = loaded[p][n].call]
    BY <1>3 DEF Approve
  <2>3. /\ ledger'[n] # None /\ ledger'[n].status = "approved"
        /\ ledger'[n].call = agreed'[n]
    BY <1>1, <1>2, <2>1, <2>2, ApprovedType, RecordFields DEF Ledgers
  <2>4. \A i \in Ids \ {n} : ledger'[i] = loaded[p][i] /\ agreed'[i] = agreed[i]
    BY <1>1, <1>2, <2>2 DEF Ledgers
  <2>5. ~Spent(n)
    BY <1>1, <1>3, LoadedRecords DEF Spent
  <2>6. RecordsAreHonest'
    BY <1>1, <1>2, <2>3, <2>4, LoadedRecords
    DEF RecordsAreHonest, Held, ApprovalsInv
  <2>7. SpentInTime'
    BY <1>1, <2>3, <2>4, LoadedRecords DEF SpentInTime, ApprovalsInv
  <2> QED
    BY <1>1, <1>2, <2>4, <2>5, <2>6, <2>7, LoadedRecords DEF Spent
<1>4. CASE ~(loaded[p][n] # None /\ loaded[p][n].status = "pending")
  <2>1. ledger' = loaded[p] /\ agreed' = agreed
    BY <1>4 DEF Approve
  <2> QED
    BY <1>1, <1>2, <2>1, LoadedRecords
    DEF RecordsAreHonest, SpentInTime, Held, ApprovalsInv, Spent
<1> QED
  BY <1>3, <1>4

\* What consume leaves when the record matches, and that nobody used it before.
LEMMA ConsumeMatches ==
  ASSUME ApprovalsInv, NEW p \in Processes, Consume(p),
         Matches(loaded[p][op[p].id], op[p])
  PROVE  LET n == op[p].id
         IN  /\ n \in Ids /\ n \in drawn /\ ~Spent(n)
             /\ ledger'[n] # None /\ ledger'[n].status = "consumed"
             /\ ledger'[n].call = op[p].call /\ agreed[n] = op[p].call
             /\ ledger'[n].ended < ledger'[n].expires
             /\ \A i \in Ids \ {n} : ledger'[i] = loaded[p][i]
<1> DEFINE n == op[p].id
           x == loaded[p][n]
<1>1. /\ pc[p] = "locked" /\ n \in Ids /\ n \in drawn
      /\ loaded[p] \in Ledgers /\ op[p].at \in Nat
  BY LoadedLedger DEF Consume, ApprovalsInv, OperationsAreWhole, TypeOK
<1>2. x \in Record /\ x.status = "approved" /\ x.call = op[p].call
  BY <1>1 DEF Matches, Ledgers
<1>3. x = ledger[n] /\ op[p].at < x.expires
  BY <1>1, <1>2, LoadedRecords, RecordFields
<1>4. ~Spent(n) /\ agreed[n] = op[p].call
  BY <1>1, <1>2, <1>3, RecordFields
  DEF Spent, ApprovalsInv, RecordsAreHonest, Held
<1>5. ledger' = [loaded[p] EXCEPT
                   ![n] = [x EXCEPT !.status = "consumed", !.ended = op[p].at]]
  BY DEF Consume
<1>6. /\ ledger'[n] # None /\ ledger'[n].status = "consumed"
      /\ ledger'[n].call = op[p].call /\ ledger'[n].ended < ledger'[n].expires
  <2> DEFINE y == [x EXCEPT !.status = "consumed", !.ended = op[p].at]
  <2>1. /\ y \in Record /\ y.status = "consumed" /\ y.ended = op[p].at
        /\ y.call = x.call /\ y.expires = x.expires
    BY <1>1, <1>2, EndedType
  <2>2. y # None
    BY <2>1, RecordFields
  <2>3. ledger'[n] = y
    BY <1>1, <1>5 DEF Ledgers
  <2> QED
    BY <1>2, <1>3, <2>1, <2>2, <2>3
<1>7. \A i \in Ids \ {n} : ledger'[i] = loaded[p][i]
  BY <1>1, <1>5 DEF Ledgers
<1> QED
  BY <1>1, <1>4, <1>6, <1>7

LEMMA ConsumeSpends ==
  ASSUME ApprovalsInv, NEW p \in Processes, Consume(p)
  PROVE  /\ RecordsAreHonest' /\ SpentInTime'
         /\ \A i \in Ids : Spent(i) => Spent(i)' /\ agreed'[i] = agreed[i]
<1>1. pc[p] = "locked" /\ UNCHANGED <<drawn, agreed>>
  BY DEF Consume
<1>2. CASE Matches(loaded[p][op[p].id], op[p])
  BY <1>1, <1>2, ConsumeMatches, LoadedRecords
  DEF RecordsAreHonest, SpentInTime, Held, ApprovalsInv, Spent
<1>3. CASE ~Matches(loaded[p][op[p].id], op[p])
  <2>1. ledger' = loaded[p]
    BY <1>3 DEF Consume
  <2> QED
    BY <1>1, <2>1, LoadedRecords
    DEF RecordsAreHonest, SpentInTime, Held, ApprovalsInv, Spent
<1> QED
  BY <1>2, <1>3

\* Whoever goes on to the tool has just spent the approval, and is alone.
LEMMA ConsumeLetsThrough ==
  ASSUME ApprovalsInv, NEW p \in Processes, Consume(p)
  PROVE  CallersAreApproved' /\ ExecutedIsSpent' /\ ExecutedOnceAsApproved'
<1>0. /\ pc[p] = "locked" /\ UNCHANGED <<drawn, agreed, executed>>
      /\ pc \in [Processes -> {"idle", "waiting", "locked", "calling"}]
      /\ op \in [Processes -> Operation]
      /\ executed \in [Ids -> [Calls -> Nat]]
  BY DEF Consume, ApprovalsInv, TypeOK
<1>1. CASE End(p)
  <2>1. \A q \in Processes :
          pc'[q] = "calling" => pc[q] = "calling" /\ op'[q] = op[q]
    BY <1>0, <1>1 DEF End, Goto
  <2> QED
    BY <1>0, <2>1, ConsumeSpends, NothingExecuted
<1>2. CASE /\ Matches(loaded[p][op[p].id], op[p])
           /\ Goto(p, "calling") /\ UNCHANGED op
  <2> DEFINE n == op[p].id
  <2>1. /\ n \in Ids /\ n \in drawn /\ ~Spent(n) /\ agreed[n] = op[p].call
        /\ ledger'[n] # None /\ ledger'[n].status = "consumed"
    BY <1>2, ConsumeMatches
  <2>2. \A i \in Ids : Spent(i) => Spent(i)'
    BY ConsumeSpends
  <2>3. Spent(n)'
    BY <1>0, <1>2, <2>1 DEF Spent
  <2>4. \A c \in Calls : executed[n][c] = 0
    BY <1>0, <2>1 DEF ApprovalsInv, ExecutedIsSpent
  <2>5. \A q \in Processes : pc[q] = "calling" => op[q].id # n
    BY <2>1 DEF ApprovalsInv, CallersAreApproved
  <2>6. \A q \in Processes : pc'[q] = "calling" <=> q = p \/ pc[q] = "calling"
    BY <1>0, <1>2 DEF Goto
  <2>7. \A q \in Processes : pc[q] = "calling" => op[q].id \in Ids
    BY DEF ApprovalsInv, TypeOK, CallersAreApproved, Spent
  <2>8. CallersAreApproved'
    BY <1>0, <1>2, <2>1, <2>2, <2>3, <2>4, <2>5, <2>6, <2>7
    DEF ApprovalsInv, CallersAreApproved
  <2>9. ExecutedIsSpent' /\ ExecutedOnceAsApproved'
    BY <1>0, <2>2 DEF ApprovalsInv, ExecutedIsSpent, ExecutedOnceAsApproved
  <2> QED
    BY <2>8, <2>9
<1> QED
  BY <1>1, <1>2 DEF Consume

LEMMA CallExecutes ==
  ASSUME ApprovalsInv, NEW p \in Processes, Call(p)
  PROVE  CallersAreApproved' /\ ExecutedIsSpent' /\ ExecutedOnceAsApproved'
<1> DEFINE n == op[p].id
           c == op[p].call
<1>1. /\ pc[p] = "calling" /\ UNCHANGED <<ledger, drawn, agreed>>
      /\ pc \in [Processes -> {"idle", "waiting", "locked", "calling"}]
      /\ op \in [Processes -> Operation]
      /\ executed \in [Ids -> [Calls -> Nat]]
  BY DEF Call, ApprovalsInv, TypeOK
<1>2. /\ n \in Ids /\ c \in Calls /\ Spent(n) /\ agreed[n] = c
      /\ \A d \in Calls : executed[n][d] = 0
  BY <1>1
  DEF ApprovalsInv, TypeOK, OperationsAreWhole, CallersAreApproved, Spent
<1>3. \A q \in Processes :
        pc'[q] = "calling" =>
          q # p /\ pc[q] = "calling" /\ op'[q] = op[q] /\ op[q].id # n
            /\ op[q].id \in Ids
  BY <1>1 DEF Call, End, Goto, ApprovalsInv, TypeOK, CallersAreApproved, Spent
<1>4. \A i \in Ids, d \in Calls :
        executed'[i][d] = executed[i][d] \/ (i = n /\ d = c /\ executed'[i][d] = 1)
  <2>1. CASE UNCHANGED executed
    BY <2>1
  <2>2. CASE executed' = [executed EXCEPT ![n][c] = @ + 1]
    BY <1>1, <1>2, <2>2
  <2> QED
    BY <2>1, <2>2 DEF Call
<1>5. \A i \in Ids \ {n}, d \in Calls : executed'[i][d] = executed[i][d]
  BY <1>4
<1>6. CallersAreApproved'
  BY <1>1, <1>3, <1>5 DEF ApprovalsInv, CallersAreApproved, Spent
<1>7. ExecutedIsSpent'
  BY <1>1, <1>2, <1>4 DEF ApprovalsInv, ExecutedIsSpent, Spent
<1>8. ExecutedOnceAsApproved'
  BY <1>1, <1>2, <1>4 DEF ApprovalsInv, ExecutedOnceAsApproved
<1> QED
  BY <1>6, <1>7, <1>8
----------------------------------------------------------------------------
(***************************************************************************)
(* The theorems.                                                           *)
(***************************************************************************)
\* What no step but those of the lemmas above touches.
LEMMA QuietStep ==
  ASSUME ApprovalsInv, UNCHANGED <<ledger, drawn, agreed>>
  PROVE  /\ RecordsAreHonest' /\ SpentInTime'
         /\ \A i \in Ids : Spent(i) => Spent(i)' /\ agreed'[i] = agreed[i]
BY DEF ApprovalsInv, RecordsAreHonest, Held, SpentInTime, Spent

\* A step in which nobody starts to call a tool.
LEMMA NobodyGoesThrough ==
  ASSUME ApprovalsInv, NEW p \in Processes,
         Begin(p) \/ Load(p) \/ Request(p) \/ Approve(p) \/ Die(p)
  PROVE  \A q \in Processes :
           pc'[q] = "calling" => pc[q] = "calling" /\ op'[q] = op[q]
<1>0. TypeOK
  BY DEF ApprovalsInv
<1>1. CASE Begin(p)
  BY <1>0, <1>1 DEF TypeOK, Begin, Takes, Goto
<1>2. CASE Load(p)
  BY <1>0, <1>2 DEF TypeOK, Load, Goto
<1>3. CASE Request(p) \/ Approve(p) \/ Die(p)
  <2>1. End(p)
    BY <1>3 DEF Request, Approve, Die
  <2> QED
    BY <1>0, <2>1 DEF TypeOK, End, Goto
<1> QED
  BY <1>1, <1>2, <1>3

LEMMA ApprovalsStep == ApprovalsInv /\ [Next]_vars => ApprovalsInv'
<1> SUFFICES ASSUME ApprovalsInv, [Next]_vars PROVE ApprovalsInv'
  OBVIOUS
<1> DEFINE Records == RecordsAreHonest' /\ SpentInTime'
           Executions == /\ CallersAreApproved' /\ ExecutedIsSpent'
                         /\ ExecutedOnceAsApproved'
<1> HIDE DEF Records, Executions
<1>1. ASSUME NEW p \in Processes, Begin(p) \/ Load(p) \/ Die(p)
      PROVE  Records /\ Executions
  <2>1. UNCHANGED <<ledger, drawn, agreed, executed>>
    BY <1>1 DEF Begin, Load, Die
  <2> QED
    BY <1>1, <2>1, QuietStep, NobodyGoesThrough, NothingExecuted
    DEF Records, Executions
<1>2. ASSUME NEW p \in Processes, Request(p) PROVE Records /\ Executions
  <2>1. UNCHANGED <<agreed, executed>>
    BY <1>2 DEF Request
  <2> QED
    BY <1>2, <2>1, RequestSpends, NobodyGoesThrough, NothingExecuted
    DEF Records, Executions
<1>3. ASSUME NEW p \in Processes, Approve(p) PROVE Records /\ Executions
  <2>1. UNCHANGED executed
    BY <1>3 DEF Approve
  <2> QED
    BY <1>3, <2>1, ApproveSpends, NobodyGoesThrough, NothingExecuted
    DEF Records, Executions
<1>4. ASSUME NEW p \in Processes, Consume(p) PROVE Records /\ Executions
  BY <1>4, ConsumeSpends, ConsumeLetsThrough DEF Records, Executions
<1>5. ASSUME NEW p \in Processes, Call(p) PROVE Records /\ Executions
  <2>1. UNCHANGED <<ledger, drawn, agreed>>
    BY <1>5 DEF Call
  <2> QED
    BY <1>5, <2>1, QuietStep, CallExecutes DEF Records, Executions
<1>6. ASSUME Tick \/ UNCHANGED vars PROVE Records /\ Executions
  <2>1. UNCHANGED <<ledger, drawn, agreed, executed, pc, op>>
    BY <1>6 DEF Tick, vars
  <2>2. \A p \in Processes :
          pc'[p] = "calling" => pc[p] = "calling" /\ op'[p] = op[p]
    BY <2>1
  <2> QED
    BY <2>1, <2>2, QuietStep, NothingExecuted DEF Records, Executions
<1>7. Records /\ Executions
  <2>1. CASE \E p \in Processes : Begin(p) \/ Load(p) \/ Request(p) \/ Approve(p)
                                  \/ Consume(p) \/ Call(p) \/ Die(p)
    BY <1>1, <1>2, <1>3, <1>4, <1>5, <2>1
  <2> QED
    BY <1>6, <2>1 DEF Next
<1> QED
  BY <1>7, TypeStep, LockStep DEF ApprovalsInv, Records, Executions

\* The inductive invariant: who holds the lock, what the stored records say and
\* which calls ran stay in step (transactions of connector_approvals.py).
THEOREM Invariance == Spec => []ApprovalsInv
BY ApprovalsInit, ApprovalsStep, PTL DEF Spec

\* Every variable keeps its type in every behaviour of the ledger.
THEOREM TypeCorrect == Spec => []TypeOK
<1>1. ApprovalsInv => TypeOK
  BY DEF ApprovalsInv
<1> QED
  BY <1>1, Invariance, PTL

\* However many processes present an approval, replay it, wait or die, it
\* executes at most once, and only the call a human approved (consume).
THEOREM OneExecution == Spec => []ExecutedOnceAsApproved
<1>1. ApprovalsInv => ExecutedOnceAsApproved
  BY DEF ApprovalsInv
<1> QED
  BY <1>1, Invariance, PTL

\* No approval is spent at or after its expiry (_expire, consume).
THEOREM SpentBeforeExpiry == Spec => []SpentInTime
<1>1. ApprovalsInv => SpentInTime
  BY DEF ApprovalsInv
<1> QED
  BY <1>1, Invariance, PTL

\* What has ended by some clock has ended by a later one.
LEMMA ExpiredStays ==
  ASSUME NEW L \in Ledgers, NEW at \in Nat, NEW now \in Nat, at <= now,
         NEW i \in Terminal(Expire(L, at))
  PROVE  i \in Terminal(Expire(L, now))
<1>1. i \in Ids /\ L[i] # None /\ L[i] \in Record
  BY ExpireEnds DEF Terminal, Held, Ledgers
<1>2. /\ L[i].status \in {"pending", "approved", "consumed", "expired"}
      /\ L[i].expires \in Nat
  BY <1>1, RecordFields
<1>3. L[i].status \in {"consumed", "expired"} \/ at >= L[i].expires
  BY <1>1, <1>2, ExpireEnds DEF Terminal, Held
<1>4. /\ Expire(L, now) \in Ledgers
      /\ Expire(L, now)[i] # None
      /\ Expire(L, now)[i] \in Record
  BY <1>1, ExpireEnds DEF Ledgers
<1>5. Expire(L, now)[i].status \in {"consumed", "expired"}
  <2> DEFINE y == Expire(L, now)[i]
  <2>1. y = L[i] \/ y.status = "expired"
    BY <1>1, ExpireEnds
  <2>2. y.status \in {"pending", "approved"} => y = L[i] /\ now < L[i].expires
    BY <1>1, <1>4, ExpireEnds
  <2>3. y.status \in {"pending", "approved", "consumed", "expired"}
    BY <1>4, RecordFields
  <2> QED
    BY <1>2, <1>3, <2>1, <2>2, <2>3
<1> QED
  BY <1>1, <1>4, <1>5 DEF Terminal, Held

\* A request gives up only a record that has ended, no record that has ended
\* comes to life, and the rest is kept (_make_space, approve, consume).
THEOREM ActiveStay == Spec => ActiveRecordsStay
<1> DEFINE Stays ==
      \A i \in Held(ledger) :
        IF ledger'[i] = None THEN i \in Terminal(Expire(ledger, clock))
        ELSE i \in Terminal(ledger) => ledger'[i] = ledger[i]
<1>1. ApprovalsInv /\ [Next]_vars => Stays
  <2> SUFFICES ASSUME ApprovalsInv, [Next]_vars, NEW i \in Held(ledger)
               PROVE  IF ledger'[i] = None
                        THEN i \in Terminal(Expire(ledger, clock))
                        ELSE i \in Terminal(ledger) => ledger'[i] = ledger[i]
    OBVIOUS
  <2>0. /\ i \in Ids /\ ledger[i] # None /\ i \in drawn
        /\ clock \in Nat /\ ledger \in Ledgers
    BY ApprovalAssumption
    DEF Held, ApprovalsInv, TypeOK, RecordsAreHonest, Ledgers
  <2>1. ASSUME NEW p \in Processes, pc[p] = "locked", ledger'[i] = loaded[p][i]
        PROVE  ledger'[i] # None /\ (i \in Terminal(ledger) => ledger'[i] = ledger[i])
    BY <2>0, <2>1, LoadedRecords DEF Terminal, Held
  <2>2. CASE UNCHANGED ledger
    BY <2>0, <2>2
  <2>3. ASSUME NEW p \in Processes, Request(p),
               ledger'[i] # loaded[p][i]
        PROVE  ledger'[i] = None /\ i \in Terminal(Expire(ledger, clock))
    <3>1. /\ pc[p] = "locked" /\ op[p].at \in Nat /\ op[p].at <= clock
          /\ loaded[p] = Expire(ledger, op[p].at) /\ loaded[p] \in Ledgers
      BY <2>3, LoadedLedger DEF Request, ApprovalsInv, OperationsAreWhole
    <3>2. PICK L \in MakeSpace(loaded[p]), n \in Ids \ drawn :
            ledger' = [L EXCEPT ![n] = NewRecord(op[p])]
      BY <2>3 DEF Request
    <3>3. /\ L \in Ledgers
          /\ L[i] = loaded[p][i] \/ (L[i] = None /\ i \in Terminal(loaded[p]))
      BY <2>0, <3>1, MakeSpaceEvicts
    <3>4. ledger'[i] = L[i]
      BY <2>0, <3>2, <3>3 DEF Ledgers
    <3> QED
      BY <2>0, <2>3, <3>1, <3>3, <3>4, ExpiredStays
  <2>4. ASSUME NEW p \in Processes, Approve(p), ledger'[i] # loaded[p][i]
        PROVE  ledger'[i] # None /\ i \notin Terminal(ledger)
    <3>1. /\ pc[p] = "locked" /\ loaded[p] \in Ledgers
          /\ ledger' = [loaded[p] EXCEPT ![op[p].id] =
                          [loaded[p][op[p].id] EXCEPT !.status = "approved"]]
          /\ loaded[p][op[p].id].status = "pending"
          /\ loaded[p][op[p].id] # None
      BY <2>4, LoadedLedger DEF Approve
    <3>2. i = op[p].id
      BY <2>0, <2>4, <3>1 DEF Ledgers
    <3>3. loaded[p][i] = ledger[i] /\ ledger[i] \in Record
      BY <2>0, <3>1, <3>2, LoadedRecords DEF Ledgers
    <3>4. ledger'[i] = [ledger[i] EXCEPT !.status = "approved"]
      BY <2>0, <3>1, <3>2, <3>3 DEF Ledgers
    <3> QED
      BY <3>1, <3>2, <3>3, <3>4, ApprovedType, RecordFields DEF Terminal
  <2>5. ASSUME NEW p \in Processes, Consume(p), ledger'[i] # loaded[p][i]
        PROVE  ledger'[i] # None /\ i \notin Terminal(ledger)
    <3>1. Matches(loaded[p][op[p].id], op[p]) /\ pc[p] = "locked"
      BY <2>5 DEF Consume
    <3>2. i = op[p].id /\ ledger'[i] # None
      BY <2>0, <2>5, <3>1, ConsumeMatches
    <3>3. loaded[p][i] = ledger[i] /\ ledger[i].status = "approved"
      BY <2>0, <3>1, <3>2, LoadedRecords DEF Matches
    <3> QED
      BY <3>2, <3>3 DEF Terminal
  <2>6. ASSUME NEW p \in Processes, Request(p) \/ Approve(p) \/ Consume(p)
        PROVE  pc[p] = "locked"
    BY <2>6 DEF Request, Approve, Consume
  <2> QED
    BY <2>1, <2>2, <2>3, <2>4, <2>5, <2>6
    DEF Next, Begin, Load, Call, Die, Tick, vars
<1>2. Stays => [Stays]_vars
  OBVIOUS
<1> QED
  BY <1>1, Invariance, PTL DEF Spec, ActiveRecordsStay
=============================================================================
