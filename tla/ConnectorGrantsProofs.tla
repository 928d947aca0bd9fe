------------------------ MODULE ConnectorGrantsProofs ------------------------
(***************************************************************************)
(* Proofs about ConnectorGrants, for every set of requests, whether or not *)
(* the provider revokes and a transaction that raises may have committed.  *)
(***************************************************************************)
EXTENDS ConnectorGrants, TLAPS

\* A request that has brought no grant yet.
Before == {"idle", "starting", "registering", "reserving", "authorizing",
           "checking", "exchanging"}

\* What a disconnect began is disabled.
DisconnectDisables ==
  conn # None /\ conn.error = "disconnect_pending" => conn.status = "needs_attention"

\* The lease of an execution cannot be taken from it: it is in the future.
HoldsLease(r) ==
  pc[r] \in Executing =>
    /\ conn # None /\ conn.status = "ready" /\ conn.lease = r /\ conn.alive
    /\ conn.secret = job[r].secret

\* Whoever has secret s knows it from a request past its exchange, and a token
\* that an administrator typed in is no grant of a provider.
Brought(s) ==
  /\ s.grant \in Requests => pc[s.grant] \notin Before
  /\ s.kind = "token" => s.grant \notin live

GrantIsBrought == conn # None => Brought(conn.secret)

\* What a request holds in memory fits the step it has reached.
JobIsWhole(r) ==
  /\ pc[r] \in Before \cup {"disconnecting", "receipting", "claiming"}
       => job[r] = NoJob
  /\ pc[r] \in {"putting", "rejecting", "cleaning"}
       => job[r].secret # None /\ job[r].secret.grant = r
  /\ pc[r] \in {"verifying", "finishing", "revoking", "deleting"}
       => job[r].secret # None /\ job[r].gen # None
  /\ pc[r] = "revoking" => job[r].result = "none"
  /\ pc[r] = "rotating" => job[r].resume \in {"permitting", "calling"}
  /\ job[r].secret # None /\ job[r].gen # None
       => job[r].gen[1] = job[r].secret.grant
  /\ job[r].secret # None => Brought(job[r].secret)
  /\ r \in live => pc[r] \notin Before

\* A disconnect that goes on to delete has revoked what could be revoked.
RevokedIsDead(r) ==
  pc[r] = "deleting" =>
    /\ job[r].result = "ready" => job[r].secret.grant \notin live
    /\ job[r].secret.kind = "oauth" /\ Revocable => job[r].result = "ready"

\* A request starts its receipt first, and completes it last.
ReceiptInOrder(r) ==
  /\ pc[r] \in Executing \cup {"claiming", "quarantining", "releasing"}
       => receipts[r] = "started"
  /\ receipts[r] = "allowed" => pc[r] = "done"
  /\ receipts[r] = "allowed" \/ (pc[r] = "recording" /\ job[r].result = "ready")
       => conn = None \/ conn.lease # r

RequestInv(r) ==
  HoldsLease(r) /\ JobIsWhole(r) /\ RevokedIsDead(r) /\ ReceiptInOrder(r)

GrantsInv ==
  /\ TypeOK
  /\ DisconnectDisables /\ ReadyIsCertified /\ GrantIsBrought
  /\ \A r \in Requests : RequestInv(r)
----------------------------------------------------------------------------
(***************************************************************************)
(* The records, and what the operations make of them.                      *)
(***************************************************************************)
LEMMA ConnectionFields ==
  ASSUME NEW c \in Connection
  PROVE  /\ c # None /\ c.secret \in Secret /\ c.rotations \in Nat
         /\ c.secret.grant \in Grants /\ c.secret.version \in Nat
         /\ c.secret.kind \in {"oauth", "token"}
         /\ c.status \in {"stored_unverified", "verifying", "ready", "needs_attention"}
         /\ c.lease \in Requests \cup {None} /\ c.alive \in BOOLEAN
         /\ Generation(c) \in Grants \X Nat
         /\ c.secret # None /\ Generation(c) # None
         /\ Generation(c)[1] = c.secret.grant
BY GrantAssumption DEF Connection, Secret, Generation

LEMMA JobFields ==
  ASSUME NEW j \in Job
  PROVE  /\ j.secret \in Secret \cup {None}
         /\ j.gen \in (Grants \X Nat) \cup {None}
         /\ j.result \in {"none", "ready", "failed"}
         /\ j.resume \in {None, "permitting", "calling"}
         /\ j.secret # None => j.secret.grant \in Grants /\ j.secret.version \in Nat
BY GrantAssumption DEF Job, Secret

\* A lease and its expiry are written: claim_execution, release_execution.
LEMMA LeasedType ==
  ASSUME NEW c \in Connection, NEW r \in Requests \cup {None}, NEW alive \in BOOLEAN
  PROVE  LET d == [c EXCEPT !.lease = r, !.alive = alive]
         IN  /\ d \in Connection /\ d.lease = r /\ d.alive = alive
             /\ d.secret = c.secret /\ d.rotations = c.rotations
             /\ d.status = c.status /\ d.error = c.error
             /\ d.certified = c.certified
BY DEF Connection

\* begin_verification.
LEMMA VerifyingType ==
  ASSUME NEW c \in Connection, NEW r \in Requests
  PROVE  LET d == [c EXCEPT !.status = "verifying", !.error = "none",
                            !.certified = None, !.lease = r, !.alive = TRUE]
         IN  /\ d \in Connection /\ d.lease = r /\ d.status = "verifying"
             /\ d.error = "none" /\ d.secret = c.secret
             /\ d.rotations = c.rotations
BY DEF Connection

\* finish_verification.
LEMMA CertifiedType ==
  ASSUME conn \in Connection, NEW r \in Requests, job[r] \in Job,
         job[r].secret # None
  PROVE  /\ Certified(r) \in Connection /\ Certified(r).lease = None
         /\ Certified(r).secret = conn.secret
         /\ Certified(r).status = "ready" => Certified(r).certified = job[r].secret.grant
         /\ Certified(r).error # "disconnect_pending"
<1>1. job[r].secret.grant \in Grants
  BY JobFields
<1>2. CASE job[r].result = "ready"
  BY <1>1, <1>2 DEF Certified, Connection
<1>3. CASE job[r].result # "ready"
  BY <1>3 DEF Certified, Connection
<1> QED
  BY <1>2, <1>3

\* begin_disconnect and quarantine.
LEMMA DemotedType ==
  ASSUME NEW c \in Connection, NEW error \in {"reconnect_required", "disconnect_pending"}
  PROVE  /\ Demoted(c, error) \in Connection /\ Demoted(c, error).lease = None
         /\ Demoted(c, error).status = "needs_attention"
         /\ Demoted(c, error).error = error
         /\ Demoted(c, error).secret = c.secret
BY DEF Demoted, Connection

\* rotate.
LEMMA RotatedType ==
  ASSUME NEW c \in Connection, NEW n \in Nat
  PROVE  LET d == [c EXCEPT !.secret = [@ EXCEPT !.version = n],
                            !.rotations = @ + 1]
         IN  /\ d \in Connection /\ d.lease = c.lease /\ d.alive = c.alive
             /\ d.status = c.status /\ d.error = c.error
             /\ d.certified = c.certified
             /\ d.secret.grant = c.secret.grant /\ d.secret.kind = c.secret.kind
<1>1. [c.secret EXCEPT !.version = n] \in Secret
  BY DEF Connection, Secret
<1>2. c.rotations + 1 \in Nat
  BY DEF Connection
<1> QED
  BY <1>1, <1>2 DEF Connection, Secret

\* put.
LEMMA StoredType ==
  ASSUME NEW s \in Secret
  PROVE  /\ Stored(s) \in Connection /\ Stored(s).secret = s
         /\ Stored(s).status = "stored_unverified" /\ Stored(s).error = "none"
         /\ Stored(s).lease = None
BY DEF Stored, Connection

\* What a request holds in memory: nothing but a result, a secret, ...
LEMMA JobEdits ==
  ASSUME NEW j \in Job, NEW s \in Secret, NEW g \in Grants \X Nat,
         NEW result \in {"none", "ready", "failed"},
         NEW resume \in {"permitting", "calling"}
  PROVE  /\ NoJob \in Job /\ [NoJob EXCEPT !.result = result] \in Job
         /\ [j EXCEPT !.secret = s] \in Job /\ [j EXCEPT !.gen = g] \in Job
         /\ [j EXCEPT !.secret = s, !.gen = g] \in Job
         /\ [j EXCEPT !.result = result] \in Job
         /\ [j EXCEPT !.resume = resume] \in Job
BY DEF Job, NoJob
----------------------------------------------------------------------------
(***************************************************************************)
(* The type invariant.                                                     *)
(***************************************************************************)
LEMMA GrantsInit == Init => GrantsInv
<1> SUFFICES ASSUME Init PROVE GrantsInv
  OBVIOUS
<1> USE GrantAssumption
<1>1. Ready(First) \in Connection
  BY DEF Ready, Connection, Secret, Grants
<1>2. NoJob \in Job
  BY DEF NoJob, Job
<1>3. TypeOK
  BY <1>1, <1>2 DEF Init, TypeOK, Grants, Locations
<1>4. DisconnectDisables /\ ReadyIsCertified /\ GrantIsBrought
  BY DEF Init, Ready, DisconnectDisables, ReadyIsCertified, GrantIsBrought, Brought
<1>5. ASSUME NEW r \in Requests PROVE RequestInv(r)
  BY DEF Init, RequestInv, HoldsLease, JobIsWhole, RevokedIsDead, ReceiptInOrder,
         Executing, NoJob
<1> QED
  BY <1>3, <1>4, <1>5 DEF GrantsInv

\* The step of one request.
LEMMA StepType ==
  ASSUME TypeOK, NEW r \in Requests, NEW place \in Locations, NEW j \in Job,
         pc' = [pc EXCEPT ![r] = place], job' = [job EXCEPT ![r] = j]
  PROVE  pc' \in [Requests -> Locations] /\ job' \in [Requests -> Job]
BY DEF TypeOK

LEMMA ArrivalType ==
  ASSUME GrantsInv, NEW r \in Requests,
         \/ StartOAuth(r) \/ StoreToken(r) \/ VerifyConnector(r)
         \/ Invoke(r) \/ Disconnect(r)
  PROVE  TypeOK'
<1> USE DEF TypeOK, Arrive, Move, Goto
<1>0. TypeOK /\ r \in Grants /\ job[r] \in Job
  BY DEF GrantsInv, Grants
<1>1. CASE StartOAuth(r) \/ Invoke(r) \/ Disconnect(r)
  BY <1>0, <1>1 DEF StartOAuth, Invoke, Disconnect, Locations
<1>2. CASE StoreToken(r)
  <2>1. [grant |-> r, version |-> 0, kind |-> "token"] \in Secret
    BY <1>0 DEF Secret
  <2> QED
    BY <1>0, <1>2, <2>1 DEF StoreToken, Locations, Job
<1>3. CASE VerifyConnector(r)
  <2>1. Generation(conn) \in Grants \X Nat
    BY <1>0, <1>3, ConnectionFields DEF VerifyConnector
  <2> QED
    BY <1>0, <1>3, <2>1 DEF VerifyConnector, Locations, Job
<1> QED
  BY <1>1, <1>2, <1>3

\* The steps that leave the record alone.
LEMMA QuietType ==
  ASSUME GrantsInv, NEW r \in Requests, UNCHANGED receipts,
         \/ Discover(r) \/ Register(r) \/ StartRegistered(r) \/ PutFlow(r)
         \/ ConsumeFlow(r) \/ CheckVault(r) \/ Exchange(r) \/ RejectGrant(r)
         \/ CleanUp(r) \/ Certify(r) \/ RuntimeMaterial(r) \/ EnforceToolPolicy(r)
         \/ Refresh(r) \/ EndCall(r) \/ Deadline(r) \/ RevokeGrant(r)
  PROVE  TypeOK'
<1> USE DEF TypeOK, Move, Goto, Finish
<1>0. /\ TypeOK /\ r \in Grants /\ job[r] \in Job /\ NoJob \in Job
      /\ RequestInv(r)
  BY DEF GrantsInv, Grants, NoJob, Job
<1>1. CASE \/ Discover(r) \/ Register(r) \/ StartRegistered(r) \/ CheckVault(r)
           \/ RuntimeMaterial(r) \/ EnforceToolPolicy(r) \/ Deadline(r)
  BY <1>0, <1>1
  DEF Discover, Register, StartRegistered, CheckVault, RuntimeMaterial,
      EnforceToolPolicy, Deadline, Locations
<1>2. CASE PutFlow(r) \/ ConsumeFlow(r)
  BY <1>0, <1>2 DEF PutFlow, ConsumeFlow, Locations
<1>3. CASE Exchange(r)
  <2>1. [grant |-> r, version |-> 0, kind |-> "oauth"] \in Secret
    BY <1>0 DEF Secret
  <2>2. \A s \in Secret : [job[r] EXCEPT !.secret = s] \in Job
    BY <1>0 DEF Job
  <2>3. job' \in [Requests -> Job]
    BY <1>0, <1>3, <2>1, <2>2 DEF Exchange
  <2>4. pc' \in [Requests -> Locations] /\ live' \subseteq Grants
    BY <1>0, <1>3 DEF Exchange, Locations
  <2> QED
    BY <1>0, <1>3, <2>3, <2>4 DEF Exchange
<1>4. CASE RejectGrant(r) \/ CleanUp(r)
  BY <1>0, <1>4
  DEF RejectGrant, CleanUp, RevokeOrTell, RevokeToken, Locations
<1>5. CASE Certify(r) \/ EndCall(r)
  <2>1. \A result \in {"ready", "failed"} : [job[r] EXCEPT !.result = result] \in Job
    BY <1>0 DEF Job
  <2>2. CASE Certify(r)
    BY <1>0, <2>1, <2>2 DEF Certify, Locations
  <2>3. CASE EndCall(r)
    BY <1>0, <2>1, <2>3 DEF EndCall, Locations
  <2> QED
    BY <1>5, <2>2, <2>3
<1>6. CASE Refresh(r)
  BY <1>0, <1>6 DEF Refresh, Locations, Job
<1>7. CASE RevokeGrant(r)
  <2>1. [job[r] EXCEPT !.result = "ready"] \in Job
    BY <1>0 DEF Job
  <2> QED
    BY <1>0, <1>7, <2>1 DEF RevokeGrant, RevokeToken, Locations
<1> QED
  BY <1>1, <1>2, <1>3, <1>4, <1>5, <1>6, <1>7

\* What the operations on the record return is a record.
LEMMA RecordType ==
  ASSUME GrantsInv, NEW r \in Requests, UNCHANGED receipts,
         \/ Put(r) \/ BeginVerification(r) \/ FinishVerification(r) \/ Claim(r)
         \/ Rotate(r) \/ Quarantine(r) \/ Release(r) \/ BeginDisconnect(r)
         \/ Delete(r)
  PROVE  TypeOK'
<1> USE DEF TypeOK, Move, Goto, Finish, Conclude
<1>0. /\ TypeOK /\ r \in Grants /\ job[r] \in Job /\ NoJob \in Job
      /\ RequestInv(r)
  BY DEF GrantsInv, Grants, NoJob, Job
<1>a. /\ \A result \in {"none", "ready", "failed"} :
           [NoJob EXCEPT !.result = result] \in Job
      /\ \A j \in Job, g \in Grants \X Nat : [j EXCEPT !.gen = g] \in Job
      /\ \A j \in Job, s \in Secret : [j EXCEPT !.secret = s] \in Job
      /\ job[r].result \in {"none", "ready", "failed"}
  <2>1. /\ \A result \in {"none", "ready", "failed"} :
             [NoJob EXCEPT !.result = result] \in Job
        /\ job[r].result \in {"none", "ready", "failed"}
    BY <1>0 DEF NoJob, Job
  <2>2. \A j \in Job, g \in Grants \X Nat : [j EXCEPT !.gen = g] \in Job
    BY DEF Job
  <2>3. \A j \in Job, s \in Secret : [j EXCEPT !.secret = s] \in Job
    BY DEF Job
  <2> QED
    BY <2>1, <2>2, <2>3
<1>b. conn # None => /\ conn.secret \in Secret
                     /\ Generation(conn) \in Grants \X Nat
  BY <1>0, ConnectionFields
<1>1. CASE Put(r)
  <2>1. job[r].secret \in Secret /\ <<r, 0>> \in Grants \X Nat
    BY <1>0, <1>1, JobFields DEF Put, RequestInv, JobIsWhole
  <2>2. Stored(job[r].secret) \in Connection
    BY <2>1, StoredType
  <2>3. pc' \in [Requests -> Locations] /\ job' \in [Requests -> Job]
    BY <1>0, <1>a, <1>1, <2>1 DEF Put, Locations
  <2> QED
    BY <1>0, <1>1, <2>2, <2>3 DEF Put
<1>2. CASE BeginVerification(r)
  <2>1. pc' \in [Requests -> Locations] /\ job' \in [Requests -> Job]
    BY <1>0, <1>a, <1>b, <1>2 DEF BeginVerification, Locations
  <2>2. conn' \in Connection \cup {None}
    <3>1. conn # None =>
            [conn EXCEPT !.status = "verifying", !.error = "none",
                         !.certified = None, !.lease = r, !.alive = TRUE] \in Connection
      BY <1>0, VerifyingType
    <3> QED
      BY <1>0, <1>2, <3>1 DEF BeginVerification
  <2> QED
    BY <1>0, <1>2, <2>1, <2>2 DEF BeginVerification
<1>3. CASE FinishVerification(r)
  <2>1. conn # None => Certified(r) \in Connection
    BY <1>0, <1>3, CertifiedType DEF FinishVerification, RequestInv, JobIsWhole
  <2> QED
    BY <1>0, <1>3, <2>1 DEF FinishVerification, Locations
<1>4. CASE Claim(r)
  <2>1. pc' \in [Requests -> Locations] /\ job' \in [Requests -> Job]
    BY <1>0, <1>a, <1>b, <1>4 DEF Claim, Locations
  <2> QED
    <3>1. conn # None => [conn EXCEPT !.lease = r, !.alive = TRUE] \in Connection
      BY <1>0, LeasedType
    <3> QED
      BY <1>0, <1>4, <2>1, <3>1 DEF Claim
<1>5. CASE Rotate(r)
  <2> DEFINE n == version[job[r].secret.grant]
             c == [conn EXCEPT !.secret = [@ EXCEPT !.version = n],
                               !.rotations = @ + 1]
  <2>1. StillHeld(r) => conn \in Connection /\ n \in Nat
    BY <1>0, ConnectionFields DEF StillHeld
  <2>2. StillHeld(r) => /\ c \in Connection /\ c.secret \in Secret
                        /\ Generation(c) \in Grants \X Nat
    BY <2>1, RotatedType, ConnectionFields
  <2> HIDE DEF n, c
  <2>3. \/ StillHeld(r) /\ conn' = c /\ Goto(r, job[r].resume) /\ job' = Refreshed(r)
        \/ /\ StillHeld(r) /\ conn' = c /\ UNCHANGED job
           /\ Goto(r, "quarantining") \/ Goto(r, "releasing")
        \/ Goto(r, "releasing") /\ UNCHANGED <<conn, job>>
    BY <1>5 DEF Rotate, c, n
  <2>4. job[r].resume \in Locations
    BY <1>0, <1>5, JobFields DEF Rotate, RequestInv, JobIsWhole, Locations
  <2>5. pc' \in [Requests -> Locations] /\ conn' \in Connection \cup {None}
    BY <1>0, <2>2, <2>3, <2>4 DEF Locations
  <2>6. job' \in [Requests -> Job]
    BY <1>0, <1>a, <2>2, <2>3 DEF Refreshed
  <2> QED
    BY <1>0, <1>5, <2>5, <2>6 DEF Rotate
<1>6. CASE Quarantine(r)
  BY <1>0, <1>a, <1>6, DemotedType DEF Quarantine, StillHeld, Locations
<1>7. CASE Release(r)
  <2>1. conn # None => [conn EXCEPT !.lease = None, !.alive = FALSE] \in Connection
    BY <1>0, LeasedType
  <2> QED
    BY <1>0, <1>a, <1>7, <2>1 DEF Release, Locations
<1>8. CASE BeginDisconnect(r)
  <2>1. pc' \in [Requests -> Locations] /\ job' \in [Requests -> Job]
    BY <1>0, <1>a, <1>b, <1>8 DEF BeginDisconnect, Locations
  <2> QED
    BY <1>0, <1>8, <2>1, DemotedType DEF BeginDisconnect
<1>9. CASE Delete(r)
  <2>1. job[r].secret.grant \in Grants
    BY <1>0, <1>9, JobFields DEF Delete, RequestInv, JobIsWhole
  <2> QED
    BY <1>0, <1>9, <2>1 DEF Delete, Locations
<1> QED
  BY <1>1, <1>2, <1>3, <1>4, <1>5, <1>6, <1>7, <1>8, <1>9

LEMMA TypeStep == GrantsInv /\ [Next]_vars => TypeOK'
<1> SUFFICES ASSUME GrantsInv, [Next]_vars PROVE TypeOK'
  OBVIOUS
<1>0. TypeOK /\ NoJob \in Job
  BY DEF GrantsInv, NoJob, Job
<1>1. ASSUME NEW r \in Requests, StartReceipt(r) \/ Record(r) PROVE TypeOK'
  <2>1. [NoJob EXCEPT !.result = "failed"] \in Job
    BY DEF NoJob, Job
  <2> QED
    BY <1>0, <1>1, <2>1
    DEF TypeOK, StartReceipt, Record, Conclude, Finish, Goto, Locations
<1>2. ASSUME NEW r \in Requests, FlowExpires(r) \/ Crash(r) PROVE TypeOK'
  BY <1>0, <1>2, GrantAssumption
  DEF TypeOK, FlowExpires, Crash, Finish, Goto, Locations
<1>3. CASE CancelFlow
  BY <1>0, <1>3 DEF TypeOK, CancelFlow
<1>4. CASE LeaseExpires
  <2>1. conn' \in Connection
    BY <1>0, <1>4 DEF TypeOK, LeaseExpires, Connection
  <2> QED
    BY <1>0, <1>4, <2>1 DEF TypeOK, LeaseExpires
<1>5. CASE UNCHANGED vars
  BY <1>0, <1>5 DEF TypeOK, vars
<1>6. ASSUME NEW r \in Requests, Step(r) \/ ConsumeFlow(r) PROVE TypeOK'
  BY <1>1, <1>6, QuietType, RecordType DEF Step, ConsumeFlow
<1> QED
  BY <1>2, <1>3, <1>4, <1>5, <1>6, ArrivalType DEF Next
----------------------------------------------------------------------------
(***************************************************************************)
(* The steps of one request, and what they leave to the others.            *)
(***************************************************************************)

\* What a step of request r may do that the others see.
Isolated(r) ==
  /\ \A q \in Requests \ {r} :
       pc'[q] = pc[q] /\ job'[q] = job[q] /\ receipts'[q] = receipts[q]
  /\ pc'[r] \in Before => pc[r] \in Before
  /\ \/ live' \subseteq live
     \/ pc[r] = "exchanging" /\ pc'[r] \notin Before /\ live' = live \cup {r}
  /\ \/ conn' = conn
     \/ /\ \A q \in Requests \ {r} : pc[q] \notin Executing
        /\ \/ conn' = None
           \/ conn'.lease \in {None, r}
           \/ conn # None /\ conn'.lease = conn.lease

\* What was brought stays brought.
LEMMA StaysBrought ==
  ASSUME GrantsInv, NEW r \in Requests, Isolated(r), NEW s, Brought(s),
         s.grant \in Grants
  PROVE  /\ s.grant \in Requests => pc'[s.grant] \notin Before
         /\ s.kind = "token" => s.grant \notin live'
         /\ s.grant \notin live => s.grant \notin live'
BY DEF Isolated, Brought, Before

\* The other requests keep their part of the invariant.
LEMMA OthersKeep ==
  ASSUME GrantsInv, TypeOK', NEW r \in Requests, Isolated(r),
         NEW q \in Requests \ {r}
  PROVE  RequestInv(q)'
<1>1. /\ RequestInv(q) /\ pc'[q] = pc[q] /\ job'[q] = job[q]
      /\ receipts'[q] = receipts[q] /\ job[q] \in Job
      /\ q # r /\ q # None
  BY GrantAssumption DEF GrantsInv, Isolated, TypeOK, Grants
<1>2. HoldsLease(q)'
  BY <1>1 DEF Isolated, RequestInv, HoldsLease
<1>3. job[q].secret # None =>
        /\ job[q].secret.grant \in Grants /\ Brought(job[q].secret)
        /\ Brought(job[q].secret)'
        /\ job[q].secret.grant \notin live => job[q].secret.grant \notin live'
  BY <1>1, JobFields, StaysBrought DEF RequestInv, JobIsWhole, Brought
<1>4. q \in live' => pc'[q] \notin Before
  BY <1>1 DEF Isolated, RequestInv, JobIsWhole
<1>5. JobIsWhole(q)'
  BY <1>1, <1>3, <1>4 DEF RequestInv, JobIsWhole
<1>6. RevokedIsDead(q)'
  BY <1>1, <1>3 DEF RequestInv, RevokedIsDead, JobIsWhole
<1>7. ReceiptInOrder(q)'
  BY <1>1 DEF Isolated, RequestInv, ReceiptInOrder
<1> QED
  BY <1>2, <1>5, <1>6, <1>7 DEF RequestInv

\* A step that leaves the record alone.
LEMMA QuietRecord ==
  ASSUME GrantsInv, NEW r \in Requests, Isolated(r), UNCHANGED conn
  PROVE  DisconnectDisables' /\ ReadyIsCertified' /\ GrantIsBrought'
<1>1. DisconnectDisables' /\ ReadyIsCertified'
  BY DEF GrantsInv, DisconnectDisables, ReadyIsCertified
<1>2. conn # None => conn.secret.grant \in Grants /\ Brought(conn.secret)
  BY ConnectionFields DEF GrantsInv, TypeOK, GrantIsBrought
<1>3. GrantIsBrought'
  BY <1>2, StaysBrought DEF GrantIsBrought, Brought
<1> QED
  BY <1>1, <1>3

LEMMA ArrivalStep ==
  ASSUME GrantsInv, NEW r \in Requests,
         \/ StartOAuth(r) \/ StoreToken(r) \/ VerifyConnector(r)
         \/ Invoke(r) \/ Disconnect(r)
  PROVE  Isolated(r) /\ RequestInv(r)' /\ UNCHANGED conn
<1> USE DEF Arrive, Move, Goto
<1>0. TypeOK /\ RequestInv(r) /\ job[r] \in Job /\ r \in Grants
  BY DEF GrantsInv, TypeOK, Grants
<1>1. pc[r] = "idle" /\ job[r] = NoJob
  BY <1>0
  DEF StartOAuth, StoreToken, VerifyConnector, Invoke, Disconnect, RequestInv,
      JobIsWhole, Before
<1>2. Isolated(r) /\ UNCHANGED conn
  BY <1>0, <1>1
  DEF StartOAuth, StoreToken, VerifyConnector, Invoke, Disconnect, TypeOK,
      Isolated, Before
<1>3. CASE StartOAuth(r) \/ Invoke(r) \/ Disconnect(r)
  BY <1>0, <1>1, <1>2, <1>3
  DEF StartOAuth, Invoke, Disconnect, TypeOK, RequestInv, HoldsLease, JobIsWhole,
      RevokedIsDead, ReceiptInOrder, NoJob, Before, Executing
<1>4. CASE StoreToken(r)
  <2>1. r \notin live
    BY <1>0, <1>1 DEF RequestInv, JobIsWhole, Before
  <2>2. /\ pc'[r] = "putting" /\ job'[r].secret.grant = r /\ job'[r].gen = None
        /\ job'[r].secret # None
    <3>1. [grant |-> r, version |-> 0, kind |-> "token"] \in Secret
      BY <1>0 DEF Secret
    <3> QED
      BY <1>0, <1>1, <1>4, <3>1, GrantAssumption DEF StoreToken, TypeOK, NoJob
  <2>3. UNCHANGED <<live, receipts>>
    BY <1>4 DEF StoreToken
  <2> QED
    BY <1>0, <1>1, <1>2, <2>1, <2>2, <2>3
    DEF RequestInv, HoldsLease, JobIsWhole, RevokedIsDead, ReceiptInOrder, Before,
        Executing, Brought
<1>5. CASE VerifyConnector(r)
  <2>1. /\ pc'[r] = "beginning" /\ job'[r].secret = None
        /\ UNCHANGED <<live, receipts>>
    BY <1>0, <1>1, <1>5 DEF VerifyConnector, TypeOK, NoJob
  <2> QED
    BY <1>0, <1>1, <1>2, <2>1
    DEF RequestInv, HoldsLease, JobIsWhole, RevokedIsDead, ReceiptInOrder, Before,
        Executing
<1> QED
  BY <1>2, <1>3, <1>4, <1>5

\* A request that has answered, or died, has nothing left to lose.
LEMMA FinishedStep ==
  ASSUME GrantsInv, NEW r \in Requests, Finish(r), pc[r] # "idle",
         pc[r] # "done", UNCHANGED receipts
  PROVE  RequestInv(r)'
<1>1. pc'[r] = "done" /\ job'[r] = NoJob /\ receipts[r] # "allowed"
  BY DEF Finish, Goto, GrantsInv, TypeOK, RequestInv, ReceiptInOrder
<1> QED
  BY <1>1
  DEF RequestInv, HoldsLease, JobIsWhole, RevokedIsDead, ReceiptInOrder, NoJob,
      Before, Executing

LEMMA QuietStep ==
  ASSUME GrantsInv, NEW r \in Requests, UNCHANGED receipts,
         \/ Discover(r) \/ Register(r) \/ StartRegistered(r) \/ PutFlow(r)
         \/ ConsumeFlow(r) \/ CheckVault(r) \/ Exchange(r) \/ RejectGrant(r)
         \/ CleanUp(r) \/ Certify(r) \/ RuntimeMaterial(r) \/ EnforceToolPolicy(r)
         \/ Refresh(r) \/ EndCall(r) \/ Deadline(r) \/ RevokeGrant(r)
  PROVE  Isolated(r) /\ RequestInv(r)' /\ UNCHANGED conn
<1> USE DEF Move, Goto
<1>0. /\ pc \in [Requests -> Locations] /\ job \in [Requests -> Job]
      /\ RequestInv(r) /\ job[r] \in Job /\ r \in Grants
  BY DEF GrantsInv, TypeOK, Grants
<1>1. CASE Discover(r) \/ Register(r) \/ StartRegistered(r) \/ CheckVault(r)
             \/ PutFlow(r) \/ ConsumeFlow(r)
  <2>1. /\ pc[r] \in {"starting", "registering", "reserving", "checking",
                      "authorizing"}
        /\ pc' = [pc EXCEPT ![r] = pc'[r]]
        /\ pc'[r] \in {"registering", "reserving", "authorizing", "checking",
                       "exchanging", "done"}
        /\ UNCHANGED <<conn, live, job, receipts>>
    BY <1>0, <1>1
    DEF Discover, Register, StartRegistered, CheckVault, PutFlow, ConsumeFlow
  <2> QED
    BY <1>0, <2>1
    DEF Isolated, RequestInv, HoldsLease, JobIsWhole, RevokedIsDead,
        ReceiptInOrder, Before, Executing, NoJob
<1>2. CASE Exchange(r)
  <2>1. /\ pc[r] = "exchanging" /\ pc' = [pc EXCEPT ![r] = pc'[r]]
        /\ UNCHANGED <<conn, receipts>>
    BY <1>0, <1>2 DEF Exchange
  <2>2. CASE pc'[r] = "done" /\ UNCHANGED <<live, job>>
    BY <1>0, <2>1, <2>2
    DEF Isolated, RequestInv, HoldsLease, JobIsWhole, RevokedIsDead,
        ReceiptInOrder, Before, Executing, NoJob
  <2>3. CASE /\ pc'[r] \in {"putting", "rejecting"} /\ live' = live \cup {r}
             /\ job' = [job EXCEPT ![r].secret =
                          [grant |-> r, version |-> 0, kind |-> "oauth"]]
    <3>1. /\ job' = [job EXCEPT ![r] = job'[r]]
          /\ job'[r].secret.grant = r /\ job'[r].secret.kind = "oauth"
          /\ job'[r].gen = None /\ job'[r].secret # None
      <4>1. [grant |-> r, version |-> 0, kind |-> "oauth"] \in Secret
        BY <1>0 DEF Secret
      <4>2. job[r] = NoJob
        BY <1>0, <2>1 DEF RequestInv, JobIsWhole, Before
      <4> QED
        BY <1>0, <2>3, <4>1, <4>2, GrantAssumption DEF NoJob
    <3> QED
      BY <1>0, <2>1, <2>3, <3>1
      DEF Isolated, RequestInv, HoldsLease, JobIsWhole, RevokedIsDead,
          ReceiptInOrder, Before, Executing, Brought
  <2> QED
    BY <1>0, <1>2, <2>2, <2>3 DEF Exchange
<1>3. CASE RejectGrant(r) \/ CleanUp(r)
  <2>1. /\ pc[r] \in {"rejecting", "cleaning"} /\ Finish(r) /\ live' \subseteq live
        /\ UNCHANGED <<conn, receipts>>
    BY <1>3 DEF RejectGrant, CleanUp, RevokeOrTell, RevokeToken
  <2>2. Isolated(r)
    BY <1>0, <2>1 DEF Isolated, Finish, Before
  <2> QED
    BY <2>1, <2>2, FinishedStep
<1>4. CASE Certify(r)
  <2>1. /\ pc[r] = "verifying" /\ UNCHANGED <<conn, live, receipts>>
        /\ pc' = [pc EXCEPT ![r] = "finishing"] /\ job' = [job EXCEPT ![r] = job'[r]]
        /\ job'[r].secret = job[r].secret /\ job'[r].gen = job[r].gen
    BY <1>0, <1>4 DEF Certify, Job
  <2> QED
    BY <1>0, <2>1
    DEF Isolated, RequestInv, HoldsLease, JobIsWhole, RevokedIsDead,
        ReceiptInOrder, Before, Executing, Brought
<1>5. CASE RuntimeMaterial(r) \/ EnforceToolPolicy(r) \/ Refresh(r) \/ EndCall(r)
             \/ Deadline(r)
  <2>1. /\ pc[r] \in Executing /\ UNCHANGED <<conn, live, receipts>>
        /\ pc' = [pc EXCEPT ![r] = pc'[r]] /\ job' = [job EXCEPT ![r] = job'[r]]
        /\ pc'[r] \in Executing \cup {"quarantining", "releasing"}
        /\ job'[r].secret = job[r].secret /\ job'[r].gen = job[r].gen
        /\ pc'[r] = "rotating" => job'[r].resume \in {"permitting", "calling"}
    <3>1. CASE RuntimeMaterial(r) \/ EnforceToolPolicy(r) \/ Deadline(r)
      BY <1>0, <3>1 DEF RuntimeMaterial, EnforceToolPolicy, Deadline, Executing
    <3>2. CASE EndCall(r)
      BY <1>0, <3>2 DEF EndCall, Executing, Job
    <3>3. CASE Refresh(r)
      BY <1>0, <3>3 DEF Refresh, Executing, Job
    <3> QED
      BY <1>5, <3>1, <3>2, <3>3
  <2> QED
    BY <1>0, <2>1
    DEF Isolated, RequestInv, HoldsLease, JobIsWhole, RevokedIsDead,
        ReceiptInOrder, Before, Executing, Brought
<1>6. CASE RevokeGrant(r)
  <2> DEFINE g == job[r].secret.grant
  <2>1. /\ pc[r] = "revoking" /\ job[r].secret # None /\ job[r].gen # None
        /\ job[r].result = "none" /\ Brought(job[r].secret)
        /\ live' \subseteq live /\ UNCHANGED <<conn, receipts>>
    BY <1>0, <1>6 DEF RevokeGrant, RevokeToken, RequestInv, JobIsWhole
  <2>2. CASE Finish(r)
    <3>1. Isolated(r)
      BY <1>0, <2>1, <2>2 DEF Isolated, Finish, Before
    <3> QED
      BY <2>1, <2>2, <3>1, FinishedStep
  <2>3. CASE /\ Goto(r, "deleting") /\ job' = [job EXCEPT ![r].result = "ready"]
             /\ g \notin live'
    <3>1. /\ job' = [job EXCEPT ![r] = job'[r]]
          /\ job'[r].secret = job[r].secret /\ job'[r].gen = job[r].gen
          /\ job'[r].result = "ready"
      BY <1>0, <2>3 DEF Job
    <3> QED
      BY <1>0, <2>1, <2>3, <3>1
      DEF Isolated, RequestInv, HoldsLease, JobIsWhole, RevokedIsDead,
          ReceiptInOrder, Before, Executing, Brought
  <2>4. CASE /\ Goto(r, "deleting") /\ UNCHANGED job
             /\ ~(job[r].secret.kind = "oauth" /\ Revocable)
    BY <1>0, <2>1, <2>4
    DEF Isolated, RequestInv, HoldsLease, JobIsWhole, RevokedIsDead,
        ReceiptInOrder, Before, Executing, Brought
  <2> QED
    BY <1>6, <2>2, <2>3, <2>4 DEF RevokeGrant, RevokeToken
<1> QED
  BY <1>1, <1>2, <1>3, <1>4, <1>5, <1>6

----------------------------------------------------------------------------
(***************************************************************************)
(* The operations on the record.                                           *)
(***************************************************************************)
RecordInv == DisconnectDisables /\ ReadyIsCertified /\ GrantIsBrought

\* Nobody else is executing when an operation may write the record.
LEMMA NobodyExecutes ==
  ASSUME GrantsInv, NEW r \in Requests,
         \/ conn = None \/ conn.status # "ready" \/ ~LeaseIsActive(conn)
         \/ conn.lease = r
  PROVE  \A q \in Requests \ {r} : pc[q] \notin Executing
BY GrantAssumption DEF GrantsInv, RequestInv, HoldsLease, LeaseIsActive, Grants

\* An execution is over; it has succeeded only if it gave its lease back.
LEMMA ConcludedStep ==
  ASSUME GrantsInv, NEW r \in Requests, NEW result, Conclude(r, result),
         pc[r] # "idle", pc[r] # "done", receipts'[r] # "allowed",
         result = "failed" \/ conn' = None \/ conn'.lease # r,
         \/ r \notin live' \/ pc'[r] \notin Before
  PROVE  RequestInv(r)'
<1>1. /\ pc'[r] = "recording" /\ job'[r] = [NoJob EXCEPT !.result = result]
  BY DEF Conclude, Goto, GrantsInv, TypeOK
<1>2. job'[r].secret = None /\ job'[r].gen = None /\ job'[r].result = result
  BY <1>1 DEF NoJob
<1> QED
  BY <1>1, <1>2
  DEF RequestInv, HoldsLease, JobIsWhole, RevokedIsDead, ReceiptInOrder,
      Before, Executing

LEMMA PutStep ==
  ASSUME GrantsInv, NEW r \in Requests, UNCHANGED receipts, Put(r)
  PROVE  Isolated(r) /\ RequestInv(r)' /\ RecordInv'
<1> DEFINE s == job[r].secret
<1>0. /\ pc \in [Requests -> Locations] /\ job \in [Requests -> Job]
      /\ RequestInv(r) /\ job[r] \in Job /\ RecordInv
      /\ pc[r] = "putting" /\ UNCHANGED <<live, receipts>>
  BY DEF GrantsInv, TypeOK, RecordInv, Put
<1>1. s \in Secret /\ s.grant = r /\ Brought(s)
  BY <1>0, JobFields DEF RequestInv, JobIsWhole
<1>2. \/ conn = None /\ conn' = Stored(s)
      \/ UNCHANGED conn
  BY DEF Put
<1>3. \/ Finish(r)
      \/ /\ \E place \in {"beginning", "cleaning"} : Goto(r, place)
         /\ job' = [job EXCEPT ![r].gen = <<r, 0>>]
  BY DEF Put
<1>4. Isolated(r)
  <2>1. conn' = conn \/ (conn = None /\ conn'.lease = None)
    BY <1>1, <1>2, StoredType
  <2>2. conn = None => \A q \in Requests \ {r} : pc[q] \notin Executing
    BY NobodyExecutes
  <2> QED
    BY <1>0, <1>3, <2>1, <2>2 DEF Isolated, Finish, Goto, Before
<1>5. RequestInv(r)'
  <2>1. CASE Finish(r)
    BY <1>0, <2>1, FinishedStep
  <2>2. CASE /\ \E place \in {"beginning", "cleaning"} : Goto(r, place)
             /\ job' = [job EXCEPT ![r].gen = <<r, 0>>]
    <3>1. /\ job'[r].secret = s /\ job'[r].gen = <<r, 0>>
          /\ pc'[r] \in {"beginning", "cleaning"}
      BY <1>0, <2>2 DEF Goto, Job
    <3>2. job'[r].secret # None
      BY <1>0, <3>1 DEF RequestInv, JobIsWhole
    <3> QED
      BY <1>0, <1>1, <3>1, <3>2
      DEF RequestInv, HoldsLease, JobIsWhole, RevokedIsDead, ReceiptInOrder,
          Before, Executing, Brought
  <2> QED
    BY <1>3, <2>1, <2>2
<1>6. RecordInv'
  <2>1. CASE conn' = Stored(s)
    <3>1. /\ conn'.secret = s /\ conn'.status = "stored_unverified"
          /\ conn'.error = "none"
      BY <1>1, <2>1, StoredType
    <3>2. Brought(s) => /\ r \in Requests => pc'[r] \notin Before
                        /\ s.kind = "token" => r \notin live'
      BY <1>1, <1>4, StaysBrought, GrantAssumption DEF Grants
    <3> QED
      BY <1>1, <3>1, <3>2
      DEF RecordInv, DisconnectDisables, ReadyIsCertified, GrantIsBrought, Brought
  <2>2. CASE UNCHANGED conn
    BY <2>2, <1>4, QuietRecord DEF RecordInv
  <2> QED
    BY <1>2, <2>1, <2>2
<1> QED
  BY <1>4, <1>5, <1>6

\* An operation that leaves the grant in the record.
LEMMA SameGrant ==
  ASSUME GrantsInv, NEW r \in Requests, Isolated(r), conn \in Connection,
         conn'.secret.grant = conn.secret.grant,
         conn'.secret.kind = conn.secret.kind,
         conn'.error = "disconnect_pending" => conn'.status = "needs_attention",
         conn'.status = "ready" => conn'.certified = conn'.secret.grant
  PROVE  RecordInv'
<1>1. conn # None /\ conn.secret.grant \in Grants
  BY ConnectionFields
<1>2. Brought(conn.secret)
  BY <1>1 DEF GrantsInv, GrantIsBrought
<1>3. Brought(conn.secret)'
  BY <1>1, <1>2, StaysBrought DEF Brought
<1> QED
  BY <1>3 DEF RecordInv, DisconnectDisables, ReadyIsCertified, GrantIsBrought

\* A request that ends with the record as it was.
LEMMA NothingWritten ==
  ASSUME GrantsInv, NEW r \in Requests, UNCHANGED <<conn, live, receipts>>,
         pc[r] \notin {"idle", "done"},
         Finish(r) \/ Conclude(r, "failed")
  PROVE  Isolated(r) /\ RequestInv(r)' /\ RecordInv'
<1>1. receipts[r] # "allowed" /\ (r \notin live' \/ "recording" \notin Before)
  BY DEF GrantsInv, RequestInv, ReceiptInOrder, Before
<1>2. Isolated(r)
  BY DEF Isolated, Finish, Conclude, Goto, GrantsInv, TypeOK, Before
<1>3. RequestInv(r)'
  <2>1. CASE Finish(r)
    BY <2>1, FinishedStep
  <2>2. CASE Conclude(r, "failed")
    <3>1. pc'[r] = "recording"
      BY <2>2 DEF Conclude, Goto, GrantsInv, TypeOK
    <3> QED
      BY <1>1, <2>2, <3>1, ConcludedStep DEF Before
  <2> QED
    BY <2>1, <2>2
<1> QED
  BY <1>2, <1>3, QuietRecord DEF RecordInv

LEMMA BeginVerificationStep ==
  ASSUME GrantsInv, NEW r \in Requests, UNCHANGED receipts, BeginVerification(r)
  PROVE  Isolated(r) /\ RequestInv(r)' /\ RecordInv'
<1>0. /\ pc \in [Requests -> Locations] /\ job \in [Requests -> Job]
      /\ conn \in Connection \cup {None}
      /\ RequestInv(r) /\ job[r] \in Job
      /\ pc[r] = "beginning" /\ UNCHANGED <<live, receipts>>
  BY DEF GrantsInv, TypeOK, BeginVerification
<1>1. CASE Finish(r) /\ UNCHANGED conn
  BY <1>0, <1>1, NothingWritten
<1>2. CASE /\ conn # None /\ Generation(conn) = job[r].gen
           /\ conn.status # "ready"
           /\ conn' = [conn EXCEPT !.status = "verifying", !.error = "none",
                                   !.certified = None, !.lease = r, !.alive = TRUE]
           /\ \/ /\ Goto(r, "verifying")
                 /\ job' = [job EXCEPT ![r].secret = conn.secret]
              \/ Finish(r)
  <2>1. /\ conn \in Connection /\ conn'.lease = r /\ conn'.secret = conn.secret
        /\ conn'.status = "verifying" /\ conn'.error = "none" /\ conn' # None
    <3> DEFINE d == [conn EXCEPT !.status = "verifying", !.error = "none",
                                 !.certified = None, !.lease = r, !.alive = TRUE]
    <3>0. conn \in Connection
      BY <1>0, <1>2
    <3>1. /\ d \in Connection /\ d.lease = r /\ d.secret = conn.secret
          /\ d.status = "verifying" /\ d.error = "none"
      BY <3>0, VerifyingType
    <3> QED
      BY <1>2, <3>0, <3>1, ConnectionFields
  <2>2. \A q \in Requests \ {r} : pc[q] \notin Executing
    BY <1>2, NobodyExecutes
  <2>3. Isolated(r)
    BY <1>0, <1>2, <2>1, <2>2 DEF Isolated, Finish, Goto, Before
  <2>4. RecordInv'
    BY <2>1, <2>3, SameGrant
  <2>5. ASSUME Goto(r, "verifying"),
               job' = [job EXCEPT ![r].secret = conn.secret]
        PROVE  RequestInv(r)'
    <3>1. /\ pc'[r] = "verifying" /\ job'[r].secret = conn.secret
          /\ job'[r].gen = Generation(conn)
      BY <1>0, <1>2, <2>5 DEF Goto, Job
    <3>2. /\ conn.secret # None /\ Generation(conn) # None
          /\ Generation(conn)[1] = conn.secret.grant
      BY <2>1, ConnectionFields
    <3>3. Brought(job[r].secret)'
      BY <2>1, <2>4, <3>1 DEF RecordInv, GrantIsBrought, Brought
    <3> QED
      BY <1>0, <3>1, <3>2, <3>3
      DEF RequestInv, HoldsLease, JobIsWhole, RevokedIsDead, ReceiptInOrder,
          Before, Executing
  <2> QED
    BY <1>0, <1>2, <2>3, <2>4, <2>5, FinishedStep
<1> QED
  BY <1>1, <1>2 DEF BeginVerification

LEMMA FinishVerificationStep ==
  ASSUME GrantsInv, NEW r \in Requests, UNCHANGED receipts, FinishVerification(r)
  PROVE  Isolated(r) /\ RequestInv(r)' /\ RecordInv'
<1>0. /\ pc \in [Requests -> Locations] /\ job \in [Requests -> Job]
      /\ conn \in Connection \cup {None}
      /\ RequestInv(r) /\ job[r] \in Job /\ Finish(r)
      /\ pc[r] = "finishing" /\ UNCHANGED <<live, receipts>>
  BY DEF GrantsInv, TypeOK, FinishVerification
<1>1. CASE UNCHANGED conn
  BY <1>0, <1>1, NothingWritten
<1>2. CASE /\ conn # None /\ conn.status = "verifying"
           /\ Generation(conn) = job[r].gen /\ conn' = Certified(r)
  <2>1. job[r].secret # None /\ job[r].secret.grant = conn.secret.grant
    BY <1>0, <1>2, ConnectionFields DEF RequestInv, JobIsWhole
  <2>2. /\ conn \in Connection /\ conn'.lease = None /\ conn'.secret = conn.secret
        /\ conn'.status = "ready" => conn'.certified = conn'.secret.grant
        /\ conn'.error # "disconnect_pending"
    BY <1>0, <1>2, <2>1, CertifiedType
  <2>3. \A q \in Requests \ {r} : pc[q] \notin Executing
    BY <1>2, NobodyExecutes
  <2>4. Isolated(r)
    BY <1>0, <2>2, <2>3 DEF Isolated, Finish, Goto, Before
  <2> QED
    BY <1>0, <2>2, <2>4, SameGrant, FinishedStep
<1> QED
  BY <1>1, <1>2 DEF FinishVerification

LEMMA ClaimStep ==
  ASSUME GrantsInv, NEW r \in Requests, UNCHANGED receipts, Claim(r)
  PROVE  Isolated(r) /\ RequestInv(r)' /\ RecordInv'
<1>0. /\ pc \in [Requests -> Locations] /\ job \in [Requests -> Job]
      /\ conn \in Connection \cup {None}
      /\ RequestInv(r) /\ job[r] \in Job
      /\ pc[r] = "claiming" /\ UNCHANGED <<live, receipts>>
  BY DEF GrantsInv, TypeOK, Claim
<1>1. CASE Conclude(r, "failed") /\ UNCHANGED conn
  BY <1>0, <1>1, NothingWritten
<1>2. CASE /\ conn # None /\ conn.status = "ready" /\ ~LeaseIsActive(conn)
           /\ conn' = [conn EXCEPT !.lease = r, !.alive = TRUE]
           /\ \/ /\ Goto(r, "holding")
                 /\ job' = [job EXCEPT ![r].secret = conn.secret,
                                       ![r].gen = Generation(conn)]
              \/ Conclude(r, "failed")
  <2>1. /\ conn \in Connection /\ conn'.lease = r /\ conn'.alive = TRUE
        /\ conn'.secret = conn.secret /\ conn'.status = conn.status
        /\ conn'.error = conn.error /\ conn'.certified = conn.certified
        /\ conn' # None
    <3> DEFINE d == [conn EXCEPT !.lease = r, !.alive = TRUE]
    <3>1. /\ d \in Connection /\ d.lease = r /\ d.alive = TRUE
          /\ d.secret = conn.secret /\ d.status = conn.status
          /\ d.error = conn.error /\ d.certified = conn.certified
      <4>1. conn \in Connection /\ r \in Requests \cup {None} /\ TRUE \in BOOLEAN
        BY <1>0, <1>2
      <4> QED
        BY <4>1, LeasedType
    <3> QED
      BY <1>0, <1>2, <3>1, ConnectionFields
  <2>2. \A q \in Requests \ {r} : pc[q] \notin Executing
    BY <1>2, NobodyExecutes
  <2>3. Isolated(r)
    BY <1>0, <1>2, <2>1, <2>2 DEF Isolated, Conclude, Goto, Before
  <2>4. RecordInv'
    BY <1>2, <2>1, <2>3, SameGrant
    DEF GrantsInv, DisconnectDisables, ReadyIsCertified
  <2>5. ASSUME Goto(r, "holding"),
               job' = [job EXCEPT ![r].secret = conn.secret,
                                  ![r].gen = Generation(conn)]
        PROVE  RequestInv(r)'
    <3>1. /\ pc'[r] = "holding" /\ job'[r].secret = conn.secret
          /\ job'[r].gen = Generation(conn)
      BY <1>0, <2>5 DEF Goto, Job
    <3>2. /\ conn.secret # None /\ Generation(conn) # None
          /\ Generation(conn)[1] = conn.secret.grant
      BY <2>1, ConnectionFields
    <3>3. Brought(job[r].secret)'
      BY <2>1, <2>4, <3>1 DEF RecordInv, GrantIsBrought, Brought
    <3> QED
      BY <1>0, <1>2, <2>1, <3>1, <3>2, <3>3
      DEF RequestInv, HoldsLease, JobIsWhole, RevokedIsDead, ReceiptInOrder,
          Before, Executing
  <2>6. ASSUME Conclude(r, "failed") PROVE RequestInv(r)'
    <3>1. pc'[r] = "recording" /\ receipts'[r] # "allowed"
      BY <1>0, <2>6 DEF Conclude, Goto, RequestInv, ReceiptInOrder
    <3> QED
      BY <1>0, <2>6, <3>1, ConcludedStep DEF Before
  <2> QED
    BY <1>2, <2>3, <2>4, <2>5, <2>6
<1> QED
  BY <1>1, <1>2 DEF Claim

LEMMA RotateStep ==
  ASSUME GrantsInv, NEW r \in Requests, UNCHANGED receipts, Rotate(r)
  PROVE  Isolated(r) /\ RequestInv(r)' /\ RecordInv'
<1> DEFINE n == version[job[r].secret.grant]
           c == [conn EXCEPT !.secret = [@ EXCEPT !.version = n], !.rotations = @ + 1]
<1>0. /\ pc \in [Requests -> Locations] /\ job \in [Requests -> Job]
      /\ conn \in Connection \cup {None} /\ version \in [Grants -> Nat]
      /\ RequestInv(r) /\ job[r] \in Job
      /\ pc[r] = "rotating" /\ UNCHANGED <<live, receipts>>
  BY DEF GrantsInv, TypeOK, Rotate
<1>1. StillHeld(r) =>
        /\ conn \in Connection /\ conn # None /\ n \in Nat
        /\ conn.status = "ready" /\ conn.lease = r /\ conn.alive
        /\ conn.secret = job[r].secret
  BY <1>0, ConnectionFields DEF StillHeld, RequestInv, HoldsLease, Executing
<1>2. StillHeld(r) =>
        /\ c # None /\ c.lease = r /\ c.alive = conn.alive /\ c.status = "ready"
        /\ c.error = conn.error /\ c.certified = conn.certified
        /\ c.secret.grant = conn.secret.grant /\ c.secret.kind = conn.secret.kind
        /\ c.secret # None /\ Generation(c) # None
        /\ Generation(c)[1] = c.secret.grant
  <2>1. StillHeld(r) =>
          /\ c \in Connection /\ c.lease = conn.lease /\ c.alive = conn.alive
          /\ c.status = conn.status
          /\ c.error = conn.error /\ c.certified = conn.certified
          /\ c.secret.grant = conn.secret.grant /\ c.secret.kind = conn.secret.kind
    BY <1>1, RotatedType
  <2>2. c \in Connection => /\ c # None /\ c.secret # None /\ Generation(c) # None
                            /\ Generation(c)[1] = c.secret.grant
    BY ConnectionFields
  <2> QED
    BY <1>1, <2>1, <2>2
<1> HIDE DEF n, c
<1>3. \/ /\ StillHeld(r) /\ conn' = c
         /\ \/ Goto(r, job[r].resume) /\ job' = Refreshed(r)
            \/ /\ \E place \in {"quarantining", "releasing"} : Goto(r, place)
               /\ UNCHANGED job
      \/ Goto(r, "releasing") /\ UNCHANGED <<conn, job>>
  BY DEF Rotate, c, n
<1>4. job[r].resume \in {"permitting", "calling"}
  BY <1>0 DEF RequestInv, JobIsWhole
<1>5. Isolated(r)
  <2>1. StillHeld(r) => \A q \in Requests \ {r} : pc[q] \notin Executing
    BY <1>1, NobodyExecutes
  <2> QED
    BY <1>0, <1>2, <1>3, <1>4, <2>1 DEF Isolated, Goto, Before, Refreshed
<1>6. RecordInv'
  <2>1. CASE StillHeld(r) /\ conn' = c
    BY <1>1, <1>2, <1>5, <2>1, SameGrant
    DEF GrantsInv, DisconnectDisables, ReadyIsCertified
  <2>2. CASE UNCHANGED conn
    BY <1>5, <2>2, QuietRecord DEF RecordInv
  <2> QED
    BY <1>3, <2>1, <2>2
<1>7. RequestInv(r)'
  <2>1. CASE /\ StillHeld(r) /\ conn' = c
             /\ Goto(r, job[r].resume) /\ job' = Refreshed(r)
    <3>1. /\ pc'[r] \in {"permitting", "calling"} /\ job'[r].secret = c.secret
          /\ job'[r].gen = Generation(c)
      BY <1>0, <1>4, <2>1 DEF Goto, Refreshed, Job
    <3>2. Brought(job[r].secret)'
      BY <1>2, <1>6, <2>1, <3>1 DEF RecordInv, GrantIsBrought, Brought
    <3> QED
      BY <1>0, <1>1, <1>2, <2>1, <3>1, <3>2
      DEF RequestInv, HoldsLease, JobIsWhole, RevokedIsDead, ReceiptInOrder,
          Before, Executing
  <2>2. CASE /\ \E place \in {"quarantining", "releasing"} : Goto(r, place)
             /\ UNCHANGED job
    <3>1. pc'[r] \in {"quarantining", "releasing"}
      BY <1>0, <2>2 DEF Goto
    <3>2. job[r].secret # None => Brought(job[r].secret)'
      BY <1>0, <1>5, <2>2, StaysBrought, JobFields DEF RequestInv, JobIsWhole, Brought
    <3> QED
      BY <1>0, <2>2, <3>1, <3>2
      DEF RequestInv, HoldsLease, JobIsWhole, RevokedIsDead, ReceiptInOrder,
          Before, Executing
  <2> QED
    BY <1>3, <2>1, <2>2
<1> QED
  BY <1>5, <1>6, <1>7

LEMMA QuarantineStep ==
  ASSUME GrantsInv, NEW r \in Requests, UNCHANGED receipts, Quarantine(r)
  PROVE  Isolated(r) /\ RequestInv(r)' /\ RecordInv'
<1>0. /\ pc \in [Requests -> Locations] /\ job \in [Requests -> Job]
      /\ conn \in Connection \cup {None}
      /\ RequestInv(r) /\ job[r] \in Job
      /\ pc[r] = "quarantining" /\ UNCHANGED <<live, receipts>>
  BY DEF GrantsInv, TypeOK, Quarantine
<1>1. \/ UNCHANGED conn
      \/ /\ conn \in Connection /\ conn.lease = r
         /\ conn'.secret = conn.secret /\ conn'.lease = None
         /\ conn'.status = "needs_attention" /\ conn'.error = "reconnect_required"
  BY <1>0, DemotedType DEF Quarantine, StillHeld
<1>2. \/ Conclude(r, "failed")
      \/ Goto(r, "releasing") /\ UNCHANGED job
  BY DEF Quarantine
<1>3. Isolated(r)
  <2>1. conn.lease = r => \A q \in Requests \ {r} : pc[q] \notin Executing
    BY NobodyExecutes
  <2> QED
    BY <1>0, <1>1, <1>2, <2>1 DEF Isolated, Conclude, Goto, Before
<1>4. RecordInv'
  BY <1>1, <1>3, SameGrant, QuietRecord DEF RecordInv
<1>5. RequestInv(r)'
  <2>1. CASE Conclude(r, "failed")
    <3>1. pc'[r] = "recording" /\ receipts'[r] # "allowed"
      BY <1>0, <2>1 DEF Conclude, Goto, RequestInv, ReceiptInOrder
    <3> QED
      BY <1>0, <2>1, <3>1, ConcludedStep DEF Before
  <2>2. CASE Goto(r, "releasing") /\ UNCHANGED job
    <3>1. pc'[r] = "releasing"
      BY <1>0, <2>2 DEF Goto
    <3>2. job[r].secret # None => Brought(job[r].secret)'
      BY <1>0, <1>3, <2>2, StaysBrought, JobFields DEF RequestInv, JobIsWhole, Brought
    <3> QED
      BY <1>0, <2>2, <3>1, <3>2
      DEF RequestInv, HoldsLease, JobIsWhole, RevokedIsDead, ReceiptInOrder,
          Before, Executing
  <2> QED
    BY <1>2, <2>1, <2>2
<1> QED
  BY <1>3, <1>4, <1>5

LEMMA ReleaseStep ==
  ASSUME GrantsInv, NEW r \in Requests, UNCHANGED receipts, Release(r)
  PROVE  Isolated(r) /\ RequestInv(r)' /\ RecordInv'
<1>0. /\ pc \in [Requests -> Locations] /\ job \in [Requests -> Job]
      /\ conn \in Connection \cup {None}
      /\ RequestInv(r) /\ job[r] \in Job
      /\ pc[r] = "releasing" /\ UNCHANGED <<live, receipts>>
  BY DEF GrantsInv, TypeOK, Release
<1>1. CASE Conclude(r, "failed") /\ UNCHANGED conn
  BY <1>0, <1>1, NothingWritten
<1>2. CASE /\ conn # None /\ conn.lease = r
           /\ conn' = [conn EXCEPT !.lease = None, !.alive = FALSE]
           /\ \E result \in {job[r].result, "failed"} : Conclude(r, result)
  <2>1. /\ conn \in Connection /\ conn'.lease = None /\ conn'.secret = conn.secret
        /\ conn'.status = conn.status /\ conn'.error = conn.error
        /\ conn'.certified = conn.certified
    <3> DEFINE d == [conn EXCEPT !.lease = None, !.alive = FALSE]
    <3>1. /\ d.lease = None /\ d.secret = conn.secret /\ d.status = conn.status
          /\ d.error = conn.error /\ d.certified = conn.certified
      <4>1. /\ conn \in Connection /\ None \in Requests \cup {None}
            /\ FALSE \in BOOLEAN
        BY <1>0, <1>2
      <4> QED
        BY <4>1, LeasedType
    <3> QED
      BY <1>0, <1>2, <3>1
  <2>2. \A q \in Requests \ {r} : pc[q] \notin Executing
    BY <1>2, NobodyExecutes
  <2>3. Isolated(r)
    BY <1>0, <1>2, <2>1, <2>2 DEF Isolated, Conclude, Goto, Before
  <2>4. RecordInv'
    BY <1>2, <2>1, <2>3, SameGrant
    DEF GrantsInv, DisconnectDisables, ReadyIsCertified
  <2>5. PICK result : Conclude(r, result)
    BY <1>2
  <2>6. pc'[r] = "recording" /\ receipts'[r] # "allowed" /\ r # None
    BY <1>0, <2>5, GrantAssumption
    DEF Conclude, Goto, RequestInv, ReceiptInOrder, Grants
  <2>7. RequestInv(r)'
    BY <1>0, <2>1, <2>5, <2>6, ConcludedStep DEF Before
  <2> QED
    BY <2>3, <2>4, <2>7
<1> QED
  BY <1>1, <1>2 DEF Release

LEMMA BeginDisconnectStep ==
  ASSUME GrantsInv, NEW r \in Requests, UNCHANGED receipts, BeginDisconnect(r)
  PROVE  Isolated(r) /\ RequestInv(r)' /\ RecordInv'
<1>0. /\ pc \in [Requests -> Locations] /\ job \in [Requests -> Job]
      /\ conn \in Connection \cup {None}
      /\ RequestInv(r) /\ job[r] \in Job
      /\ pc[r] = "disconnecting" /\ UNCHANGED <<live, receipts>>
  BY DEF GrantsInv, TypeOK, BeginDisconnect
<1>1. CASE Finish(r) /\ UNCHANGED conn
  BY <1>0, <1>1, NothingWritten
<1>2. CASE /\ conn # None
           /\ conn.status = "verifying" \/ ~LeaseIsActive(conn)
           /\ conn' = Demoted(conn, "disconnect_pending")
           /\ \/ /\ Goto(r, "revoking")
                 /\ job' = [job EXCEPT ![r].secret = conn.secret,
                                       ![r].gen = Generation(conn)]
              \/ Finish(r)
  <2>1. /\ conn \in Connection /\ conn'.lease = None /\ conn'.secret = conn.secret
        /\ conn'.status = "needs_attention" /\ conn' # None
    BY <1>0, <1>2, DemotedType, ConnectionFields
  <2>2. \A q \in Requests \ {r} : pc[q] \notin Executing
    BY <1>2, NobodyExecutes
  <2>3. Isolated(r)
    BY <1>0, <1>2, <2>1, <2>2 DEF Isolated, Finish, Goto, Before
  <2>4. RecordInv'
    BY <2>1, <2>3, SameGrant
  <2>5. ASSUME Goto(r, "revoking"),
               job' = [job EXCEPT ![r].secret = conn.secret,
                                  ![r].gen = Generation(conn)]
        PROVE  RequestInv(r)'
    <3>0. job[r] = NoJob
      BY <1>0 DEF RequestInv, JobIsWhole
    <3>1. /\ pc'[r] = "revoking" /\ job'[r].secret = conn.secret
          /\ job'[r].gen = Generation(conn) /\ job'[r].result = "none"
      BY <1>0, <2>5, <3>0 DEF Goto, NoJob
    <3>2. /\ conn.secret # None /\ Generation(conn) # None
          /\ Generation(conn)[1] = conn.secret.grant
      BY <2>1, ConnectionFields
    <3>3. Brought(job[r].secret)'
      BY <2>1, <2>4, <3>1 DEF RecordInv, GrantIsBrought, Brought
    <3> QED
      BY <1>0, <3>1, <3>2, <3>3
      DEF RequestInv, HoldsLease, JobIsWhole, RevokedIsDead, ReceiptInOrder,
          Before, Executing
  <2> QED
    BY <1>0, <1>2, <2>3, <2>4, <2>5, FinishedStep
<1> QED
  BY <1>1, <1>2 DEF BeginDisconnect

LEMMA DeleteStep ==
  ASSUME GrantsInv, NEW r \in Requests, UNCHANGED receipts, Delete(r)
  PROVE  Isolated(r) /\ RequestInv(r)' /\ RecordInv'
<1>0. /\ pc[r] = "deleting" /\ Finish(r) /\ UNCHANGED <<live, receipts>>
      /\ pc \in [Requests -> Locations] /\ job \in [Requests -> Job]
  BY DEF Delete, GrantsInv, TypeOK
<1>1. CASE UNCHANGED conn
  BY <1>0, <1>1, NothingWritten
<1>2. CASE conn # None /\ conn.error = "disconnect_pending" /\ conn' = None
  <2>1. conn.status # "ready"
    BY <1>2 DEF GrantsInv, DisconnectDisables
  <2>2. \A q \in Requests \ {r} : pc[q] \notin Executing
    BY <2>1, NobodyExecutes
  <2>3. Isolated(r)
    BY <1>0, <1>2, <2>2 DEF Isolated, Finish, Goto, Before
  <2>4. RecordInv'
    BY <1>2 DEF RecordInv, DisconnectDisables, ReadyIsCertified, GrantIsBrought
  <2> QED
    BY <1>0, <2>3, <2>4, FinishedStep
<1> QED
  BY <1>1, <1>2 DEF Delete

----------------------------------------------------------------------------
(***************************************************************************)
(* The invariant.                                                          *)
(***************************************************************************)
LEMMA ReceiptStep ==
  ASSUME GrantsInv, NEW r \in Requests, StartReceipt(r) \/ Record(r)
  PROVE  Isolated(r) /\ RequestInv(r)' /\ RecordInv'
<1>0. /\ pc \in [Requests -> Locations] /\ job \in [Requests -> Job]
      /\ receipts \in [Requests -> {"none", "started", "allowed", "failed"}]
      /\ RequestInv(r) /\ UNCHANGED <<conn, live>>
      /\ pc[r] \in {"receipting", "recording"}
  BY DEF GrantsInv, TypeOK, StartReceipt, Record
<1>1. CASE StartReceipt(r)
  <2>1. /\ pc[r] = "receipting" /\ pc' = [pc EXCEPT ![r] = pc'[r]]
        /\ job' = [job EXCEPT ![r] = job'[r]]
        /\ receipts' = [receipts EXCEPT ![r] = receipts'[r]]
        /\ receipts'[r] # "allowed"
        /\ \/ pc'[r] = "claiming" /\ job'[r] = NoJob /\ receipts'[r] = "started"
           \/ pc'[r] = "recording" /\ job'[r] = [NoJob EXCEPT !.result = "failed"]
    BY <1>0, <1>1
    DEF StartReceipt, Conclude, Goto, RequestInv, JobIsWhole, ReceiptInOrder
  <2>2. /\ [NoJob EXCEPT !.result = "failed"].secret = None
        /\ [NoJob EXCEPT !.result = "failed"].result = "failed"
        /\ NoJob.secret = None
    BY DEF NoJob
  <2>3. Isolated(r)
    BY <1>0, <2>1 DEF Isolated, Before
  <2>4. RequestInv(r)'
    BY <1>0, <2>1, <2>2
    DEF RequestInv, HoldsLease, JobIsWhole, RevokedIsDead, ReceiptInOrder,
        Before, Executing
  <2> QED
    BY <1>0, <2>3, <2>4, QuietRecord DEF RecordInv
<1>2. CASE Record(r)
  <2>1. /\ pc[r] = "recording" /\ pc' = [pc EXCEPT ![r] = "done"]
        /\ job' = [job EXCEPT ![r] = NoJob]
        /\ receipts' = [receipts EXCEPT ![r] = receipts'[r]]
        /\ receipts'[r] = "allowed" => job[r].result = "ready"
    BY <1>0, <1>2 DEF Record, Finish, Goto, RequestInv, ReceiptInOrder
  <2>2. Isolated(r)
    BY <1>0, <2>1 DEF Isolated, Before
  <2>3. RequestInv(r)'
    BY <1>0, <2>1
    DEF RequestInv, HoldsLease, JobIsWhole, RevokedIsDead, ReceiptInOrder,
        Before, Executing, NoJob
  <2> QED
    BY <1>0, <2>2, <2>3, QuietRecord DEF RecordInv
<1> QED
  BY <1>1, <1>2

LEMMA GrantsStep == GrantsInv /\ [Next]_vars => GrantsInv'
<1> SUFFICES ASSUME GrantsInv, [Next]_vars PROVE GrantsInv'
  OBVIOUS
<1>0. TypeOK'
  BY TypeStep
<1>1. ASSUME NEW r \in Requests, Isolated(r), RequestInv(r)', RecordInv'
      PROVE  GrantsInv'
  BY <1>0, <1>1, OthersKeep DEF GrantsInv, RecordInv
<1>2. ASSUME NEW r \in Requests, Step(r) PROVE GrantsInv'
  <2>1. CASE StartReceipt(r) \/ Record(r)
    BY <1>1, <2>1, ReceiptStep
  <2>2. CASE /\ UNCHANGED receipts
             /\ \/ Put(r) \/ BeginVerification(r) \/ FinishVerification(r) \/ Claim(r)
                \/ Rotate(r) \/ Quarantine(r) \/ Release(r) \/ BeginDisconnect(r)
                \/ Delete(r)
    BY <1>1, <2>2, PutStep, BeginVerificationStep, FinishVerificationStep, ClaimStep,
       RotateStep, QuarantineStep, ReleaseStep, BeginDisconnectStep, DeleteStep
  <2>3. CASE /\ UNCHANGED receipts
             /\ \/ Discover(r) \/ Register(r) \/ StartRegistered(r) \/ PutFlow(r)
                \/ CheckVault(r) \/ Exchange(r) \/ RejectGrant(r) \/ CleanUp(r)
                \/ Certify(r) \/ RuntimeMaterial(r) \/ EnforceToolPolicy(r)
                \/ Refresh(r) \/ EndCall(r) \/ Deadline(r) \/ RevokeGrant(r)
    BY <1>1, <2>3, QuietStep, QuietRecord DEF RecordInv
  <2> QED
    BY <1>2, <2>1, <2>2, <2>3 DEF Step
<1>3. ASSUME NEW r \in Requests,
             \/ StartOAuth(r) \/ StoreToken(r) \/ VerifyConnector(r)
             \/ Invoke(r) \/ Disconnect(r)
      PROVE  GrantsInv'
  BY <1>1, <1>3, ArrivalStep, QuietRecord DEF RecordInv
<1>4. ASSUME NEW r \in Requests, ConsumeFlow(r) PROVE GrantsInv'
  <2>1. UNCHANGED receipts
    BY <1>4 DEF ConsumeFlow
  <2> QED
    BY <1>1, <1>4, <2>1, QuietStep, QuietRecord DEF RecordInv
<1>5. ASSUME NEW r \in Requests, Crash(r) PROVE GrantsInv'
  <2>1. /\ UNCHANGED <<conn, live, receipts>> /\ Finish(r)
        /\ pc[r] \notin {"idle", "done"}
    BY <1>5 DEF Crash
  <2> QED
    BY <1>1, <2>1, NothingWritten
<1>6. ASSUME UNCHANGED <<conn, live, pc, job, receipts>> PROVE GrantsInv'
  BY <1>0, <1>6
  DEF GrantsInv, DisconnectDisables, ReadyIsCertified, GrantIsBrought, RequestInv,
      HoldsLease, JobIsWhole, RevokedIsDead, ReceiptInOrder, Brought
<1>7. CASE LeaseExpires
  <2>1. /\ conn \in Connection /\ conn # None /\ pc[conn.lease] \notin Executing
        /\ conn' = [conn EXCEPT !.alive = FALSE]
        /\ UNCHANGED <<live, pc, job, receipts>>
    BY <1>7 DEF LeaseExpires, GrantsInv, TypeOK
  <2>2. /\ conn' # None /\ conn'.lease = conn.lease /\ conn'.status = conn.status
        /\ conn'.error = conn.error /\ conn'.secret = conn.secret
        /\ conn'.certified = conn.certified
    <3> DEFINE d == [conn EXCEPT !.alive = FALSE]
    <3>1. /\ d \in Connection /\ d.lease = conn.lease /\ d.status = conn.status
          /\ d.error = conn.error /\ d.secret = conn.secret
          /\ d.certified = conn.certified
      BY <2>1 DEF Connection
    <3> QED
      BY <2>1, <3>1, ConnectionFields
  <2>3. DisconnectDisables' /\ ReadyIsCertified' /\ GrantIsBrought'
    BY <2>1, <2>2
    DEF GrantsInv, DisconnectDisables, ReadyIsCertified, GrantIsBrought, Brought
  <2>4. ASSUME NEW r \in Requests PROVE RequestInv(r)'
    <3>1. RequestInv(r)
      BY DEF GrantsInv
    <3> QED
      BY <2>1, <2>2, <3>1
      DEF RequestInv, HoldsLease, JobIsWhole, RevokedIsDead, ReceiptInOrder, Brought
  <2> QED
    BY <1>0, <2>3, <2>4 DEF GrantsInv
<1> QED
  BY <1>2, <1>3, <1>4, <1>5, <1>6, <1>7 DEF Next, FlowExpires, CancelFlow, vars

\* The inductive invariant, which no step of credential_vault.py or of the
\* requests that use it breaks.
THEOREM Invariance == Spec => []GrantsInv
BY GrantsInit, GrantsStep, PTL DEF Spec

\* Every variable keeps its type, whatever the requests and the provider do.
THEOREM TypeCorrect == Spec => []TypeOK
<1>1. GrantsInv => TypeOK
  BY DEF GrantsInv
<1> QED
  BY <1>1, Invariance, PTL

\* While an execution is at work the connection is its own (claim_execution,
\* begin_disconnect, rotate).
THEOREM ExecutionIsProtected == Spec => []LeaseProtectsExecution
<1>1. GrantsInv => LeaseProtectsExecution
  BY DEF GrantsInv, RequestInv, HoldsLease, LeaseProtectsExecution
<1> QED
  BY <1>1, Invariance, PTL

\* A ready connection was certified with the grant it holds
\* (finish_verification, rotate).
THEOREM ReadyOnEvidence == Spec => []ReadyIsCertified
<1>1. GrantsInv => ReadyIsCertified
  BY DEF GrantsInv
<1> QED
  BY <1>1, Invariance, PTL

\* A call has a receipt before it reaches the provider, and one that says
\* allowed is of a call that gave its lease back (execute).
THEOREM ReceiptsHold == Spec => []ReceiptsAreEvidence
<1>1. GrantsInv => ReceiptsAreEvidence
  BY DEF GrantsInv, RequestInv, ReceiptInOrder, ReceiptsAreEvidence, Executing
<1> QED
  BY <1>1, Invariance, PTL

----------------------------------------------------------------------------
(***************************************************************************)
(* The end of a grant.                                                     *)
(***************************************************************************)

\* A step keeps the grant of a record that is there, and its disconnect, or it
\* deletes the record.
LEMMA RecordStays ==
  ASSUME GrantsInv, [Next]_vars, conn # None
  PROVE  \/ /\ conn' # None /\ conn'.secret.grant = conn.secret.grant
            /\ conn.error = "disconnect_pending" =>
                 conn'.error = "disconnect_pending" /\ conn'.secret = conn.secret
         \/ conn' = None /\ \E r \in Requests : Delete(r)
<1> DEFINE Stays ==
      /\ conn' # None /\ conn'.secret.grant = conn.secret.grant
      /\ conn.error = "disconnect_pending" =>
           conn'.error = "disconnect_pending" /\ conn'.secret = conn.secret
<1>0. /\ conn \in Connection
      /\ conn.error = "disconnect_pending" => conn.status = "needs_attention"
  BY DEF GrantsInv, TypeOK, DisconnectDisables
<1>1. ASSUME UNCHANGED conn PROVE Stays
  BY <1>1
<1> DEFINE pending == "disconnect_pending"
<1>2. ASSUME NEW r \in Requests, BeginVerification(r) PROVE Stays
  <2> DEFINE d == [conn EXCEPT !.status = "verifying", !.error = "none",
                               !.certified = None, !.lease = r, !.alive = TRUE]
  <2>1. d \in Connection /\ d.secret = conn.secret /\ d # None
    <3>1. d \in Connection /\ d.secret = conn.secret
      BY <1>0, VerifyingType
    <3> QED
      BY <3>1, ConnectionFields
  <2> HIDE DEF d
  <2>2. UNCHANGED conn \/ (conn' = d /\ conn.error # pending)
    BY <1>2 DEF BeginVerification, d
  <2> QED
    BY <2>1, <2>2
<1>3. ASSUME NEW r \in Requests, FinishVerification(r) PROVE Stays
  <2>1. CASE UNCHANGED conn
    BY <2>1
  <2>2. CASE conn' = Certified(r) /\ conn.status = "verifying"
    <3>1. job[r] \in Job /\ job[r].secret # None
      BY <1>3 DEF FinishVerification, GrantsInv, TypeOK, RequestInv, JobIsWhole
    <3>2. Certified(r) \in Connection /\ Certified(r).secret = conn.secret
      BY <1>0, <3>1, CertifiedType
    <3> QED
      BY <1>0, <2>2, <3>2, ConnectionFields
  <2> QED
    BY <1>3, <2>1, <2>2 DEF FinishVerification
<1>4. ASSUME NEW x \in Requests \cup {None}, NEW alive \in BOOLEAN,
             conn' = [conn EXCEPT !.lease = x, !.alive = alive]
      PROVE  Stays
  <2> DEFINE d == [conn EXCEPT !.lease = x, !.alive = alive]
  <2>1. d \in Connection /\ d.secret = conn.secret /\ d.error = conn.error
    BY <1>0 DEF Connection
  <2> QED
    BY <1>4, <2>1, ConnectionFields
<1>5. ASSUME NEW r \in Requests, Claim(r) \/ Release(r) PROVE Stays
  BY <1>1, <1>4, <1>5 DEF Claim, Release
<1>6. ASSUME LeaseExpires PROVE Stays
  <2> DEFINE d == [conn EXCEPT !.alive = FALSE]
  <2>1. d \in Connection /\ d.secret = conn.secret /\ d.error = conn.error
    BY <1>0 DEF Connection
  <2> QED
    BY <1>6, <2>1, ConnectionFields DEF LeaseExpires
<1>7. ASSUME NEW r \in Requests, Rotate(r) PROVE Stays
  <2> DEFINE n == version[job[r].secret.grant]
             d == [conn EXCEPT !.secret = [@ EXCEPT !.version = n], !.rotations = @ + 1]
  <2>1. StillHeld(r) => n \in Nat /\ conn.error # pending
    BY <1>0, ConnectionFields DEF StillHeld, GrantsInv, TypeOK
  <2>2. n \in Nat => d \in Connection /\ d.secret.grant = conn.secret.grant
    BY <1>0, RotatedType
  <2>3. d \in Connection => d # None
    BY ConnectionFields
  <2> HIDE DEF n, d
  <2>4. UNCHANGED conn \/ (StillHeld(r) /\ conn' = d)
    BY <1>7 DEF Rotate, n, d
  <2> QED
    BY <2>1, <2>2, <2>3, <2>4
<1>8. ASSUME NEW r \in Requests, Quarantine(r) \/ BeginDisconnect(r) PROVE Stays
  <2>1. ASSUME NEW error \in {"reconnect_required", "disconnect_pending"}
        PROVE  /\ Demoted(conn, error).secret = conn.secret
               /\ Demoted(conn, error).error = error
               /\ Demoted(conn, error) # None
    BY <1>0, DemotedType, ConnectionFields
  <2>2. Quarantine(r) => UNCHANGED conn \/ conn.status = "ready"
    BY DEF Quarantine, StillHeld
  <2> QED
    BY <1>0, <1>8, <2>1, <2>2 DEF Quarantine, BeginDisconnect
<1>9. ASSUME NEW r \in Requests, Put(r) PROVE Stays
  BY <1>9 DEF Put
<1>10. ASSUME NEW r \in Requests, Delete(r)
       PROVE  Stays \/ (conn' = None /\ \E q \in Requests : Delete(q))
  BY <1>10 DEF Delete
<1>11. ASSUME NEW r \in Requests,
              \/ StartOAuth(r) \/ StoreToken(r) \/ VerifyConnector(r)
              \/ Invoke(r) \/ Disconnect(r) \/ ConsumeFlow(r) \/ FlowExpires(r)
              \/ Crash(r) \/ StartReceipt(r) \/ Record(r)
              \/ Discover(r) \/ Register(r) \/ StartRegistered(r) \/ PutFlow(r)
              \/ CheckVault(r) \/ Exchange(r) \/ RejectGrant(r) \/ CleanUp(r)
              \/ Certify(r) \/ RuntimeMaterial(r) \/ EnforceToolPolicy(r)
              \/ Refresh(r) \/ EndCall(r) \/ Deadline(r) \/ RevokeGrant(r)
       PROVE  UNCHANGED conn
  BY <1>11
  DEF StartOAuth, StoreToken, VerifyConnector, Invoke, Disconnect, Arrive,
      ConsumeFlow, FlowExpires, Crash, StartReceipt, Record, Discover, Register,
      StartRegistered, PutFlow, CheckVault, Exchange, RejectGrant, CleanUp,
      Certify, RuntimeMaterial, EnforceToolPolicy, Refresh, EndCall, Deadline,
      RevokeGrant
<1>12. CancelFlow \/ UNCHANGED vars => UNCHANGED conn
  BY DEF CancelFlow, vars
<1> HIDE DEF Stays
<1>13. ASSUME NEW r \in Requests, Step(r)
       PROVE  Stays \/ (conn' = None /\ \E q \in Requests : Delete(q))
  BY <1>1, <1>2, <1>3, <1>5, <1>7, <1>8, <1>9, <1>10, <1>11, <1>13 DEF Step
<1>14. Stays \/ (conn' = None /\ \E q \in Requests : Delete(q))
  BY <1>1, <1>6, <1>11, <1>12, <1>13 DEF Next
<1> QED
  BY <1>14 DEF Stays

\* A disconnect that has begun is never undone (begin_disconnect,
\* begin_verification).
THEOREM DisconnectIsFinal == Spec => DisconnectSticks
<1>1. GrantsInv /\ [Next]_vars =>
        (conn # None /\ conn.error = "disconnect_pending" =>
           \/ conn' = None
           \/ /\ conn'.error = "disconnect_pending"
              /\ conn'.secret = conn.secret)
  BY RecordStays
<1> QED
  BY <1>1, Invariance, PTL DEF Spec, DisconnectSticks

\* A grant that is live at the provider is sealed, told of, or in hand.
InHand(g) == g \in Requests /\ pc[g] \in {"putting", "rejecting", "cleaning"}

AccountedFor(g) ==
  (conn # None /\ conn.secret.grant = g) \/ g \in told \/ InHand(g)

\* The steps that neither bring a grant, nor give one up, nor delete the record.
LEMMA AccountKept ==
  ASSUME GrantsInv, [Next]_vars,
         ~\E r \in Requests : \/ Exchange(r) \/ RejectGrant(r) \/ CleanUp(r)
                              \/ Put(r) \/ Delete(r) \/ Crash(r)
  PROVE  /\ live' \subseteq live /\ told' = told
         /\ \A q \in Requests : InHand(q) => InHand(q)'
<1>0. pc \in [Requests -> Locations]
  BY DEF GrantsInv, TypeOK
<1> USE DEF InHand, Move, Goto, Finish, Conclude
<1>1. ASSUME NEW r \in Requests,
             \/ StartOAuth(r) \/ StoreToken(r) \/ VerifyConnector(r)
             \/ Invoke(r) \/ Disconnect(r) \/ ConsumeFlow(r) \/ FlowExpires(r)
      PROVE  /\ live' = live /\ told' = told
             /\ \A q \in Requests : InHand(q) => InHand(q)'
  BY <1>0, <1>1
  DEF StartOAuth, StoreToken, VerifyConnector, Invoke, Disconnect, Arrive,
      ConsumeFlow, FlowExpires
<1>2. ASSUME NEW r \in Requests,
             \/ StartReceipt(r) \/ Record(r) \/ Discover(r) \/ Register(r)
             \/ StartRegistered(r) \/ PutFlow(r) \/ CheckVault(r) \/ Certify(r)
             \/ RuntimeMaterial(r) \/ EnforceToolPolicy(r) \/ Refresh(r)
             \/ EndCall(r) \/ Deadline(r)
      PROVE  /\ live' = live /\ told' = told
             /\ \A q \in Requests : InHand(q) => InHand(q)'
  <2>1. /\ live' = live /\ told' = told /\ pc' = [pc EXCEPT ![r] = pc'[r]]
        /\ pc[r] \notin {"putting", "rejecting", "cleaning"}
    BY <1>0, <1>2
    DEF StartReceipt, Record, Discover, Register, StartRegistered, PutFlow,
        CheckVault, Certify, RuntimeMaterial, EnforceToolPolicy, Refresh,
        EndCall, Deadline, Executing
  <2> QED
    BY <1>0, <2>1
<1>3. ASSUME NEW r \in Requests,
             \/ BeginVerification(r) \/ FinishVerification(r) \/ Claim(r) \/ Rotate(r)
             \/ Quarantine(r) \/ Release(r) \/ BeginDisconnect(r) \/ RevokeGrant(r)
      PROVE  /\ live' \subseteq live /\ told' = told
             /\ \A q \in Requests : InHand(q) => InHand(q)'
  <2>1. /\ live' \subseteq live /\ told' = told /\ pc' = [pc EXCEPT ![r] = pc'[r]]
        /\ pc[r] \notin {"putting", "rejecting", "cleaning"}
    BY <1>0, <1>3
    DEF BeginVerification, FinishVerification, Claim, Rotate, Quarantine, Release,
        BeginDisconnect, RevokeGrant, RevokeToken
  <2> QED
    BY <1>0, <2>1
<1>4. CASE CancelFlow \/ LeaseExpires \/ UNCHANGED vars
  BY <1>4 DEF CancelFlow, LeaseExpires, vars
<1> QED
  BY <1>1, <1>2, <1>3, <1>4 DEF Next, Step

LEMMA AccountStep ==
  ASSUME Ambiguous => Revocable, GrantsInv, GrantsAccountedFor, [Next]_vars
  PROVE  GrantsAccountedFor'
<1> SUFFICES ASSUME crashes' = 0, NEW g \in live' PROVE AccountedFor(g)'
  BY DEF GrantsAccountedFor, AccountedFor, InHand
<1>0. /\ pc \in [Requests -> Locations] /\ job \in [Requests -> Job]
      /\ conn \in Connection \cup {None} /\ crashes \in Nat
      /\ \A r \in Requests : RequestInv(r)
  BY DEF GrantsInv, TypeOK
<1>1. /\ crashes = 0 /\ ~\E r \in Requests : Crash(r)
  <2>1. crashes' \in {crashes, crashes + 1}
    <3>1. ASSUME NEW r \in Requests,
                 \/ StartOAuth(r) \/ StoreToken(r) \/ VerifyConnector(r) \/ Invoke(r)
                 \/ Disconnect(r) \/ ConsumeFlow(r) \/ FlowExpires(r) \/ Crash(r)
          PROVE  crashes' \in {crashes, crashes + 1}
      BY <3>1 DEF StartOAuth, StoreToken, VerifyConnector, Invoke, Disconnect,
        Arrive, ConsumeFlow, FlowExpires, Crash
    <3>2. ASSUME NEW r \in Requests,
                 \/ StartReceipt(r) \/ Record(r) \/ Discover(r) \/ Register(r)
                 \/ StartRegistered(r) \/ PutFlow(r) \/ CheckVault(r)
                 \/ Exchange(r) \/ RejectGrant(r) \/ Put(r) \/ CleanUp(r)
          PROVE  crashes' = crashes
      BY <3>2 DEF StartReceipt, Record, Discover, Register, StartRegistered, PutFlow,
        CheckVault, Exchange, RejectGrant, Put, CleanUp
    <3>3. ASSUME NEW r \in Requests,
                 \/ BeginVerification(r) \/ Certify(r) \/ FinishVerification(r)
                 \/ Claim(r) \/ RuntimeMaterial(r) \/ EnforceToolPolicy(r)
                 \/ Refresh(r) \/ Rotate(r) \/ EndCall(r) \/ Deadline(r)
          PROVE  crashes' = crashes
      BY <3>3 DEF BeginVerification, Certify, FinishVerification, Claim,
        RuntimeMaterial, EnforceToolPolicy, Refresh, Rotate, EndCall, Deadline
    <3>4. ASSUME NEW r \in Requests,
                 \/ Quarantine(r) \/ Release(r) \/ BeginDisconnect(r)
                 \/ RevokeGrant(r) \/ Delete(r)
          PROVE  crashes' = crashes
      BY <3>4 DEF Quarantine, Release, BeginDisconnect, RevokeGrant, Delete
    <3>5. CASE CancelFlow \/ LeaseExpires \/ UNCHANGED vars
      BY <3>5 DEF CancelFlow, LeaseExpires, vars
    <3> QED
      BY <3>1, <3>2, <3>3, <3>4, <3>5 DEF Next, Step
  <2>2. \A r \in Requests : Crash(r) => crashes' = crashes + 1
    BY DEF Crash
  <2> QED
    BY <1>0, <2>1, <2>2
<1>2. g \in live => AccountedFor(g)
  BY <1>1 DEF GrantsAccountedFor, AccountedFor, InHand
<1>3. CASE ~\E r \in Requests : \/ Exchange(r) \/ RejectGrant(r) \/ CleanUp(r)
                                \/ Put(r) \/ Delete(r)
  <2>1. conn # None => conn' # None /\ conn'.secret.grant = conn.secret.grant
    BY <1>3, RecordStays
  <2> QED
    BY <1>1, <1>2, <1>3, <2>1, AccountKept DEF AccountedFor, InHand
<1>4. ASSUME NEW r \in Requests, Exchange(r) PROVE AccountedFor(g)'
  <2>1. /\ conn' = conn /\ told' = told /\ pc' = [pc EXCEPT ![r] = pc'[r]]
        /\ pc[r] = "exchanging" /\ r \notin live
        /\ live' = live \/ (live' = live \cup {r} /\ pc'[r] \in {"putting", "rejecting"})
    BY <1>0, <1>4 DEF Exchange, Goto, RequestInv, JobIsWhole, Before
  <2> QED
    BY <1>0, <1>2, <2>1 DEF AccountedFor, InHand
<1>5. ASSUME NEW r \in Requests, RejectGrant(r) \/ CleanUp(r) PROVE AccountedFor(g)'
  <2>1. /\ conn' = conn /\ pc' = [pc EXCEPT ![r] = pc'[r]]
        /\ \/ live' = live \ {r} /\ told \subseteq told'
           \/ live' = live /\ told' = told \cup {r}
    BY <1>0, <1>5 DEF RejectGrant, CleanUp, RevokeOrTell, RevokeToken, Finish, Goto
  <2> QED
    BY <1>0, <1>2, <2>1 DEF AccountedFor, InHand
<1>6. ASSUME NEW r \in Requests, Put(r) PROVE AccountedFor(g)'
  <2>1. /\ pc[r] = "putting" /\ job[r].secret \in Secret /\ job[r].secret.grant = r
        /\ job[r].secret.kind = "token" => r \notin live
        /\ live' = live /\ told' = told /\ pc' = [pc EXCEPT ![r] = pc'[r]]
    BY <1>0, <1>6, JobFields DEF Put, RequestInv, JobIsWhole, Brought, Finish, Goto
  <2>2. CASE conn = None /\ conn' = Stored(job[r].secret)
    <3>1. conn' # None /\ conn'.secret.grant = r
      BY <2>1, <2>2, StoredType, ConnectionFields
    <3> QED
      BY <1>0, <1>2, <2>1, <2>2, <3>1 DEF AccountedFor, InHand
  <2>3. CASE conn' = conn /\ (job[r].secret.kind = "token" \/ pc'[r] = "cleaning")
    BY <1>0, <1>2, <2>1, <2>3 DEF AccountedFor, InHand
  <2> QED
    BY <1>0, <1>6, <2>1, <2>2, <2>3 DEF Put, Goto
<1>7. ASSUME NEW r \in Requests, Delete(r) PROVE AccountedFor(g)'
  <2>1. /\ pc[r] = "deleting" /\ live' = live /\ told \subseteq told'
        /\ pc' = [pc EXCEPT ![r] = "done"]
        /\ job[r] \in Job /\ job[r].secret \in Secret
        /\ job[r].gen[1] = job[r].secret.grant
        /\ job[r].secret.kind = "token" => job[r].secret.grant \notin live
        /\ RevokedIsDead(r)
    BY <1>0, <1>7, JobFields
    DEF Delete, RequestInv, JobIsWhole, Brought, Finish, Goto
  <2>2. CASE conn' = conn
    BY <1>0, <1>2, <2>1, <2>2 DEF AccountedFor, InHand
  <2>3. CASE /\ conn # None /\ Generation(conn) = job[r].gen /\ conn' = None
             /\ \/ told' = IF job[r].result = "ready" THEN told
                           ELSE told \cup {job[r].secret.grant}
                \/ Ambiguous
    <3>1. conn.secret.grant = job[r].secret.grant
      BY <1>0, <2>1, <2>3, ConnectionFields
    <3>2. job[r].secret.kind \in {"oauth", "token"}
      BY <2>1 DEF Secret
    <3>3. job[r].secret.grant \in live => job[r].secret.grant \in told'
      BY <2>1, <2>3, <3>2 DEF RevokedIsDead
    <3> QED
      BY <1>0, <1>2, <2>1, <2>3, <3>1, <3>3 DEF AccountedFor, InHand
  <2> QED
    BY <1>7, <2>2, <2>3 DEF Delete
<1> QED
  BY <1>3, <1>4, <1>5, <1>6, <1>7

\* No grant is forgotten while no process dies: where the provider revokes, or
\* where a transaction that raises has not committed.  Without either, a delete
\* that commits unseen loses the grant (the callback and disconnect of
\* control_plane.py).
THEOREM GrantsKept == (Ambiguous => Revocable) => (Spec => []GrantsAccountedFor)
<1> SUFFICES ASSUME Ambiguous => Revocable
             PROVE  Spec => []GrantsAccountedFor
  OBVIOUS
<1>1. Init => GrantsAccountedFor
  <2>1. Ready(First) \in Connection
    BY GrantAssumption DEF Ready, Connection, Secret, Grants
  <2>2. Ready(First) # None /\ Ready(First).secret.grant = First
    BY <2>1, ConnectionFields DEF Ready
  <2> QED
    BY <2>2 DEF Init, GrantsAccountedFor
<1>2. GrantsInv /\ GrantsAccountedFor /\ [Next]_vars => GrantsAccountedFor'
  BY AccountStep
<1> QED
  BY <1>1, <1>2, Invariance, PTL DEF Spec
=============================================================================
