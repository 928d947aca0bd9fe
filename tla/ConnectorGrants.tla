-------------------------- MODULE ConnectorGrants --------------------------
(***************************************************************************)
(* One tenant's grant for one hosted connector: the sealed record of       *)
(* src/cloud/credential_vault.py, the OAuth flow that leads to it          *)
(* (connector_oauth.py), and the HTTP requests of control_plane.py and     *)
(* hosted_connector_execution.py that work on it concurrently.             *)
(*                                                                         *)
(* Each vault operation is one Firestore transaction, so one action; a     *)
(* request is suspended between two of them, while it talks to a provider. *)
(* A transaction that raises may have committed (Ambiguous), and a request *)
(* may die with its process between any two steps (Crash).                 *)
(*                                                                         *)
(* A request works at most once, so its name also serves as the id of the  *)
(* lease it takes and of the grant it brings.  The generation of a record  *)
(* is its grant with the number of sealed rotations: put and rotate are    *)
(* the operations that draw a new one.                                     *)
(***************************************************************************)
EXTENDS Integers, FiniteSets

CONSTANTS
  Requests,    \* the HTTP requests
  First,       \* the grant of a connection that is there from the start
  None,
  Revocable,   \* whether the provider publishes a revocation endpoint
  Ambiguous,   \* whether a transaction that raises may have committed
  MaxCrashes   \* bound: requests that die

Grants == Requests \cup {First}

Secret == [grant : Grants, version : Nat, kind : {"oauth", "token"}]

\* error stands for error_code; certified is the grant the manifest was read
\* from, and alive says that execution_lease_expires_at is in the future.
Connection ==
  [secret : Secret, rotations : Nat,
   status : {"stored_unverified", "verifying", "ready", "needs_attention"},
   error : {"none", "failed", "reconnect_required", "disconnect_pending"},
   certified : Grants \cup {None},
   lease : Requests \cup {None}, alive : BOOLEAN]

ASSUME GrantAssumption ==
  /\ First \notin Requests
  /\ None \notin Grants \cup Secret \cup Connection \cup (Grants \X Nat)
  /\ Revocable \in BOOLEAN
  /\ Ambiguous \in BOOLEAN
  /\ MaxCrashes \in Nat

VARIABLES
  conn,     \* the connector_credentials document, or None
  live,     \* the grants whose tokens reached Rally and that are not revoked
  version,  \* the refresh token of each grant the provider honours
  flows,    \* unconsumed OAuth flow documents
  active,   \* the reservation of the tenant and connector: a flow, or None
  stale,    \* the flows whose expires_at has passed
  pc,       \* where each request is
  job,      \* what each request holds in memory
  told,     \* grants whose owner is told, in the answer, to revoke them himself
  receipts, \* what the receipt of each request's tool call says
  crashes

vars ==
  <<conn, live, version, flows, active, stale, pc, job, told, receipts, crashes>>

Generation(c) == <<c.secret.grant, c.rotations>>

\* The secret and generation that were read, what came of the provider's
\* answer, and where a call goes on after its only refresh.
Job == [secret : Secret \cup {None}, gen : (Grants \X Nat) \cup {None},
        result : {"none", "ready", "failed"},
        resume : {None, "permitting", "calling"}]

Locations ==
  {"idle", "done", "starting", "registering", "reserving", "authorizing",
   "checking", "exchanging", "rejecting", "putting", "cleaning",
   "beginning", "verifying", "finishing", "receipting", "claiming", "holding",
   "rotating", "permitting", "calling", "quarantining", "releasing",
   "recording", "disconnecting", "revoking", "deleting"}

\* Where an execution has its lease and talks to the provider or rotates.
Executing == {"holding", "rotating", "permitting", "calling"}

TypeOK ==
  /\ conn \in Connection \cup {None}
  /\ live \subseteq Grants
  /\ version \in [Grants -> Nat]
  /\ flows \subseteq Requests
  /\ active \in Requests \cup {None}
  /\ stale \subseteq Requests
  /\ pc \in [Requests -> Locations]
  /\ job \in [Requests -> Job]
  /\ told \subseteq Grants
  /\ receipts \in [Requests -> {"none", "started", "allowed", "failed"}]
  /\ crashes \in 0..MaxCrashes

NoJob == [secret |-> None, gen |-> None, result |-> "none", resume |-> None]

Ready(g) ==
  [secret |-> [grant |-> g, version |-> 0, kind |-> "oauth"], rotations |-> 0,
   status |-> "ready", error |-> "none", certified |-> g, lease |-> None,
   alive |-> FALSE]

Init ==
  /\ \/ conn = None /\ live = {}
     \/ conn = Ready(First) /\ live = {First}
  /\ version = [g \in Grants |-> 0]
  /\ flows = {} /\ active = None /\ stale = {}
  /\ pc = [r \in Requests |-> "idle"]
  /\ job = [r \in Requests |-> NoJob]
  /\ told = {} /\ crashes = 0
  /\ receipts = [r \in Requests |-> "none"]

----------------------------------------------------------------------------
Goto(r, place) == pc' = [pc EXCEPT ![r] = place]

Move(r, from, to) == pc[r] = from /\ Goto(r, to)

\* The request answers: what it held in memory is gone.
Finish(r) == Goto(r, "done") /\ job' = [job EXCEPT ![r] = NoJob]

\* An execution is over but for the rest of its receipt.
Conclude(r, result) ==
  /\ Goto(r, "recording")
  /\ job' = [job EXCEPT ![r] = [NoJob EXCEPT !.result = result]]

ImmortalLease(c) == c.lease # None  \* mutant: the expiry is not looked at

\* _lease_is_active
LeaseIsActive(c) == c.lease # None /\ c.alive

Mislabelled(c, error) ==  \* mutant: the error code written as the status
  [c EXCEPT !.status = error, !.error = "none", !.certified = None,
            !.lease = None, !.alive = FALSE]

\* The record without its certification and its lease.
Demoted(c, error) ==
  [c EXCEPT !.status = "needs_attention", !.error = error, !.certified = None,
            !.lease = None, !.alive = FALSE]

\* What rotate and quarantine compare before they write.
StillHeld(r) ==
  /\ conn # None
  /\ conn.status = "ready"
  /\ Generation(conn) = job[r].gen
  /\ conn.lease = r
  /\ conn.secret = job[r].secret

----------------------------------------------------------------------------
(***************************************************************************)
(* A request arrives; a handler that reads the record first goes no further*)
(* when it finds a connection, or none to certify.                         *)
(***************************************************************************)
Arrive(r, place) ==
  /\ Move(r, "idle", place)
  /\ UNCHANGED <<conn, live, version, flows, active, stale, told, receipts>>
  /\ UNCHANGED crashes

\* start_connector_oauth.
StartOAuth(r) == conn = None /\ Arrive(r, "starting") /\ UNCHANGED job

\* store_connection, up to its put.
StoreToken(r) ==
  /\ conn = None
  /\ Arrive(r, "putting")
  /\ job' = [job EXCEPT ![r].secret = [grant |-> r, version |-> 0,
                                       kind |-> "token"]]

\* verify_connector, up to begin_verification.
VerifyConnector(r) ==
  /\ conn # None /\ conn.status # "ready" /\ conn.error # "disconnect_pending"
  /\ conn.secret.kind = "oauth"
  /\ Arrive(r, "beginning")
  /\ job' = [job EXCEPT ![r].gen = Generation(conn)]

\* invoke_connector_tool.
Invoke(r) == Arrive(r, "receipting") /\ UNCHANGED job

\* disconnect.
Disconnect(r) == Arrive(r, "disconnecting") /\ UNCHANGED job

----------------------------------------------------------------------------
(***************************************************************************)
(* The OAuth flow: start, cancel, callback.                                *)
(***************************************************************************)

\* start: discovery of the provider's authorization server.
Discover(r) ==
  /\ \E place \in {"registering", "done"} : Move(r, "starting", place)
  /\ UNCHANGED <<conn, live, version, flows, active, stale, job, told, crashes>>

\* start: a client is registered for this flow.
Register(r) ==
  /\ \E place \in {"reserving", "done"} : Move(r, "registering", place)
  /\ UNCHANGED <<conn, live, version, flows, active, stale, job, told, crashes>>

\* _start_registered: the provider's own client needs neither.
StartRegistered(r) ==
  /\ \E place \in {"reserving", "done"} : Move(r, "starting", place)
  /\ UNCHANGED <<conn, live, version, flows, active, stale, job, told, crashes>>

\* OAuthFlowStore.put.
PutFlow(r) ==
  /\ pc[r] = "reserving"
  /\ \/ /\ active # None /\ active \notin stale  \* oauth_in_progress
        /\ Goto(r, "done")
        /\ UNCHANGED <<flows, active>>
     \/ /\ active = None \/ active \in stale
        /\ flows' = flows \cup {r}
        /\ active' = r
        /\ Goto(r, "authorizing")
  /\ UNCHANGED <<conn, live, version, stale, job, told, crashes>>

FlowExpires(r) ==
  /\ r \in flows \ stale
  /\ stale' = stale \cup {r}
  /\ UNCHANGED <<conn, live, version, flows, active, pc, job, told, receipts, crashes>>

\* cancel_pending: the administrator gives up on the reserved flow.
CancelFlow ==
  /\ active # None
  /\ flows' = flows \ {active}
  /\ active' = None
  /\ UNCHANGED <<conn, live, version, stale, pc, job, told, receipts, crashes>>

\* The browser comes back with the state of flow r: consume takes the flow
\* out, and the reservation with it if it is still its own.
ConsumeFlow(r) ==
  /\ pc[r] = "authorizing"
  /\ flows' = flows \ {r}
  /\ active' = IF r \in flows /\ active = r THEN None ELSE active
  /\ Goto(r, IF r \in flows \ stale THEN "checking" ELSE "done")
  /\ UNCHANGED <<conn, live, version, stale, job, told, receipts, crashes>>

\* A connection that is already there has to be disconnected first.
CheckVault(r) ==
  /\ Move(r, "checking", IF conn # None THEN "done" ELSE "exchanging")
  /\ UNCHANGED <<conn, live, version, flows, active, stale, job, told, crashes>>

\* exchange: no token, a token that Rally accepts, or one it has to reject.
Exchange(r) ==
  /\ pc[r] = "exchanging"
  /\ \/ Goto(r, "done") /\ UNCHANGED <<live, job>>
     \/ /\ live' = live \cup {r}
        /\ job' = [job EXCEPT ![r].secret = [grant |-> r, version |-> 0,
                                             kind |-> "oauth"]]
        /\ \E place \in {"putting", "rejecting"} : Goto(r, place)
  /\ UNCHANGED <<conn, version, flows, active, stale, told, crashes>>

Stored(s) ==
  [secret |-> s, rotations |-> 0, status |-> "stored_unverified",
   error |-> "none", certified |-> None, lease |-> None, alive |-> FALSE]

\* vault.put creates the document.  An OAuth callback that cannot tell that
\* its grant was stored revokes it.
Put(r) ==
  /\ pc[r] = "putting"
  /\ LET token == job[r].secret.kind = "token"
         Stay(place) ==
           Goto(r, place) /\ job' = [job EXCEPT ![r].gen = <<r, 0>>]
         Fail == IF token THEN Finish(r) ELSE Stay("cleaning")
     IN  \/ /\ conn = None
            /\ conn' = Stored(job[r].secret)
            /\ \/ IF token THEN Stay("beginning") ELSE Finish(r)
               \/ Ambiguous /\ Fail
         \/ Fail /\ UNCHANGED conn
  /\ UNCHANGED <<live, version, flows, active, stale, told, crashes>>

\* _revoke_token: the provider confirms that it forgot the grant, or Rally does
\* not learn that it did.
RevokeToken(g, revoked) ==
  \/ Revocable /\ live' = live \ {g}
  \/ ~revoked /\ UNCHANGED live

SilentRevocation(r) ==  \* mutant: a failed revocation is not reported
  /\ \E revoked \in BOOLEAN : RevokeToken(r, revoked)
  /\ UNCHANGED told

\* Either the new grant is revoked or its owner is asked to.
RevokeOrTell(r) ==
  \E revoked \in BOOLEAN :
    /\ RevokeToken(r, revoked)
    /\ told' = IF revoked THEN told ELSE told \cup {r}

\* _reject_unaccepted_grant, inside exchange.
RejectGrant(r) ==
  /\ pc[r] = "rejecting"
  /\ RevokeOrTell(r)
  /\ Finish(r)
  /\ UNCHANGED <<conn, version, flows, active, stale, crashes>>

\* _revoke_callback_completion.
CleanUp(r) ==
  /\ pc[r] = "cleaning"
  /\ RevokeOrTell(r)
  /\ Finish(r)
  /\ UNCHANGED <<conn, version, flows, active, stale, crashes>>

----------------------------------------------------------------------------
(***************************************************************************)
(* Verification.                                                           *)
(***************************************************************************)
BeginOverDisconnect(r) ==  \* mutant: disconnect_pending is not looked at
  /\ pc[r] = "beginning"
  /\ \/ /\ conn # None /\ Generation(conn) = job[r].gen
        /\ conn.status # "ready" /\ ~LeaseIsActive(conn)
        /\ conn' = [conn EXCEPT !.status = "verifying", !.error = "none",
                                !.certified = None, !.lease = r, !.alive = TRUE]
        /\ \/ /\ Goto(r, "verifying")
              /\ job' = [job EXCEPT ![r].secret = conn.secret]
           \/ Ambiguous /\ Finish(r)
     \/ Finish(r) /\ UNCHANGED conn
  /\ UNCHANGED <<live, version, flows, active, stale, told, crashes>>

\* begin_verification.  The secret is the one of the generation that was read.
BeginVerification(r) ==
  /\ pc[r] = "beginning"
  /\ \/ /\ conn # None /\ Generation(conn) = job[r].gen
        /\ conn.status # "ready" /\ conn.error # "disconnect_pending"
        /\ ~LeaseIsActive(conn)
        /\ conn' = [conn EXCEPT !.status = "verifying", !.error = "none",
                                !.certified = None, !.lease = r, !.alive = TRUE]
        /\ \/ /\ Goto(r, "verifying")
              /\ job' = [job EXCEPT ![r].secret = conn.secret]
           \/ Ambiguous /\ Finish(r)
     \/ Finish(r) /\ UNCHANGED conn
  /\ UNCHANGED <<live, version, flows, active, stale, told, crashes>>

\* verifier.verify asks the provider.
Certify(r) ==
  /\ Move(r, "verifying", "finishing")
  /\ \E result \in {"ready", "failed"} :
       job' = [job EXCEPT ![r].result = result]
  /\ UNCHANGED <<conn, live, version, flows, active, stale, told, crashes>>

Certified(r) ==
  [conn EXCEPT !.status = IF job[r].result = "ready" THEN "ready"
                                                     ELSE "needs_attention",
               !.error = IF job[r].result = "ready" THEN "none" ELSE "failed",
               !.certified = IF job[r].result = "ready"
                               THEN job[r].secret.grant ELSE None,
               !.lease = None, !.alive = FALSE]

UnfencedFinish(r) ==  \* mutant: generation and lease are not compared
  /\ pc[r] = "finishing"
  /\ conn' = IF conn # None /\ conn.status = "verifying" THEN Certified(r) ELSE conn
  /\ Finish(r)
  /\ UNCHANGED <<live, version, flows, active, stale, told, crashes>>

\* finish_verification.
FinishVerification(r) ==
  /\ pc[r] = "finishing"
  /\ conn' = IF /\ conn # None /\ conn.status = "verifying"
                /\ Generation(conn) = job[r].gen /\ conn.lease = r
               THEN Certified(r) ELSE conn
  /\ Finish(r)
  /\ UNCHANGED <<live, version, flows, active, stale, told, crashes>>

----------------------------------------------------------------------------
(***************************************************************************)
(* Execution of one tool call under the lease.                             *)
(***************************************************************************)

\* execute records what it is about to do before it does anything.
StartReceipt(r) ==
  /\ pc[r] = "receipting"
  /\ \/ /\ receipts' = [receipts EXCEPT ![r] = "started"]
        /\ Goto(r, "claiming") /\ UNCHANGED job
     \/ /\ \/ UNCHANGED receipts
           \/ Ambiguous /\ receipts' = [receipts EXCEPT ![r] = "started"]
        /\ Conclude(r, "failed")
  /\ UNCHANGED <<conn, live, version, flows, active, stale, told, crashes>>

\* claim_execution; when the secret cannot be opened, or the deadline ends the
\* request meanwhile, the lease stays behind.
Claim(r) ==
  /\ pc[r] = "claiming"
  /\ \/ /\ conn # None /\ conn.status = "ready" /\ ~LeaseIsActive(conn)
        /\ conn' = [conn EXCEPT !.lease = r, !.alive = TRUE]
        /\ \/ /\ Goto(r, "holding")
              /\ job' = [job EXCEPT ![r].secret = conn.secret,
                                    ![r].gen = Generation(conn)]
           \/ Ambiguous /\ Conclude(r, "failed")
     \/ Conclude(r, "failed") /\ UNCHANGED conn
  /\ UNCHANGED <<live, version, flows, active, stale, told, crashes>>

\* _runtime_material: current, invalid (credential_invalid asks for a new
\* connection) or refused.  An expired one is refreshed.
RuntimeMaterial(r) ==
  /\ \E place \in {"permitting", "quarantining", "releasing"} :
       Move(r, "holding", place)
  /\ UNCHANGED <<conn, live, version, flows, active, stale, job, told, crashes>>

\* _enforce_tool_policy, the certified schema and _route.
EnforceToolPolicy(r) ==
  /\ \E place \in {"calling", "releasing"} : Move(r, "permitting", place)
  /\ UNCHANGED <<conn, live, version, flows, active, stale, job, told, crashes>>

\* refresh: the provider honours its latest refresh token only, and may hand
\* out another one; an answer that does not arrive leaves the old one sealed.
Refresh(r) ==
  /\ pc[r] \in {"holding", "calling"}
  /\ job[r].secret.kind = "oauth" /\ job[r].resume = None
  /\ LET g == job[r].secret.grant
     IN  \/ /\ g \in live /\ version[g] = job[r].secret.version
            /\ \E next \in {version[g], version[g] + 1} :
                 version' = [version EXCEPT ![g] = next]
            /\ job' = [job EXCEPT ![r].resume =
                         IF pc[r] = "holding" THEN "permitting" ELSE "calling"]
            /\ \E place \in {"rotating", "quarantining"} : Goto(r, place)
         \/ Goto(r, "quarantining") /\ UNCHANGED <<version, job>>
  /\ UNCHANGED <<conn, live, flows, active, stale, told, crashes>>

\* _refresh_runtime_material: the call goes on with what it sealed.
Refreshed(r) ==
  [job EXCEPT ![r].secret = conn'.secret, ![r].gen = Generation(conn')]

\* rotate: compare and swap of the sealed secret; a failure ends the call, and
\* so does new material that cannot be used (the attempt to quarantine it then
\* compares with the old one).  A transaction that is retried after a commit it
\* did not see loses the swap to itself, and _refresh_runtime_material takes
\* what it finds: the same outcome.
Rotate(r) ==
  /\ pc[r] = "rotating"
  /\ \/ /\ StillHeld(r)
        /\ conn' = [conn EXCEPT
             !.secret = [@ EXCEPT !.version = version[job[r].secret.grant]],
             !.rotations = @ + 1]
        /\ \/ Goto(r, job[r].resume) /\ job' = Refreshed(r)
           \/ Goto(r, "quarantining") /\ UNCHANGED job
           \/ Ambiguous /\ Goto(r, "releasing") /\ UNCHANGED job
     \/ Goto(r, "releasing") /\ UNCHANGED <<conn, job>>
  /\ UNCHANGED <<live, version, flows, active, stale, told, crashes>>

\* The tool call ends: with a result, with an error, or with a refused token
\* that was refreshed already or cannot be.
EndCall(r) ==
  /\ pc[r] = "calling"
  /\ \/ /\ job' = [job EXCEPT ![r].result = "ready"]
        /\ Goto(r, "releasing")
     \/ /\ \E place \in {"releasing", "quarantining"} : Goto(r, place)
        /\ UNCHANGED job
  /\ UNCHANGED <<conn, live, version, flows, active, stale, told, crashes>>

\* The execution deadline cancels whatever the request awaits.
Deadline(r) ==
  /\ pc[r] \in Executing
  /\ Goto(r, "releasing")
  /\ UNCHANGED <<conn, live, version, flows, active, stale, job, told, crashes>>

\* quarantine, and release_execution when it could not be done.
Quarantine(r) ==
  /\ pc[r] = "quarantining"
  /\ \/ /\ StillHeld(r)
        /\ conn' = Demoted(conn, "reconnect_required")
        /\ \/ Conclude(r, "failed")
           \/ Ambiguous /\ Goto(r, "releasing") /\ UNCHANGED job
     \/ Goto(r, "releasing") /\ UNCHANGED <<conn, job>>
  /\ UNCHANGED <<live, version, flows, active, stale, told, crashes>>

UnconfirmedRelease(r) ==  \* mutant: the answer of release_execution is ignored
  /\ pc[r] = "releasing"
  /\ conn' \in {conn} \cup
       IF conn # None /\ conn.lease = r
       THEN {[conn EXCEPT !.lease = None, !.alive = FALSE]} ELSE {}
  /\ Conclude(r, job[r].result)
  /\ UNCHANGED <<live, version, flows, active, stale, told, crashes>>

\* release_execution; it may time out and leave the lease to its expiry.  The
\* call has failed if its lease is not known to be released.
Release(r) ==
  /\ pc[r] = "releasing"
  /\ \/ /\ conn # None /\ conn.lease = r
        /\ conn' = [conn EXCEPT !.lease = None, !.alive = FALSE]
        /\ \/ Conclude(r, job[r].result)
           \/ Ambiguous /\ Conclude(r, "failed")
     \/ Conclude(r, "failed") /\ UNCHANGED conn
  /\ UNCHANGED <<live, version, flows, active, stale, told, crashes>>

\* The receipt is completed; if it cannot be, the result is withheld.
Record(r) ==
  /\ pc[r] = "recording"
  /\ \/ receipts' = [receipts EXCEPT
             ![r] = IF job[r].result = "ready" THEN "allowed" ELSE "failed"]
     \/ UNCHANGED receipts
  /\ Finish(r)
  /\ UNCHANGED <<conn, live, version, flows, active, stale, told, crashes>>

----------------------------------------------------------------------------
(***************************************************************************)
(* Disconnect.                                                             *)
(***************************************************************************)
DisconnectAnyway(r) ==  \* mutant: a running execution is not waited for
  /\ pc[r] = "disconnecting"
  /\ \/ /\ conn # None
        /\ conn' = Demoted(conn, "disconnect_pending")
        /\ \/ /\ Goto(r, "revoking")
              /\ job' = [job EXCEPT ![r].secret = conn.secret,
                                    ![r].gen = Generation(conn)]
           \/ Ambiguous /\ Finish(r)
     \/ Finish(r) /\ UNCHANGED conn
  /\ UNCHANGED <<live, version, flows, active, stale, told, crashes>>

\* begin_disconnect: a verification is overridden, an execution is not.
BeginDisconnect(r) ==
  /\ pc[r] = "disconnecting"
  /\ \/ /\ conn # None
        /\ conn.status = "verifying" \/ ~LeaseIsActive(conn)
        /\ conn' = Demoted(conn, "disconnect_pending")
        /\ \/ /\ Goto(r, "revoking")
              /\ job' = [job EXCEPT ![r].secret = conn.secret,
                                    ![r].gen = Generation(conn)]
           \/ Ambiguous /\ Finish(r)
     \/ Finish(r) /\ UNCHANGED conn
  /\ UNCHANGED <<live, version, flows, active, stale, told, crashes>>

\* An OAuth grant is revoked at the provider; a failure leaves it sealed.
RevokeGrant(r) ==
  /\ pc[r] = "revoking"
  /\ IF job[r].secret.kind = "oauth" /\ Revocable
     THEN \E revoked \in BOOLEAN :
            /\ RevokeToken(job[r].secret.grant, revoked)
            /\ IF ~revoked THEN Finish(r)
               ELSE /\ Goto(r, "deleting")
                    /\ job' = [job EXCEPT ![r].result = "ready"]
     ELSE Goto(r, "deleting") /\ UNCHANGED <<live, job>>
  /\ UNCHANGED <<conn, version, flows, active, stale, told, crashes>>

\* vault.delete; a grant that was not revoked is handed to its owner.
Delete(r) ==
  /\ pc[r] = "deleting"
  /\ \/ /\ conn # None /\ Generation(conn) = job[r].gen
        /\ conn.error = "disconnect_pending"
        /\ conn' = None
        /\ \/ told' = IF job[r].result = "ready" THEN told
                      ELSE told \cup {job[r].secret.grant}
           \/ Ambiguous /\ UNCHANGED told
     \/ UNCHANGED <<conn, told>>
  /\ Finish(r)
  /\ UNCHANGED <<live, version, flows, active, stale, crashes>>

----------------------------------------------------------------------------
\* A lease of 90 seconds outlives the 50 seconds an execution may take; only a
\* verification, which has no deadline around its writes, can outlive it.
LeaseExpires ==
  /\ conn # None /\ LeaseIsActive(conn)
  /\ pc[conn.lease] \notin Executing \cup {"quarantining", "releasing"}
  /\ conn' = [conn EXCEPT !.alive = FALSE]
  /\ UNCHANGED <<live, version, flows, active, stale, pc, job, told, receipts, crashes>>

\* The process that serves request r dies.
Crash(r) ==
  /\ crashes < MaxCrashes
  /\ pc[r] \notin {"idle", "authorizing", "done"}
  /\ Finish(r)
  /\ crashes' = crashes + 1
  /\ UNCHANGED <<conn, live, version, flows, active, stale, told, receipts>>

\* What a running request does next: only two steps write its receipt.
Step(r) ==
  \/ StartReceipt(r) \/ Record(r)
  \/ /\ \/ Discover(r) \/ Register(r) \/ StartRegistered(r) \/ PutFlow(r)
        \/ CheckVault(r) \/ Exchange(r) \/ RejectGrant(r) \/ Put(r) \/ CleanUp(r)
        \/ BeginVerification(r) \/ Certify(r) \/ FinishVerification(r)
        \/ Claim(r) \/ RuntimeMaterial(r) \/ EnforceToolPolicy(r) \/ Refresh(r)
        \/ Rotate(r) \/ EndCall(r) \/ Deadline(r) \/ Quarantine(r) \/ Release(r)
        \/ BeginDisconnect(r) \/ RevokeGrant(r) \/ Delete(r)
     /\ UNCHANGED receipts

Next ==
  \/ \E r \in Requests :
       \/ StartOAuth(r) \/ StoreToken(r) \/ VerifyConnector(r)
       \/ Invoke(r) \/ Disconnect(r) \/ Step(r)
       \/ ConsumeFlow(r) \/ FlowExpires(r) \/ Crash(r)
  \/ CancelFlow \/ LeaseExpires

Spec == Init /\ [][Next]_vars

\* Requests run under asyncio deadlines, and time passes.
FairSpec ==
  /\ Spec
  /\ \A r \in Requests : WF_vars(Step(r))
  /\ WF_vars(LeaseExpires)

----------------------------------------------------------------------------
(***************************************************************************)
(* Properties                                                              *)
(***************************************************************************)

\* While an execution is at work the connection is its own: still ready, same
\* grant, its lease in place; no disconnect, verification, deletion or other
\* execution comes between (claim_execution, begin_disconnect, rotate).
LeaseProtectsExecution ==
  \A r \in Requests : pc[r] \in Executing =>
    /\ conn # None
    /\ conn.status = "ready"
    /\ conn.lease = r
    /\ conn.secret = job[r].secret

\* A connection is ready only on the evidence of a verification of the grant
\* that is sealed in it, however late verifications finish and whatever was
\* disconnected and reconnected meanwhile (finish_verification, rotate).
ReadyIsCertified ==
  conn # None /\ conn.status = "ready" => conn.certified = conn.secret.grant

\* A disconnect that has begun is never undone: the record stays disabled, with
\* the same grant, until it is deleted (begin_disconnect, begin_verification).
DisconnectSticks ==
  [][conn # None /\ conn.error = "disconnect_pending" =>
       \/ conn' = None
       \/ /\ conn'.error = "disconnect_pending"
          /\ conn'.secret = conn.secret]_vars

\* No grant is forgotten, unless a process died with it in hand: one that is
\* live at the provider is sealed, in the hands of a request, or its owner was
\* told to revoke it (the callback and the disconnect of control_plane.py).
GrantsAccountedFor ==
  crashes = 0 => \A g \in live :
    \/ conn # None /\ conn.secret.grant = g
    \/ g \in told
    \/ g \in Requests /\ pc[g] \in {"putting", "rejecting", "cleaning"}

\* The receipts can be relied on: no call reaches the provider without one, and
\* one that says allowed is of a call that ended and gave its lease back, though
\* the release may fail and the process may die in between (execute).
ReceiptsAreEvidence ==
  \A r \in Requests :
    /\ pc[r] = "calling" => receipts[r] = "started"
    /\ receipts[r] = "allowed" => conn = None \/ conn.lease # r

\* No lease blocks a connection forever (release_execution and the expiry).
LeasesEnd ==
  \A r \in Requests :
    (conn # None /\ conn.lease = r /\ LeaseIsActive(conn))
      ~> ~(conn # None /\ conn.lease = r /\ LeaseIsActive(conn))
=============================================================================
