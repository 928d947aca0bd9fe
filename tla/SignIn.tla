------------------------------- MODULE SignIn -------------------------------
(***************************************************************************)
(* Signing in with an emailed link: the request, its delivery through      *)
(* Pub/Sub, the link, the login code and the session (the routes of        *)
(* src/cloud/control_plane.py over magic_links.py and auth_sessions.py).   *)
(*                                                                         *)
(* Each Firestore call is one action.  The token of a link is derived from *)
(* the delivery id, so a message, its token and its document are one       *)
(* member of Links.  Pub/Sub pushes a message again until it is answered   *)
(* with success, and may do so while a handler still works on it.          *)
(***************************************************************************)
EXTENDS Integers, FiniteSets

CONSTANTS
  Links,           \* the requests for a link
  Emails,          \* the addresses
  Handlers,        \* concurrent pushes
  Tabs,            \* browser pages
  EmailRateLimit,  \* requests per address and window
  MaxFaults,       \* bound: failing calls, lost answers and crashes
  MaxWindows,      \* bound: rate windows that begin
  None

Document == [active : BOOLEAN, disabled : BOOLEAN, consumed : BOOLEAN]

ASSUME SignInAssumption ==
  /\ None \notin Links \cup Emails \cup Document
  /\ EmailRateLimit \in Nat /\ MaxFaults \in Nat /\ MaxWindows \in Nat

VARIABLES
  rate,      \* requests counted for each address in this window
  approved,  \* the addresses of the allowlist
  message,   \* where the Pub/Sub message of each link is
  email,     \* the address in it; None for one that was not approved
  link,      \* the document of the link, or None
  mailed,    \* links the mail provider accepted
  expired,   \* links older than ten minutes
  late,      \* links pushed while another push of them was at work
  hpc, hon,  \* where each push is, and its link
  tpc, ton,  \* where each page is, and the link its login started from
  codes,     \* unexchanged login codes, each the page that got it
  faults, windows

requests == <<rate, approved, email, windows>>
handlers == <<hpc, hon, late>>
pages    == <<tpc, ton, codes>>
vars     == <<requests, message, link, mailed, expired, handlers, pages, faults>>

TypeOK ==
  /\ rate \in [Emails -> Nat]
  /\ approved \subseteq Emails
  /\ message \in [Links -> {"none", "reserved", "refused", "queued", "acked"}]
  /\ email \in [Links -> Emails \cup {None}]
  /\ link \in [Links -> Document \cup {None}]
  /\ mailed \subseteq Links /\ expired \subseteq Links /\ late \subseteq Links
  /\ hpc \in [Handlers -> {"idle", "issuing", "sending", "activating",
                           "answering", "invalidating"}]
  /\ hon \in [Handlers -> Links \cup {None}]
  /\ tpc \in [Tabs -> {"idle", "consumed", "code", "signed_in", "signed_out",
                       "done"}]
  /\ ton \in [Tabs -> Links \cup {None}]
  /\ codes \subseteq Tabs
  /\ faults \in 0..MaxFaults /\ windows \in 0..MaxWindows

Init ==
  /\ rate \in [Emails -> 0..EmailRateLimit]  \* of requests made before
  /\ approved \in SUBSET Emails
  /\ message = [l \in Links |-> "none"] /\ email = [l \in Links |-> None]
  /\ link = [l \in Links |-> None]
  /\ mailed = {} /\ expired = {} /\ late = {}
  /\ hpc = [h \in Handlers |-> "idle"] /\ hon = [h \in Handlers |-> None]
  /\ tpc = [t \in Tabs |-> "idle"] /\ ton = [t \in Tabs |-> None]
  /\ codes = {} /\ faults = 0 /\ windows = 0

\* A call that fails, before or after it took effect.
Fault == faults < MaxFaults /\ faults' = faults + 1

----------------------------------------------------------------------------
(***************************************************************************)
(* request_magic_link                                                      *)
(***************************************************************************)

\* reserve_request counts a request whether or not it permits it.  The limit for
\* all addresses together, which requests outside the model use up as well, may
\* refuse any request.
Reserve(l) ==
  /\ message[l] = "none"
  /\ \E e \in Emails, permitted \in BOOLEAN :
       /\ permitted => rate[e] < EmailRateLimit
       /\ rate' = [rate EXCEPT ![e] = @ + 1]
       /\ email' = [email EXCEPT ![l] = IF e \in approved THEN e ELSE None]
       /\ message' = [message EXCEPT ![l] =
                        IF permitted THEN "reserved" ELSE "refused"]
  /\ UNCHANGED <<approved, windows, link, mailed, expired, handlers, pages, faults>>

\* publish; the requester gets the same answer when it fails.
Publish(l) ==
  /\ message[l] = "reserved"
  /\ \/ message' = [message EXCEPT ![l] = "queued"] /\ UNCHANGED faults
     \/ Fault /\ message' = [message EXCEPT ![l] = "refused"]
  /\ UNCHANGED <<requests, link, mailed, expired, handlers, pages>>

\* The window of _RATE_WINDOW_SECONDS ends.
NextWindow ==
  /\ windows < MaxWindows
  /\ windows' = windows + 1
  /\ rate' = [e \in Emails |-> 0]
  /\ UNCHANGED <<approved, email, message, link, mailed, expired, handlers,
                 pages, faults>>

\* An address is taken off RALLY_ALLOWED_USER_EMAILS.
Disapprove(e) ==
  /\ approved' = approved \ {e} /\ approved' # approved
  /\ UNCHANGED <<rate, email, windows, message, link, mailed, expired, handlers,
                 pages, faults>>

Expires(l) ==
  /\ message[l] \in {"queued", "acked"} /\ l \notin expired
  /\ expired' = expired \cup {l}
  /\ UNCHANGED <<requests, message, link, mailed, handlers, pages, faults>>

----------------------------------------------------------------------------
(***************************************************************************)
(* deliver_magic_link                                                      *)
(***************************************************************************)
Goto(h, place) == hpc' = [hpc EXCEPT ![h] = place]

Working(l) == \E h \in Handlers : hon[h] = l

\* The push ends with an error, and Pub/Sub keeps the message.
Nack(h) ==
  /\ Goto(h, "idle")
  /\ hon' = [hon EXCEPT ![h] = None]

\* A message that is too old, for nobody or for somebody who is no longer
\* approved is acknowledged without a delivery.
Push(h, l) ==
  /\ hpc[h] = "idle" /\ message[l] = "queued"
  /\ IF l \in expired \/ email[l] \notin approved
       THEN /\ message' = [message EXCEPT ![l] = "acked"]
            /\ UNCHANGED handlers
       ELSE /\ Goto(h, "issuing")
            /\ hon' = [hon EXCEPT ![h] = l]
            /\ late' = IF Working(l) THEN late \cup {l} ELSE late
            /\ UNCHANGED message
  /\ UNCHANGED <<requests, link, mailed, expired, pages, faults>>

UndatedLink ==  \* mutant: a document without disabled_at
  [active |-> FALSE, consumed |-> FALSE]

ActiveLink ==  \* mutant: a link that can be used before it is mailed
  [active |-> TRUE, disabled |-> FALSE, consumed |-> FALSE]

PendingLink == [active |-> FALSE, disabled |-> FALSE, consumed |-> FALSE]

IssueNew(h) ==  \* mutant: a document that exists is refused
  /\ hpc[h] = "issuing"
  /\ LET l == hon[h]
     IN  IF l \notin expired /\ link[l] = None
           THEN /\ link' = [link EXCEPT ![l] = PendingLink]
                /\ Goto(h, "sending") /\ UNCHANGED <<hon, faults>>
           ELSE Nack(h) /\ UNCHANGED <<link, faults>>
  /\ UNCHANGED <<requests, message, mailed, expired, late, pages>>

IssueAnew(h) ==  \* mutant: a document that exists is overwritten
  /\ hpc[h] = "issuing"
  /\ link' = [link EXCEPT ![hon[h]] = PendingLink]
  /\ Goto(h, "sending")
  /\ UNCHANGED <<requests, message, mailed, expired, hon, late, pages, faults>>

\* issue: a repeated delivery resumes the document that exists.  Without a
\* token there is nothing to invalidate.
Issue(h) ==
  /\ hpc[h] = "issuing"
  /\ LET l == hon[h]
         issued == IF link[l] # None THEN link
                   ELSE [link EXCEPT ![l] = PendingLink]
     IN  \/ /\ l \notin expired
            /\ link' = issued
            /\ Goto(h, "sending") /\ UNCHANGED <<hon, faults>>
         \/ l \in expired /\ Nack(h) /\ UNCHANGED <<link, faults>>
         \/ Fault /\ Nack(h) /\ link' \in {link, issued}
  /\ UNCHANGED <<requests, message, mailed, expired, late, pages>>

\* send; the mail may be accepted although the answer is lost.
Send(h) ==
  /\ hpc[h] = "sending"
  /\ \/ /\ mailed' = mailed \cup {hon[h]}
        /\ Goto(h, "activating") /\ UNCHANGED faults
     \/ /\ Fault
        /\ mailed' \in {mailed, mailed \cup {hon[h]}}
        /\ Goto(h, "invalidating")
  /\ UNCHANGED <<requests, message, link, expired, hon, late, pages>>

Activated(l) == [link EXCEPT ![l].active = TRUE, ![l].disabled = FALSE]

\* activate
Activate(h) ==
  /\ hpc[h] = "activating"
  /\ \/ link' = Activated(hon[h]) /\ Goto(h, "answering") /\ UNCHANGED faults
     \/ Fault /\ link' \in {link, Activated(hon[h])} /\ Goto(h, "invalidating")
  /\ UNCHANGED <<requests, message, mailed, expired, hon, late, pages>>

\* A delivery is answered with success, unless the answer is lost.
Answer(h) ==
  /\ hpc[h] = "answering"
  /\ \/ message' = [message EXCEPT ![hon[h]] = "acked"] /\ UNCHANGED faults
     \/ Fault /\ UNCHANGED message
  /\ Nack(h)
  /\ UNCHANGED <<requests, link, mailed, expired, late, pages>>

Invalidated(l) == [link EXCEPT ![l].active = FALSE, ![l].disabled = TRUE]

InvalidateAndAnswer(h) ==  \* mutant: a failed delivery is acknowledged
  /\ hpc[h] = "invalidating"
  /\ link' = Invalidated(hon[h])
  /\ Goto(h, "answering")
  /\ UNCHANGED <<requests, message, mailed, expired, hon, late, pages, faults>>

\* The except clause: invalidate, whose own failure is ignored, and 503.
Invalidate(h) ==
  /\ hpc[h] = "invalidating"
  /\ \/ link' = Invalidated(hon[h]) /\ UNCHANGED faults
     \/ Fault /\ UNCHANGED link
  /\ Nack(h)
  /\ UNCHANGED <<requests, message, mailed, expired, late, pages>>

\* The instance that serves a push dies.
Crash(h) ==
  /\ hpc[h] # "idle"
  /\ Fault
  /\ Nack(h)
  /\ UNCHANGED <<requests, message, link, mailed, expired, late, pages>>

----------------------------------------------------------------------------
(***************************************************************************)
(* consume_magic_link, exchange_login_code, logout_browser_session         *)
(***************************************************************************)
GotoTab(t, place) == tpc' = [tpc EXCEPT ![t] = place]

\* What consume asks of the document of a link.
Usable(l) ==
  link[l] # None /\ link[l].active /\ ~link[l].disabled /\ ~link[l].consumed
    /\ l \notin expired

\* A page follows a link that was mailed.  consume commits or refuses; when its
\* answer is lost the link is spent.
Consume(t, l) ==
  /\ tpc[t] = "idle" /\ l \in mailed
  /\ IF Usable(l)
       THEN /\ link' = [link EXCEPT ![l].consumed = TRUE]
            /\ \/ /\ GotoTab(t, "consumed")
                  /\ ton' = [ton EXCEPT ![t] = l] /\ UNCHANGED faults
               \/ Fault /\ UNCHANGED <<tpc, ton>>
       ELSE UNCHANGED <<link, tpc, ton, faults>>
  /\ UNCHANGED <<requests, message, mailed, expired, handlers, codes>>

\* The approval of the address is looked at again, and a code is issued.
IssueCode(t) ==
  /\ tpc[t] = "consumed"
  /\ \/ /\ email[ton[t]] \in approved
        /\ codes' = codes \cup {t}
        /\ GotoTab(t, "code") /\ UNCHANGED faults
     \/ /\ email[ton[t]] \notin approved
        /\ GotoTab(t, "done") /\ UNCHANGED <<codes, faults>>
     \/ Fault /\ GotoTab(t, "done") /\ UNCHANGED codes
  /\ UNCHANGED <<requests, message, link, mailed, expired, handlers, ton>>

\* exchange_code: the page that got code k, or one that was opened with the
\* same address again, exchanges it; the code may have expired.
Exchange(t, k) ==
  /\ tpc[t] = "idle" \/ (tpc[t] = "code" /\ k = t)
  /\ k \in codes
  /\ codes' = codes \ {k}
  /\ \/ GotoTab(t, "signed_in") /\ ton' = [ton EXCEPT ![t] = ton[k]]
     \/ GotoTab(t, "done") /\ UNCHANGED ton
  /\ UNCHANGED <<requests, message, link, mailed, expired, handlers, faults>>

\* The code of the page is gone: login code is invalid or expired.
Refused(t) ==
  /\ tpc[t] = "code" /\ t \notin codes
  /\ GotoTab(t, "done")
  /\ UNCHANGED <<requests, message, link, mailed, expired, handlers, ton, codes,
                 faults>>

\* revoke_session, or the end of its thirty minutes.
SignOut(t) ==
  /\ tpc[t] = "signed_in"
  /\ GotoTab(t, "signed_out")
  /\ UNCHANGED <<requests, message, link, mailed, expired, handlers, ton, codes,
                 faults>>

----------------------------------------------------------------------------
HandlerStep(h) ==
  Issue(h) \/ Send(h) \/ Activate(h) \/ Answer(h) \/ Invalidate(h)

Next ==
  \/ \E l \in Links : Reserve(l) \/ Publish(l) \/ Expires(l)
  \/ NextWindow \/ \E e \in Emails : Disapprove(e)
  \/ \E h \in Handlers : HandlerStep(h) \/ Crash(h) \/ \E l \in Links : Push(h, l)
  \/ \E t \in Tabs : \/ IssueCode(t) \/ Refused(t) \/ SignOut(t)
                     \/ \E l \in Links : Consume(t, l)
                     \/ \E k \in Tabs : Exchange(t, k)

Spec == Init /\ [][Next]_vars

\* Pub/Sub pushes a message that is not acknowledged, and a push is answered:
\* its calls have timeouts.
FairSpec ==
  /\ Spec
  /\ \A h \in Handlers : WF_vars(HandlerStep(h))
  /\ \A l \in Links : SF_vars(\E h \in Handlers : Push(h, l))

----------------------------------------------------------------------------
(***************************************************************************)
(* Properties                                                              *)
(***************************************************************************)
\* A link signs in one page at most, however often it is delivered, followed
\* or its code presented (issue, consume, exchange_code).
OneLoginPerLink ==
  \A l \in Links :
    Cardinality({t \in Tabs : /\ ton[t] = l
                              /\ tpc[t] \in {"signed_in", "signed_out"}}) <= 1

\* A link can be used only once its mail was accepted (deliver_magic_link).
UsableWasMailed == \A l \in Links : Usable(l) => l \in mailed

\* When Pub/Sub has nothing left to push, the link works, has been used, is too
\* old, or its address is not approved: a delivery that failed or died was not
\* the last one.  Links whose pushes overlapped are excepted (deliver_magic_link).
SettledLinkWorks ==
  \A l \in Links :
    message[l] = "acked" /\ ~Working(l) /\ l \notin late =>
      \/ Usable(l) \/ l \in expired \/ email[l] \notin approved
      \/ link[l] # None /\ link[l].consumed

\* A request that was queued is settled, whatever fails on the way (a bounded
\* number of times) and however often it is pushed.
RequestSettles ==
  \A l \in Links : message[l] = "queued" ~> message[l] = "acked"
=============================================================================
