----------------------------- MODULE SignInProofs -----------------------------
(***************************************************************************)
(* Proofs about SignIn, for any number of links, addresses, overlapping    *)
(* pushes and pages, and any number of faults.                             *)
(***************************************************************************)
EXTENDS SignIn, FiniteSetTheorems, TLAPS

\* A delivered link that nothing has taken back.
Delivered(l) == link[l] # None /\ link[l].active /\ ~link[l].disabled

\* What a push has done to its link when it reaches a step.  While it is the
\* only one, nothing undoes what it has activated.
PushInv(h) ==
  /\ hpc[h] = "idle" <=> hon[h] = None
  /\ hpc[h] \in {"sending", "activating", "answering", "invalidating"}
       => link[hon[h]] # None
  /\ hpc[h] \in {"activating", "answering"} => hon[h] \in mailed
  /\ hpc[h] = "answering" /\ hon[h] \notin late => Delivered(hon[h])

\* Two pushes at once make a link a late one.
PushedOnce == \A h, i \in Handlers :
  hon[h] = hon[i] /\ hon[h] # None /\ hon[h] \notin late => h = i

ActiveWasMailed(l) == link[l] # None /\ link[l].active => l \in mailed

\* A message that is acknowledged was delivered by its only push, or was not
\* to be delivered.
AckedIsSettled(l) ==
  message[l] = "acked" /\ l \notin late =>
    l \in expired \/ email[l] \notin approved \/ (Delivered(l) /\ ~Working(l))

LinkInv(l) == ActiveWasMailed(l) /\ AckedIsSettled(l)

\* The login that a link allows is with this page: it consumed the link, has
\* a code that can still be exchanged, or came to a session.
HasLogin(t) == tpc[t] \in {"consumed", "signed_in", "signed_out"} \/ t \in codes

PageInv(t) ==
  /\ t \in codes => tpc[t] = "code"
  /\ HasLogin(t) => /\ ton[t] \in Links
                    /\ link[ton[t]] # None
                    /\ link[ton[t]].consumed

OneHolder == \A t, u \in Tabs :
  HasLogin(t) /\ HasLogin(u) /\ ton[t] = ton[u] => t = u

DeliveryInv ==
  (\A h \in Handlers : PushInv(h)) /\ PushedOnce /\ (\A l \in Links : LinkInv(l))

LoginInv == (\A t \in Tabs : PageInv(t)) /\ OneHolder

SignInInv == TypeOK /\ DeliveryInv /\ LoginInv
----------------------------------------------------------------------------
(***************************************************************************)
(* The documents, and the types.                                           *)
(***************************************************************************)
LEMMA DocumentFields ==
  ASSUME NEW d \in Document
  PROVE  /\ d # None /\ d.active \in BOOLEAN /\ d.disabled \in BOOLEAN
         /\ d.consumed \in BOOLEAN
BY SignInAssumption DEF Document

\* What activate, invalidate and consume write.
On(d) == [d EXCEPT !.active = TRUE, !.disabled = FALSE]

Off(d) == [d EXCEPT !.active = FALSE, !.disabled = TRUE]

Used(d) == [d EXCEPT !.consumed = TRUE]

LEMMA Documents ==
  ASSUME NEW d \in Document
  PROVE  /\ On(d) \in Document /\ On(d) # None
         /\ On(d).active /\ ~On(d).disabled /\ On(d).consumed = d.consumed
         /\ Off(d) \in Document /\ Off(d) # None
         /\ ~Off(d).active /\ Off(d).consumed = d.consumed
         /\ Used(d) \in Document /\ Used(d) # None
         /\ Used(d).active = d.active /\ Used(d).disabled = d.disabled
         /\ Used(d).consumed
<1>1. On(d) \in Document /\ Off(d) \in Document /\ Used(d) \in Document
  BY DEF Document, On, Off, Used
<1> QED
  BY <1>1, DocumentFields DEF Document, On, Off, Used

\* How a step may change the document of a link: it is created, pending; a push
\* activates or invalidates it; a page consumes it.
Issued(l) == link[l] = None /\ link' = [link EXCEPT ![l] = PendingLink]
TurnedOn(l) == link[l] # None /\ link' = [link EXCEPT ![l] = On(link[l])]
TurnedOff(l) == link[l] # None /\ link' = [link EXCEPT ![l] = Off(link[l])]
Spent(l) == link[l] # None /\ link' = [link EXCEPT ![l] = Used(link[l])]

LEMMA LinkWrites ==
  ASSUME TypeOK, NEW l \in Links,
         Issued(l) \/ TurnedOn(l) \/ TurnedOff(l) \/ Spent(l)
  PROVE  /\ link' \in [Links -> Document \cup {None}]
         /\ link'[l] # None
         /\ \A k \in Links \ {l} : link'[k] = link[k]
         /\ Issued(l) \/ TurnedOff(l) => ~link'[l].active
         /\ TurnedOn(l) => link'[l].active /\ ~link'[l].disabled
         /\ Spent(l) => /\ link'[l].active = link[l].active
                        /\ link'[l].disabled = link[l].disabled
                        /\ link'[l].consumed
         /\ link[l] # None => (link[l].consumed => link'[l].consumed)
<1>0. /\ link \in [Links -> Document \cup {None}]
      /\ link[l] # None => link[l] \in Document
      /\ link' = [link EXCEPT ![l] = link'[l]]
  BY DEF TypeOK, Issued, TurnedOn, TurnedOff, Spent
<1>1. CASE Issued(l)
  <2>1. PendingLink \in Document /\ PendingLink # None /\ ~PendingLink.active
    BY DocumentFields DEF PendingLink, Document
  <2> QED
    BY <1>0, <1>1, <2>1 DEF Issued, TurnedOn, TurnedOff, Spent
<1>2. CASE link[l] # None
  <2>1. link[l] \in Document
    BY <1>0, <1>2
  <2> QED
    BY <1>0, <1>2, <2>1, Documents DEF Issued, TurnedOn, TurnedOff, Spent
<1> QED
  BY <1>1, <1>2 DEF TurnedOn, TurnedOff, Spent

LEMMA TypeInit == Init => TypeOK
BY SignInAssumption DEF Init, TypeOK

LEMMA FaultCount ==
  ASSUME TypeOK, Fault \/ UNCHANGED faults
  PROVE  faults' \in 0..MaxFaults
BY SignInAssumption DEF TypeOK, Fault

\* What a step of a push does to its link.
LEMMA PushWrites ==
  ASSUME TypeOK, DeliveryInv, NEW h \in Handlers, HandlerStep(h)
  PROVE  /\ hon[h] \in Links
         /\ \/ UNCHANGED link
            \/ Issue(h) /\ Issued(hon[h])
            \/ Activate(h) /\ TurnedOn(hon[h])
            \/ Invalidate(h) /\ TurnedOff(hon[h])
<1>0. PushInv(h) /\ hon[h] \in Links \cup {None}
  BY DEF DeliveryInv, TypeOK
<1>1. /\ hon[h] \in Links
      /\ hpc[h] \in {"activating", "invalidating"} => link[hon[h]] # None
  BY <1>0 DEF HandlerStep, Issue, Send, Activate, Answer, Invalidate, PushInv
<1>2. Issue(h) => UNCHANGED link \/ Issued(hon[h])
  BY DEF Issue, Issued
<1>3. Activate(h) => UNCHANGED link \/ TurnedOn(hon[h])
  BY <1>1 DEF Activate, Activated, TurnedOn, On
<1>4. Invalidate(h) => UNCHANGED link \/ TurnedOff(hon[h])
  BY <1>1 DEF Invalidate, Invalidated, TurnedOff, Off
<1> QED
  BY <1>1, <1>2, <1>3, <1>4 DEF HandlerStep, Send, Answer

LEMMA PushType ==
  ASSUME TypeOK, DeliveryInv, NEW h \in Handlers,
         \/ HandlerStep(h) \/ Crash(h) \/ \E l \in Links : Push(h, l)
  PROVE  TypeOK'
<1> USE DEF TypeOK, Goto, Nack, requests, handlers, pages
<1>1. CASE HandlerStep(h)
  <2>1. hon[h] \in Links /\ link' \in [Links -> Document \cup {None}]
    BY <1>1, PushWrites, LinkWrites
  <2>2. faults' \in 0..MaxFaults
    BY <1>1, FaultCount
    DEF HandlerStep, Issue, Send, Activate, Answer, Invalidate
  <2>3. /\ rate' = rate /\ approved' = approved /\ email' = email
        /\ windows' = windows /\ expired' = expired /\ tpc' = tpc /\ ton' = ton
        /\ codes' = codes /\ late' = late
        /\ mailed' \in {mailed, mailed \cup {hon[h]}}
        /\ message' \in {message, [message EXCEPT ![hon[h]] = "acked"]}
        /\ hpc' = [hpc EXCEPT ![h] = hpc'[h]]
        /\ hpc'[h] \in {"idle", "sending", "activating", "answering", "invalidating"}
        /\ hon' \in {hon, [hon EXCEPT ![h] = None]}
    BY <1>1 DEF HandlerStep, Issue, Send, Activate, Answer, Invalidate
  <2> QED
    BY <2>1, <2>2, <2>3
<1>2. CASE Crash(h)
  BY <1>2, FaultCount DEF Crash
<1>3. ASSUME NEW l \in Links, Push(h, l) PROVE TypeOK'
  BY <1>3 DEF Push
<1> QED
  BY <1>1, <1>2, <1>3

LEMMA PageType ==
  ASSUME TypeOK, NEW t \in Tabs,
         \/ IssueCode(t) \/ Refused(t) \/ SignOut(t)
         \/ \E l \in Links : Consume(t, l)
         \/ \E k \in Tabs : Exchange(t, k)
  PROVE  TypeOK'
<1> USE DEF requests, handlers, pages, GotoTab
<1>1. CASE IssueCode(t) \/ Refused(t) \/ SignOut(t)
  BY <1>1, FaultCount DEF IssueCode, Refused, SignOut, TypeOK
<1>2. ASSUME NEW l \in Links, Consume(t, l) PROVE TypeOK'
  <2>1. UNCHANGED link \/ Spent(l)
    BY <1>2 DEF Consume, Usable, Spent, Used
  <2>2. link' \in [Links -> Document \cup {None}]
    BY <2>1, LinkWrites DEF TypeOK
  <2> QED
    BY <1>2, <2>2, FaultCount DEF Consume, TypeOK
<1>3. ASSUME NEW k \in Tabs, Exchange(t, k) PROVE TypeOK'
  BY <1>3 DEF Exchange, TypeOK
<1> QED
  BY <1>1, <1>2, <1>3

LEMMA TypeStep == TypeOK /\ DeliveryInv /\ [Next]_vars => TypeOK'
<1> SUFFICES ASSUME TypeOK, DeliveryInv, [Next]_vars PROVE TypeOK'
  OBVIOUS
<1> USE SignInAssumption DEF requests, handlers, pages
<1>1. ASSUME NEW l \in Links, Reserve(l) PROVE TypeOK'
  BY <1>1 DEF Reserve, TypeOK
<1>2. ASSUME NEW l \in Links, Publish(l) \/ Expires(l) PROVE TypeOK'
  BY <1>2, FaultCount DEF Publish, Expires, TypeOK
<1>3. CASE NextWindow
  BY <1>3 DEF NextWindow, TypeOK
<1>4. ASSUME NEW e \in Emails, Disapprove(e) PROVE TypeOK'
  BY <1>4 DEF Disapprove, TypeOK
<1>5. CASE UNCHANGED vars
  BY <1>5 DEF vars, TypeOK
<1> QED
  BY <1>1, <1>2, <1>3, <1>4, <1>5, PushType, PageType DEF Next
----------------------------------------------------------------------------
(***************************************************************************)
(* The delivery of a link.                                                 *)
(***************************************************************************)
LEMMA DeliveryInit == Init => DeliveryInv
BY SignInAssumption
DEF Init, DeliveryInv, PushInv, PushedOnce, LinkInv, ActiveWasMailed, AckedIsSettled

LEMMA RequestStep ==
  ASSUME TypeOK, DeliveryInv,
         \/ \E l \in Links : Reserve(l) \/ Publish(l) \/ Expires(l)
         \/ NextWindow \/ (\E e \in Emails : Disapprove(e)) \/ UNCHANGED vars
  PROVE  DeliveryInv'
<1>1. /\ UNCHANGED <<link, mailed, hpc, hon, late>>
      /\ expired \subseteq expired' /\ approved' \subseteq approved
      /\ \A k \in Links : message'[k] = "acked" =>
           message[k] = "acked" /\ email'[k] = email[k]
  BY DEF TypeOK, Reserve, Publish, Expires, NextWindow, Disapprove, vars, requests,
         handlers
<1> QED
  BY <1>1
  DEF DeliveryInv, PushInv, PushedOnce, LinkInv, ActiveWasMailed, AckedIsSettled,
      Delivered, Working

LEMMA PushStep ==
  ASSUME TypeOK, DeliveryInv, NEW h \in Handlers, NEW l \in Links, Push(h, l)
  PROVE  DeliveryInv'
<1>0. /\ hpc[h] = "idle" /\ hon[h] = None /\ message[l] = "queued" /\ l # None
      /\ UNCHANGED <<link, mailed, expired, email, approved>>
      /\ hpc = [i \in Handlers |-> hpc[i]] /\ hon \in [Handlers -> Links \cup {None}]
      /\ message = [k \in Links |-> message[k]]
  BY SignInAssumption DEF Push, TypeOK, DeliveryInv, PushInv, requests
<1>1. CASE /\ l \in expired \/ email[l] \notin approved
           /\ message' = [message EXCEPT ![l] = "acked"] /\ UNCHANGED handlers
  BY <1>0, <1>1
  DEF DeliveryInv, PushInv, PushedOnce, LinkInv, ActiveWasMailed, AckedIsSettled,
      Delivered, Working, handlers
<1>2. CASE /\ Goto(h, "issuing") /\ hon' = [hon EXCEPT ![h] = l]
           /\ late' = IF Working(l) THEN late \cup {l} ELSE late
           /\ UNCHANGED message
  <2>1. /\ hpc'[h] = "issuing" /\ hon'[h] = l
        /\ \A i \in Handlers \ {h} : hpc'[i] = hpc[i] /\ hon'[i] = hon[i]
        /\ late \subseteq late' /\ late' \subseteq late \cup {l}
        /\ Working(l) => l \in late'
    BY <1>0, <1>2 DEF Goto
  <2>2. ASSUME NEW i \in Handlers PROVE PushInv(i)'
    BY <1>0, <2>1 DEF DeliveryInv, PushInv, Delivered
  <2>3. PushedOnce'
    BY <1>0, <2>1 DEF DeliveryInv, PushedOnce, Working
  <2>4. ASSUME NEW k \in Links PROVE LinkInv(k)'
    BY <1>0, <1>2, <2>1
    DEF DeliveryInv, LinkInv, ActiveWasMailed, AckedIsSettled, Delivered, Working
  <2> QED
    BY <2>2, <2>3, <2>4 DEF DeliveryInv
<1> QED
  BY <1>1, <1>2 DEF Push

\* The steps of a push at work.
LEMMA WorkStep ==
  ASSUME TypeOK, DeliveryInv, NEW h \in Handlers, HandlerStep(h) \/ Crash(h)
  PROVE  DeliveryInv'
<1> DEFINE l == hon[h]
<1>0. /\ hpc = [i \in Handlers |-> hpc[i]] /\ hon \in [Handlers -> Links \cup {None}]
      /\ message = [k \in Links |-> message[k]] /\ None \notin Links
      /\ \A i \in Handlers : PushInv(i)
      /\ \A k \in Links : LinkInv(k)
  BY SignInAssumption DEF DeliveryInv, TypeOK
<1>1. l \in Links
  BY <1>0 DEF HandlerStep, Issue, Send, Activate, Answer, Invalidate, Crash, PushInv
<1>2. /\ UNCHANGED <<late, email, approved, expired>>
      /\ mailed' \in {mailed, mailed \cup {l}}
      /\ hpc' = [hpc EXCEPT ![h] = hpc'[h]] /\ hon' = [hon EXCEPT ![h] = hon'[h]]
      /\ (hpc'[h] = "idle" /\ hon'[h] = None) \/ (hpc'[h] # "idle" /\ hon'[h] = l)
      /\ hpc'[h] \in {"idle", "sending", "activating", "answering", "invalidating"}
  <2>1. UNCHANGED <<late, email, approved, expired>>
    BY DEF HandlerStep, Issue, Send, Activate, Answer, Invalidate, Crash, requests,
           handlers
  <2>2. mailed' \in {mailed, mailed \cup {l}}
    BY DEF HandlerStep, Issue, Send, Activate, Answer, Invalidate, Crash
  <2>3. \/ Nack(h)
        \/ /\ UNCHANGED hon
           /\ \E place \in {"sending", "activating", "answering", "invalidating"} :
                Goto(h, place)
    BY DEF HandlerStep, Issue, Send, Activate, Answer, Invalidate, Crash
  <2>4. /\ hpc' = [hpc EXCEPT ![h] = hpc'[h]] /\ hon' = [hon EXCEPT ![h] = hon'[h]]
        /\ (hpc'[h] = "idle" /\ hon'[h] = None) \/ (hpc'[h] # "idle" /\ hon'[h] = l)
        /\ hpc'[h] \in {"idle", "sending", "activating", "answering", "invalidating"}
    <3>1. CASE Nack(h)
      BY <1>0, <3>1 DEF Nack, Goto
    <3>2. CASE /\ UNCHANGED hon
               /\ \E place \in {"sending", "activating", "answering", "invalidating"} :
                    Goto(h, place)
      BY <1>0, <3>2 DEF Goto
    <3> QED
      BY <2>3, <3>1, <3>2
  <2> QED
    BY <2>1, <2>2, <2>4
<1>3. /\ \/ UNCHANGED link
         \/ Issue(h) /\ Issued(l)
         \/ Activate(h) /\ TurnedOn(l)
         \/ Invalidate(h) /\ TurnedOff(l)
      /\ \A k \in Links : link[k] # None => link'[k] # None
      /\ \A k \in Links \ {l} : link'[k] = link[k]
  <2>1. CASE HandlerStep(h)
    BY <1>1, <2>1, PushWrites, LinkWrites
  <2>2. CASE Crash(h)
    BY <2>2 DEF Crash
  <2> QED
    BY <2>1, <2>2
<1>4. ASSUME NEW i \in Handlers \ {h} PROVE PushInv(i)'
  <2>1. /\ hpc'[i] = hpc[i] /\ hon'[i] = hon[i] /\ mailed \subseteq mailed'
        /\ hon[i] \in Links \cup {None}
        /\ hon[i] = l => l \in late
    BY <1>0, <1>1, <1>2 DEF DeliveryInv, PushedOnce
  <2> QED
    BY <1>0, <1>2, <1>3, <2>1 DEF PushInv, Delivered
<1>5. PushInv(h)'
  <2>1. hpc'[h] \in {"sending", "activating", "answering", "invalidating"}
          => link'[l] # None
    <3>1. CASE Issue(h)
      <4>1. hpc'[h] = "sending" => (UNCHANGED link /\ link[l] # None) \/ Issued(l)
        BY <1>0, <3>1 DEF Issue, Issued, Nack, Goto
      <4>2. hpc'[h] \in {"idle", "sending"}
        BY <1>0, <3>1 DEF Issue, Nack, Goto
      <4> QED
        BY <1>1, <4>1, <4>2, LinkWrites
    <3>2. CASE ~Issue(h)
      <4>1. link[l] # None \/ hpc'[h] = "idle"
        BY <1>0, <3>2
        DEF HandlerStep, Send, Activate, Answer, Invalidate, Crash, PushInv, Nack, Goto
      <4> QED
        BY <1>1, <1>3, <4>1
    <3> QED
      BY <3>1, <3>2
  <2>2. hpc'[h] \in {"activating", "answering"} => l \in mailed'
    BY <1>0, <1>1
    DEF HandlerStep, Issue, Send, Activate, Answer, Invalidate, Crash, Nack, Goto,
        PushInv
  <2>3. hpc'[h] = "answering" => TurnedOn(l)
    <3>1. hpc'[h] = "answering" => link' = Activated(l) /\ hpc[h] = "activating"
      BY <1>0
      DEF HandlerStep, Issue, Send, Activate, Answer, Invalidate, Crash, Nack, Goto
    <3> QED
      BY <1>0, <3>1 DEF PushInv, Activated, TurnedOn, On
  <2>4. hpc'[h] = "answering" 
           => link'[l] # None /\ link'[l].active /\ ~link'[l].disabled
    BY <1>1, <2>3, LinkWrites
  <2> QED
    BY <1>0, <1>1, <1>2, <2>1, <2>2, <2>4 DEF PushInv, Delivered
<1>6. PushedOnce'
  BY <1>0, <1>2 DEF DeliveryInv, PushedOnce
<1>7. ASSUME NEW k \in Links PROVE ActiveWasMailed(k)'
  <2>1. CASE k # l
    BY <1>0, <1>2, <1>3, <2>1 DEF LinkInv, ActiveWasMailed
  <2>2. CASE k = l /\ UNCHANGED link
    BY <1>0, <1>2, <2>2 DEF LinkInv, ActiveWasMailed
  <2>3. CASE k = l /\ (Issued(l) \/ TurnedOff(l))
    BY <1>1, <2>3, LinkWrites DEF ActiveWasMailed
  <2>4. CASE k = l /\ Activate(h)
    BY <1>0, <1>2, <2>4 DEF Activate, PushInv, ActiveWasMailed
  <2> QED
    BY <1>3, <2>1, <2>2, <2>3, <2>4
<1>8. ASSUME NEW k \in Links PROVE AckedIsSettled(k)'
  <2>1. /\ \A m \in Links \ {l} : message'[m] = message[m]
        /\ message'[l] = message[l] \/ (Answer(h) /\ hon'[h] = None)
    BY <1>0, <1>1
    DEF HandlerStep, Issue, Send, Activate, Answer, Invalidate, Crash, Nack
  <2>2. Working(l) /\ (Working(k)' => Working(k))
    BY <1>0, <1>1, <1>2 DEF Working
  <2>3. CASE message'[k] = message[k]
    BY <1>0, <1>2, <1>3, <2>2, <2>3 DEF LinkInv, AckedIsSettled, Delivered
  <2>4. CASE k = l /\ Answer(h) /\ hon'[h] = None
    <3>1. k \notin late => ~Working(k)'
      BY <1>0, <1>1, <1>2, <2>4 DEF DeliveryInv, PushedOnce, Working
    <3>2. k \notin late => Delivered(k)'
      BY <1>0, <1>1, <2>4 DEF Answer, PushInv, Delivered
    <3> QED
      BY <1>2, <3>1, <3>2 DEF AckedIsSettled
  <2> QED
    BY <2>1, <2>3, <2>4
<1> QED
  BY <1>4, <1>5, <1>6, <1>7, <1>8 DEF DeliveryInv, LinkInv

\* A page changes nothing of a delivery but that its link is consumed.
LEMMA PageDelivery ==
  ASSUME TypeOK, DeliveryInv, NEW t \in Tabs,
         \/ IssueCode(t) \/ Refused(t) \/ SignOut(t)
         \/ \E l \in Links : Consume(t, l)
         \/ \E k \in Tabs : Exchange(t, k)
  PROVE  DeliveryInv'
<1>1. /\ UNCHANGED <<message, mailed, expired, hpc, hon, late, approved, email>>
      /\ UNCHANGED link \/ \E l \in Links : Spent(l)
  BY DEF IssueCode, Refused, SignOut, Consume, Exchange, requests, handlers, Usable,
         Spent, Used
<1>2. \A k \in Links : /\ link[k] # None <=> link'[k] # None
                       /\ link[k] # None => /\ link'[k].active = link[k].active
                                            /\ link'[k].disabled = link[k].disabled
  <2>1. CASE UNCHANGED link
    BY <2>1
  <2>2. ASSUME NEW l \in Links, Spent(l)
        PROVE  /\ link'[l] # None /\ link[l] # None
               /\ link'[l].active = link[l].active
               /\ link'[l].disabled = link[l].disabled
               /\ \A k \in Links \ {l} : link'[k] = link[k]
    BY <2>2, LinkWrites DEF Spent
  <2> QED
    BY <1>1, <2>1, <2>2
<1>3. \A h \in Handlers : hpc[h] # "idle" => hon[h] \in Links
  BY DEF TypeOK, DeliveryInv, PushInv
<1> QED
  BY <1>1, <1>2, <1>3
  DEF DeliveryInv, PushInv, PushedOnce, LinkInv, ActiveWasMailed, AckedIsSettled,
      Delivered, Working

LEMMA DeliveryStep == TypeOK /\ DeliveryInv /\ [Next]_vars => DeliveryInv'
BY RequestStep, PushStep, WorkStep, PageDelivery DEF Next
----------------------------------------------------------------------------
(***************************************************************************)
(* The login that a link allows.                                           *)
(***************************************************************************)
LEMMA LoginInit == Init => LoginInv
BY DEF Init, LoginInv, PageInv, OneHolder, HasLogin

\* A link that was consumed stays so, whatever is delivered later.
LEMMA ConsumedStays ==
  ASSUME TypeOK, DeliveryInv, [Next]_vars, NEW l \in Links,
         link[l] # None, link[l].consumed
  PROVE  link'[l] # None /\ link'[l].consumed
<1>1. \/ UNCHANGED link
      \/ \E k \in Links : Issued(k) \/ TurnedOn(k) \/ TurnedOff(k) \/ Spent(k)
  <2>1. ASSUME NEW h \in Handlers, HandlerStep(h)
        PROVE  \/ UNCHANGED link
               \/ \E k \in Links : Issued(k) \/ TurnedOn(k) \/ TurnedOff(k)
    BY <2>1, PushWrites
  <2>2. ASSUME NEW t \in Tabs, NEW k \in Links, Consume(t, k)
        PROVE  UNCHANGED link \/ Spent(k)
    BY <2>2 DEF Consume, Usable, Spent, Used
  <2>3. ASSUME ~\E h \in Handlers : HandlerStep(h),
               ~\E t \in Tabs : \E k \in Links : Consume(t, k)
        PROVE  UNCHANGED link
    BY <2>3
    DEF Next, Reserve, Publish, Expires, NextWindow, Disapprove, Crash, Push,
        IssueCode, Refused, SignOut, Exchange, vars, handlers, pages, requests
  <2> QED
    BY <2>1, <2>2, <2>3
<1> QED
  BY <1>1, LinkWrites

LEMMA OtherSteps ==
  ASSUME TypeOK, DeliveryInv, LoginInv, [Next]_vars, UNCHANGED pages
  PROVE  LoginInv'
<1>1. ASSUME NEW t \in Tabs PROVE PageInv(t)'
  <2>1. PageInv(t) /\ UNCHANGED <<tpc, ton, codes>>
    BY DEF LoginInv, pages
  <2>2. HasLogin(t) => link'[ton[t]] # None /\ link'[ton[t]].consumed
    BY <2>1, ConsumedStays DEF PageInv
  <2> QED
    BY <2>1, <2>2 DEF PageInv, HasLogin
<1> QED
  BY <1>1 DEF LoginInv, OneHolder, HasLogin, pages

LEMMA PageLogin ==
  ASSUME TypeOK, DeliveryInv, LoginInv, [Next]_vars, NEW t \in Tabs,
         \/ IssueCode(t) \/ Refused(t) \/ SignOut(t)
         \/ \E l \in Links : Consume(t, l)
         \/ \E k \in Tabs : Exchange(t, k)
  PROVE  LoginInv'
<1>0. /\ tpc = [u \in Tabs |-> tpc[u]] /\ ton = [u \in Tabs |-> ton[u]]
      /\ codes \subseteq Tabs /\ \A u \in Tabs : PageInv(u)
  BY DEF TypeOK, LoginInv
<1>1. ASSUME NEW l \in Links, link[l] # None, link[l].consumed
      PROVE  link'[l] # None /\ link'[l].consumed
  BY <1>1, ConsumedStays
<1>2. ASSUME \A u \in Tabs : HasLogin(u)' => HasLogin(u) /\ ton'[u] = ton[u],
             \A u \in Tabs : u \in codes' => tpc'[u] = "code"
      PROVE  LoginInv'
  BY <1>0, <1>1, <1>2 DEF LoginInv, PageInv, OneHolder
<1>3. CASE IssueCode(t) \/ Refused(t) \/ SignOut(t)
  BY <1>0, <1>2, <1>3
  DEF IssueCode, Refused, SignOut, GotoTab, HasLogin, PageInv, pages
<1>4. ASSUME NEW l \in Links, Consume(t, l) PROVE LoginInv'
  <2>1. CASE UNCHANGED pages
    BY <2>1, OtherSteps
  <2>2. CASE Spent(l) /\ GotoTab(t, "consumed") /\ ton' = [ton EXCEPT ![t] = l]
    <3>1. ~link[l].consumed /\ UNCHANGED codes /\ tpc[t] = "idle"
      BY <1>0, <1>4, <2>2 DEF Consume, Usable, GotoTab
    <3>2. /\ tpc'[t] = "consumed" /\ ton'[t] = l
          /\ \A u \in Tabs \ {t} : tpc'[u] = tpc[u] /\ ton'[u] = ton[u]
      BY <1>0, <2>2 DEF GotoTab
    <3>3. link'[l] # None /\ link'[l].consumed
      BY <2>2, LinkWrites
    <3>4. ASSUME NEW u \in Tabs PROVE PageInv(u)'
      BY <1>0, <1>1, <3>1, <3>2, <3>3 DEF PageInv, HasLogin
    <3>5. \A u \in Tabs \ {t} : HasLogin(u) => ton[u] # l
      BY <1>0, <3>1 DEF PageInv
    <3>6. OneHolder'
      BY <3>1, <3>2, <3>5 DEF LoginInv, OneHolder, HasLogin
    <3> QED
      BY <3>4, <3>6 DEF LoginInv
  <2> QED
    BY <1>4, <2>1, <2>2 DEF Consume, Usable, Spent, Used, pages
<1>5. ASSUME NEW k \in Tabs, Exchange(t, k) PROVE LoginInv'
  <2>1. /\ k \in codes /\ codes' = codes \ {k} /\ HasLogin(k) /\ tpc[k] = "code"
        /\ tpc[t] = "idle" \/ t = k
        /\ UNCHANGED link /\ t \notin codes'
    BY <1>0, <1>5 DEF Exchange, HasLogin, PageInv
  <2>2. CASE GotoTab(t, "done") /\ UNCHANGED ton
    BY <1>0, <1>2, <2>1, <2>2 DEF GotoTab, HasLogin, PageInv
  <2>3. CASE GotoTab(t, "signed_in") /\ ton' = [ton EXCEPT ![t] = ton[k]]
    <3>1. /\ tpc'[t] = "signed_in" /\ ton'[t] = ton[k]
          /\ \A u \in Tabs \ {t} : tpc'[u] = tpc[u] /\ ton'[u] = ton[u]
      BY <1>0, <2>3 DEF GotoTab
    <3>2. \A u \in Tabs \ {t} : HasLogin(u)' => HasLogin(u) /\ u # k
      BY <2>1, <3>1 DEF HasLogin
    <3>3. ASSUME NEW u \in Tabs PROVE PageInv(u)'
      BY <1>0, <2>1, <3>1, <3>2 DEF PageInv
    <3>4. OneHolder'
      BY <2>1, <3>1, <3>2 DEF LoginInv, OneHolder
    <3> QED
      BY <3>3, <3>4 DEF LoginInv
  <2> QED
    BY <1>5, <2>2, <2>3 DEF Exchange
<1> QED
  BY <1>3, <1>4, <1>5

LEMMA LoginStep == SignInInv /\ [Next]_vars => LoginInv'
<1> SUFFICES ASSUME SignInInv, [Next]_vars PROVE LoginInv'
  OBVIOUS
<1>1. \/ UNCHANGED pages
      \/ \E t \in Tabs : \/ IssueCode(t) \/ Refused(t) \/ SignOut(t)
                         \/ \E l \in Links : Consume(t, l)
                         \/ \E k \in Tabs : Exchange(t, k)
  BY DEF Next, Reserve, Publish, Expires, NextWindow, Disapprove, Push, Crash,
         HandlerStep, Issue, Send, Activate, Answer, Invalidate, vars
<1> QED
  BY <1>1, OtherSteps, PageLogin DEF SignInInv
----------------------------------------------------------------------------
(***************************************************************************)
(* The theorems.                                                           *)
(***************************************************************************)

\* The inductive invariant: what a push has done to its link, and who holds the
\* login of a link (the routes of control_plane.py).
THEOREM Invariance == Spec => []SignInInv
<1>1. Init => SignInInv
  BY TypeInit, DeliveryInit, LoginInit DEF SignInInv
<1>2. SignInInv /\ [Next]_vars => SignInInv'
  BY TypeStep, DeliveryStep, LoginStep DEF SignInInv
<1> QED
  BY <1>1, <1>2, PTL DEF Spec

\* Every variable keeps its type, whatever is pushed, followed or lost.
THEOREM TypeCorrect == Spec => []TypeOK
<1>1. SignInInv => TypeOK
  BY DEF SignInInv
<1> QED
  BY <1>1, Invariance, PTL

\* A set of which any two members are equal has one at most.
LEMMA AtMostOne ==
  ASSUME NEW S, \A x, y \in S : x = y
  PROVE  Cardinality(S) <= 1
<1>1. CASE S = {}
  BY <1>1, FS_EmptySet
<1>2. ASSUME NEW x \in S PROVE Cardinality(S) <= 1
  <2>1. S = {x}
    BY <1>2
  <2> QED
    BY <2>1, FS_Singleton
<1> QED
  BY <1>1, <1>2

\* A link signs in one page at most, however often it is delivered, followed or
\* its code presented (issue, consume, exchange_code).
THEOREM OneLogin == Spec => []OneLoginPerLink
<1>1. SignInInv => OneLoginPerLink
  <2> SUFFICES ASSUME SignInInv, NEW l \in Links
               PROVE  Cardinality({t \in Tabs : /\ ton[t] = l
                        /\ tpc[t] \in {"signed_in", "signed_out"}}) <= 1
    BY DEF OneLoginPerLink
  <2> DEFINE S == {t \in Tabs : /\ ton[t] = l
                                /\ tpc[t] \in {"signed_in", "signed_out"}}
  <2>1. \A t, u \in S : t = u
    BY DEF SignInInv, LoginInv, OneHolder, HasLogin
  <2> HIDE DEF S
  <2>2. Cardinality(S) <= 1
    BY <2>1, AtMostOne
  <2> QED
    BY <2>2 DEF S
<1> QED
  BY <1>1, Invariance, PTL

\* A link can be used only once its mail was accepted (deliver_magic_link).
THEOREM MailedBeforeUse == Spec => []UsableWasMailed
<1>1. SignInInv => UsableWasMailed
  BY DEF SignInInv, DeliveryInv, LinkInv, ActiveWasMailed, UsableWasMailed, Usable
<1> QED
  BY <1>1, Invariance, PTL

\* When nothing is left to push, a link that was pushed by one push at a time
\* works, was used, is too old or is for nobody (deliver_magic_link).
THEOREM SettledWorks == Spec => []SettledLinkWorks
<1>1. SignInInv => SettledLinkWorks
  BY DEF SignInInv, DeliveryInv, LinkInv, AckedIsSettled, Delivered,
         SettledLinkWorks, Usable
<1> QED
  BY <1>1, Invariance, PTL
=============================================================================
