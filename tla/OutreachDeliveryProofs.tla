----------------------- MODULE OutreachDeliveryProofs -----------------------
(***************************************************************************)
(* Outreach for any number of providers, addresses, requests and messages. *)
(***************************************************************************)
EXTENDS OutreachDelivery, TLAPS

USE NoneAssumption, EmailAssumption, OfferedAssumption, BoundsAssumption

RequestState ==
  [pc : PCs, op : Ops, bulk : BOOLEAN,
   todo : SUBSET (Messages \cup Providers),
   msg : Messages \cup {None}, to : Emails \cup {None},
   status : Statuses, arg : Emails \cup {None}, change : Changes,
   writes : SUBSET (Messages \X Changes), before : SUBSET Emails]

\* What RequestInv asks of one request, apart from what it has mailed and
\* flushed.
PlaceOK(q) ==
  /\ q.pc \in {"list", "insert"} => q.todo \subseteq Providers
  /\ q.pc \in {"read", "suppression", "smtp", "flush"}
       => q.todo \subseteq Messages
  /\ q.pc \in {"suppression", "smtp", "flush"}
       => q.msg \in Messages /\ status[q.msg] # "none"
  /\ q.before \subseteq suppressed
  /\ q.pc = "smtp" => q.to \notin q.before \cup {None}

\* A slot changes to a state of a request and the others keep theirs.
LEMMA SlotTyped ==
  ASSUME TypeOK, NEW r \in Requests, NEW q \in RequestState,
         req' = [req EXCEPT ![r] = q]
  PROVE  /\ req' \in [Requests -> RequestState]
         /\ req'[r] = q
         /\ \A s \in Requests : s # r => req'[s] = req[s]
  BY DEF TypeOK, RequestState

\* The empty slot is a request state that knows nothing.
LEMMA IdleTyped ==
  /\ Idle \in RequestState
  /\ Idle.pc = "idle" /\ Idle.op = "create" /\ Idle.bulk = FALSE
  /\ Idle.todo = {} /\ Idle.msg = None /\ Idle.to = None
  /\ Idle.status = "none" /\ Idle.arg = None /\ Idle.change = "none"
  /\ Idle.writes = {} /\ Idle.before = {}
  BY DEF Idle, RequestState, PCs, Ops, Statuses, Changes

\* The end of a transaction frees its rows and no others.
LEMMA ReleaseTyped ==
  ASSUME TypeOK, NEW r \in Requests, Release(r)
  PROVE  /\ lock' \in [Messages -> Requests \cup {None}]
         /\ \A m \in Messages : lock'[m] # r
         /\ \A m \in Messages : lock[m] # r => lock'[m] = lock[m]
         /\ \A m \in Messages : lock'[m] # None => lock'[m] = lock[m]
  BY DEF TypeOK, Release

\* What a request has flushed stays protected in every step that keeps the
\* statuses of deleted rows, the mails and the locks of the request.
LEMMA WritesStay ==
  ASSUME OutreachInv, NEW s \in Requests,
         mails \subseteq mails',
         \A m \in Messages : lock[m] = s => lock'[m] = s,
         \A m \in Messages : status[m] = "deleted" => status'[m] = "deleted",
         NEW w \in req[s].writes
  PROVE  WriteOK(s, w)'
<1>1. WriteOK(s, w) /\ w[1] \in Messages
  BY DEF OutreachInv, RequestInv, TypeOK
<1>2. QED
  BY <1>1 DEF WriteOK, Mailed

\* A step that sends no mail keeps what holds of the mails.
LEMMA MailsStay ==
  ASSUME OutreachInv, mails' = mails
  PROVE  mails' \in SUBSET Mails /\ mails \subseteq mails' /\ NoUnwantedMail'
  BY DEF OutreachInv, TypeOK, NoUnwantedMail

\* Who had unsubscribed when a request began is on the list.
LEMMA BeforeIsListed ==
  ASSUME OutreachInv, NEW r \in Requests
  PROVE  req[r].before \subseteq suppressed
  BY DEF OutreachInv, RequestInv

-----------------------------------------------------------------------------
(* Steps that write no row and take no lock.                               *)

\* A request that moves on, having read or mailed, keeps the invariant.
LEMMA QuietStep ==
  ASSUME OutreachInv, NEW r \in Requests, NEW q \in RequestState,
         req' = [req EXCEPT ![r] = q],
         UNCHANGED <<rowVars, suppressed, lock>>,
         mails' \in SUBSET Mails, mails \subseteq mails', NoUnwantedMail',
         PlaceOK(q),
         q.pc = "flush" /\ q.change = "sent" => Mailed(q.msg)',
         q.writes \subseteq req[r].writes
  PROVE  OutreachInv'
<1>1. /\ req' \in [Requests -> RequestState]
      /\ req'[r] = q
      /\ \A s \in Requests : s # r => req'[s] = req[s]
  BY SlotTyped DEF OutreachInv
<1>2. TypeOK'
  BY <1>1 DEF OutreachInv, TypeOK, RequestState, rowVars
<1>3. VersionsInv' /\ LockInv'
  BY DEF OutreachInv, VersionsInv, LockInv, Used, Live, rowVars
<1>4. SentWasMailed'
  BY DEF OutreachInv, SentWasMailed, rowVars
<1>5. RequestInv'
  <2>1. \A s \in Requests : \A w \in req[s].writes : WriteOK(s, w)'
    BY WritesStay DEF rowVars
  <2>2. \A s \in Requests : \A w \in req'[s].writes : WriteOK(s, w)'
    BY <1>1, <2>1
  <2>3. status' = status
    BY DEF rowVars
  <2>4. \A s \in Requests : s # r /\ req[s].pc = "flush" /\ req[s].change = "sent"
          => Mailed(req[s].msg)'
    BY DEF OutreachInv, RequestInv, Mailed
  <2>5. ASSUME NEW s \in Requests
        PROVE  /\ req'[s].pc \in {"list", "insert"} => req'[s].todo \subseteq Providers
               /\ req'[s].pc \in {"read", "suppression", "smtp", "flush"}
                    => req'[s].todo \subseteq Messages
               /\ req'[s].pc \in {"suppression", "smtp", "flush"}
                    => req'[s].msg \in Messages /\ status'[req'[s].msg] # "none"
               /\ req'[s].before \subseteq suppressed'
               /\ req'[s].pc = "smtp" => req'[s].to \notin req'[s].before \cup {None}
    BY <1>1, <2>3 DEF OutreachInv, RequestInv, PlaceOK
  <2>6. ASSUME NEW s \in Requests, req'[s].pc = "flush", req'[s].change = "sent"
        PROVE  Mailed(req[s].msg)'
    <3>1. CASE s = r
      BY <1>1, <2>6, <3>1 DEF Mailed
    <3>2. CASE s # r
      BY <1>1, <2>4, <2>6, <3>2 DEF Mailed
    <3>3. QED
      BY <3>1, <3>2
  <2>7. QED
    BY <2>2, <2>5, <2>6 DEF RequestInv
<1>6. QED
  BY <1>2, <1>3, <1>4, <1>5 DEF OutreachInv

\* A request that ends without having locked anything.
LEMMA EarlyEndInv ==
  ASSUME OutreachInv, NEW r \in Requests, End(r),
         UNCHANGED <<rowVars, suppressed, mails, lock>>
  PROVE  OutreachInv'
<1>1. mails' \in SUBSET Mails /\ mails \subseteq mails' /\ NoUnwantedMail'
  BY MailsStay
<1>2. PlaceOK(Idle)
  BY IdleTyped DEF PlaceOK
<1>3. QED
  BY <1>1, <1>2, IdleTyped, QuietStep DEF End

\* A request that moves on to a place where it may be with what it knows.
LEMMA MoveInv ==
  ASSUME OutreachInv, NEW r \in Requests, NEW l \in PCs, Go(r, l),
         UNCHANGED <<rowVars, suppressed, mails, lock>>,
         l # "flush",
         PlaceOK([req[r] EXCEPT !.pc = l])
  PROVE  OutreachInv'
<1> DEFINE q == [req[r] EXCEPT !.pc = l]
<1>1. req[r] \in RequestState
  BY DEF OutreachInv, TypeOK, RequestState
<1>2. q \in RequestState /\ q.pc = l /\ q.writes = req[r].writes
  BY <1>1 DEF RequestState
<1>3. mails' \in SUBSET Mails /\ mails \subseteq mails' /\ NoUnwantedMail'
  BY MailsStay
<1>4. req' = [req EXCEPT ![r] = q]
  BY DEF Go
<1>5. PlaceOK(q)
  OBVIOUS
<1> HIDE DEF q
<1>6. QED
  BY <1>2, <1>3, <1>4, <1>5, QuietStep

\* A request of a lead that is created or gets a draft begins.
LEMMA BeginDraftInv ==
  ASSUME OutreachInv, NEW r \in Requests,
         BeginCreate(r) \/ \E p \in Providers : BeginAdd(r, p)
  PROVE  OutreachInv'
<1>1. UNCHANGED <<rowVars, suppressed, mails, lock>>
  BY DEF BeginCreate, BeginAdd
<1>2. mails' \in SUBSET Mails /\ mails \subseteq mails' /\ NoUnwantedMail'
  BY <1>1, MailsStay
<1>3. CASE BeginCreate(r)
  <2> DEFINE q == [Idle EXCEPT !.pc = "match", !.op = "create"]
  <2>1. /\ q \in RequestState /\ q.pc = "match" /\ q.writes = {}
        /\ q.before = {}
    BY IdleTyped DEF RequestState, PCs, Ops
  <2>2. req' = [req EXCEPT ![r] = q]
    BY <1>3 DEF BeginCreate
  <2> HIDE DEF q
  <2>3. PlaceOK(q)
    BY <2>1 DEF PlaceOK
  <2>4. QED
    BY <1>1, <1>2, <2>1, <2>2, <2>3, QuietStep
<1>4. CASE \E p \in Providers : BeginAdd(r, p)
  <2>1. PICK p \in Providers : BeginAdd(r, p)
    BY <1>4
  <2> DEFINE q == [Idle EXCEPT !.pc = "list", !.op = "add", !.todo = {p}]
  <2>2. /\ q \in RequestState /\ q.pc = "list" /\ q.todo = {p}
        /\ q.writes = {} /\ q.before = {}
    BY IdleTyped DEF RequestState, PCs, Ops
  <2>3. req' = [req EXCEPT ![r] = q]
    BY <2>1 DEF BeginAdd
  <2> HIDE DEF q
  <2>4. PlaceOK(q)
    BY <2>2 DEF PlaceOK
  <2>5. QED
    BY <1>1, <1>2, <2>2, <2>3, <2>4, QuietStep
<1>5. QED
  BY <1>3, <1>4

\* A request on messages begins, with messages it has seen.
LEMMA BeginInv ==
  ASSUME OutreachInv, NEW r \in Requests, NEW op \in Ops, NEW bulk \in BOOLEAN,
         NEW S \in SUBSET Messages, NEW a \in Emails \cup {None},
         Begin(r, op, bulk, S, a)
  PROVE  OutreachInv'
<1> DEFINE b == IF op = "send" THEN suppressed ELSE {}
           q == [Idle EXCEPT !.pc = "read", !.op = op, !.bulk = bulk, !.todo = S,
                             !.arg = a, !.before = b]
<1>1. mails' \in SUBSET Mails /\ mails \subseteq mails' /\ NoUnwantedMail'
  BY MailsStay DEF Begin
<1>2. b \in SUBSET Emails /\ b \subseteq suppressed
  BY DEF OutreachInv, TypeOK
<1>3. req' = [req EXCEPT ![r] = q]
  BY DEF Begin
<1> HIDE DEF b
<1>4. /\ q \in RequestState /\ q.pc = "read" /\ q.todo = S
      /\ q.writes = {} /\ q.before = b
  BY <1>2, IdleTyped DEF RequestState, PCs
<1> HIDE DEF q
<1>5. PlaceOK(q)
  BY <1>2, <1>4 DEF PlaceOK
<1>6. QED
  BY <1>1, <1>3, <1>4, <1>5, QuietStep DEF Begin

\* Whatever request begins.
LEMMA StartInv ==
  ASSUME OutreachInv, NEW r \in Requests, Start(r)
  PROVE  OutreachInv'
<1>1. CASE BeginCreate(r) \/ \E p \in Providers : BeginAdd(r, p)
  BY <1>1, BeginDraftInv
<1>2. ASSUME NEW m \in Messages, NEW a \in Emails, BeginEdit(r, m, a)
      PROVE  OutreachInv'
  BY <1>2, BeginInv DEF BeginEdit, Ops
<1>3. ASSUME NEW m \in Messages, NEW op \in Ops, BeginOne(r, op, m)
      PROVE  OutreachInv'
  BY <1>3, BeginInv DEF BeginOne
<1>4. ASSUME NEW S \in SUBSET Messages, NEW op \in Ops, BeginBulk(r, op, S)
      PROVE  OutreachInv'
  BY <1>4, BeginInv DEF BeginBulk
<1>5. QED
  BY <1>1, <1>2, <1>3, <1>4 DEF Start

\* match_providers chooses providers.
LEMMA MatchInv ==
  ASSUME OutreachInv, NEW r \in Requests, Match(r)
  PROVE  OutreachInv'
<1>1. PICK S \in SUBSET Providers :
        req' = [req EXCEPT ![r].pc = "insert", ![r].todo = S]
  BY DEF Match
<1> DEFINE q == [req[r] EXCEPT !.pc = "insert", !.todo = S]
<1>2. req[r] \in RequestState
  BY DEF OutreachInv, TypeOK, RequestState
<1>3. /\ q \in RequestState /\ q.pc = "insert" /\ q.todo = S
      /\ q.writes = req[r].writes /\ q.before = req[r].before
  BY <1>2 DEF RequestState, PCs
<1>4. req' = [req EXCEPT ![r] = q]
  BY <1>1
<1> HIDE DEF q
<1>5. PlaceOK(q)
  BY <1>3, BeforeIsListed DEF PlaceOK
<1>6. UNCHANGED <<rowVars, suppressed, mails, lock>>
  BY DEF Match
<1>7. mails' \in SUBSET Mails /\ mails \subseteq mails' /\ NoUnwantedMail'
  BY <1>6, MailsStay
<1>8. QED
  BY <1>3, <1>4, <1>5, <1>6, <1>7, QuietStep

\* add_draft looks at the messages of the lead.
LEMMA ListInv ==
  ASSUME OutreachInv, NEW r \in Requests, ListMessages(r)
  PROVE  OutreachInv'
<1>1. /\ req[r].pc = "list"
      /\ End(r) \/ Go(r, "insert")
      /\ UNCHANGED <<rowVars, suppressed, mails, lock>>
  BY DEF ListMessages
<1>2. CASE End(r)
  BY <1>1, <1>2, EarlyEndInv
<1>3. CASE Go(r, "insert")
  <2>1. req[r].pc = "list" /\ req[r].todo \subseteq Providers
    BY DEF ListMessages, OutreachInv, RequestInv
  <2>2. req[r] \in RequestState
    BY DEF OutreachInv, TypeOK, RequestState
  <2>3. PlaceOK([req[r] EXCEPT !.pc = "insert"])
    BY <2>1, <2>2, BeforeIsListed DEF PlaceOK, RequestState
  <2>4. QED
    BY <1>1, <1>3, <2>3, MoveInv DEF PCs
<1>4. QED
  BY <1>1, <1>2, <1>3

\* A request that is done with a message reads the next, or commits.
LEMMA FinishTyped ==
  ASSUME NEW r \in Requests, NEW q \in RequestState, NEW m,
         q.todo \subseteq Messages, Finish(r, q, m)
  PROVE  \E z \in RequestState :
           /\ req' = [req EXCEPT ![r] = z]
           /\ z.pc \in {"commit", "read"}
           /\ z.todo \subseteq Messages
           /\ z.writes = q.writes /\ z.before = q.before
<1> DEFINE S == q.todo \ {m}
           l == IF S = {} THEN "commit" ELSE "read"
           z == [q EXCEPT !.todo = S, !.msg = None, !.to = None,
                          !.status = "none", !.change = "none", !.pc = l]
<1>1. z = [q EXCEPT !.todo = @ \ {m}, !.msg = None, !.to = None,
                    !.status = "none", !.change = "none",
                    !.pc = IF q.todo \ {m} = {} THEN "commit" ELSE "read"]
  OBVIOUS
<1>2. req' = [req EXCEPT ![r] = z]
  BY <1>1 DEF Finish
<1>3. /\ S \in SUBSET Messages /\ S \in SUBSET (Messages \cup Providers)
      /\ l \in {"commit", "read"}
      /\ l \in PCs /\ "none" \in Statuses /\ "none" \in Changes
  BY DEF PCs, Statuses, Changes
<1> HIDE DEF S, l
<1>4. /\ z \in RequestState /\ z.pc = l /\ z.todo = S
      /\ z.writes = q.writes /\ z.before = q.before
  BY <1>3 DEF RequestState
<1> HIDE DEF z
<1>5. QED
  BY <1>2, <1>3, <1>4

\* An item that is refused ends a single request and one item of a bulk.
LEMMA RefuseInv ==
  ASSUME OutreachInv, NEW r \in Requests, NEW m, Refuse(r, m),
         req[r].pc \in {"read", "suppression"},
         UNCHANGED <<rowVars, suppressed, mails, lock>>
  PROVE  OutreachInv'
<1>1. CASE End(r)
  BY <1>1, EarlyEndInv
<1>2. CASE Finish(r, req[r], m)
  <2>1. req[r] \in RequestState /\ req[r].todo \subseteq Messages
    BY DEF OutreachInv, TypeOK, RequestState, RequestInv
  <2>2. PICK z \in RequestState :
          /\ req' = [req EXCEPT ![r] = z]
          /\ z.pc \in {"commit", "read"}
          /\ z.todo \subseteq Messages
          /\ z.writes = req[r].writes /\ z.before = req[r].before
    BY <1>2, <2>1, FinishTyped
  <2>3. PlaceOK(z)
    BY <2>2, BeforeIsListed DEF PlaceOK
  <2>4. mails' \in SUBSET Mails /\ mails \subseteq mails' /\ NoUnwantedMail'
    BY MailsStay
  <2>5. QED
    BY <2>2, <2>3, <2>4, QuietStep
<1>3. QED
  BY <1>1, <1>2 DEF Refuse

\* _get_outreach reads a message that exists.
LEMMA ReadInv ==
  ASSUME OutreachInv, NEW r \in Requests, Read(r)
  PROVE  OutreachInv'
<1>1. /\ req[r].pc = "read" /\ req[r].todo \subseteq Messages
      /\ req[r] \in RequestState
      /\ UNCHANGED <<rowVars, suppressed, mails, lock>>
  BY DEF Read, OutreachInv, RequestInv, TypeOK, RequestState
<1>2. PICK m \in req[r].todo :
        IF Live(m) /\ Editable(req[r].op, status[m])
        THEN req' = [req EXCEPT
               ![r].msg = m, ![r].to = to[m], ![r].status = status[m],
               ![r].pc = IF req[r].op = "send" THEN "suppression" ELSE "flush",
               ![r].change = Assigned(req[r].op, req[r].arg # to[m])]
        ELSE Refuse(r, m)
  BY DEF Read
<1>3. CASE Refuse(r, m)
  BY <1>1, <1>3, RefuseInv
<1>4. CASE /\ Live(m)
           /\ req' = [req EXCEPT
               ![r].msg = m, ![r].to = to[m], ![r].status = status[m],
               ![r].pc = IF req[r].op = "send" THEN "suppression" ELSE "flush",
               ![r].change = Assigned(req[r].op, req[r].arg # to[m])]
  <2> DEFINE l == IF req[r].op = "send" THEN "suppression" ELSE "flush"
             c == Assigned(req[r].op, req[r].arg # to[m])
             q == [req[r] EXCEPT !.msg = m, !.to = to[m], !.status = status[m],
                                 !.pc = l, !.change = c]
  <2>1. /\ m \in Messages /\ to[m] \in Emails \cup {None}
        /\ status[m] \in Statuses /\ status[m] # "none"
    BY <1>1, <1>4 DEF OutreachInv, TypeOK, Live
  <2>2. c \in {"skipped", "deleted", "edited", "none"}
    BY DEF Assigned
  <2>3. l \in {"suppression", "flush"} /\ l \in PCs /\ c \in Changes /\ c # "sent"
    BY <2>2 DEF PCs, Changes
  <2>4. req' = [req EXCEPT ![r] = q]
    BY <1>4
  <2> HIDE DEF l, c
  <2>5. /\ q \in RequestState /\ q.pc = l /\ q.msg = m /\ q.change = c
        /\ q.todo = req[r].todo /\ q.writes = req[r].writes
        /\ q.before = req[r].before
    BY <1>1, <2>1, <2>3 DEF RequestState
  <2> HIDE DEF q
  <2>6. PlaceOK(q)
    BY <1>1, <2>1, <2>3, <2>5, BeforeIsListed DEF PlaceOK
  <2>7. mails' \in SUBSET Mails /\ mails \subseteq mails' /\ NoUnwantedMail'
    BY <1>1, MailsStay
  <2>8. QED
    BY <1>1, <2>3, <2>4, <2>5, <2>6, <2>7, QuietStep
<1>5. QED
  BY <1>2, <1>3, <1>4

\* Only an address goes on to the mail server.
LEMMA CheckSuppressionInv ==
  ASSUME OutreachInv, NEW r \in Requests, CheckSuppression(r)
  PROVE  OutreachInv'
<1>1. /\ req[r].pc = "suppression" /\ req[r] \in RequestState
      /\ req[r].todo \subseteq Messages /\ req[r].msg \in Messages
      /\ status[req[r].msg] # "none"
      /\ UNCHANGED <<rowVars, suppressed, mails, lock>>
  BY DEF CheckSuppression, OutreachInv, RequestInv, TypeOK, RequestState
<1>2. CASE MayMail(r) /\ Go(r, "smtp")
  <2>1. req[r].to \notin req[r].before \cup {None}
    BY <1>2, BeforeIsListed DEF MayMail
  <2>2. PlaceOK([req[r] EXCEPT !.pc = "smtp"])
    BY <1>1, <2>1, BeforeIsListed DEF PlaceOK, RequestState
  <2>3. QED
    BY <1>1, <1>2, <2>2, MoveInv DEF PCs
<1>3. CASE Refuse(r, req[r].msg)
  BY <1>1, <1>3, RefuseInv
<1>4. QED
  BY <1>2, <1>3 DEF CheckSuppression

\* What the server accepts is one more mail of the message.
LEMMA AcceptTyped ==
  ASSUME OutreachInv, NEW r \in Requests, req[r].pc = "smtp", Accept(r)
  PROVE  /\ mails' \in SUBSET Mails /\ mails \subseteq mails' /\ NoUnwantedMail'
         /\ \E x \in mails' : x.msg = req[r].msg
<1>1. /\ req[r].msg \in Messages /\ req[r].to \in Emails
      /\ req[r].to \notin req[r].before
  BY DEF OutreachInv, RequestInv, TypeOK
<1>2. PICK n \in 1 .. MaxMails :
        mails' = mails \cup
          {[msg |-> req[r].msg, to |-> req[r].to, n |-> n,
            unwanted |-> req[r].to \in req[r].before]}
  BY DEF Accept
<1> DEFINE u == req[r].to \in req[r].before
           x == [msg |-> req[r].msg, to |-> req[r].to, n |-> n, unwanted |-> u]
<1>3. u = FALSE
  BY <1>1
<1>4. mails' = mails \cup {x}
  BY <1>2
<1> HIDE DEF u
<1>5. x \in Mails /\ x.msg = req[r].msg /\ ~x.unwanted
  BY <1>1, <1>3 DEF Mails
<1> HIDE DEF x
<1>6. mails \in SUBSET Mails /\ NoUnwantedMail
  BY DEF OutreachInv, TypeOK
<1>7. mails' \in SUBSET Mails /\ mails \subseteq mails' /\ NoUnwantedMail'
      /\ \E y \in mails' : y.msg = req[r].msg
  BY <1>4, <1>5, <1>6 DEF NoUnwantedMail
<1>8. QED
  BY <1>7

\* After send_mail a request that will record "sent" has mailed.
LEMMA MailInv ==
  ASSUME OutreachInv, NEW r \in Requests, Deliver(r) \/ DeliveryFails(r)
  PROVE  OutreachInv'
<1>1. /\ req[r].pc = "smtp" /\ req[r] \in RequestState
      /\ req[r].todo \subseteq Messages /\ req[r].msg \in Messages
      /\ status[req[r].msg] # "none"
      /\ UNCHANGED <<rowVars, suppressed, lock>>
  BY DEF Deliver, DeliveryFails, OutreachInv, RequestInv, TypeOK, RequestState
<1>2. PICK c \in {"sent", "failed", "none"} :
        /\ req' = [req EXCEPT ![r].pc = "flush", ![r].change = c]
        /\ Accept(r) \/ (c # "sent" /\ UNCHANGED mails)
  BY DEF Deliver, DeliveryFails, ChangeOnFailure
<1>3. /\ mails' \in SUBSET Mails /\ mails \subseteq mails' /\ NoUnwantedMail'
      /\ c = "sent" => \E x \in mails' : x.msg = req[r].msg
  <2>1. CASE Accept(r)
    BY <1>1, <2>1, AcceptTyped
  <2>2. CASE c # "sent" /\ UNCHANGED mails
    BY <2>2, MailsStay
  <2>3. QED
    BY <1>2, <2>1, <2>2
<1> DEFINE z == [req[r] EXCEPT !.pc = "flush", !.change = c]
<1>4. req' = [req EXCEPT ![r] = z]
  BY <1>2
<1>5. /\ z \in RequestState /\ z.pc = "flush" /\ z.change = c
      /\ z.msg = req[r].msg /\ z.todo = req[r].todo /\ z.writes = req[r].writes
      /\ z.before = req[r].before
  BY <1>1, <1>2 DEF RequestState, PCs, Changes
<1> HIDE DEF z
<1>6. PICK q \in RequestState :
        /\ req' = [req EXCEPT ![r] = q]
        /\ q.pc = "flush" /\ q.change = c
        /\ q.msg = req[r].msg /\ q.todo = req[r].todo /\ q.writes = req[r].writes
        /\ q.before = req[r].before
  BY <1>4, <1>5
<1>7. PlaceOK(q)
  BY <1>1, <1>6, BeforeIsListed DEF PlaceOK
<1>8. q.change = "sent" => Mailed(q.msg)'
  BY <1>3, <1>6 DEF Mailed
<1>9. QED
  BY <1>1, <1>3, <1>6, <1>7, <1>8, QuietStep

-----------------------------------------------------------------------------
(* Steps that take or free rows.                                           *)

\* A flush locks the row it changes, unless it deletes one that is gone.
LEMMA FlushInv ==
  ASSUME OutreachInv, NEW r \in Requests, Flush(r)
  PROVE  OutreachInv'
<1> DEFINE m == req[r].msg
           c == req[r].change
<1>1. /\ req[r].pc = "flush" /\ m \in Messages /\ status[m] # "none"
      /\ c \in Changes /\ (c = "sent" => Mailed(m))
      /\ req[r] \in RequestState /\ req[r].todo \subseteq Messages
      /\ UNCHANGED <<rowVars, suppressed, mails>>
  BY DEF Flush, OutreachInv, RequestInv, TypeOK, RequestState
<1>2. /\ Live(m) \/ c = "deleted"
      /\ \/ Live(m) /\ lock[m] \in {None, r} /\ lock' = [lock EXCEPT ![m] = r]
         \/ (c = "none" \/ ~Live(m)) /\ UNCHANGED lock
      /\ Finish(r, [req[r] EXCEPT !.writes = @ \cup {<<m, c>>}], m)
  BY DEF Flush, Unlocked
<1>3. PICK w \in Messages \X Changes : w = <<m, c>> /\ w[1] = m /\ w[2] = c
  <2>1. <<m, c>> \in Messages \X Changes /\ <<m, c>>[1] = m /\ <<m, c>>[2] = c
    BY <1>1
  <2>2. QED
    BY <2>1
<1> DEFINE q == [req[r] EXCEPT !.writes = @ \cup {w}]
<1>4. /\ q \in RequestState /\ q.todo = req[r].todo
      /\ q.writes = req[r].writes \cup {w} /\ q.before = req[r].before
      /\ Finish(r, q, m)
  BY <1>1, <1>2, <1>3 DEF RequestState
<1> HIDE DEF q
<1>5. PICK z \in RequestState :
        /\ req' = [req EXCEPT ![r] = z]
        /\ z.pc \in {"commit", "read"}
        /\ z.todo \subseteq Messages
        /\ z.writes = req[r].writes \cup {w} /\ z.before = req[r].before
  BY <1>1, <1>2, <1>4, FinishTyped
<1>6. /\ req' \in [Requests -> RequestState]
      /\ req'[r] = z
      /\ \A s \in Requests : s # r => req'[s] = req[s]
  BY <1>5, SlotTyped DEF OutreachInv
<1> HIDE DEF m, c
<1>7. /\ lock' \in [Messages -> Requests \cup {None}]
      /\ \A n \in Messages : lock[n] # None => lock'[n] = lock[n]
      /\ \A n \in Messages : lock'[n] # lock[n] => n = m /\ Live(m)
      /\ c \notin {"none", "deleted"} => lock'[m] = r
      /\ c = "deleted" => lock'[m] = r \/ status[m] = "deleted"
  BY <1>1, <1>2 DEF OutreachInv, TypeOK, Live
<1>8. TypeOK'
  BY <1>1, <1>6, <1>7 DEF OutreachInv, TypeOK, RequestState, rowVars
<1>9. VersionsInv' /\ SentWasMailed' /\ NoUnwantedMail'
  BY <1>1 DEF OutreachInv, VersionsInv, SentWasMailed, NoUnwantedMail, Used, rowVars
<1>10. LockInv'
  BY <1>1, <1>7 DEF OutreachInv, LockInv, Live, rowVars
<1>11. RequestInv'
  <2>1. status' = status /\ mails' = mails /\ suppressed' = suppressed
    BY <1>1 DEF rowVars
  <2>2. ASSUME NEW s \in Requests, NEW v \in req[s].writes
        PROVE  WriteOK(s, v)'
    BY <1>7, <2>1, <2>2, WritesStay
  <2>3. WriteOK(r, w)'
    <3>1. w[2] = "sent" => \E x \in mails' : x.msg = w[1]
      BY <1>1, <1>3, <2>1 DEF Mailed
    <3>2. /\ w[2] \notin {"none", "deleted"} => lock'[w[1]] = r
          /\ w[2] = "deleted" => lock'[w[1]] = r \/ status'[w[1]] = "deleted"
      BY <1>3, <1>7, <2>1
    <3>3. QED
      BY <3>1, <3>2 DEF WriteOK, Mailed
  <2>4. \A s \in Requests : \A v \in req'[s].writes : WriteOK(s, v)'
    BY <1>5, <1>6, <2>2, <2>3
  <2>5. ASSUME NEW s \in Requests
        PROVE  /\ req'[s].pc \in {"list", "insert"} => req'[s].todo \subseteq Providers
               /\ req'[s].pc \in {"read", "suppression", "smtp", "flush"}
                    => req'[s].todo \subseteq Messages
               /\ req'[s].pc \in {"suppression", "smtp", "flush"}
                    => req'[s].msg \in Messages /\ status'[req'[s].msg] # "none"
               /\ req'[s].before \subseteq suppressed'
               /\ req'[s].pc = "smtp" => req'[s].to \notin req'[s].before \cup {None}
               /\ req'[s].pc = "flush" /\ req'[s].change = "sent"
                    => \E x \in mails' : x.msg = req'[s].msg
    <3>1. CASE s = r
      BY <1>5, <1>6, <2>1, <3>1, BeforeIsListed
    <3>2. CASE s # r
      BY <1>6, <2>1, <3>2 DEF OutreachInv, RequestInv, Mailed
    <3>3. QED
      BY <3>1, <3>2
  <2>6. QED
    BY <2>4, <2>5 DEF RequestInv, Mailed
<1>12. QED
  BY <1>8, <1>9, <1>10, <1>11 DEF OutreachInv

-----------------------------------------------------------------------------
(* Steps that end a request, with or without a change of rows.             *)

\* The end of a request may change rows nobody else has locked, if rows that
\* exist stay and deleted ones do not come back.
LEMMA EndStep ==
  ASSUME OutreachInv, NEW r \in Requests, End(r),
         open' \in BOOLEAN, status' \in [Messages -> Statuses],
         to' \in [Messages -> Emails \cup {None}],
         lock' \in [Messages -> Requests \cup {None}],
         mails' = mails, suppressed' = suppressed,
         \A m \in Messages : status[m] = "deleted" => status'[m] = "deleted",
         \A m \in Messages : status[m] # "none" => status'[m] # "none",
         \A m \in Messages :
           lock'[m] # None => lock'[m] = lock[m] /\ status'[m] = status[m],
         \A m \in Messages : lock[m] \notin {None, r} => lock'[m] = lock[m],
         VersionsInv', SentWasMailed'
  PROVE  OutreachInv'
<1>1. /\ req' \in [Requests -> RequestState]
      /\ req'[r] = Idle
      /\ \A s \in Requests : s # r => req'[s] = req[s]
  BY SlotTyped, IdleTyped DEF OutreachInv, End
<1>2. TypeOK'
  BY <1>1 DEF OutreachInv, TypeOK, RequestState
<1>3. LockInv'
  BY DEF OutreachInv, LockInv, Live
<1>4. RequestInv'
  <2>1. ASSUME NEW s \in Requests, s # r
        PROVE  \A w \in req[s].writes : WriteOK(s, w)'
    <3>1. \A m \in Messages : lock[m] = s => lock'[m] = s
      BY <2>1
    <3>2. mails \subseteq mails'
      OBVIOUS
    <3>3. QED
      BY <3>1, <3>2, WritesStay
  <2>2. \A s \in Requests : \A w \in req'[s].writes : WriteOK(s, w)'
    BY <1>1, <2>1, IdleTyped
  <2>3. ASSUME NEW s \in Requests
        PROVE  /\ req'[s].pc \in {"list", "insert"} => req'[s].todo \subseteq Providers
               /\ req'[s].pc \in {"read", "suppression", "smtp", "flush"}
                    => req'[s].todo \subseteq Messages
               /\ req'[s].pc \in {"suppression", "smtp", "flush"}
                    => req'[s].msg \in Messages /\ status'[req'[s].msg] # "none"
               /\ req'[s].before \subseteq suppressed'
               /\ req'[s].pc = "smtp" => req'[s].to \notin req'[s].before \cup {None}
               /\ req'[s].pc = "flush" /\ req'[s].change = "sent"
                    => \E x \in mails' : x.msg = req'[s].msg
    <3>1. CASE s = r
      BY <1>1, <3>1, IdleTyped
    <3>2. CASE s # r
      BY <1>1, <3>2 DEF OutreachInv, RequestInv, Mailed
    <3>3. QED
      BY <3>1, <3>2
  <2>4. QED
    BY <2>2, <2>3 DEF RequestInv, Mailed
<1>5. NoUnwantedMail'
  BY MailsStay
<1>6. QED
  BY <1>2, <1>3, <1>4, <1>5 DEF OutreachInv

\* A rollback leaves the rows as they are.
LEMMA RollbackInv ==
  ASSUME OutreachInv, NEW r \in Requests, Rollback(r)
  PROVE  OutreachInv'
<1>1. Release(r) /\ End(r) /\ UNCHANGED <<open, status, to, suppressed, mails>>
  BY DEF Rollback, rowVars
<1>2. VersionsInv' /\ SentWasMailed'
  BY <1>1 DEF OutreachInv, VersionsInv, SentWasMailed, Used
<1>3. /\ lock' \in [Messages -> Requests \cup {None}]
      /\ \A m \in Messages : lock[m] # r => lock'[m] = lock[m]
      /\ \A m \in Messages : lock'[m] # None => lock'[m] = lock[m]
  BY <1>1, ReleaseTyped DEF OutreachInv
<1>4. /\ open \in BOOLEAN /\ status \in [Messages -> Statuses]
      /\ to \in [Messages -> Emails \cup {None}]
  BY DEF OutreachInv, TypeOK
<1>5. QED
  BY <1>1, <1>2, <1>3, <1>4, EndStep

\* A new draft is the provider's next message, and no other of them is live.
LEMMA InsertInv ==
  ASSUME OutreachInv, NEW r \in Requests, Insert(r)
  PROVE  OutreachInv'
<1> DEFINE new == UNION {Fresh(p) : p \in req[r].todo}
<1>1. /\ req[r].pc = "insert" /\ req[r].todo \subseteq Providers
      /\ End(r) /\ UNCHANGED <<suppressed, mails, lock>>
  BY DEF Insert, OutreachInv, RequestInv
<1>2. CASE UNCHANGED rowVars
  BY <1>1, <1>2, EarlyEndInv
<1>3. CASE /\ \A p \in req[r].todo : ~HasMessage(p)
           /\ open' = TRUE
           /\ status' = [m \in Messages |->
                           IF m \in new THEN "draft" ELSE status[m]]
           /\ to' = [m \in Messages |->
                       IF m \in new THEN EmailOf[m[1]] ELSE to[m]]
  <2>1. \A m \in new : \E p \in req[r].todo : \E k \in 1 .. MaxVersions :
          /\ m = <<p, k>> /\ ~Used(p, k)
          /\ \A j \in 1 .. (k - 1) : Used(p, j)
    BY DEF Fresh
  <2>2. ASSUME NEW m \in Messages, m \in new PROVE status[m] = "none"
    BY <2>1, <2>2 DEF Used
  <2>3. ASSUME NEW p \in Providers, NEW k \in 1 .. MaxVersions, <<p, k>> \in new
        PROVE  /\ p \in req[r].todo
               /\ \A j \in 1 .. (k - 1) : Used(p, j)
    BY <2>1, <2>3
  <2> HIDE DEF new
  <2>4. open' \in BOOLEAN /\ status' \in [Messages -> Statuses]
    BY <1>3 DEF OutreachInv, TypeOK, Statuses
  <2>5. to' \in [Messages -> Emails \cup {None}]
    <3>1. \A m \in Messages : EmailOf[m[1]] \in Emails \cup {None}
      BY DEF Messages
    <3>2. QED
      BY <1>3, <3>1 DEF OutreachInv, TypeOK
  <2>6. \A m \in Messages : status[m] # "none" => status'[m] = status[m]
    BY <1>3, <2>2
  <2>7. \A m \in Messages : lock[m] # None => status[m] # "none"
    BY DEF OutreachInv, LockInv, Live
  <2>8. VersionsInv'
    <3>1. SUFFICES ASSUME NEW p \in Providers, NEW j \in 1 .. MaxVersions,
                          NEW k \in 1 .. MaxVersions, j < k, Used(p, k)'
                   PROVE  status'[<<p, j>>] = "deleted"
      BY DEF VersionsInv
    <3>2. <<p, j>> \in Messages /\ <<p, k>> \in Messages
      BY DEF Messages
    <3>3. status[<<p, j>>] = "deleted"
      <4>1. CASE <<p, k>> \in new
        <5>1. Used(p, j) /\ p \in req[r].todo
          BY <2>3, <3>1, <4>1
        <5>2. ~Live(<<p, j>>)
          BY <1>3, <5>1 DEF HasMessage
        <5>3. QED
          BY <5>1, <5>2 DEF Used, Live
      <4>2. CASE <<p, k>> \notin new
        <5>1. Used(p, k)
          BY <1>3, <3>1, <3>2, <4>2 DEF Used
        <5>2. QED
          BY <3>1, <5>1 DEF OutreachInv, VersionsInv
      <4>3. QED
        BY <4>1, <4>2
    <3>4. QED
      BY <2>6, <3>2, <3>3
  <2>9. SentWasMailed'
    BY <1>1, <1>3 DEF OutreachInv, SentWasMailed
  <2>10. lock' \in [Messages -> Requests \cup {None}]
    BY <1>1 DEF OutreachInv, TypeOK
  <2>11. QED
    BY <1>1, <2>4, <2>5, <2>6, <2>7, <2>8, <2>9, <2>10, EndStep
<1>4. QED
  BY <1>2, <1>3 DEF Insert

\* A commit changes only rows the transaction has locked, and deletes rows that
\* are gone.
LEMMA CommitInv ==
  ASSUME OutreachInv, NEW r \in Requests, Commit(r)
  PROVE  OutreachInv'
<1>1. /\ status' = StatusAfter(r) /\ Release(r) /\ End(r)
      /\ UNCHANGED <<open, suppressed, mails>>
      /\ to' = [m \in Messages |->
                  IF <<m, "edited">> \in req[r].writes THEN req[r].arg ELSE to[m]]
  BY DEF Commit
<1>2. /\ lock' \in [Messages -> Requests \cup {None}]
      /\ \A m \in Messages : lock'[m] # r
      /\ \A m \in Messages : lock[m] # r => lock'[m] = lock[m]
      /\ \A m \in Messages : lock'[m] # None => lock'[m] = lock[m]
  BY <1>1, ReleaseTyped DEF OutreachInv
<1>3. ASSUME NEW m \in Messages
      PROVE  \/ status'[m] = status[m]
             \/ /\ status'[m] \in {"sent", "failed", "skipped", "deleted"}
                /\ <<m, status'[m]>> \in req[r].writes
  BY <1>1 DEF StatusAfter
<1>4. ASSUME NEW m \in Messages, status'[m] # status[m]
      PROVE  /\ lock[m] = r /\ Live(m)
             /\ status'[m] \in {"sent", "failed", "skipped", "deleted"}
             /\ status'[m] = "sent" => Mailed(m)
  <2>1. /\ status'[m] \in {"sent", "failed", "skipped", "deleted"}
        /\ <<m, status'[m]>> \in req[r].writes
    BY <1>3, <1>4
  <2>2. \A w \in req[r].writes : WriteOK(r, w)
    BY DEF OutreachInv, RequestInv
  <2>3. WriteOK(r, <<m, status'[m]>>)
    BY <2>1, <2>2
  <2>4. lock[m] = r /\ (status'[m] = "sent" => Mailed(m))
    BY <1>4, <2>1, <2>3 DEF WriteOK
  <2>5. Live(m)
    BY <2>4 DEF OutreachInv, LockInv
  <2>6. QED
    BY <2>1, <2>4, <2>5
<1>5. status \in [Messages -> Statuses] /\ to \in [Messages -> Emails \cup {None}]
      /\ open \in BOOLEAN
  BY DEF OutreachInv, TypeOK
<1>6. status' \in [Messages -> Statuses]
  <2>1. status' = [m \in Messages |-> status'[m]]
    BY <1>1 DEF StatusAfter
  <2>2. \A m \in Messages : status'[m] \in Statuses
    BY <1>4, <1>5 DEF Statuses
  <2>3. QED
    BY <2>1, <2>2
<1>7. to' \in [Messages -> Emails \cup {None}]
  <2>1. req[r].arg \in Emails \cup {None}
    BY DEF OutreachInv, TypeOK
  <2>2. QED
    BY <1>1, <1>5, <2>1
<1>8. /\ \A m \in Messages : status[m] = "deleted" => status'[m] = "deleted"
      /\ \A m \in Messages : status[m] = "none" <=> status'[m] = "none"
      /\ \A m \in Messages :
           lock'[m] # None => lock'[m] = lock[m] /\ status'[m] = status[m]
      /\ \A m \in Messages : lock[m] \notin {None, r} => lock'[m] = lock[m]
  BY <1>2, <1>4 DEF Live
<1>9. VersionsInv'
  <2>1. \A p \in Providers : \A j \in 1 .. MaxVersions : <<p, j>> \in Messages
    BY DEF Messages
  <2>2. QED
    BY <1>8, <2>1 DEF OutreachInv, VersionsInv, Used
<1>10. SentWasMailed'
  <2>1. mails' = mails
    BY <1>1
  <2>2. QED
    BY <1>4, <2>1 DEF OutreachInv, SentWasMailed, Mailed
<1>11. open' = open /\ mails' = mails /\ suppressed' = suppressed
  BY <1>1
<1>12. QED
  BY <1>1, <1>2, <1>5, <1>6, <1>7, <1>8, <1>9, <1>10, <1>11, EndStep

\* Nothing a request relies on depends on who has unsubscribed.
LEMMA UnsubscribeInv ==
  ASSUME OutreachInv, NEW a \in Emails, Unsubscribe(a)
  PROVE  OutreachInv'
<1>1. UNCHANGED <<open, status, to, mails, lock, req>>
      /\ suppressed' = suppressed \cup {a}
  BY DEF Unsubscribe, rowVars
<1>2. TypeOK'
  BY <1>1 DEF OutreachInv, TypeOK
<1>3. VersionsInv' /\ LockInv' /\ SentWasMailed' /\ NoUnwantedMail'
  BY <1>1, MailsStay DEF OutreachInv, VersionsInv, LockInv, SentWasMailed, Used, Live
<1>4. RequestInv'
  BY <1>1 DEF OutreachInv, RequestInv, WriteOK, Mailed
<1>5. QED
  BY <1>2, <1>3, <1>4 DEF OutreachInv

-----------------------------------------------------------------------------
(* The theorems.                                                           *)

\* Nothing has been created or mailed, and nothing is locked.
LEMMA InitInv == Init => OutreachInv
<1> SUFFICES ASSUME Init PROVE OutreachInv
  OBVIOUS
<1>1. TypeOK
  BY IdleTyped DEF Init, TypeOK, RequestState, Statuses
<1>2. VersionsInv /\ LockInv /\ SentWasMailed /\ NoUnwantedMail
  <2>1. \A p \in Providers : \A k \in 1 .. MaxVersions : <<p, k>> \in Messages
    BY DEF Messages
  <2>2. QED
    BY <2>1 DEF Init, VersionsInv, LockInv, SentWasMailed, NoUnwantedMail, Used
<1>3. RequestInv
  BY IdleTyped DEF Init, RequestInv
<1>4. QED
  BY <1>1, <1>2, <1>3 DEF OutreachInv

\* Every step keeps the invariant.
LEMMA StepInv == OutreachInv /\ [Next]_vars => OutreachInv'
<1> SUFFICES ASSUME OutreachInv, [Next]_vars PROVE OutreachInv'
  OBVIOUS
<1>1. CASE UNCHANGED vars
  <2>1. UNCHANGED <<open, status, to, suppressed, mails, lock, req>>
    BY <1>1 DEF vars, rowVars
  <2>2. /\ TypeOK' /\ VersionsInv' /\ LockInv'
        /\ SentWasMailed' /\ NoUnwantedMail'
    BY <2>1, MailsStay DEF OutreachInv, TypeOK, VersionsInv, LockInv, SentWasMailed, Used, Live
  <2>3. RequestInv'
    BY <2>1 DEF OutreachInv, RequestInv, WriteOK, Mailed
  <2>4. QED
    BY <2>2, <2>3 DEF OutreachInv
<1>2. ASSUME NEW r \in Requests, Start(r) PROVE OutreachInv'
  BY <1>2, StartInv
<1>3. ASSUME NEW r \in Requests, Step(r) PROVE OutreachInv'
  <2>1. CASE Match(r) \/ ListMessages(r) \/ Insert(r)
    BY <2>1, MatchInv, ListInv, InsertInv
  <2>2. CASE Read(r) \/ CheckSuppression(r)
    BY <2>2, ReadInv, CheckSuppressionInv
  <2>3. CASE Deliver(r) \/ DeliveryFails(r)
    BY <2>3, MailInv
  <2>4. CASE Flush(r) \/ Commit(r)
    BY <2>4, FlushInv, CommitInv
  <2>5. CASE StaleRow(r)
    BY <2>5, RollbackInv DEF StaleRow
  <2>6. QED
    BY <1>3, <2>1, <2>2, <2>3, <2>4, <2>5 DEF Step
<1>4. ASSUME NEW r \in Requests, DeadlockAbort(r) \/ RequestFails(r)
      PROVE  OutreachInv'
  BY <1>4, RollbackInv DEF DeadlockAbort, RequestFails
<1>5. ASSUME NEW a \in Emails, Unsubscribe(a) PROVE OutreachInv'
  BY <1>5, UnsubscribeInv
<1>6. QED
  BY <1>1, <1>2, <1>3, <1>4, <1>5 DEF Next

\* The inductive invariant holds in every reachable state: what requests have
\* read and flushed agrees with the rows and locks whatever races.
THEOREM Invariant == Spec => []OutreachInv
<1>1. Init => OutreachInv
  BY InitInv
<1>2. OutreachInv /\ [Next]_vars => OutreachInv'
  BY StepInv
<1>3. QED
  BY <1>1, <1>2, PTL DEF Spec

\* The newest message of a provider is the only one that can be live.
LEMMA VersionsGiveOne == VersionsInv => OneMessagePerProvider
<1> SUFFICES ASSUME VersionsInv, NEW p \in Providers,
                    NEW j \in 1 .. MaxVersions, NEW k \in 1 .. MaxVersions,
                    Live(<<p, j>>), Live(<<p, k>>)
             PROVE  j = k
  BY DEF OneMessagePerProvider
<1>1. ~(j < k)
  BY DEF VersionsInv, Used, Live
<1>2. ~(k < j)
  BY DEF VersionsInv, Used, Live
<1>3. QED
  BY <1>1, <1>2

\* However additions and deletions race, uq_outreach_lead_provider and the waits
\* on it leave a provider with one message.
THEOREM OneMessagePerProviderHolds == Spec => []OneMessagePerProvider
<1>1. OutreachInv => OneMessagePerProvider
  BY VersionsGiveOne DEF OutreachInv
<1>2. QED
  BY <1>1, Invariant, PTL

\* A record that says sent was accepted by the mail server.
THEOREM SentWasMailedHolds == Spec => []SentWasMailed
<1>1. OutreachInv => SentWasMailed
  BY DEF OutreachInv
<1>2. QED
  BY <1>1, Invariant, PTL

\* Whoever had unsubscribed before a request began gets no mail from it: the
\* check of the list comes after the beginning and before the mail.
THEOREM NoUnwantedMailHolds == Spec => []NoUnwantedMail
<1>1. OutreachInv => NoUnwantedMail
  BY DEF OutreachInv
<1>2. QED
  BY <1>1, Invariant, PTL
=============================================================================
