-------------------------- MODULE OutreachDelivery --------------------------
(***************************************************************************)
(* Outreach about a client's lead: drafts to matching providers, which     *)
(* admins edit, skip, send or delete, one by one or in bulk                *)
(* (services/leads.py, routes/leads.py, services/mailer.py, the            *)
(* outreach_messages and email_suppressions tables).                       *)
(*                                                                         *)
(* One lead is modelled: no request touches the messages of two.  A        *)
(* request is one HTTP call and one transaction at READ COMMITTED.  It     *)
(* reads a message, works on the copy, talks to the SMTP server without    *)
(* holding a lock, and its flush locks the row until the commit at the end *)
(* of the request; a bulk request flushes once per message before that.    *)
(* Mail is enabled.  Subject and body are abstracted away.                 *)
(***************************************************************************)
EXTENDS Integers, FiniteSets

CONSTANTS
  Providers,    \* published providers in the lead's category
  Emails,       \* addresses
  EmailOf,      \* [Providers -> Emails or None]: Provider.email
  Requests,     \* slots for requests in flight
  Offered,      \* the operations requests are made for
  None,         \* no address, no lock
  MaxDrafts,    \* cfg.lead_max_drafts
  MaxVersions,  \* bound: messages ever created per provider
  MaxMails      \* bound: mails ever accepted by the SMTP server

ASSUME NoneAssumption == None \notin Emails \cup Requests
ASSUME EmailAssumption == EmailOf \in [Providers -> Emails \cup {None}]
ASSUME OfferedAssumption == Offered \subseteq {"add", "edit", "skip", "send", "delete"}
ASSUME BoundsAssumption ==
  MaxDrafts \in Nat /\ MaxVersions \in Nat \ {0} /\ MaxMails \in Nat

\* A message is the n-th that was created for its provider.
Messages == Providers \X (1 .. MaxVersions)

Statuses == {"none", "draft", "sent", "skipped", "failed", "deleted"}
Ops == {"create", "add", "edit", "skip", "send", "delete"}
PCs == {"idle", "match", "list", "insert", "read", "suppression", "smtp",
        "flush", "commit"}

\* What a flush changes: the status, or the address ("edited"), or neither.
Changes == {"sent", "failed", "skipped", "deleted", "edited", "none"}

VARIABLES
  open,        \* the lead exists
  status,      \* [Messages -> Statuses]: "none" before, "deleted" after the row
  to,          \* [Messages -> address]: outreach_messages.to_email
  suppressed,  \* email_suppressions
  mails,       \* what the SMTP server accepted
  lock,        \* [Messages -> the request whose transaction locks the row]
  req          \* [Requests -> what the request does and has read]

rowVars == <<open, status, to>>
vars == <<rowVars, suppressed, mails, lock, req>>

Mails == [msg : Messages, to : Emails, n : 1 .. MaxMails, unwanted : BOOLEAN]

Idle == [pc |-> "idle", op |-> "create", bulk |-> FALSE, todo |-> {},
         msg |-> None, to |-> None, status |-> "none", arg |-> None,
         change |-> "none", writes |-> {}, before |-> {}]

TypeOK ==
  /\ open \in BOOLEAN
  /\ status \in [Messages -> Statuses]
  /\ to \in [Messages -> Emails \cup {None}]
  /\ suppressed \in SUBSET Emails
  /\ mails \in SUBSET Mails
  /\ lock \in [Messages -> Requests \cup {None}]
  /\ req \in [Requests ->
       [pc : PCs, op : Ops, bulk : BOOLEAN,
        todo : SUBSET (Messages \cup Providers),
        msg : Messages \cup {None}, to : Emails \cup {None},
        status : Statuses, arg : Emails \cup {None}, change : Changes,
        writes : SUBSET (Messages \X Changes), before : SUBSET Emails]]

Init ==
  /\ open = FALSE
  /\ status = [m \in Messages |-> "none"]
  /\ to = [m \in Messages |-> None]
  /\ suppressed = {}
  /\ mails = {}
  /\ lock = [m \in Messages |-> None]
  /\ req = [r \in Requests |-> Idle]

-----------------------------------------------------------------------------
Live(m) == status[m] \notin {"none", "deleted"}

\* The next message for a provider, if the bound allows one.
Used(p, n) == status[<<p, n>>] # "none"
Fresh(p) == {<<p, n>> : n \in {k \in 1 .. MaxVersions :
               ~Used(p, k) /\ \A j \in 1 .. (k - 1) : Used(p, j)}}

\* Variant: without the constraint.
NoConstraint(p) == FALSE

\* uq_outreach_lead_provider.
HasMessage(p) == \E n \in 1 .. MaxVersions : Live(<<p, n>>)

Go(r, l) == req' = [req EXCEPT ![r].pc = l]
End(r)   == req' = [req EXCEPT ![r] = Idle]

Unlocked(m, r) == lock[m] \in {None, r}
Release(r) == lock' = [m \in Messages |-> IF lock[m] = r THEN None ELSE lock[m]]

\* get_db rolls back: nothing the request has flushed becomes visible.
Rollback(r) == Release(r) /\ End(r) /\ UNCHANGED <<rowVars, suppressed, mails>>

-----------------------------------------------------------------------------
(* Creating the lead and adding drafts.                                    *)

BeginCreate(r) ==
  /\ req[r].pc = "idle"
  /\ ~open
  /\ \A s \in Requests : req[s].pc # "idle" => req[s].op # "create"
  /\ req' = [req EXCEPT ![r] = [Idle EXCEPT !.pc = "match", !.op = "create"]]
  /\ UNCHANGED <<rowVars, suppressed, mails, lock>>

\* match_providers: those with an address that has not unsubscribed.
Match(r) ==
  LET fit == {p \in Providers : EmailOf[p] \notin suppressed \cup {None}}
  IN  /\ req[r].pc = "match"
      /\ \E S \in SUBSET fit :
           /\ S = fit \/ Cardinality(S) = MaxDrafts
           /\ Cardinality(S) <= MaxDrafts
           /\ req' = [req EXCEPT ![r].pc = "insert", ![r].todo = S]
      /\ UNCHANGED <<rowVars, suppressed, mails, lock>>

BeginAdd(r, p) ==
  /\ req[r].pc = "idle"
  /\ "add" \in Offered
  /\ open
  /\ req' = [req EXCEPT ![r] = [Idle EXCEPT !.pc = "list", !.op = "add",
                                            !.todo = {p}]]
  /\ UNCHANGED <<rowVars, suppressed, mails, lock>>

\* add_draft: refuse if the lead's messages include one for the provider.
ListMessages(r) ==
  /\ req[r].pc = "list"
  /\ IF \E p \in req[r].todo : \E n \in 1 .. MaxVersions : Live(<<p, n>>)
     THEN End(r) ELSE Go(r, "insert")
  /\ UNCHANGED <<rowVars, suppressed, mails, lock>>

\* The flush that inserts the drafts waits for whoever deletes a message of the
\* provider; the unique constraint lets it through or fails the request.
Insert(r) ==
  LET new == UNION {Fresh(p) : p \in req[r].todo}
  IN  /\ req[r].pc = "insert"
      /\ \A p \in req[r].todo :
           \/ HasMessage(p)
           \/ Fresh(p) # {} /\ \A n \in 1 .. MaxVersions : Unlocked(<<p, n>>, r)
      /\ IF \E p \in req[r].todo : HasMessage(p)
         THEN UNCHANGED rowVars
         ELSE /\ open' = TRUE
              /\ status' = [m \in Messages |->
                              IF m \in new THEN "draft" ELSE status[m]]
              /\ to' = [m \in Messages |->
                          IF m \in new THEN EmailOf[m[1]] ELSE to[m]]
      /\ End(r)
      /\ UNCHANGED <<suppressed, mails, lock>>

-----------------------------------------------------------------------------
(* Working on messages.                                                    *)

Begin(r, op, bulk, S, a) ==
  /\ req[r].pc = "idle"
  /\ op \in Offered
  /\ req' = [req EXCEPT ![r] =
       [Idle EXCEPT !.pc = "read", !.op = op, !.bulk = bulk, !.todo = S,
                    !.arg = a,
                    !.before = IF op = "send" THEN suppressed ELSE {}]]
  /\ UNCHANGED <<rowVars, suppressed, mails, lock>>

\* What an admin's page may list, deleted in the meantime or not.
Listed == {m \in Messages : status[m] # "none"}

BeginEdit(r, m, a) == m \in Listed /\ Begin(r, "edit", FALSE, {m}, a)
BeginOne(r, op, m) ==
  op \in {"skip", "send"} /\ m \in Listed /\ Begin(r, op, FALSE, {m}, None)

\* bulk_outreach; a bulk send of one message does what the single request does.
BeginBulk(r, op, S) ==
  /\ S \subseteq Listed
  /\ \/ op = "send" /\ Cardinality(S) > 1
     \/ op = "delete" /\ S # {}
  /\ Begin(r, op, TRUE, S, None)

\* _ensure_editable; delete_outreach only refuses sent messages.
Editable(op, s) == IF op = "delete" THEN s # "sent" ELSE s \in {"draft", "failed"}

\* The request is done with a message.  Unless it is a bulk request with
\* messages left, it commits what it has flushed.
Finish(r, q, m) ==
  req' = [req EXCEPT ![r] =
            [q EXCEPT !.todo = @ \ {m}, !.msg = None, !.to = None,
                      !.status = "none", !.change = "none",
                      !.pc = IF q.todo \ {m} = {} THEN "commit" ELSE "read"]]

\* A DomainError ends a single request, and one item of a bulk request.
Refuse(r, m) == IF req[r].bulk THEN Finish(r, req[r], m) ELSE End(r)

\* What skip, delete and edit will flush; a column that is assigned the value
\* that was read is not written.
Assigned(op, moves) == CASE op = "skip"            -> "skipped"
                         [] op = "delete"          -> "deleted"
                         [] op = "edit" /\ moves   -> "edited"
                         [] OTHER                  -> "none"

\* _get_outreach and the check of the status.
Read(r) ==
  /\ req[r].pc = "read"
  /\ \E m \in req[r].todo :
       IF Live(m) /\ Editable(req[r].op, status[m])
       THEN req' = [req EXCEPT
              ![r].msg = m, ![r].to = to[m], ![r].status = status[m],
              ![r].pc = IF req[r].op = "send" THEN "suppression" ELSE "flush",
              ![r].change = Assigned(req[r].op, req[r].arg # to[m])]
       ELSE Refuse(r, m)
  /\ UNCHANGED <<rowVars, suppressed, mails, lock>>

\* Variant: the suppression list is not consulted.
AnyRecipient(r) == req[r].to # None

MayMail(r) == req[r].to \notin suppressed \cup {None}

CheckSuppression(r) ==
  /\ req[r].pc = "suppression"
  /\ IF MayMail(r) THEN Go(r, "smtp") ELSE Refuse(r, req[r].msg)
  /\ UNCHANGED <<rowVars, suppressed, mails, lock>>

\* The SMTP server accepts the mail.
Accept(r) ==
  \E n \in 1 .. MaxMails :
    /\ n = Cardinality(mails) + 1
    /\ mails' = mails \cup
         {[msg |-> req[r].msg, to |-> req[r].to, n |-> n,
           unwanted |-> req[r].to \in req[r].before]}

\* send_mail returns.
Deliver(r) ==
  /\ req[r].pc = "smtp"
  /\ Accept(r)
  /\ req' = [req EXCEPT ![r].pc = "flush", ![r].change = "sent"]
  /\ UNCHANGED <<rowVars, suppressed, lock>>

\* Variant: a delivery that failed is recorded as sent.
SentOnFailure(s) == "sent"

\* A failed message whose delivery fails again keeps its status: the ORM writes
\* what differs from the row it read.
ChangeOnFailure(s) == IF s = "failed" THEN "none" ELSE "failed"

\* send_mail raises, with the mail rejected or, when the server's last answer
\* is lost, accepted.
DeliveryFails(r) ==
  /\ req[r].pc = "smtp"
  /\ Accept(r) \/ UNCHANGED mails
  /\ req' = [req EXCEPT ![r].pc = "flush",
                        ![r].change = ChangeOnFailure(req[r].status)]
  /\ UNCHANGED <<rowVars, suppressed, lock>>

\* The flush waits for the row and locks it for the rest of the transaction, unless
\* no column differs from what was read and nothing is written; "none" is that, or a
\* new subject or body.  A DELETE that matches no row is only a warning.
Flush(r) ==
  LET m == req[r].msg  c == req[r].change
  IN  /\ req[r].pc = "flush"
      /\ Live(m) \/ c = "deleted"
      /\ \/ Live(m) /\ Unlocked(m, r) /\ lock' = [lock EXCEPT ![m] = r]
         \/ (c = "none" \/ ~Live(m)) /\ UNCHANGED lock
      /\ Finish(r, [req[r] EXCEPT !.writes = @ \cup {<<m, c>>}], m)
      /\ UNCHANGED <<rowVars, suppressed, mails>>

\* The UPDATE of a row that is gone, or its reload after the flush, raises an
\* error that no handler catches: the transaction is rolled back.
StaleRow(r) ==
  /\ req[r].pc = "flush"
  /\ ~Live(req[r].msg)
  /\ req[r].change # "deleted"
  /\ Rollback(r)

StatusAfter(r) ==
  [m \in Messages |->
     CASE <<m, "sent">> \in req[r].writes    -> "sent"
       [] <<m, "failed">> \in req[r].writes  -> "failed"
       [] <<m, "skipped">> \in req[r].writes -> "skipped"
       [] <<m, "deleted">> \in req[r].writes -> "deleted"
       [] OTHER                              -> status[m]]

\* get_db commits when the endpoint has returned.
Commit(r) ==
  /\ req[r].pc = "commit"
  /\ status' = StatusAfter(r)
  /\ to' = [m \in Messages |->
              IF <<m, "edited">> \in req[r].writes THEN req[r].arg ELSE to[m]]
  /\ Release(r)
  /\ End(r)
  /\ UNCHANGED <<open, suppressed, mails>>

-----------------------------------------------------------------------------
\* unsubscribe: the check before the INSERT and the unique constraint make it
\* idempotent, however many requests race.
Unsubscribe(a) ==
  /\ a \notin suppressed
  /\ suppressed' = suppressed \cup {a}
  /\ UNCHANGED <<rowVars, mails, lock, req>>

\* Variant: PostgreSQL does not look for deadlocks.
NoDeadlockDetection(r) == FALSE /\ UNCHANGED vars

\* PostgreSQL aborts one of the transactions that wait for each other.
DeadlockAbort(r) ==
  /\ \E C \in SUBSET Requests :
       /\ r \in C
       /\ \A s \in C : /\ req[s].pc = "flush"
                       /\ lock[req[s].msg] \in C \ {s}
  /\ Rollback(r)

\* The client or the process goes away, or the database does.
RequestFails(r) == req[r].pc # "idle" /\ Rollback(r)

Step(r) ==
  \/ Match(r) \/ ListMessages(r) \/ Insert(r) \/ Read(r) \/ CheckSuppression(r)
  \/ Deliver(r) \/ DeliveryFails(r) \/ Flush(r) \/ StaleRow(r) \/ Commit(r)

Start(r) ==
  \/ BeginCreate(r)
  \/ \E p \in Providers : BeginAdd(r, p)
  \/ \E m \in Messages :
       \/ \E a \in Emails : BeginEdit(r, m, a)
       \/ \E op \in Ops : BeginOne(r, op, m)
  \/ \E S \in SUBSET Messages, op \in Ops : BeginBulk(r, op, S)

Next ==
  \/ \E r \in Requests :
       Start(r) \/ Step(r) \/ DeadlockAbort(r) \/ RequestFails(r)
  \/ \E a \in Emails : Unsubscribe(a)

Spec == Init /\ [][Next]_vars

\* Requests run; PostgreSQL looks for deadlocks, and serves those that wait for
\* a row in the order they came.
FairSpec ==
  Spec /\ \A r \in Requests :
            WF_vars(Step(r)) /\ SF_vars(Flush(r)) /\ WF_vars(DeadlockAbort(r))

-----------------------------------------------------------------------------
(* What outreach guarantees.                                               *)

\* A provider has at most one message about the lead, although add_draft only
\* looks at the messages committed before it reads (uq_outreach_lead_provider).
OneMessagePerProvider ==
  \A p \in Providers : \A j, k \in 1 .. MaxVersions :
    Live(<<p, j>>) /\ Live(<<p, k>>) => j = k

\* What the record calls sent was accepted by the mail server, whatever racing
\* sends, skips, edits and rollbacks have written.
SentWasMailed ==
  \A m \in Messages : status[m] = "sent" => \E x \in mails : x.msg = m

\* An address that had unsubscribed before an admin's request began gets no
\* mail from it, not even as the twentieth of a bulk, or after an edit.
NoUnwantedMail == \A x \in mails : ~x.unwanted

\* Every request ends: bulk requests that wait for each other's messages do not
\* wait for ever.
RequestsFinish == \A r \in Requests : req[r].pc # "idle" ~> req[r].pc = "idle"

-----------------------------------------------------------------------------
(* The inductive invariant behind the three properties.                    *)

\* Versions are used in order, and only the newest can be live.
VersionsInv ==
  \A p \in Providers : \A j, k \in 1 .. MaxVersions :
    j < k /\ Used(p, k) => status[<<p, j>>] = "deleted"

\* Only rows that exist are locked.
LockInv == \A m \in Messages : lock[m] # None => Live(m)

Mailed(m) == \E x \in mails : x.msg = m

\* What a request has flushed and not committed is locked, or gone already, and
\* what it will record as sent has been mailed.  One that is about to mail has
\* checked the address after it began.
WriteOK(r, w) ==
  /\ w[2] = "sent" => Mailed(w[1])
  /\ w[2] \notin {"none", "deleted"} => lock[w[1]] = r
  /\ w[2] = "deleted" => lock[w[1]] = r \/ status[w[1]] = "deleted"

RequestInv ==
  \A r \in Requests :
    /\ req[r].pc \in {"list", "insert"} => req[r].todo \subseteq Providers
    /\ req[r].pc \in {"read", "suppression", "smtp", "flush"}
         => req[r].todo \subseteq Messages
    /\ req[r].pc \in {"suppression", "smtp", "flush"}
         => req[r].msg \in Messages /\ status[req[r].msg] # "none"
    /\ req[r].before \subseteq suppressed
    /\ req[r].pc = "smtp" => req[r].to \notin req[r].before \cup {None}
    /\ req[r].pc = "flush" /\ req[r].change = "sent" => Mailed(req[r].msg)
    /\ \A w \in req[r].writes : WriteOK(r, w)

OutreachInv ==
  /\ TypeOK /\ VersionsInv /\ LockInv /\ SentWasMailed /\ NoUnwantedMail
  /\ RequestInv

-----------------------------------------------------------------------------
(* What the repository says of it and the code does not keep.              *)

\* models/lead.py:90, "One e-mail to one provider about one lead."
OneMailPerMessage ==
  \A m \in Messages : Cardinality({x \in mails : x.msg = m}) <= 1

=============================================================================
