-------------------------- MODULE RefreshSessions --------------------------
(***************************************************************************)
(* Sessions kept by rotating refresh tokens (services/auth.py,             *)
(* routes/auth.py, the refresh_tokens table).                              *)
(*                                                                         *)
(* A login starts a family of tokens, and each refresh replaces a token by *)
(* a new one of its family.  A request is one HTTP call and one            *)
(* transaction at READ COMMITTED.  Its answer, with the new cookie, is     *)
(* sent before get_db commits.  A browser sends requests from several      *)
(* tabs at once, all with the cookie it holds.                             *)
(***************************************************************************)
EXTENDS Naturals

CONSTANTS
  Clients,    \* browsers with a cookie jar each, of one user
  Requests,   \* slots for requests in flight
  None,       \* no cookie, no lock, no parent
  MaxTokens   \* bound: tokens ever issued

ASSUME NoneAssumption == None \notin Clients \cup Requests \cup Nat
ASSUME BoundAssumption == MaxTokens \in Nat

Tokens == 1 .. MaxTokens

PCs == {"idle", "select", "reuse", "update", "insert", "respond", "commit"}
Ops == {"none", "login", "refresh", "logout"}

VARIABLES
  row,      \* [Tokens -> "absent", "live" or "revoked"]: as committed
  family,   \* [Tokens -> the token of the login]: refresh_tokens.family_id
  parent,   \* [Tokens -> the token it replaces]: history
  expired,  \* tokens whose expires_at has passed
  issued,   \* how many tokens have been issued
  cookie,   \* [Clients -> the refresh cookie]
  lock,     \* [Tokens -> the request whose transaction has updated the row]
  req,      \* [Requests -> what the request does]
  upset     \* clients that lost an answer, whose request failed, or who
            \* presented a revoked token: history

tokenVars == <<row, family, parent, expired>>
vars == <<tokenVars, issued, cookie, lock, req, upset>>

Idle == [pc |-> "idle", op |-> "none", client |-> None, token |-> None,
         new |-> None]

TypeOK ==
  /\ row \in [Tokens -> {"absent", "live", "revoked"}]
  /\ family \in [Tokens -> Tokens \cup {None}]
  /\ parent \in [Tokens -> Tokens \cup {None}]
  /\ expired \in SUBSET Tokens
  /\ issued \in 0 .. MaxTokens
  /\ cookie \in [Clients -> Tokens \cup {None}]
  /\ lock \in [Tokens -> Requests \cup {None}]
  /\ req \in [Requests -> [pc : PCs, op : Ops, client : Clients \cup {None},
                           token : Tokens \cup {None}, new : Tokens \cup {None}]]
  /\ upset \in SUBSET Clients

Init ==
  /\ row = [t \in Tokens |-> "absent"]
  /\ family = [t \in Tokens |-> None]
  /\ parent = [t \in Tokens |-> None]
  /\ expired = {}
  /\ issued = 0
  /\ cookie = [c \in Clients |-> None]
  /\ lock = [t \in Tokens |-> None]
  /\ req = [r \in Requests |-> Idle]
  /\ upset = {}

-----------------------------------------------------------------------------
GoTo(r, l) == req' = [req EXCEPT ![r].pc = l]
End(r)     == req' = [req EXCEPT ![r] = Idle]
Release(r) == lock' = [t \in Tokens |-> IF lock[t] = r THEN None ELSE lock[t]]

\* The slot starts to serve a client's request.
Begin(r, c, op, t, l) ==
  /\ req[r].pc = "idle"
  /\ req' = [req EXCEPT ![r] = [pc |-> l, op |-> op, client |-> c, token |-> t,
                                new |-> None]]
  /\ UNCHANGED <<tokenVars, issued, cookie, lock, upset>>

\* register or login, once the credentials are right.
BeginLogin(r, c) == Begin(r, c, "login", None, "insert")

\* A request without the cookie is refused.
BeginRefresh(r, c) ==
  cookie[c] # None /\ Begin(r, c, "refresh", cookie[c], "select")

BeginLogout(r, c) ==
  Begin(r, c, "logout", cookie[c], IF cookie[c] = None THEN "respond" ELSE "update")

\* rotate_refresh reads the row of the token it was given; a revoked one is a theft
\* signal, which may cost the browser its session.
SelectToken(r) ==
  LET t == req[r].token
  IN  /\ req[r].pc = "select"
      /\ CASE row[t] = "revoked"                     -> GoTo(r, "reuse")
           [] row[t] = "live" /\ t \notin expired    -> GoTo(r, "update")
           [] OTHER                                  -> End(r)
      /\ upset' = IF row[t] = "revoked" THEN upset \cup {req[r].client} ELSE upset
      /\ UNCHANGED <<tokenVars, issued, cookie, lock>>

FamilyOf(t) == {s \in Tokens : row[s] # "absent" /\ family[s] = family[t]}

\* A revoked token: the UPDATE of the family waits for its rows, then the
\* endpoint raises HTTPException, and get_db rolls the UPDATE back.  The answer
\* is made from the exception and carries no cookie of the endpoint's response.
Reuse(r) ==
  /\ req[r].pc = "reuse"
  /\ \A s \in FamilyOf(req[r].token) : lock[s] = None
  /\ End(r)
  /\ UNCHANGED <<tokenVars, issued, cookie, lock, upset>>

\* A refresh updates the row whatever it holds by now, a logout only a live one.
Matches(r) == \/ req[r].op = "refresh"
              \/ row[req[r].token] = "live"

\* The UPDATE that revokes the token waits for the row and locks it.
Update(r) ==
  LET t == req[r].token
  IN  /\ req[r].pc = "update"
      /\ lock[t] = None
      /\ lock' = IF Matches(r) /\ row[t] # "absent" THEN [lock EXCEPT ![t] = r]
                 ELSE lock
      /\ GoTo(r, IF req[r].op = "refresh" THEN "insert" ELSE "respond")
      /\ UNCHANGED <<tokenVars, issued, cookie, upset>>

\* issue_tokens: a new token, in the family of the one it replaces.
Insert(r) ==
  /\ req[r].pc = "insert"
  /\ issued < MaxTokens
  /\ issued' = issued + 1
  /\ req' = [req EXCEPT ![r].pc = "respond", ![r].new = issued + 1]
  /\ UNCHANGED <<tokenVars, cookie, lock, upset>>

\* _set_auth_cookies, or _clear_auth_cookies of a logout.
CookieAfter(r) == req[r].new

Respond(r) ==
  /\ req[r].pc = "respond"
  /\ cookie' = [cookie EXCEPT ![req[r].client] = CookieAfter(r)]
  /\ GoTo(r, "commit")
  /\ UNCHANGED <<tokenVars, issued, lock, upset>>

AnswerLost(r) ==
  /\ req[r].pc = "respond"
  /\ upset' = upset \cup {req[r].client}
  /\ GoTo(r, "commit")
  /\ UNCHANGED <<tokenVars, issued, cookie, lock>>

\* Variant: the token that was replaced is not revoked.
RowKept(r) == [row EXCEPT ![req[r].new] = "live"]

\* Variant: a logout revokes every token of the user when it commits, those of a
\* login it does not know of included.
AllRevoked(r) ==
  [t \in Tokens |->
     IF lock[t] = r \/ (req[r].op = "logout" /\ row[t] = "live") THEN "revoked"
     ELSE IF t = req[r].new THEN "live" ELSE row[t]]

RowAfter(r) ==
  [t \in Tokens |-> IF lock[t] = r THEN "revoked"
                    ELSE IF t = req[r].new THEN "live"
                    ELSE row[t]]

Commit(r) ==
  LET t == req[r].token  n == req[r].new
  IN  /\ req[r].pc = "commit"
      /\ row' = RowAfter(r)
      /\ family' = [s \in Tokens |->
                      IF s # n THEN family[s]
                      ELSE IF t = None THEN n ELSE family[t]]
      /\ parent' = [s \in Tokens |-> IF s = n THEN t ELSE parent[s]]
      /\ Release(r)
      /\ End(r)
      /\ UNCHANGED <<expired, issued, cookie, upset>>

\* The process dies, the database goes away, or the commit fails.
RequestFails(r) ==
  /\ req[r].pc # "idle"
  /\ upset' = upset \cup {req[r].client}
  /\ Release(r)
  /\ End(r)
  /\ UNCHANGED <<tokenVars, issued, cookie>>

TokenExpires(t) ==
  /\ row[t] # "absent"
  /\ t \notin expired
  /\ expired' = expired \cup {t}
  /\ UNCHANGED <<row, family, parent, issued, cookie, lock, req, upset>>

-----------------------------------------------------------------------------
Step(r) ==
  \/ SelectToken(r) \/ Reuse(r) \/ Update(r) \/ Insert(r)
  \/ Respond(r) \/ AnswerLost(r) \/ Commit(r)

Next ==
  \/ \E r \in Requests, c \in Clients :
       BeginLogin(r, c) \/ BeginRefresh(r, c) \/ BeginLogout(r, c)
  \/ \E r \in Requests : Step(r) \/ RequestFails(r)
  \/ \E t \in Tokens : TokenExpires(t)

Spec == Init /\ [][Next]_vars

-----------------------------------------------------------------------------
(* What sessions guarantee.                                                *)

\* A token that was replaced is not live: however refreshes and logouts race,
\* what is live are leaves of the tree of rotations.
ReplacedIsRevoked ==
  \A t \in Tokens : row[t] # "absent" /\ parent[t] # None
                      => row[parent[t]] = "revoked"

\* A browser none of whose requests or answers got lost, and which presented no
\* revoked token, keeps its session: when it has no request in flight, its cookie
\* is live or has expired, although its tabs refresh with one token at the same
\* time, answers leave before they are committed, and other tabs use the new token
\* meanwhile.
SessionSurvives ==
  \A c \in Clients \ upset :
    (\A r \in Requests : req[r].client # c) /\ cookie[c] # None
      => row[cookie[c]] = "live"

Holding == {"insert", "respond", "commit"}

\* Tokens are issued in order, and a token that is being issued is nobody else's.
IssueInv ==
  /\ \A t \in Tokens : row[t] # "absent" => t <= issued
  /\ \A r \in Requests : req[r].new # None =>
       /\ req[r].new <= issued
       /\ row[req[r].new] = "absent"
       /\ req[r].op \in {"login", "refresh"}
  /\ \A q, r \in Requests : req[q].new # None /\ req[q].new = req[r].new => q = r

\* A refresh that is past its UPDATE holds the row it replaces, and a row is
\* held only by a request past the UPDATE of it.
LockInv ==
  /\ \A r \in Requests : req[r].op = "refresh" /\ req[r].pc \in Holding
       => lock[req[r].token] = r
  /\ \A t \in Tokens, r \in Requests : lock[t] = r
       => row[t] # "absent" /\ req[r].token = t /\ req[r].pc \in Holding

RequestInv ==
  \A r \in Requests :
    /\ req[r].op = "login" => req[r].token = None
    /\ req[r].op = "refresh" =>
         /\ req[r].token # None
         /\ req[r].pc # "select" => row[req[r].token] # "absent"
    /\ req[r].op \in {"refresh", "logout"} /\ req[r].pc = "update"
         => req[r].token # None
    /\ req[r].pc \in {"select", "reuse"} => req[r].op = "refresh"
    /\ req[r].pc = "update" => req[r].op \in {"refresh", "logout"}
    /\ req[r].pc = "insert" => req[r].op \in {"login", "refresh"}
    /\ req[r].pc # "idle" => req[r].client \in Clients

\* The inductive invariant behind ReplacedIsRevoked.
SessionInv ==
  TypeOK /\ ReplacedIsRevoked /\ IssueInv /\ LockInv /\ RequestInv

\* A token goes to one browser: only its jar and its requests know it, and it is
\* in no jar and in no request before it has been answered.
OwnerInv ==
  /\ \A c \in Clients : cookie[c] # None => cookie[c] <= issued
  /\ \A r \in Requests :
       /\ req[r].token # None => req[r].token <= issued
       /\ req[r].new # None => req[r].pc \in {"respond", "commit"}
  /\ \A c, d \in Clients : cookie[c] # None /\ cookie[c] = cookie[d] => c = d
  /\ \A c \in Clients, r \in Requests : cookie[c] # None =>
       /\ req[r].token = cookie[c] => req[r].client = c
       /\ req[r].new = cookie[c] => req[r].client = c /\ req[r].pc = "commit"
  /\ \A q, r \in Requests : req[q].token # None /\ req[r].new = req[q].token
       => req[r].pc = "commit"

\* The cookie of an undisturbed browser is live or about to be committed, and
\* whoever is about to revoke it has still to answer the browser.
JarInv ==
  \A c \in Clients \ upset : cookie[c] # None =>
    /\ \/ row[cookie[c]] = "live"
       \/ \E r \in Requests : req[r].new = cookie[c]
    /\ \A r \in Requests : lock[cookie[c]] = r => req[r].pc # "commit"

\* The inductive invariant behind SessionSurvives.
SurvivalInv == SessionInv /\ OwnerInv /\ JarInv

-----------------------------------------------------------------------------
(* What the repository says of it and the code does not keep.              *)

\* services/auth.py:152, "On reuse of a revoked token: revoke the entire
\* family", and test_auth_service.py:80, "Now the freshly issued one is also
\* considered compromised": once a request has found its token revoked and
\* ended, no committed token of the family is live.
ReuseRevokesFamily ==
  [][\A r \in Requests : Reuse(r) =>
       \A s \in FamilyOf(req[r].token) : row'[s] = "revoked"]_vars

=============================================================================
