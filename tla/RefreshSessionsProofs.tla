----------------------- MODULE RefreshSessionsProofs -----------------------
(***************************************************************************)
(* The rotation of refresh tokens for any number of browsers, requests and *)
(* tokens.                                                                 *)
(***************************************************************************)
EXTENDS RefreshSessions, TLAPS

USE NoneAssumption, BoundAssumption

RequestState ==
  [pc : PCs, op : Ops, client : Clients \cup {None},
   token : Tokens \cup {None}, new : Tokens \cup {None}]

\* What RequestInv asks of one request.
RequestOK(q) ==
  /\ q.op = "login" => q.token = None
  /\ q.op = "refresh" => q.token # None
  /\ q.op \in {"refresh", "logout"} /\ q.pc = "update" => q.token # None
  /\ q.pc \in {"select", "reuse"} => q.op = "refresh"
  /\ q.pc = "update" => q.op \in {"refresh", "logout"}
  /\ q.pc = "insert" => q.op \in {"login", "refresh"}
  /\ q.pc # "idle" => q.client \in Clients

\* No token is a missing value.
LEMMA NoneIsNoToken == None \notin Tokens /\ None \notin Requests
  BY DEF Tokens

\* A token is a natural number.
LEMMA TokensAreNat == Tokens \subseteq Nat
  BY DEF Tokens

\* The empty slot is a request state that asks for nothing.
LEMMA IdleOK == Idle \in RequestState /\ RequestOK(Idle)
  BY DEF Idle, RequestState, PCs, Ops, RequestOK

\* A slot changes to a state of a request and the others keep theirs.
LEMMA SlotTyped ==
  ASSUME TypeOK, NEW r \in Requests, NEW q \in RequestState,
         req' = [req EXCEPT ![r] = q]
  PROVE  /\ req' \in [Requests -> RequestState]
         /\ req'[r] = q
         /\ \A s \in Requests : s # r => req'[s] = req[s]
  BY DEF TypeOK, RequestState

\* The slot that a step leaves keeps the request's fields but the place.
LEMMA GoTyped ==
  ASSUME TypeOK, NEW r \in Requests, NEW l \in PCs, GoTo(r, l)
  PROVE  /\ req' \in [Requests -> RequestState]
         /\ req'[r].pc = l /\ req'[r].op = req[r].op
         /\ req'[r].token = req[r].token /\ req'[r].new = req[r].new
         /\ req'[r].client = req[r].client
         /\ \A s \in Requests : s # r => req'[s] = req[s]
  BY DEF TypeOK, RequestState, GoTo

\* A request that ends leaves its slot empty.
LEMMA EndTyped ==
  ASSUME TypeOK, NEW r \in Requests, End(r)
  PROVE  /\ req' \in [Requests -> RequestState]
         /\ req'[r] = Idle
         /\ \A s \in Requests : s # r => req'[s] = req[s]
  BY IdleOK, SlotTyped DEF End

\* The end of a transaction frees its rows.
LEMMA ReleaseTyped ==
  ASSUME TypeOK, NEW r \in Requests, Release(r)
  PROVE  /\ lock' \in [Tokens -> Requests \cup {None}]
         /\ \A t \in Tokens : lock'[t] # r
         /\ \A t \in Tokens : lock[t] # r => lock'[t] = lock[t]
         /\ \A t \in Tokens : lock'[t] # None => lock'[t] = lock[t]
  BY NoneIsNoToken DEF TypeOK, Release

-----------------------------------------------------------------------------
(* A step that neither writes a row nor issues a token.                    *)

\* A request that takes no lock and leaves none keeps the invariant, if it moves
\* on from no place where it holds a row.
LEMMA QuietStep ==
  ASSUME SessionInv, NEW r \in Requests, NEW q \in RequestState,
         req' = [req EXCEPT ![r] = q],
         UNCHANGED <<row, family, parent, issued, lock>>,
         expired' = expired,
         cookie' \in [Clients -> Tokens \cup {None}],
         upset' \in SUBSET Clients,
         RequestOK(q),
         q.op = "refresh" /\ q.pc # "select" => row[q.token] # "absent",
         q.op = "refresh" /\ q.pc \in Holding => lock[q.token] = r,
         \A t \in Tokens : lock[t] = r => q.token = t /\ q.pc \in Holding,
         q.new # None => q.new = req[r].new /\ q.op = req[r].op
  PROVE  SessionInv'
<1>1. /\ req' \in [Requests -> RequestState]
      /\ req'[r] = q
      /\ \A s \in Requests : s # r => req'[s] = req[s]
  BY SlotTyped DEF SessionInv
<1>2. TypeOK'
  BY <1>1 DEF SessionInv, TypeOK, RequestState
<1>3. ReplacedIsRevoked'
  BY DEF SessionInv, ReplacedIsRevoked
<1>4. IssueInv'
  BY <1>1 DEF SessionInv, IssueInv
<1>5. LockInv'
  BY <1>1 DEF SessionInv, LockInv
<1>6. RequestInv'
  BY <1>1 DEF SessionInv, RequestInv, RequestOK
<1>7. QED
  BY <1>2, <1>3, <1>4, <1>5, <1>6 DEF SessionInv

\* A request that begins, holds nothing and starts before its UPDATE, or has none.
LEMMA BeginInv ==
  ASSUME SessionInv, NEW r \in Requests, NEW c \in Clients,
         BeginLogin(r, c) \/ BeginRefresh(r, c) \/ BeginLogout(r, c)
  PROVE  SessionInv'
<1>1. /\ req[r].pc = "idle"
      /\ UNCHANGED <<row, family, parent, issued, lock>>
      /\ expired' = expired /\ cookie' = cookie /\ upset' = upset
  BY DEF BeginLogin, BeginRefresh, BeginLogout, Begin, tokenVars
<1>2. cookie' \in [Clients -> Tokens \cup {None}] /\ upset' \in SUBSET Clients
  BY <1>1 DEF SessionInv, TypeOK
<1>3. \A t \in Tokens : lock[t] # r
  BY <1>1 DEF SessionInv, LockInv, Holding
<1>4. ASSUME NEW op \in {"login", "refresh", "logout"},
             NEW t \in Tokens \cup {None}, NEW l \in PCs,
             Begin(r, c, op, t, l),
             op = "login" => t = None /\ l = "insert",
             op = "refresh" => t # None /\ l = "select",
             op = "logout" => l \in {"update", "respond"} /\ (l = "update" => t # None)
      PROVE  SessionInv'
  <2> DEFINE q == [pc |-> l, op |-> op, client |-> c, token |-> t, new |-> None]
  <2>1. q \in RequestState
    BY <1>4 DEF RequestState, Ops
  <2>2. req' = [req EXCEPT ![r] = q]
    BY <1>4 DEF Begin
  <2>3. RequestOK(q)
    BY <1>4 DEF RequestOK
  <2>4. /\ q.op = "refresh" => q.pc = "select"
        /\ q.new = None
    BY <1>4
  <2> HIDE DEF q
  <2>5. QED
    BY <1>1, <1>2, <1>3, <2>1, <2>2, <2>3, <2>4, QuietStep DEF Holding
<1>5. CASE BeginLogin(r, c)
  <2>1. "insert" \in PCs
    BY DEF PCs
  <2>2. QED
    BY <1>4, <1>5, <2>1 DEF BeginLogin
<1>6. CASE BeginRefresh(r, c)
  <2>1. "select" \in PCs
    BY DEF PCs
  <2>2. cookie[c] \in Tokens \cup {None}
    BY DEF SessionInv, TypeOK
  <2>3. QED
    BY <1>4, <1>6, <2>1, <2>2 DEF BeginRefresh
<1>7. CASE BeginLogout(r, c)
  <2>1. "update" \in PCs /\ "respond" \in PCs
    BY DEF PCs
  <2>2. cookie[c] \in Tokens \cup {None}
    BY DEF SessionInv, TypeOK
  <2>3. QED
    BY <1>4, <1>7, <2>1, <2>2 DEF BeginLogout
<1>8. QED
  BY <1>5, <1>6, <1>7

\* A request that ends before its UPDATE holds nothing.
LEMMA EarlyEndInv ==
  ASSUME SessionInv, NEW r \in Requests, req[r].pc \notin Holding, End(r),
         UNCHANGED <<tokenVars, issued, cookie, lock>>, upset' \in SUBSET Clients
  PROVE  SessionInv'
<1>1. \A t \in Tokens : lock[t] # r
  BY DEF SessionInv, LockInv
<1>2. Idle.op = "none" /\ Idle.new = None
  BY DEF Idle
<1>3. cookie' \in [Clients -> Tokens \cup {None}]
  BY DEF SessionInv, TypeOK
<1>4. QED
  BY <1>1, <1>2, <1>3, IdleOK, QuietStep DEF End, tokenVars

\* A request that only moves on keeps what it knows.
LEMMA MoveInv ==
  ASSUME SessionInv, NEW r \in Requests, NEW l \in PCs, GoTo(r, l),
         UNCHANGED <<tokenVars, issued, lock>>,
         cookie' \in [Clients -> Tokens \cup {None}],
         upset' \in SUBSET Clients,
         \/ /\ req[r].pc = "select" /\ l \in {"reuse", "update"}
            /\ row[req[r].token] # "absent"
         \/ req[r].pc \in Holding /\ l \in Holding /\ l # "insert"
  PROVE  SessionInv'
<1> DEFINE q == [req[r] EXCEPT !.pc = l]
<1>1. req[r] \in RequestState
  BY DEF SessionInv, TypeOK, RequestState
<1>2. /\ q \in RequestState
      /\ q.pc = l /\ q.op = req[r].op /\ q.token = req[r].token
      /\ q.new = req[r].new
  BY <1>1 DEF RequestState
<1>3. req' = [req EXCEPT ![r] = q]
  BY DEF GoTo
<1>4. RequestOK(q)
  BY <1>2 DEF RequestOK, SessionInv, RequestInv, Holding
<1>5. q.op = "refresh" /\ q.pc # "select" => row[q.token] # "absent"
  BY <1>2 DEF SessionInv, RequestInv, Holding
<1>6. q.op = "refresh" /\ q.pc \in Holding => lock[q.token] = r
  BY <1>2 DEF SessionInv, LockInv, Holding
<1>7. \A t \in Tokens : lock[t] = r => q.token = t /\ q.pc \in Holding
  BY <1>2 DEF SessionInv, LockInv, Holding
<1> HIDE DEF q
<1>8. QED
  BY <1>2, <1>3, <1>4, <1>5, <1>6, <1>7, QuietStep DEF tokenVars

\* rotate_refresh reads the row of its token.
LEMMA SelectInv ==
  ASSUME SessionInv, NEW r \in Requests, SelectToken(r)
  PROVE  SessionInv'
<1>1. /\ req[r].pc = "select"
      /\ UNCHANGED <<tokenVars, issued, cookie, lock>>
      /\ upset' \in {upset, upset \cup {req[r].client}}
  BY DEF SelectToken
<1>2. cookie' \in [Clients -> Tokens \cup {None}] /\ upset' \in SUBSET Clients
  BY <1>1 DEF SessionInv, TypeOK, RequestInv
<1>3. "reuse" \in PCs /\ "update" \in PCs
  BY DEF PCs
<1>4. \/ row[req[r].token] = "revoked" /\ GoTo(r, "reuse")
      \/ row[req[r].token] = "live" /\ GoTo(r, "update")
      \/ End(r)
  BY DEF SelectToken
<1>5. CASE row[req[r].token] = "revoked" /\ GoTo(r, "reuse")
  BY <1>1, <1>2, <1>3, <1>5, MoveInv
<1>6. CASE row[req[r].token] = "live" /\ GoTo(r, "update")
  BY <1>1, <1>2, <1>3, <1>6, MoveInv
<1>7. CASE End(r)
  BY <1>1, <1>2, <1>7, EarlyEndInv DEF Holding
<1>8. QED
  BY <1>4, <1>5, <1>6, <1>7

\* The answer leaves, or is lost.
LEMMA AnswerInv ==
  ASSUME SessionInv, NEW r \in Requests, Respond(r) \/ AnswerLost(r)
  PROVE  SessionInv'
<1>1. /\ req[r].pc = "respond" /\ GoTo(r, "commit")
      /\ UNCHANGED <<tokenVars, issued, lock>>
  BY DEF Respond, AnswerLost
<1>2. req[r].new \in Tokens \cup {None} /\ req[r].client \in Clients
  BY <1>1 DEF SessionInv, TypeOK, RequestInv
<1>3. /\ cookie' \in [Clients -> Tokens \cup {None}]
      /\ upset' \in SUBSET Clients
  <2>1. CASE Respond(r)
    BY <1>2, <2>1 DEF Respond, CookieAfter, SessionInv, TypeOK
  <2>2. CASE AnswerLost(r)
    BY <1>2, <2>2 DEF AnswerLost, SessionInv, TypeOK
  <2>3. QED
    BY <2>1, <2>2
<1>4. "commit" \in PCs
  BY DEF PCs
<1>5. QED
  BY <1>1, <1>3, <1>4, MoveInv DEF Holding

-----------------------------------------------------------------------------
(* The steps that take a row, issue a token or end a transaction.          *)

\* The UPDATE takes the row it waited for.
LEMMA UpdateInv ==
  ASSUME SessionInv, NEW r \in Requests, Update(r)
  PROVE  SessionInv'
<1> DEFINE t == req[r].token
           l == IF req[r].op = "refresh" THEN "insert" ELSE "respond"
<1>1. /\ req[r].pc = "update" /\ lock[t] = None /\ GoTo(r, l)
      /\ UNCHANGED <<tokenVars, issued, cookie, upset>>
  BY DEF Update
<1>2. t \in Tokens /\ req[r].op \in {"refresh", "logout"}
  BY <1>1 DEF SessionInv, TypeOK, RequestInv
<1>3. l \in PCs /\ l \in Holding
  BY DEF PCs, Holding
<1>4. /\ req' \in [Requests -> RequestState]
      /\ req'[r].pc = l /\ req'[r].op = req[r].op
      /\ req'[r].token = t /\ req'[r].new = req[r].new
      /\ req'[r].client = req[r].client
      /\ \A s \in Requests : s # r => req'[s] = req[s]
  BY <1>1, <1>3, GoTyped DEF SessionInv
<1>5. /\ lock' \in [Tokens -> Requests \cup {None}]
      /\ \A s \in Tokens : s # t => lock'[s] = lock[s]
      /\ lock'[t] # None => lock'[t] = r /\ row[t] # "absent"
      /\ req[r].op = "refresh" => lock'[t] = r
  <2>1. req[r].op = "refresh" => Matches(r) /\ row[t] # "absent"
    BY <1>1 DEF Matches, SessionInv, RequestInv
  <2>2. lock' = IF Matches(r) /\ row[t] # "absent" THEN [lock EXCEPT ![t] = r]
                ELSE lock
    BY DEF Update
  <2>3. lock \in [Tokens -> Requests \cup {None}]
    BY DEF SessionInv, TypeOK
  <2> HIDE DEF t
  <2>4. QED
    BY <1>1, <1>2, <2>1, <2>2, <2>3
<1>6. TypeOK'
  BY <1>1, <1>4, <1>5 DEF SessionInv, TypeOK, RequestState, tokenVars
<1>7. ReplacedIsRevoked'
  BY <1>1 DEF SessionInv, ReplacedIsRevoked, tokenVars
<1>8. IssueInv'
  BY <1>1, <1>4 DEF SessionInv, IssueInv, tokenVars
<1>9. LockInv'
  <2>1. row' = row
    BY <1>1 DEF tokenVars
  <2>2. ASSUME NEW s \in Requests, req'[s].op = "refresh", req'[s].pc \in Holding
        PROVE  lock'[req'[s].token] = s
    <3>1. CASE s = r
      BY <1>4, <1>5, <2>2, <3>1
    <3>2. CASE s # r
      <4>1. lock[req[s].token] = s /\ req[s].token \in Tokens
        BY <1>4, <2>2, <3>2 DEF SessionInv, LockInv, RequestInv, TypeOK
      <4>2. req[s].token # t
        BY <1>1, <4>1, NoneIsNoToken
      <4>3. QED
        BY <1>4, <1>5, <3>2, <4>1, <4>2
    <3>3. QED
      BY <3>1, <3>2
  <2>3. ASSUME NEW u \in Tokens, NEW s \in Requests, lock'[u] = s
        PROVE  row'[u] # "absent" /\ req'[s].token = u /\ req'[s].pc \in Holding
    <3>1. CASE u = t
      BY <1>3, <1>4, <1>5, <2>1, <2>3, <3>1, NoneIsNoToken
    <3>2. CASE u # t
      <4>1. lock[u] = s
        BY <1>5, <2>3, <3>2
      <4>2. row[u] # "absent" /\ req[s].token = u /\ req[s].pc \in Holding
        BY <4>1 DEF SessionInv, LockInv
      <4>3. s # r
        BY <1>1, <4>2 DEF Holding
      <4>4. QED
        BY <1>4, <2>1, <4>2, <4>3
    <3>3. QED
      BY <3>1, <3>2
  <2>4. QED
    BY <2>2, <2>3 DEF LockInv
<1>10. RequestInv'
  <2>1. row' = row
    BY <1>1 DEF tokenVars
  <2>2. l # "select" /\ l # "reuse" /\ l # "update" /\ l # "idle"
        /\ (l = "insert" => req[r].op = "refresh")
    OBVIOUS
  <2> HIDE DEF l
  <2>3. QED
    BY <1>1, <1>2, <1>4, <2>1, <2>2 DEF SessionInv, RequestInv
<1>11. QED
  BY <1>6, <1>7, <1>8, <1>9, <1>10 DEF SessionInv

\* issue_tokens takes a token nobody has.
LEMMA InsertInv ==
  ASSUME SessionInv, NEW r \in Requests, Insert(r)
  PROVE  SessionInv'
<1> DEFINE n == issued + 1
<1>1. /\ req[r].pc = "insert" /\ issued < MaxTokens /\ issued' = n
      /\ req' = [req EXCEPT ![r].pc = "respond", ![r].new = n]
      /\ UNCHANGED <<tokenVars, cookie, lock, upset>>
  BY DEF Insert
<1>2. issued \in Nat /\ n \in Tokens /\ n \in Nat /\ n \in 0 .. MaxTokens
  BY <1>1 DEF SessionInv, TypeOK, Tokens
<1>3. /\ req' \in [Requests -> RequestState]
      /\ req'[r].pc = "respond" /\ req'[r].op = req[r].op
      /\ req'[r].token = req[r].token /\ req'[r].new = n
      /\ req'[r].client = req[r].client
      /\ \A s \in Requests : s # r => req'[s] = req[s]
  BY <1>1, <1>2 DEF SessionInv, TypeOK, RequestState, PCs
<1>4. req[r].op \in {"login", "refresh"}
  BY <1>1 DEF SessionInv, RequestInv
<1>5. \A t \in Tokens : row[t] # "absent" => t <= issued
  BY DEF SessionInv, IssueInv
<1>6. row[n] = "absent"
  BY <1>2, <1>5
<1>7. \A s \in Requests : req[s].new # None
        => req[s].new <= issued /\ req[s].new \in Nat /\ req[s].new # n
  <2>1. ASSUME NEW s \in Requests, req[s].new # None
        PROVE  req[s].new <= issued /\ req[s].new \in Nat
    BY <2>1, TokensAreNat DEF SessionInv, IssueInv, TypeOK
  <2>2. \A m \in Nat : m <= issued => m # n
    BY <1>2
  <2>3. QED
    BY <2>1, <2>2
<1> HIDE DEF n
<1>8. TypeOK'
  BY <1>1, <1>2, <1>3 DEF SessionInv, TypeOK, RequestState, tokenVars
<1>9. ReplacedIsRevoked'
  BY <1>1 DEF SessionInv, ReplacedIsRevoked, tokenVars
<1>10. IssueInv'
  <2>1. row' = row
    BY <1>1 DEF tokenVars
  <2>2. ASSUME NEW t \in Tokens, row'[t] # "absent" PROVE t <= issued'
    <3>1. t \in Nat /\ t <= issued
      BY <1>5, <2>1, <2>2, TokensAreNat
    <3>2. QED
      BY <1>1, <1>2, <3>1 DEF n
  <2>3. ASSUME NEW s \in Requests, req'[s].new # None
        PROVE  /\ req'[s].new <= issued'
               /\ row'[req'[s].new] = "absent"
               /\ req'[s].op \in {"login", "refresh"}
    <3>1. CASE s = r
      BY <1>1, <1>2, <1>3, <1>4, <1>6, <2>1, <3>1
    <3>2. CASE s # r
      <4>1. req'[s] = req[s] /\ req[s].new # None
        BY <1>3, <2>3, <3>2
      <4>2. req[s].new <= n
        BY <1>2, <1>7, <4>1 DEF n
      <4>3. row[req[s].new] = "absent" /\ req[s].op \in {"login", "refresh"}
        BY <4>1 DEF SessionInv, IssueInv
      <4>4. QED
        BY <1>1, <2>1, <4>1, <4>2, <4>3
    <3>3. QED
      BY <3>1, <3>2
  <2>4. ASSUME NEW p \in Requests, NEW s \in Requests,
               req'[p].new # None, req'[p].new = req'[s].new
        PROVE  p = s
    <3>1. CASE p = r /\ s # r
      BY <1>3, <1>7, <2>4, <3>1
    <3>2. CASE p # r /\ s = r
      BY <1>3, <1>7, <2>4, <3>2
    <3>3. CASE p # r /\ s # r
      BY <1>3, <2>4, <3>3 DEF SessionInv, IssueInv
    <3>4. QED
      BY <3>1, <3>2, <3>3
  <2>5. QED
    BY <2>2, <2>3, <2>4 DEF IssueInv
<1>11. LockInv'
  BY <1>1, <1>3 DEF SessionInv, LockInv, Holding, tokenVars
<1>12. RequestInv'
  BY <1>1, <1>3 DEF SessionInv, RequestInv, tokenVars
<1>13. QED
  BY <1>8, <1>9, <1>10, <1>11, <1>12 DEF SessionInv

\* A transaction that has ended gives up its row and its token.
LEMMA EndOwnership ==
  ASSUME SessionInv, NEW r \in Requests, Release(r), End(r),
         issued' = issued,
         \A s \in Requests \ {r} : req[s].new # None => row'[req[s].new] = "absent",
         \A u \in Tokens : row[u] # "absent" => row'[u] # "absent",
         \A u \in Tokens : row'[u] # "absent" => u <= issued
  PROVE  IssueInv' /\ LockInv' /\ RequestInv'
<1>1. /\ req' \in [Requests -> RequestState]
      /\ req'[r] = Idle
      /\ \A s \in Requests : s # r => req'[s] = req[s]
  BY EndTyped DEF SessionInv
<1>2. /\ lock' \in [Tokens -> Requests \cup {None}]
      /\ \A t \in Tokens : lock'[t] # r
      /\ \A t \in Tokens : lock[t] # r => lock'[t] = lock[t]
      /\ \A t \in Tokens : lock'[t] # None => lock'[t] = lock[t]
  BY ReleaseTyped DEF SessionInv
<1>3. /\ Idle.pc = "idle" /\ Idle.op = "none" /\ Idle.new = None
  BY DEF Idle
<1>4. IssueInv'
  BY <1>1, <1>3 DEF SessionInv, IssueInv
<1>5. LockInv'
  <2>1. ASSUME NEW s \in Requests, req'[s].op = "refresh", req'[s].pc \in Holding
        PROVE  lock'[req'[s].token] = s
    <3>1. s # r /\ req'[s] = req[s]
      BY <1>1, <1>3, <2>1
    <3>2. lock[req[s].token] = s /\ req[s].token \in Tokens
      BY <2>1, <3>1 DEF SessionInv, LockInv, RequestInv, TypeOK
    <3>3. QED
      BY <1>2, <3>1, <3>2
  <2>2. ASSUME NEW t \in Tokens, NEW s \in Requests, lock'[t] = s
        PROVE  row'[t] # "absent" /\ req'[s].token = t /\ req'[s].pc \in Holding
    <3>1. s # r /\ req'[s] = req[s] /\ lock[t] = s
      BY <1>1, <1>2, <2>2, NoneIsNoToken
    <3>2. QED
      BY <3>1 DEF SessionInv, LockInv
  <2>3. QED
    BY <2>1, <2>2 DEF LockInv
<1>6. RequestInv'
  <2>1. ASSUME NEW s \in Requests, s # r,
               req[s].op = "refresh", req[s].pc # "select"
        PROVE  row'[req[s].token] # "absent"
    <3>1. req[s].token \in Tokens /\ row[req[s].token] # "absent"
      BY <2>1 DEF SessionInv, RequestInv, TypeOK
    <3>2. QED
      BY <3>1
  <2>2. QED
    BY <1>1, <1>3, <2>1 DEF SessionInv, RequestInv
<1>7. QED
  BY <1>4, <1>5, <1>6

\* The commit revokes the token that was replaced with the one that replaces it.
LEMMA CommitInv ==
  ASSUME SessionInv, NEW r \in Requests, Commit(r)
  PROVE  SessionInv'
<1> DEFINE t == req[r].token
           n == req[r].new
<1>1. /\ req[r].pc = "commit" /\ row' = RowAfter(r)
      /\ family' = [s \in Tokens |-> IF s # n THEN family[s]
                                     ELSE IF t = None THEN n ELSE family[t]]
      /\ parent' = [s \in Tokens |-> IF s = n THEN t ELSE parent[s]]
      /\ Release(r) /\ End(r)
      /\ UNCHANGED <<expired, issued, cookie, upset>>
  BY DEF Commit
<1>2. t \in Tokens \cup {None} /\ n \in Tokens \cup {None} /\ issued \in Nat
  BY DEF SessionInv, TypeOK
<1>3. n # None => row[n] = "absent" /\ n <= issued
  BY DEF SessionInv, IssueInv
<1>4. \A u \in Tokens : lock[u] = r => row[u] # "absent" /\ u = t
  BY DEF SessionInv, LockInv
<1>5. n # None /\ t # None => lock[t] = r
  BY <1>1 DEF SessionInv, IssueInv, RequestInv, LockInv, Holding
<1>6. \A u \in Tokens : row'[u] = IF lock[u] = r THEN "revoked"
                                  ELSE IF u = n THEN "live" ELSE row[u]
  BY <1>1 DEF RowAfter
<1>7. \A u \in Tokens : parent'[u] = IF u = n THEN t ELSE parent[u]
  BY <1>1
<1> HIDE DEF t, n
<1>8. TypeOK'
  <2>1. row' \in [Tokens -> {"absent", "live", "revoked"}]
    BY <1>1 DEF RowAfter, SessionInv, TypeOK
  <2>2. parent' \in [Tokens -> Tokens \cup {None}]
    BY <1>1, <1>2 DEF SessionInv, TypeOK
  <2>3. family' \in [Tokens -> Tokens \cup {None}]
    BY <1>1, <1>2 DEF SessionInv, TypeOK
  <2>4. req' \in [Requests -> RequestState]
    BY <1>1, EndTyped DEF SessionInv
  <2>5. lock' \in [Tokens -> Requests \cup {None}]
    BY <1>1, ReleaseTyped DEF SessionInv
  <2>6. QED
    BY <1>1, <2>1, <2>2, <2>3, <2>4, <2>5 DEF SessionInv, TypeOK, RequestState
<1>9. ReplacedIsRevoked'
  <2>1. ASSUME NEW u \in Tokens, row'[u] # "absent", parent'[u] # None
        PROVE  row'[parent'[u]] = "revoked"
    <3>1. CASE u = n
      <4>1. parent'[u] = t /\ t \in Tokens /\ lock[t] = r
        BY <1>2, <1>5, <1>7, <2>1, <3>1, NoneIsNoToken
      <4>2. QED
        BY <1>6, <4>1
    <3>2. CASE u # n
      <4>1. parent'[u] = parent[u] /\ row[u] # "absent"
        BY <1>4, <1>6, <1>7, <2>1, <3>2
      <4>2. parent[u] \in Tokens /\ row[parent[u]] = "revoked"
        BY <2>1, <4>1 DEF SessionInv, ReplacedIsRevoked, TypeOK
      <4>3. parent[u] # n
        BY <1>3, <4>2, NoneIsNoToken
      <4>4. QED
        BY <1>6, <4>1, <4>2, <4>3
    <3>3. QED
      BY <3>1, <3>2
  <2>2. QED
    BY <2>1 DEF ReplacedIsRevoked
<1>10. IssueInv' /\ LockInv' /\ RequestInv'
  <2>1. ASSUME NEW s \in Requests \ {r}, req[s].new # None
        PROVE  row'[req[s].new] = "absent"
    <3>1. req[s].new \in Tokens /\ row[req[s].new] = "absent" /\ req[s].new # n
      BY <2>1 DEF SessionInv, IssueInv, TypeOK, n
    <3>2. QED
      BY <1>4, <1>6, <3>1
  <2>2. \A u \in Tokens : row[u] # "absent" => row'[u] # "absent"
    BY <1>6
  <2>3. ASSUME NEW u \in Tokens, row'[u] # "absent" PROVE u <= issued
    <3>1. CASE u = n
      BY <1>3, <3>1, NoneIsNoToken
    <3>2. CASE u # n
      <4>1. row[u] # "absent"
        BY <1>4, <1>6, <2>3, <3>2
      <4>2. QED
        BY <4>1 DEF SessionInv, IssueInv
    <3>3. QED
      BY <3>1, <3>2
  <2>4. QED
    BY <1>1, <2>1, <2>2, <2>3, EndOwnership
<1>11. QED
  BY <1>8, <1>9, <1>10 DEF SessionInv

\* A request that fails leaves the rows as they were.
LEMMA FailsInv ==
  ASSUME SessionInv, NEW r \in Requests, RequestFails(r)
  PROVE  SessionInv'
<1>1. /\ req[r].pc # "idle" /\ Release(r) /\ End(r)
      /\ UNCHANGED <<row, family, parent, expired, issued, cookie>>
      /\ upset' = upset \cup {req[r].client}
  BY DEF RequestFails, tokenVars
<1>2. req[r].client \in Clients
  BY <1>1 DEF SessionInv, RequestInv
<1>3. TypeOK'
  <2>1. req' \in [Requests -> RequestState]
    BY <1>1, EndTyped DEF SessionInv
  <2>2. lock' \in [Tokens -> Requests \cup {None}]
    BY <1>1, ReleaseTyped DEF SessionInv
  <2>3. QED
    BY <1>1, <1>2, <2>1, <2>2 DEF SessionInv, TypeOK, RequestState
<1>4. ReplacedIsRevoked'
  BY <1>1 DEF SessionInv, ReplacedIsRevoked
<1>5. IssueInv' /\ LockInv' /\ RequestInv'
  <2>1. \A s \in Requests \ {r} : req[s].new # None => row'[req[s].new] = "absent"
    BY <1>1 DEF SessionInv, IssueInv
  <2>2. \A u \in Tokens : row'[u] # "absent" => u <= issued
    BY <1>1 DEF SessionInv, IssueInv
  <2>3. QED
    BY <1>1, <2>1, <2>2, EndOwnership
<1>6. QED
  BY <1>3, <1>4, <1>5 DEF SessionInv

\* Time passes for a token.
LEMMA ExpireInv ==
  ASSUME SessionInv, NEW t \in Tokens, TokenExpires(t)
  PROVE  SessionInv'
<1>1. /\ expired' = expired \cup {t}
      /\ UNCHANGED <<row, family, parent, issued, cookie, lock, req, upset>>
  BY DEF TokenExpires
<1>2. QED
  BY <1>1 DEF SessionInv, TypeOK, ReplacedIsRevoked, IssueInv, LockInv, RequestInv

-----------------------------------------------------------------------------
(* The results.                                                            *)

\* Nobody has a token at first.
LEMMA InitInv == Init => SessionInv
<1> SUFFICES ASSUME Init PROVE SessionInv
  OBVIOUS
<1>1. TypeOK
  BY IdleOK DEF Init, TypeOK, RequestState
<1>2. ReplacedIsRevoked /\ IssueInv /\ LockInv
  BY NoneIsNoToken DEF Init, ReplacedIsRevoked, IssueInv, LockInv, Idle
<1>3. RequestInv
  BY DEF Init, RequestInv, Idle
<1>4. QED
  BY <1>1, <1>2, <1>3 DEF SessionInv

\* Every step keeps the invariant.
LEMMA NextInv == SessionInv /\ [Next]_vars => SessionInv'
<1> SUFFICES ASSUME SessionInv, [Next]_vars PROVE SessionInv'
  OBVIOUS
<1>1. ASSUME NEW r \in Requests, NEW c \in Clients,
             BeginLogin(r, c) \/ BeginRefresh(r, c) \/ BeginLogout(r, c)
      PROVE  SessionInv'
  BY <1>1, BeginInv
<1>2. ASSUME NEW r \in Requests, Step(r) PROVE SessionInv'
  <2>1. CASE SelectToken(r)
    BY <2>1, SelectInv
  <2>2. CASE Reuse(r)
    BY <2>2, EarlyEndInv DEF Reuse, Holding, SessionInv, TypeOK
  <2>3. CASE Update(r)
    BY <2>3, UpdateInv
  <2>4. CASE Insert(r)
    BY <2>4, InsertInv
  <2>5. CASE Respond(r) \/ AnswerLost(r)
    BY <2>5, AnswerInv
  <2>6. CASE Commit(r)
    BY <2>6, CommitInv
  <2>7. QED
    BY <1>2, <2>1, <2>2, <2>3, <2>4, <2>5, <2>6 DEF Step
<1>3. ASSUME NEW r \in Requests, RequestFails(r) PROVE SessionInv'
  BY <1>3, FailsInv
<1>4. ASSUME NEW t \in Tokens, TokenExpires(t) PROVE SessionInv'
  BY <1>4, ExpireInv
<1>5. CASE UNCHANGED vars
  BY <1>5 DEF vars, tokenVars, SessionInv, TypeOK, ReplacedIsRevoked, IssueInv,
              LockInv, RequestInv
<1>6. QED
  BY <1>1, <1>2, <1>3, <1>4, <1>5 DEF Next

\* SessionInv holds in every reachable state, whatever the numbers of browsers,
\* requests and tokens.
THEOREM Invariant == Spec => []SessionInv
  BY InitInv, NextInv, PTL DEF Spec

\* Rotation leaves only leaves live: a token whose replacement was committed by
\* rotate_refresh is revoked from then on.
THEOREM ReplacedIsRevokedHolds == Spec => []ReplacedIsRevoked
<1>1. SessionInv => ReplacedIsRevoked
  BY DEF SessionInv
<1>2. QED
  BY <1>1, Invariant, PTL

-----------------------------------------------------------------------------
(* The cookie of an undisturbed browser.                                   *)

\* The request that issues a token or answers one, and every other request.
OwnerFields(r) ==
  \A s \in Requests : s # r => req'[s] = req[s]

\* A step that changes neither jars nor issued tokens and forgets what it
\* changes of a request keeps the owners.
LEMMA OwnerQuiet ==
  ASSUME SessionInv, OwnerInv, NEW r \in Requests, OwnerFields(r),
         cookie' = cookie, issued' = issued,
         \/ req'[r].token = None /\ req'[r].new = None
         \/ /\ req'[r].token = req[r].token /\ req'[r].new = req[r].new
            /\ req'[r].client = req[r].client
            /\ req[r].new # None => req'[r].pc = "commit"
  PROVE  OwnerInv'
<1>1. \A s \in Requests :
        \/ req'[s].token = None /\ req'[s].new = None
        \/ /\ req'[s].token = req[s].token /\ req'[s].new = req[s].new
           /\ req'[s].client = req[s].client
           /\ req[s].new # None => req'[s].pc \in {req[s].pc, "commit"}
  BY DEF OwnerFields
<1>2. QED
  BY <1>1 DEF OwnerInv

\* A request is begun with the cookie of its client, or with none.
LEMMA OwnerBegin ==
  ASSUME SessionInv, OwnerInv, NEW r \in Requests, NEW c \in Clients,
         BeginLogin(r, c) \/ BeginRefresh(r, c) \/ BeginLogout(r, c)
  PROVE  OwnerInv'
<1>1. \E t \in {None, cookie[c]}, op \in Ops, l \in PCs : Begin(r, c, op, t, l)
  BY DEF BeginLogin, BeginRefresh, BeginLogout, Ops, PCs
<1>2. PICK t \in {None, cookie[c]}, op \in Ops, l \in PCs : Begin(r, c, op, t, l)
  BY <1>1
<1>3. /\ req'[r].token = t /\ req'[r].new = None /\ req'[r].client = c
      /\ \A s \in Requests : s # r => req'[s] = req[s]
      /\ cookie' = cookie /\ issued' = issued
  BY <1>2 DEF Begin, SessionInv, TypeOK
<1>4. \A s \in Requests : t # None /\ req[s].new = t => req[s].pc = "commit"
  BY <1>2 DEF OwnerInv
<1>5. t # None => t <= issued /\ t = cookie[c]
  BY <1>2 DEF OwnerInv
<1>6. QED
  BY <1>3, <1>4, <1>5 DEF OwnerInv

\* A token that is being issued is new to every jar and every request.
LEMMA OwnerInsert ==
  ASSUME SessionInv, OwnerInv, NEW r \in Requests, Insert(r)
  PROVE  OwnerInv'
<1> DEFINE n == issued + 1
<1>1. /\ req' = [req EXCEPT ![r].pc = "respond", ![r].new = n]
      /\ issued' = n /\ cookie' = cookie
  BY DEF Insert
<1>2. issued \in Nat /\ n \in Nat /\ issued <= n /\ ~(n <= issued)
  BY DEF SessionInv, TypeOK
<1>3. /\ req'[r].new = n /\ req'[r].token = req[r].token
      /\ req'[r].client = req[r].client
      /\ \A s \in Requests : s # r => req'[s] = req[s]
  BY <1>1 DEF SessionInv, TypeOK
<1>4. \A m \in Nat : m <= issued => m <= n /\ m # n
  BY <1>2
<1> HIDE DEF n
<1>5. \A c \in Clients : cookie[c] # None => cookie[c] \in Nat /\ cookie[c] <= issued
  <2>1. \A c \in Clients : cookie[c] \in Tokens \cup {None}
    BY DEF SessionInv, TypeOK
  <2>2. \A c \in Clients : cookie[c] # None => cookie[c] <= issued
    BY DEF OwnerInv
  <2>3. QED
    BY <2>1, <2>2, TokensAreNat
<1>6. \A s \in Requests : req[s].token # None
        => req[s].token \in Nat /\ req[s].token <= issued
  <2>1. \A s \in Requests : req[s].token \in Tokens \cup {None}
    BY DEF SessionInv, TypeOK
  <2>2. \A s \in Requests : req[s].token # None => req[s].token <= issued
    BY DEF OwnerInv
  <2>3. QED
    BY <2>1, <2>2, TokensAreNat
<1>7. \A c \in Clients : cookie[c] # None => cookie[c] <= n /\ cookie[c] # n
  BY <1>4, <1>5
<1>8. \A s \in Requests : req[s].token # None
        => req[s].token <= n /\ req[s].token # n
  BY <1>4, <1>6
<1>9. req'[r].pc = "respond"
  BY <1>1 DEF SessionInv, TypeOK
<1>10. \A c \in Clients : cookie'[c] # None => cookie'[c] <= issued'
  BY <1>1, <1>7
<1>11. \A s \in Requests :
         /\ req'[s].token # None => req'[s].token <= issued'
         /\ req'[s].new # None => req'[s].pc \in {"respond", "commit"}
  <2>1. issued' = n
    BY <1>1
  <2>2. \A s \in Requests : req[s].new # None => req[s].pc \in {"respond", "commit"}
    BY DEF OwnerInv
  <2>3. QED
    BY <1>3, <1>8, <1>9, <2>1, <2>2
<1>12. \A c, d \in Clients : cookie'[c] # None /\ cookie'[c] = cookie'[d] => c = d
  BY <1>1 DEF OwnerInv
<1>13. \A c \in Clients, s \in Requests : cookie'[c] # None =>
         /\ req'[s].token = cookie'[c] => req'[s].client = c
         /\ req'[s].new = cookie'[c] => req'[s].client = c /\ req'[s].pc = "commit"
  <2>1. cookie' = cookie
    BY <1>1
  <2>2. \A c \in Clients, s \in Requests : cookie[c] # None =>
          /\ req[s].token = cookie[c] => req[s].client = c
          /\ req[s].new = cookie[c] => req[s].client = c /\ req[s].pc = "commit"
    BY DEF OwnerInv
  <2>3. QED
    BY <1>3, <1>7, <2>1, <2>2
<1>14. \A q, s \in Requests : req'[q].token # None /\ req'[s].new = req'[q].token
         => req'[s].pc = "commit"
  BY <1>3, <1>8 DEF OwnerInv
<1>15. QED
  BY <1>10, <1>11, <1>12, <1>13, <1>14 DEF OwnerInv

\* An answer puts a token nobody else knows in the jar, or empties it.
LEMMA OwnerRespond ==
  ASSUME SessionInv, OwnerInv, NEW r \in Requests, Respond(r)
  PROVE  OwnerInv'
<1> DEFINE c == req[r].client
           n == req[r].new
<1>1. /\ req[r].pc = "respond" /\ GoTo(r, "commit")
      /\ cookie' = [cookie EXCEPT ![c] = n] /\ issued' = issued
  BY DEF Respond, CookieAfter
<1>2. c \in Clients /\ n \in Tokens \cup {None}
  BY <1>1 DEF SessionInv, RequestInv, TypeOK
<1>3. /\ cookie'[c] = n
      /\ \A d \in Clients : d # c => cookie'[d] = cookie[d]
  BY <1>1, <1>2 DEF SessionInv, TypeOK
<1>4. "commit" \in PCs
  BY DEF PCs
<1>5. /\ req'[r].pc = "commit" /\ req'[r].token = req[r].token
      /\ req'[r].new = n /\ req'[r].client = c
      /\ \A s \in Requests : s # r => req'[s] = req[s]
  BY <1>1, <1>4, GoTyped DEF SessionInv
<1>6. /\ n # None => n <= issued
      /\ \A s \in Requests : n # None /\ req[s].new = n => s = r
  BY DEF SessionInv, IssueInv
<1>7. /\ \A d \in Clients : n # None => cookie[d] # n
      /\ \A s \in Requests : n # None => req[s].token # n
  BY <1>1 DEF OwnerInv
<1> HIDE DEF c, n
<1>8. \A d \in Clients : cookie'[d] # None => cookie'[d] <= issued'
  BY <1>1, <1>3, <1>6 DEF OwnerInv
<1>9. \A s \in Requests :
        /\ req'[s].token # None => req'[s].token <= issued'
        /\ req'[s].new # None => req'[s].pc \in {"respond", "commit"}
  BY <1>1, <1>5 DEF OwnerInv
<1>10. \A d, e \in Clients : cookie'[d] # None /\ cookie'[d] = cookie'[e] => d = e
  BY <1>3, <1>7 DEF OwnerInv
<1>11. ASSUME NEW d \in Clients, NEW s \in Requests, cookie'[d] # None
       PROVE  /\ req'[s].token = cookie'[d] => req'[s].client = d
              /\ req'[s].new = cookie'[d] => req'[s].client = d /\ req'[s].pc = "commit"
  <2>1. CASE d = c
    BY <1>3, <1>5, <1>6, <1>7, <1>11, <2>1
  <2>2. CASE d # c
    BY <1>3, <1>5, <1>7, <1>11, <2>2 DEF OwnerInv, c
  <2>3. QED
    BY <2>1, <2>2
<1>12. \A q, s \in Requests : req'[q].token # None /\ req'[s].new = req'[q].token
         => req'[s].pc = "commit"
  BY <1>5 DEF OwnerInv, n
<1>13. QED
  BY <1>8, <1>9, <1>10, <1>11, <1>12 DEF OwnerInv

\* Every step keeps the owners.
LEMMA OwnerNext ==
  ASSUME SessionInv, OwnerInv, [Next]_vars
  PROVE  OwnerInv'
<1>1. ASSUME NEW r \in Requests, NEW c \in Clients,
             BeginLogin(r, c) \/ BeginRefresh(r, c) \/ BeginLogout(r, c)
      PROVE  OwnerInv'
  BY <1>1, OwnerBegin
<1>2. ASSUME NEW r \in Requests, End(r), UNCHANGED <<issued, cookie>>
      PROVE  OwnerInv'
  BY <1>2, EndTyped, OwnerQuiet DEF SessionInv, Idle, OwnerFields
<1>3. ASSUME NEW r \in Requests, NEW l \in PCs, GoTo(r, l),
             UNCHANGED <<issued, cookie>>, req[r].new = None \/ l = "commit"
      PROVE  OwnerInv'
  BY <1>3, GoTyped, OwnerQuiet DEF SessionInv, OwnerFields
<1>4. ASSUME NEW r \in Requests, Step(r) PROVE OwnerInv'
  <2>1. "reuse" \in PCs /\ "update" \in PCs /\ "insert" \in PCs
        /\ "respond" \in PCs /\ "commit" \in PCs
    BY DEF PCs
  <2>2. req[r].pc \in {"select", "update"} => req[r].new = None
    BY DEF OwnerInv
  <2>3. CASE SelectToken(r)
    BY <1>2, <1>3, <2>1, <2>2, <2>3 DEF SelectToken
  <2>4. CASE Reuse(r)
    BY <1>2, <2>4 DEF Reuse
  <2>5. CASE Update(r)
    BY <1>3, <2>1, <2>2, <2>5 DEF Update
  <2>6. CASE Insert(r)
    BY <2>6, OwnerInsert
  <2>7. CASE Respond(r)
    BY <2>7, OwnerRespond
  <2>8. CASE AnswerLost(r)
    BY <1>3, <2>1, <2>8 DEF AnswerLost
  <2>9. CASE Commit(r)
    BY <1>2, <2>9 DEF Commit
  <2>10. QED
    BY <1>4, <2>3, <2>4, <2>5, <2>6, <2>7, <2>8, <2>9 DEF Step
<1>5. ASSUME NEW r \in Requests, RequestFails(r) PROVE OwnerInv'
  BY <1>2, <1>5 DEF RequestFails
<1>6. ASSUME NEW t \in Tokens, TokenExpires(t) PROVE OwnerInv'
  BY <1>6 DEF TokenExpires, OwnerInv
<1>7. CASE UNCHANGED vars
  BY <1>7 DEF vars, OwnerInv
<1>8. QED
  BY <1>1, <1>4, <1>5, <1>6, <1>7 DEF Next

\* A step that rewrites no row and begins no end of a transaction that holds
\* one keeps the jars.
LEMMA JarQuiet ==
  ASSUME SessionInv, OwnerInv, JarInv, NEW r \in Requests, OwnerFields(r),
         row' = row, cookie' = cookie, upset \subseteq upset',
         \A t \in Tokens, s \in Requests : lock'[t] = s => lock[t] = s \/ s = r,
         \/ req'[r].pc # "commit"
         \/ \A t \in Tokens : lock'[t] # r
         \/ req[r].client \in upset' /\ \A t \in Tokens : lock'[t] = r => req[r].token = t,
         \/ req'[r].new = req[r].new
         \/ req[r].new = None
         \/ req[r].client \in upset'
  PROVE  JarInv'
<1> SUFFICES ASSUME NEW c \in Clients \ upset', cookie'[c] # None
             PROVE  /\ \/ row'[cookie'[c]] = "live"
                       \/ \E s \in Requests : req'[s].new = cookie'[c]
                    /\ \A s \in Requests : lock'[cookie'[c]] = s => req'[s].pc # "commit"
  BY DEF JarInv
<1>1. /\ \/ row[cookie[c]] = "live"
         \/ \E s \in Requests : req[s].new = cookie[c]
      /\ \A s \in Requests : lock[cookie[c]] = s => req[s].pc # "commit"
      /\ cookie[c] \in Tokens
  BY DEF JarInv, SessionInv, TypeOK
<1>2. ASSUME NEW s \in Requests, req[s].new = cookie[c]
      PROVE  \E q \in Requests : req'[q].new = cookie[c]
  <2>1. req[s].client = c
    BY <1>2 DEF OwnerInv
  <2>2. req'[s].new = cookie[c]
    BY <1>2, <2>1 DEF OwnerFields
  <2>3. QED
    BY <2>2
<1>3. ASSUME NEW s \in Requests, lock'[cookie[c]] = s
      PROVE  req'[s].pc # "commit"
  <2>1. CASE s # r
    BY <1>1, <1>3, <2>1 DEF OwnerFields
  <2>2. CASE s = r
    <3>1. req[r].token = cookie[c] => req[r].client = c
      BY DEF OwnerInv
    <3>2. QED
      BY <1>1, <1>3, <2>2, <3>1
  <2>3. QED
    BY <2>1, <2>2
<1>4. QED
  BY <1>1, <1>2, <1>3

\* The answer of a request replaces the cookie that the request is about to
\* revoke, and the new one is in nobody's way.
LEMMA JarRespond ==
  ASSUME SessionInv, OwnerInv, JarInv, NEW r \in Requests, Respond(r)
  PROVE  JarInv'
<1> DEFINE n == req[r].new
           b == req[r].client
<1>1. /\ req[r].pc = "respond" /\ GoTo(r, "commit")
      /\ cookie' = [cookie EXCEPT ![b] = n]
      /\ row' = row /\ lock' = lock /\ upset' = upset
  BY DEF Respond, CookieAfter, tokenVars
<1>2. b \in Clients /\ n \in Tokens \cup {None}
  BY <1>1 DEF SessionInv, RequestInv, TypeOK
<1>3. /\ cookie'[b] = n
      /\ \A d \in Clients : d # b => cookie'[d] = cookie[d]
  BY <1>1, <1>2 DEF SessionInv, TypeOK
<1>4. "commit" \in PCs
  BY DEF PCs
<1>5. /\ req'[r].new = n
      /\ \A s \in Requests : req'[s].new = req[s].new
      /\ \A s \in Requests : s # r => req'[s] = req[s]
  BY <1>1, <1>4, GoTyped DEF SessionInv
<1>6. n # None => \A s \in Requests : lock[n] # s
  BY <1>2 DEF SessionInv, IssueInv, LockInv
<1>7. \A t \in Tokens : lock[t] = r => req[r].token = t
  BY DEF SessionInv, LockInv
<1> SUFFICES ASSUME NEW c \in Clients \ upset, cookie'[c] # None
             PROVE  /\ \/ row[cookie'[c]] = "live"
                       \/ \E s \in Requests : req'[s].new = cookie'[c]
                    /\ \A s \in Requests : lock[cookie'[c]] = s => req'[s].pc # "commit"
  BY <1>1 DEF JarInv
<1>8. CASE c = b
  BY <1>3, <1>5, <1>6, <1>8
<1>9. CASE c # b
  <2>1. cookie'[c] = cookie[c] /\ cookie[c] \in Tokens
    BY <1>3, <1>9 DEF SessionInv, TypeOK
  <2>2. req[r].token # cookie[c]
    BY <1>9, <2>1 DEF OwnerInv, b
  <2>3. lock[cookie[c]] # r
    BY <1>7, <2>1, <2>2
  <2>4. /\ \/ row[cookie[c]] = "live"
           \/ \E s \in Requests : req[s].new = cookie[c]
        /\ \A s \in Requests : lock[cookie[c]] = s => req[s].pc # "commit"
    BY <2>1 DEF JarInv
  <2>5. QED
    BY <1>5, <2>1, <2>3, <2>4
<1>10. QED
  BY <1>8, <1>9

\* A commit makes the cookie it has sent live, and revokes nobody's cookie.
LEMMA JarCommit ==
  ASSUME SessionInv, OwnerInv, JarInv, NEW r \in Requests, Commit(r)
  PROVE  JarInv'
<1> DEFINE n == req[r].new
<1>1. /\ req[r].pc = "commit" /\ row' = RowAfter(r)
      /\ Release(r) /\ End(r) /\ cookie' = cookie /\ upset' = upset
  BY DEF Commit
<1>2. /\ \A t \in Tokens : lock'[t] # r
      /\ \A t \in Tokens : lock'[t] # None => lock'[t] = lock[t]
      /\ \A s \in Requests : s # r => req'[s] = req[s]
  BY <1>1, ReleaseTyped, EndTyped DEF SessionInv
<1>3. \A u \in Tokens : row'[u] = IF lock[u] = r THEN "revoked"
                                  ELSE IF u = n THEN "live" ELSE row[u]
  BY <1>1 DEF RowAfter
<1> HIDE DEF n
<1> SUFFICES ASSUME NEW c \in Clients \ upset, cookie[c] # None
             PROVE  /\ \/ row'[cookie[c]] = "live"
                       \/ \E s \in Requests : req'[s].new = cookie[c]
                    /\ \A s \in Requests : lock'[cookie[c]] = s => req'[s].pc # "commit"
  BY <1>1 DEF JarInv
<1>4. /\ \/ row[cookie[c]] = "live"
         \/ \E s \in Requests : req[s].new = cookie[c]
      /\ \A s \in Requests : lock[cookie[c]] = s => req[s].pc # "commit"
      /\ cookie[c] \in Tokens
  BY DEF JarInv, SessionInv, TypeOK
<1>5. lock[cookie[c]] # r
  BY <1>1, <1>4
<1>6. \/ row'[cookie[c]] = "live"
      \/ \E s \in Requests : req'[s].new = cookie[c]
  <2>1. CASE row[cookie[c]] = "live"
    BY <1>3, <1>4, <1>5, <2>1
  <2>2. CASE \E s \in Requests : req[s].new = cookie[c]
    BY <1>2, <1>3, <1>4, <1>5, <2>2 DEF n
  <2>3. QED
    BY <1>4, <2>1, <2>2
<1>7. \A s \in Requests : lock'[cookie[c]] = s => req'[s].pc # "commit"
  BY <1>2, <1>4, NoneIsNoToken
<1>8. QED
  BY <1>6, <1>7

\* Every step keeps the jars.
LEMMA JarNext ==
  ASSUME SessionInv, OwnerInv, JarInv, [Next]_vars
  PROVE  JarInv'
<1>1. ASSUME NEW r \in Requests, NEW c \in Clients,
             BeginLogin(r, c) \/ BeginRefresh(r, c) \/ BeginLogout(r, c)
      PROVE  JarInv'
  <2>1. \E t \in {None, cookie[c]}, op \in Ops, l \in PCs \ {"commit"} : Begin(r, c, op, t, l)
    BY <1>1 DEF BeginLogin, BeginRefresh, BeginLogout, Ops, PCs
  <2>2. PICK t \in {None, cookie[c]}, op \in Ops, l \in PCs \ {"commit"} :
               Begin(r, c, op, t, l)
    BY <2>1
  <2>3. /\ req'[r].pc # "commit"
        /\ OwnerFields(r) /\ req[r].pc = "idle"
        /\ row' = row /\ lock' = lock /\ cookie' = cookie /\ upset' = upset
    BY <2>2 DEF Begin, SessionInv, TypeOK, OwnerFields, tokenVars
  <2>4. req[r].new = None
    BY <2>3 DEF OwnerInv
  <2>5. QED
    BY <2>3, <2>4, JarQuiet
<1>2. ASSUME NEW r \in Requests, End(r), req[r].pc \in {"select", "reuse"},
             UNCHANGED <<tokenVars, issued, cookie, lock>>, upset \subseteq upset'
      PROVE  JarInv'
  <2>1. req'[r] = Idle /\ OwnerFields(r)
    BY <1>2, EndTyped DEF SessionInv, OwnerFields
  <2>2. req[r].new = None
    BY <1>2 DEF OwnerInv
  <2>3. Idle.pc # "commit"
    BY DEF Idle
  <2>4. QED
    BY <1>2, <2>1, <2>2, <2>3, JarQuiet DEF tokenVars
<1>3. ASSUME NEW r \in Requests, NEW l \in PCs, GoTo(r, l), l # "commit",
             UNCHANGED <<row, cookie>>, upset \subseteq upset',
             \A t \in Tokens, s \in Requests : lock'[t] = s => lock[t] = s \/ s = r
      PROVE  JarInv'
  <2>1. req'[r].pc = l /\ req'[r].new = req[r].new /\ OwnerFields(r)
    BY <1>3, GoTyped DEF SessionInv, OwnerFields
  <2>2. QED
    BY <1>3, <2>1, JarQuiet
<1>4. ASSUME NEW r \in Requests, Step(r) PROVE JarInv'
  <2>1. "reuse" \in PCs /\ "update" \in PCs /\ "insert" \in PCs
        /\ "respond" \in PCs /\ "commit" \in PCs
    BY DEF PCs
  <2>2. CASE SelectToken(r)
    BY <1>2, <1>3, <2>1, <2>2 DEF SelectToken, tokenVars
  <2>3. CASE Reuse(r)
    BY <1>2, <2>3 DEF Reuse
  <2>4. CASE Update(r)
    <3>1. \A t \in Tokens, s \in Requests : lock'[t] = s => lock[t] = s \/ s = r
      BY <2>4 DEF Update, SessionInv, TypeOK
    <3>2. QED
      BY <1>3, <2>1, <2>4, <3>1 DEF Update, tokenVars
  <2>5. CASE Insert(r)
    <3>1. req'[r].pc = "respond" /\ OwnerFields(r) /\ req[r].new = None
      BY <2>5 DEF Insert, SessionInv, TypeOK, OwnerFields, OwnerInv
    <3>2. QED
      BY <2>5, <3>1, JarQuiet DEF Insert, tokenVars
  <2>6. CASE Respond(r)
    BY <2>6, JarRespond
  <2>7. CASE AnswerLost(r)
    <3>1. req'[r].new = req[r].new /\ OwnerFields(r)
      BY <2>1, <2>7, GoTyped DEF SessionInv, OwnerFields, AnswerLost
    <3>2. \A t \in Tokens : lock[t] = r => req[r].token = t
      BY DEF SessionInv, LockInv
    <3>3. QED
      BY <2>7, <3>1, <3>2, JarQuiet DEF AnswerLost, tokenVars
  <2>8. CASE Commit(r)
    BY <2>8, JarCommit
  <2>9. QED
    BY <1>4, <2>2, <2>3, <2>4, <2>5, <2>6, <2>7, <2>8 DEF Step
<1>5. ASSUME NEW r \in Requests, RequestFails(r) PROVE JarInv'
  <2>1. /\ Release(r) /\ End(r) /\ row' = row /\ cookie' = cookie
        /\ upset' = upset \cup {req[r].client}
    BY <1>5 DEF RequestFails, tokenVars
  <2>2. /\ OwnerFields(r)
        /\ \A t \in Tokens : lock'[t] # r
        /\ \A t \in Tokens : lock'[t] # None => lock'[t] = lock[t]
    BY <2>1, ReleaseTyped, EndTyped DEF SessionInv, OwnerFields
  <2>3. \A t \in Tokens, s \in Requests : lock'[t] = s => lock[t] = s
    BY <2>2, NoneIsNoToken
  <2>4. QED
    BY <2>1, <2>2, <2>3, JarQuiet
<1>6. ASSUME NEW t \in Tokens, TokenExpires(t) PROVE JarInv'
  BY <1>6 DEF TokenExpires, JarInv
<1>7. CASE UNCHANGED vars
  BY <1>7 DEF vars, tokenVars, JarInv
<1>8. QED
  BY <1>1, <1>4, <1>5, <1>6, <1>7 DEF Next

\* A browser none of whose requests or answers got lost keeps its session,
\* however its tabs' refreshes and logouts race for the token they share.
THEOREM SessionSurvivesHolds == Spec => []SessionSurvives
<1>1. Init => SurvivalInv
  BY InitInv DEF Init, SurvivalInv, OwnerInv, JarInv, Idle
<1>2. SurvivalInv /\ [Next]_vars => SurvivalInv'
  BY NextInv, OwnerNext, JarNext DEF SurvivalInv
<1>3. SurvivalInv => SessionSurvives
  BY DEF SurvivalInv, SessionInv, OwnerInv, JarInv, SessionSurvives
<1>4. QED
  BY <1>1, <1>2, <1>3, PTL DEF Spec

=============================================================================
