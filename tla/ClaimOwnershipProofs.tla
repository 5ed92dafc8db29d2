------------------------ MODULE ClaimOwnershipProofs ------------------------
(***************************************************************************)
(* The claim flow's safety for any users, any number of requests in flight *)
(* and any number of initiations; what of it holds while the operator sets *)
(* roles and owners, too.                                                  *)
(***************************************************************************)
EXTENDS ClaimOwnershipCli, FiniteSetTheorems, NaturalsInduction, TLAPS

USE NoneAssumption, UsersAssumption, BoundAssumption
USE DEF Holding, Writing

-----------------------------------------------------------------------------
(* The values a request can hold.                                          *)

\* A free slot is a request state.
LEMMA IdleTyped == Idle \in RequestState
  BY DEF Idle, RequestState, PCs, Roles, Statuses

\* What a slot holds is a request state.
LEMMA Typed ==
  ASSUME TypeOK, NEW r \in Requests
  PROVE  req[r] \in RequestState
  BY DEF TypeOK

\* Replacing what one slot holds keeps the slots typed.
LEMMA ReqUpdateTyped ==
  ASSUME TypeOK, NEW r \in Requests, NEW q \in RequestState,
         req' = [req EXCEPT ![r] = q]
  PROVE  req' \in [Requests -> RequestState]
  BY DEF TypeOK

-----------------------------------------------------------------------------
(* Rows, tags and locks: steps that only read.                             *)

\* A free slot works on no claim.
LEMMA IdleWorks == WorksOnOwnClaim(Idle)
  BY DEF WorksOnOwnClaim, Idle, AdminOps

\* A step that only changes what one request has read keeps rows, tags and
\* locks in order, provided the request holds no lock, or goes on holding them.
LEMMA FlowReadStep ==
  ASSUME FlowInv, NEW r \in Requests, NEW q \in RequestState, WorksOnOwnClaim(q),
         req[r].pc \notin Holding \/ (q.pc \in Holding /\ q.claim = req[r].claim),
         req' = [req EXCEPT ![r] = q],
         minted' \in 0 .. MaxInitiations,
         UNCHANGED <<claimVars, providerVars, role, tag, lock>>
  PROVE  FlowInv'
<1> USE DEF claimVars, providerVars
<1>1. TypeOK /\ req' \in [Requests -> RequestState]
  BY ReqUpdateTyped DEF FlowInv
<1>2. TypeOK'
  BY <1>1 DEF TypeOK
<1>3. OwnClaimsInv'
  <2> SUFFICES ASSUME NEW s \in Requests PROVE WorksOnOwnClaim(req[s])'
    BY DEF OwnClaimsInv
  <2>1. WorksOnOwnClaim(req'[s])
    BY <1>1 DEF FlowInv, OwnClaimsInv, TypeOK
  <2>2. QED
    BY <2>1 DEF WorksOnOwnClaim
<1>4. LocksInv'
  <2>1. \A c \in Claims : lock[c] # None =>
          req'[lock[c]].pc \in Holding /\ req'[lock[c]].claim = req[lock[c]].claim
    BY <1>1 DEF FlowInv, LocksInv, TypeOK
  <2>2. QED
    BY <2>1 DEF FlowInv, LocksInv
<1>5. RowsInv' /\ TagInv' /\ OneVerifiedClaim' /\ MetaTagProof'
  BY DEF FlowInv, RowsInv, TagInv, OneVerifiedClaim, MetaTagProof
<1>6. QED
  BY <1>2, <1>3, <1>4, <1>5 DEF FlowInv

\* Starting a request: a review works on the claimant's claim.
LEMMA BeginFlow ==
  ASSUME FlowInv, NEW r \in Requests, Begin(r)
  PROVE  FlowInv'
<1>1. ASSUME NEW u \in Users, BeginInitiate(r, u) PROVE FlowInv'
  <2> DEFINE q == [Idle EXCEPT !.pc = "provider", !.op = "initiate", !.user = u,
                               !.token = <<minted + 1, u>>]
  <2>1. minted + 1 \in Serials
    BY <1>1 DEF BeginInitiate, FlowInv, TypeOK, Serials
  <2>2. q \in RequestState
    BY <2>1 DEF Idle, RequestState, PCs, Roles, Statuses, UserOps, Tokens
  <2>3. WorksOnOwnClaim(q)
    BY <2>1 DEF Idle, AdminOps, WorksOnOwnClaim
  <2> HIDE DEF q
  <2>4. /\ req[r].pc \notin Holding
        /\ req' = [req EXCEPT ![r] = q]
        /\ minted' \in 0 .. MaxInitiations
        /\ UNCHANGED <<claimVars, providerVars, role, tag, lock>>
    BY <1>1, <2>1 DEF BeginInitiate, q, Serials
  <2>5. QED
    BY <2>2, <2>3, <2>4, FlowReadStep
<1>2. ASSUME NEW u \in Users, NEW op \in {"verify", "edit"}, ReadsCaller(r, u, op)
      PROVE  FlowInv'
  <2> DEFINE q == [Idle EXCEPT !.pc = "provider", !.op = op, !.user = u,
                               !.role = role[u]]
  <2>1. role[u] \in Roles
    BY DEF TypeOK, FlowInv
  <2>2. q \in RequestState
    BY <2>1 DEF Idle, RequestState, PCs, Statuses, UserOps
  <2>3. WorksOnOwnClaim(q)
    BY DEF Idle, AdminOps, WorksOnOwnClaim
  <2> HIDE DEF q
  <2>4. QED
    BY <1>2, <2>2, <2>3, FlowReadStep DEF ReadsCaller, q, FlowInv, TypeOK
<1>3. ASSUME NEW c \in Claims, NEW op \in AdminOps, BeginReview(r, c, op)
      PROVE  FlowInv'
  <2> DEFINE p == IF op = "approve" THEN "provider" ELSE "write"
             q == [Idle EXCEPT !.pc = p, !.op = op, !.user = claimant[c],
                               !.claim = c, !.status = status[c]]
  <2>1. /\ claimant[c] \in Users
        /\ status[c] \in Statuses \ {"absent"}
        /\ status[c] = "verified" => c \in verifiedAt
        /\ p \in {"provider", "write"}
    BY <1>3 DEF TypeOK, FlowInv, RowsInv, BeginReview
  <2>2. q \in RequestState
    BY <2>1 DEF Idle, RequestState, PCs, Roles, Statuses, AdminOps
  <2>3. WorksOnOwnClaim(q)
    <3> HIDE DEF p
    <3> QED
      BY <2>1 DEF Idle, AdminOps, WorksOnOwnClaim
  <2> HIDE DEF q
  <2>4. /\ req[r].pc \notin Holding
        /\ req' = [req EXCEPT ![r] = q]
        /\ minted' \in 0 .. MaxInitiations
        /\ UNCHANGED <<claimVars, providerVars, role, tag, lock>>
    BY <1>3 DEF BeginReview, q, FlowInv, TypeOK
  <2>5. QED
    BY <2>2, <2>3, <2>4, FlowReadStep
<1>4. QED
  BY <1>1, <1>2, <1>3 DEF Begin, BeginVerify, BeginEdit

\* Reading the provider.
LEMMA LoadProviderFlow ==
  ASSUME FlowInv, NEW r \in Requests, LoadProvider(r)
  PROVE  FlowInv'
<1> DEFINE q == req[r]
           p == CASE q.op \in {"initiate", "verify"} -> "pending"
                  [] q.op = "approve" -> "user"
                  [] OTHER -> "write"
           kept == [q EXCEPT !.pc = p, !.role = "client"]
           full == [q EXCEPT !.pc = p, !.claimed = isClaimed, !.owner = claimedBy]
<1>1. /\ q \in RequestState /\ WorksOnOwnClaim(q) /\ q.pc = "provider"
      /\ isClaimed \in BOOLEAN /\ claimedBy \in Users \cup {None}
      /\ minted' \in 0 .. MaxInitiations
      /\ UNCHANGED <<claimVars, providerVars, role, tag, lock>>
  BY DEF LoadProvider, FlowInv, TypeOK, OwnClaimsInv
<1>2. p \in {"pending", "user", "write"}
  OBVIOUS
<1>3. kept \in RequestState /\ full \in RequestState
  <2>1. p \in PCs /\ "client" \in Roles
    BY <1>2 DEF PCs, Roles
  <2>2. q \in RequestState /\ isClaimed \in BOOLEAN /\ claimedBy \in Users \cup {None}
    BY <1>1
  <2> HIDE DEF p, q
  <2>3. kept \in RequestState
    BY <2>1, <2>2, ZenonT(30) DEF RequestState
  <2>4. full \in RequestState
    BY <2>1, <2>2, ZenonT(30) DEF RequestState
  <2>5. QED
    BY <2>3, <2>4
<1>4. CASE req' = [req EXCEPT ![r] = Idle]
  BY IdleWorks, <1>1, <1>4, IdleTyped, FlowReadStep
<1>5. CASE req' = [req EXCEPT ![r] = kept]
  <2>1. WorksOnOwnClaim(kept)
    BY <1>1 DEF WorksOnOwnClaim, RequestState, AdminOps
  <2> HIDE DEF kept
  <2>2. QED
    BY <1>1, <1>3, <1>5, <2>1, FlowReadStep
<1>6. CASE req' = [req EXCEPT ![r] = full]
  <2>1. WorksOnOwnClaim(full)
    BY <1>1 DEF WorksOnOwnClaim, RequestState, AdminOps
  <2> HIDE DEF full
  <2>2. QED
    BY <1>1, <1>3, <1>6, <2>1, FlowReadStep
<1>7. QED
  BY <1>4, <1>5, <1>6 DEF LoadProvider

\* Reading the claimant.
LEMMA LoadUserFlow ==
  ASSUME FlowInv, NEW r \in Requests, LoadUser(r)
  PROVE  FlowInv'
<1> DEFINE q == req[r]
           full == [q EXCEPT !.pc = "others", !.role = role[q.user]]
<1>1. /\ q \in RequestState /\ WorksOnOwnClaim(q) /\ q.pc = "user"
      /\ role \in [Users -> Roles]
      /\ minted' \in 0 .. MaxInitiations
      /\ UNCHANGED <<claimVars, providerVars, role, tag, lock>>
  BY DEF LoadUser, FlowInv, TypeOK, OwnClaimsInv
<1>2. CASE req' = [req EXCEPT ![r] = Idle]
  BY IdleWorks, <1>1, <1>2, IdleTyped, FlowReadStep
<1>3. CASE req' = [req EXCEPT ![r] = full]
  <2>1. full \in RequestState
    BY <1>1 DEF RequestState, PCs, WorksOnOwnClaim
  <2>2. WorksOnOwnClaim(full)
    BY <1>1 DEF WorksOnOwnClaim, RequestState, AdminOps
  <2> HIDE DEF full
  <2>3. QED
    BY <1>1, <1>3, <2>1, <2>2, FlowReadStep
<1>4. QED
  BY <1>2, <1>3 DEF LoadUser

\* Reading the user's pending claim: the row is the user's own.
LEMMA LoadPendingFlow ==
  ASSUME FlowInv, NEW r \in Requests, LoadPending(r)
  PROVE  FlowInv'
<1> DEFINE q == req[r]
<1>1. /\ q \in RequestState /\ WorksOnOwnClaim(q) /\ q.pc = "pending"
      /\ token \in [Claims -> Tokens \cup {None}]
      /\ minted' \in 0 .. MaxInitiations
      /\ UNCHANGED <<claimVars, providerVars, role, tag, lock>>
  BY DEF LoadPending, FlowInv, TypeOK, OwnClaimsInv
<1>2. CASE End(r)
  BY IdleWorks, <1>1, <1>2, IdleTyped, FlowReadStep DEF End
<1>3. CASE q.op = "initiate" /\ req' = [req EXCEPT ![r].pc = "write"]
  <2> DEFINE n == [q EXCEPT !.pc = "write"]
  <2>1. n \in RequestState
    BY <1>1 DEF RequestState, PCs
  <2>2. WorksOnOwnClaim(n)
    BY <1>1, <1>3 DEF WorksOnOwnClaim, RequestState, AdminOps
  <2>3. req' = [req EXCEPT ![r] = n]
    BY <1>3
  <2> HIDE DEF n
  <2>4. QED
    BY <1>1, <2>1, <2>2, <2>3, FlowReadStep
<1>4. ASSUME NEW c \in PendingOf(q.user), q.op = "initiate",
             req' = [req EXCEPT ![r] = [q EXCEPT !.pc = "write", !.claim = c]]
      PROVE  FlowInv'
  <2> DEFINE n == [q EXCEPT !.pc = "write", !.claim = c]
  <2>1. n \in RequestState
    BY <1>1 DEF RequestState, PCs, PendingOf
  <2>2. WorksOnOwnClaim(n)
    BY <1>1, <1>4 DEF WorksOnOwnClaim, RequestState, AdminOps, PendingOf
  <2>3. req' = [req EXCEPT ![r] = n]
    BY <1>4
  <2> HIDE DEF n
  <2>4. QED
    BY <1>1, <2>1, <2>2, <2>3, FlowReadStep
<1>5. ASSUME NEW c \in PendingOf(q.user), q.op # "initiate",
             req' = [req EXCEPT ![r] =
               [q EXCEPT !.pc = "homepage", !.claim = c, !.status = "pending",
                         !.token = token[c]]]
      PROVE  FlowInv'
  <2> DEFINE n == [q EXCEPT !.pc = "homepage", !.claim = c, !.status = "pending",
                            !.token = token[c]]
  <2>1. c \in Claims /\ status[c] = "pending" /\ claimant[c] = q.user
    BY DEF PendingOf
  <2>2. n \in RequestState
    BY <1>1, <2>1 DEF RequestState, PCs, Statuses
  <2>3. \E k \in Serials : token[c] = <<k, q.user>>
    BY <2>1 DEF FlowInv, RowsInv
  <2>4. WorksOnOwnClaim(n)
    BY <1>1, <1>5, <2>1, <2>3 DEF WorksOnOwnClaim, RequestState, AdminOps
  <2>5. req' = [req EXCEPT ![r] = n]
    BY <1>5
  <2> HIDE DEF n
  <2>6. QED
    BY <1>1, <2>2, <2>4, <2>5, FlowReadStep
<1>6. QED
  BY <1>2, <1>3, <1>4, <1>5 DEF LoadPending

\* A matching tag was put on the site by the user whose token it is.
LEMMA FetchHomepageFlow ==
  ASSUME FlowInv, NEW r \in Requests, FetchHomepage(r)
  PROVE  FlowInv'
<1> DEFINE q == req[r]
           n == [q EXCEPT !.pc = "others", !.token = None]
<1>1. /\ q \in RequestState /\ WorksOnOwnClaim(q) /\ q.pc = "homepage"
      /\ minted' \in 0 .. MaxInitiations
      /\ UNCHANGED <<claimVars, providerVars, role, tag, lock>>
  BY DEF FetchHomepage, FlowInv, TypeOK, OwnClaimsInv
<1>2. CASE req' = [req EXCEPT ![r] = Idle]
  BY IdleWorks, <1>1, <1>2, IdleTyped, FlowReadStep
<1>3. CASE tag # None /\ tag = q.token /\ req' = [req EXCEPT ![r] = n]
  <2>1. n \in RequestState
    BY <1>1 DEF RequestState, PCs
  <2>2. q.user \in SiteControllers
    BY <1>1, <1>3 DEF WorksOnOwnClaim, FlowInv, TagInv
  <2>3. q.op = "verify"
    BY <1>1 DEF WorksOnOwnClaim
  <2>4. WorksOnOwnClaim(n)
    BY <1>1, <2>2, <2>3 DEF WorksOnOwnClaim, RequestState, AdminOps
  <2> HIDE DEF n
  <2>5. QED
    BY <1>1, <1>3, <2>1, <2>4, FlowReadStep
<1>4. QED
  BY <1>2, <1>3 DEF FetchHomepage, TagProves

-----------------------------------------------------------------------------
(* Rows, tags and locks: steps that write.                                 *)

\* An ending request leaves the other requests, and their locks, alone.
LEMMA EndReleaseTyped ==
  ASSUME TypeOK, NEW r \in Requests, End(r)
  PROVE  /\ req' \in [Requests -> RequestState]
         /\ req'[r] = Idle
         /\ \A s \in Requests \ {r} : req'[s] = req[s]
         /\ Release(r) =>
              /\ lock' \in [Claims -> Requests \cup {None}]
              /\ \A c \in Claims :
                   lock'[c] # None => lock'[c] = lock[c] /\ lock[c] # r
  BY IdleTyped, ReqUpdateTyped DEF End, Release, TypeOK

\* A request that gives up (conflict, deadlock, failure) changes nothing else.
LEMMA AbortFlow ==
  ASSUME FlowInv, NEW r \in Requests, Release(r), End(r),
         UNCHANGED <<claimVars, providerVars, role, tag, minted>>
  PROVE  FlowInv'
<1> USE DEF claimVars, providerVars
<1>1. TypeOK'
  BY EndReleaseTyped DEF TypeOK, FlowInv
<1>2. OwnClaimsInv'
  <2> SUFFICES ASSUME NEW s \in Requests PROVE WorksOnOwnClaim(req[s])'
    BY DEF OwnClaimsInv
  <2>1. WorksOnOwnClaim(req'[s])
    BY IdleWorks, EndReleaseTyped DEF FlowInv, OwnClaimsInv
  <2>2. QED
    BY <2>1 DEF WorksOnOwnClaim
<1>3. LocksInv'
  BY EndReleaseTyped DEF LocksInv, FlowInv, TypeOK
<1>4. RowsInv' /\ TagInv' /\ OneVerifiedClaim' /\ MetaTagProof'
  BY DEF FlowInv, RowsInv, TagInv, OneVerifiedClaim, MetaTagProof
<1>5. QED
  BY <1>1, <1>2, <1>3, <1>4 DEF FlowInv

\* Going on to the next row to lock, or to the flush, changes nothing else of what
\* the request has read.
LEMMA GoesOnTyped ==
  ASSUME NEW q \in RequestState, WorksOnOwnClaim(q), q.pc \in {"others", "locking"},
         NEW rows \in SUBSET Claims, q.claim \notin rows, NEW p \in GoesOn(q, rows)
  PROVE  /\ p \in RequestState /\ WorksOnOwnClaim(p) /\ p.pc \in Holding
         /\ p.claim = q.claim /\ p.user = q.user /\ p.op = q.op /\ p.role = q.role
         /\ p.claimed = q.claimed /\ p.owner = q.owner
<1>1. CASE p = [q EXCEPT !.pc = "promote", !.next = None, !.todo = {}]
  BY <1>1 DEF RequestState, PCs, WorksOnOwnClaim, AdminOps
<1>2. ASSUME NEW d \in rows,
             p = [q EXCEPT !.pc = "locking", !.next = d, !.todo = rows \ {d}]
      PROVE  /\ p \in RequestState /\ WorksOnOwnClaim(p) /\ p.pc \in Holding
             /\ p.claim = q.claim /\ p.user = q.user /\ p.op = q.op /\ p.role = q.role
             /\ p.claimed = q.claimed /\ p.owner = q.owner
  BY <1>2 DEF RequestState, PCs, WorksOnOwnClaim, AdminOps
<1>3. QED
  BY <1>1, <1>2 DEF GoesOn

\* Going on to the next row leaves alone what the request has read.
LEMMA GoesOnReads ==
  ASSUME NEW q \in RequestState, NEW rows \in SUBSET Claims, NEW p \in GoesOn(q, rows)
  PROVE  p.claimed = q.claimed
<1>1. CASE p = [q EXCEPT !.pc = "promote", !.next = None, !.todo = {}]
  BY <1>1 DEF RequestState
<1>2. ASSUME NEW d \in rows,
             p = [q EXCEPT !.pc = "locking", !.next = d, !.todo = rows \ {d}]
      PROVE  p.claimed = q.claimed
  BY <1>2 DEF RequestState
<1>3. QED
  BY <1>1, <1>2 DEF GoesOn

\* Finding the other pending rows, and locking the rows of the user and of the
\* provider, changes no lock of a claim.
LEMMA WriteReadsFlow ==
  ASSUME FlowInv, NEW r \in Requests,
         RejectOthers(r) \/ LockUser(r) \/ LockProvider(r)
  PROVE  FlowInv'
<1> DEFINE q == req[r]
<1>1. /\ q \in RequestState /\ WorksOnOwnClaim(q)
      /\ q.pc \in {"others", "promote", "award"}
      /\ minted' \in 0 .. MaxInitiations
      /\ UNCHANGED <<claimVars, providerVars, role, tag, lock>>
  BY DEF RejectOthers, LockUser, LockProvider, FlowInv, TypeOK, OwnClaimsInv
<1>2. CASE RejectOthers(r)
  <2>1. PICK p \in GoesOn(q, OthersOf(q.claim)) : req' = [req EXCEPT ![r] = p]
    BY <1>2 DEF RejectOthers
  <2>2. /\ q.pc = "others"
        /\ OthersOf(q.claim) \in SUBSET Claims /\ q.claim \notin OthersOf(q.claim)
    BY <1>2 DEF RejectOthers, OthersOf
  <2>3. p \in RequestState /\ WorksOnOwnClaim(p)
    BY <1>1, <2>2, GoesOnTyped
  <2>4. QED
    BY <1>1, <2>1, <2>2, <2>3, FlowReadStep
<1>3. CASE LockUser(r)
  <2> DEFINE n == [q EXCEPT !.pc = "award"]
  <2>1. /\ n \in RequestState /\ WorksOnOwnClaim(n)
        /\ n.pc \in Holding /\ n.claim = q.claim
    BY <1>1, <1>3 DEF LockUser, RequestState, PCs, WorksOnOwnClaim, AdminOps
  <2>2. req' = [req EXCEPT ![r] = n]
    BY <1>3 DEF LockUser
  <2> HIDE DEF n
  <2>3. QED
    BY <1>1, <2>1, <2>2, FlowReadStep
<1>4. CASE LockProvider(r)
  <2> DEFINE n == [q EXCEPT !.pc = "commit"]
  <2>1. /\ n \in RequestState /\ WorksOnOwnClaim(n)
        /\ n.pc \in Holding /\ n.claim = q.claim
    BY <1>1, <1>4 DEF LockProvider, RequestState, PCs, WorksOnOwnClaim, AdminOps
  <2>2. req' = [req EXCEPT ![r] = n]
    BY <1>4 DEF LockProvider
  <2> HIDE DEF n
  <2>3. QED
    BY <1>1, <2>1, <2>2, FlowReadStep
<1>5. QED
  BY <1>2, <1>3, <1>4

\* A verification locks a row that is pending, not its own and locked by nobody
\* else.
LEMMA LockOtherFlow ==
  ASSUME FlowInv, NEW r \in Requests, LockOther(r)
  PROVE  FlowInv'
<1> DEFINE q == req[r]
<1> USE DEF claimVars, providerVars
<1>1. /\ q \in RequestState /\ WorksOnOwnClaim(q) /\ q.pc = "locking"
      /\ q.next \in Claims /\ q.next # q.claim
      /\ q.todo \in SUBSET Claims /\ q.claim \notin q.todo
  BY DEF LockOther, FlowInv, TypeOK, OwnClaimsInv, WorksOnOwnClaim, RequestState
<1>2. PICK p \in GoesOn(q, q.todo) : req' = [req EXCEPT ![r] = p]
  BY DEF LockOther
<1>3. p \in RequestState /\ WorksOnOwnClaim(p) /\ p.pc \in Holding /\ p.claim = q.claim
  BY <1>1, GoesOnTyped
<1>4. /\ req' \in [Requests -> RequestState]
      /\ req'[r] = p
      /\ \A s \in Requests \ {r} : req'[s] = req[s]
  BY <1>2, <1>3, ReqUpdateTyped DEF FlowInv, TypeOK
<1>5. /\ lock' \in [Claims -> Requests \cup {None}]
      /\ \A c \in Claims :
           lock'[c] = lock[c] \/ (lock'[c] = r /\ c = q.next /\ status[c] = "pending")
  BY <1>1 DEF LockOther, FlowInv, TypeOK
<1>6. TypeOK'
  BY <1>4, <1>5 DEF LockOther, TypeOK, FlowInv
<1>7. OwnClaimsInv'
  <2> SUFFICES ASSUME NEW s \in Requests PROVE WorksOnOwnClaim(req[s])'
    BY DEF OwnClaimsInv
  <2>1. WorksOnOwnClaim(req'[s])
    BY <1>3, <1>4 DEF FlowInv, OwnClaimsInv
  <2>2. QED
    BY <2>1 DEF LockOther, WorksOnOwnClaim
<1>8. LocksInv'
  <2> SUFFICES ASSUME NEW c \in Claims, lock'[c] # None
               PROVE  /\ req'[lock'[c]].pc \in Holding
                      /\ req'[lock'[c]].claim # c
                      /\ status[c] = "pending"
    BY DEF LocksInv, LockOther
  <2>1. CASE lock'[c] = r /\ c = q.next /\ status[c] = "pending"
    BY <1>1, <1>3, <1>4, <2>1
  <2>2. CASE lock'[c] = lock[c]
    BY <1>3, <1>4, <2>2 DEF LocksInv, FlowInv, TypeOK
  <2>3. QED
    BY <1>5, <2>1, <2>2
<1>9. RowsInv' /\ TagInv' /\ OneVerifiedClaim' /\ MetaTagProof'
  BY DEF FlowInv, RowsInv, TagInv, OneVerifiedClaim, MetaTagProof, LockOther
<1>10. QED
  BY <1>6, <1>7, <1>8, <1>9 DEF FlowInv

\* A published tag was minted for somebody who controls the site.
LEMMA PublishTagFlow ==
  ASSUME FlowInv, NEW t \in Tokens \cup {None}, PublishTag(t)
  PROVE  FlowInv'
<1> USE DEF claimVars, providerVars
<1>1. TypeOK'
  BY DEF PublishTag, TypeOK, FlowInv
<1>2. TagInv'
  <2>1. CASE t = None
    BY <2>1 DEF PublishTag, TagInv
  <2>2. ASSUME NEW c \in Claims, token[c] = t, claimant[c] \in SiteControllers
        PROVE  TagInv'
    <3>1. status[c] # "absent" => \E n \in Serials : t = <<n, claimant[c]>>
      BY <2>2 DEF FlowInv, RowsInv
    <3>2. status[c] # "absent"
      BY <2>2 DEF FlowInv, RowsInv
    <3>3. QED
      BY <2>2, <3>1, <3>2 DEF PublishTag, TagInv
  <2>3. QED
    BY <2>1, <2>2 DEF PublishTag
<1>3. OwnClaimsInv' /\ LocksInv'
  BY DEF PublishTag, FlowInv, OwnClaimsInv, LocksInv, WorksOnOwnClaim
<1>4. RowsInv' /\ OneVerifiedClaim' /\ MetaTagProof'
  BY DEF FlowInv, RowsInv, OneVerifiedClaim, MetaTagProof, PublishTag
<1>5. QED
  BY <1>1, <1>2, <1>3, <1>4 DEF FlowInv

\* An edit writes no claim.
LEMMA CommitEditFlow ==
  ASSUME FlowInv, NEW r \in Requests, CommitEdit(r)
  PROVE  FlowInv'
<1> USE DEF claimVars, providerVars
<1>1. /\ req[r] \in RequestState /\ req[r].pc = "write"
  BY DEF CommitEdit, FlowInv, TypeOK
<1>2. /\ req' \in [Requests -> RequestState]
      /\ req'[r] = Idle
      /\ \A s \in Requests \ {r} : req'[s] = req[s]
  BY EndReleaseTyped DEF CommitEdit, FlowInv
<1>3. TypeOK'
  BY <1>1, <1>2 DEF CommitEdit, TypeOK, FlowInv, RequestState
<1>4. OwnClaimsInv'
  <2> SUFFICES ASSUME NEW s \in Requests PROVE WorksOnOwnClaim(req[s])'
    BY DEF OwnClaimsInv
  <2>1. WorksOnOwnClaim(req'[s])
    BY <1>2, IdleWorks DEF FlowInv, OwnClaimsInv
  <2>2. QED
    BY <2>1 DEF CommitEdit, WorksOnOwnClaim
<1>5. LocksInv'
  BY <1>1, <1>2 DEF CommitEdit, FlowInv, LocksInv, TypeOK
<1>6. RowsInv' /\ TagInv' /\ OneVerifiedClaim' /\ MetaTagProof'
  BY DEF FlowInv, RowsInv, TagInv, OneVerifiedClaim, MetaTagProof, CommitEdit
<1>7. QED
  BY <1>3, <1>4, <1>5, <1>6 DEF FlowInv

\* A rejection writes a row nobody has locked.
LEMMA CommitRejectFlow ==
  ASSUME FlowInv, NEW r \in Requests, CommitReject(r)
  PROVE  FlowInv'
<1> USE DEF claimVars, providerVars
<1> DEFINE q == req[r]
<1>1. /\ q \in RequestState /\ WorksOnOwnClaim(q) /\ q.pc = "write"
      /\ q.op = "reject"
      /\ q.claim \in Claims /\ status[q.claim] # "absent"
      /\ lock[q.claim] \in {None, r}
  BY DEF CommitReject, FlowInv, TypeOK, OwnClaimsInv, WorksOnOwnClaim,
         AdminOps, Unlocked
<1>2. /\ req' \in [Requests -> RequestState]
      /\ req'[r] = Idle
      /\ \A s \in Requests \ {r} : req'[s] = req[s]
  BY EndReleaseTyped DEF CommitReject, FlowInv
<1>3. /\ status' \in [Claims -> Statuses]
      /\ \A c \in Claims :
           status'[c] = status[c] \/ (c = q.claim /\ status'[c] = "rejected")
  BY <1>1 DEF CommitReject, StatusAfterReject, FlowInv, TypeOK, Statuses
<1>4. TypeOK'
  BY <1>2, <1>3 DEF CommitReject, TypeOK, FlowInv
<1>5. OwnClaimsInv'
  <2> SUFFICES ASSUME NEW s \in Requests PROVE WorksOnOwnClaim(req[s])'
    BY DEF OwnClaimsInv
  <2>1. WorksOnOwnClaim(req'[s]) /\ req'[s] \in RequestState
    BY <1>2, IdleWorks DEF FlowInv, OwnClaimsInv
  <2>2. QED
    BY <1>1, <1>3, <2>1 DEF CommitReject, WorksOnOwnClaim, RequestState
<1>6. LocksInv'
  <2>1. lock[q.claim] = None
    BY <1>1 DEF FlowInv, LocksInv
  <2>2. QED
    BY <1>1, <1>2, <1>3, <2>1
       DEF CommitReject, FlowInv, LocksInv, TypeOK
<1>7. RowsInv' /\ TagInv' /\ OneVerifiedClaim' /\ MetaTagProof'
  BY <1>1, <1>3 DEF FlowInv, RowsInv, TagInv, OneVerifiedClaim, MetaTagProof,
                    CommitReject
<1>8. QED
  BY <1>4, <1>5, <1>6, <1>7 DEF FlowInv

\* What an initiation writes: a row of its own, or the token of the row it read.
LEMMA CommitInitiateEffect ==
  ASSUME FlowInv, NEW r \in Requests, CommitInitiate(r),
         NEW row, row = IF req[r].claim = None THEN req[r].token[1] ELSE req[r].claim
  PROVE  /\ row \in Claims
         /\ req[r].pc = "write" /\ req[r].user \in Users
         /\ \E n \in Serials : req[r].token = <<n, req[r].user>>
         /\ status' \in [Claims -> Statuses]
         /\ claimant' \in [Claims -> Users \cup {None}]
         /\ token' \in [Claims -> Tokens \cup {None}]
         /\ token'[row] = req[r].token
         /\ status'[row] # "absent" /\ claimant'[row] = req[r].user
         /\ status[row] # "absent" =>
              status'[row] = status[row] /\ claimant[row] = req[r].user
         /\ status[row] = "absent" => status'[row] = "pending"
         /\ \A c \in Claims \ {row} :
              /\ status'[c] = status[c]
              /\ claimant'[c] = claimant[c]
              /\ token'[c] = token[c]
<1> DEFINE q == req[r]
<1>1. /\ q \in RequestState /\ q.op = "initiate" /\ q.user \in Users
      /\ \E n \in Serials : q.token = <<n, q.user>>
      /\ q.claim # None =>
           /\ q.claim \in Claims
           /\ status[q.claim] # "absent" /\ claimant[q.claim] = q.user
      /\ q.pc = "write"
  BY DEF CommitInitiate, FlowInv, TypeOK, OwnClaimsInv, WorksOnOwnClaim,
         RequestState
<1>2. row \in Claims /\ q.token \in Tokens
  BY <1>1 DEF Tokens, Claims
<1>3. QED
  BY <1>1, <1>2 DEF CommitInitiate, FlowInv, TypeOK, Statuses

\* An initiation inserts a row of its own or refreshes the one it read.
LEMMA CommitInitiateFlow ==
  ASSUME FlowInv, NEW r \in Requests, CommitInitiate(r)
  PROVE  FlowInv'
<1> USE DEF claimVars, providerVars
<1> DEFINE q == req[r]
           row == IF q.claim = None THEN q.token[1] ELSE q.claim
<1>1. /\ row \in Claims
      /\ q.pc = "write" /\ q.user \in Users
      /\ \E n \in Serials : q.token = <<n, q.user>>
      /\ status' \in [Claims -> Statuses]
      /\ claimant' \in [Claims -> Users \cup {None}]
      /\ token' \in [Claims -> Tokens \cup {None}]
      /\ token'[row] = q.token
      /\ status'[row] # "absent" /\ claimant'[row] = q.user
      /\ status[row] # "absent" => status'[row] = status[row] /\ claimant[row] = q.user
      /\ status[row] = "absent" => status'[row] = "pending"
      /\ \A c \in Claims \ {row} :
           status'[c] = status[c] /\ claimant'[c] = claimant[c] /\ token'[c] = token[c]
  BY CommitInitiateEffect
<1> HIDE DEF row
<1>2. UNCHANGED <<method, verifiedAt, isClaimed, claimedBy, lastEditor, role, tag,
                  minted, lock>>
  BY DEF CommitInitiate
<1>3. /\ req' \in [Requests -> RequestState]
      /\ req'[r] = Idle
      /\ \A s \in Requests \ {r} : req'[s] = req[s]
  BY EndReleaseTyped DEF CommitInitiate, FlowInv
<1>4. TypeOK'
  BY <1>1, <1>2, <1>3 DEF TypeOK, FlowInv
<1>5. RowsInv'
  <2> SUFFICES ASSUME NEW c \in Claims
               PROVE  /\ status'[c] = "absent" => claimant'[c] = None
                      /\ status'[c] # "absent" =>
                           /\ claimant'[c] \in Users
                           /\ \E n \in Serials : token'[c] = <<n, claimant'[c]>>
                      /\ c \in verifiedAt => status'[c] # "absent"
                      /\ status'[c] = "verified" => c \in verifiedAt
    BY <1>2 DEF RowsInv
  <2>1. CASE c = row
    BY <1>1, <2>1 DEF FlowInv, RowsInv
  <2>2. CASE c # row
    BY <1>1, <2>2 DEF FlowInv, RowsInv
  <2>3. QED
    BY <2>1, <2>2
<1>6. OwnClaimsInv'
  <2> SUFFICES ASSUME NEW s \in Requests PROVE WorksOnOwnClaim(req[s])'
    BY DEF OwnClaimsInv
  <2>1. WorksOnOwnClaim(req'[s]) /\ req'[s] \in RequestState
    BY <1>3, IdleWorks DEF FlowInv, OwnClaimsInv
  <2>2. QED
    BY <1>1, <1>2, <2>1 DEF WorksOnOwnClaim, RequestState
<1>7. LocksInv'
  BY <1>1, <1>2, <1>3 DEF FlowInv, LocksInv, TypeOK
<1>8. TagInv' /\ OneVerifiedClaim' /\ MetaTagProof'
  BY <1>1, <1>2 DEF FlowInv, TagInv, OneVerifiedClaim, MetaTagProof
<1>9. QED
  BY <1>4, <1>5, <1>6, <1>7, <1>8 DEF FlowInv

\* What a committed verification does to the claims.
LEMMA CommitVerifiedEffect ==
  ASSUME FlowInv, NEW r \in Requests, CommitVerified(r)
  PROVE  LET q == req[r] IN
         /\ q \in RequestState /\ WorksOnOwnClaim(q)
         /\ q.claim \in Claims /\ q.user \in Users
         /\ q.op \in {"approve", "verify"}
         /\ status[q.claim] # "absent" /\ claimant[q.claim] = q.user
         /\ q.status = "verified" => q.claim \in verifiedAt
         /\ q.status # "verified" =>
              /\ status'[q.claim] = "verified"
              /\ \A c \in Claims \ {q.claim} : status[c] # "verified"
         /\ status' \in [Claims -> Statuses]
         /\ \A c \in Claims :
              /\ status'[c] # status[c] =>
                   \/ lock[c] = r /\ status'[c] = "rejected"
                   \/ c = q.claim /\ status'[c] = "verified" /\ q.status # "verified"
              /\ lock[c] = r => status[c] = "pending" /\ c # q.claim
              /\ lock[c] \notin {None, r} => status'[c] = status[c]
         /\ verifiedAt' = verifiedAt \cup {q.claim}
         /\ claimedBy' \in Users \cup {None}
<1> DEFINE q == req[r]
<1>1. /\ q \in RequestState /\ WorksOnOwnClaim(q) /\ q.pc = "commit"
      /\ lock[q.claim] \in Requests \cup {None}
      /\ \A s \in Requests : s # r => lock[q.claim] # s
  BY DEF CommitVerified, GetsItsRow, Blocks, FlowInv, TypeOK, OwnClaimsInv,
         WorksOnOwnClaim
<1>2. /\ q.claim \in Claims /\ q.user \in Users
      /\ q.op \in {"approve", "verify"}
      /\ status[q.claim] # "absent" /\ claimant[q.claim] = q.user
      /\ q.status = "verified" => q.claim \in verifiedAt
  BY <1>1 DEF WorksOnOwnClaim, AdminOps
<1>3. \A c \in Claims : lock[c] = r => status[c] = "pending" /\ c # q.claim
  BY DEF FlowInv, LocksInv
<1>4. /\ status' \in [Claims -> Statuses]
      /\ \A c \in Claims :
           status'[c] = CASE lock[c] = r -> "rejected"
                          [] c = q.claim /\ q.status # "verified" -> "verified"
                          [] OTHER -> status[c]
  BY DEF CommitVerified, FlowInv, TypeOK, Statuses
<1>5. q.status # "verified" => \A c \in Claims \ {q.claim} : status[c] # "verified"
  BY DEF CommitVerified, BreaksUniqueIndex
<1>6. verifiedAt' = verifiedAt \cup {q.claim}
  BY DEF CommitVerified
<1>7. claimedBy' \in Users \cup {None}
  BY <1>2 DEF CommitVerified, OwnerAfter, FlowInv, TypeOK
<1> HIDE DEF q
<1>8. /\ q.status # "verified" => status'[q.claim] = "verified"
      /\ \A c \in Claims :
           /\ status'[c] # status[c] =>
                \/ lock[c] = r /\ status'[c] = "rejected"
                \/ c = q.claim /\ status'[c] = "verified" /\ q.status # "verified"
           /\ lock[c] \notin {None, r} => status'[c] = status[c]
  <2>1. q.status # "verified" => status'[q.claim] = "verified"
    BY <1>2, <1>3, <1>4
  <2>2. ASSUME NEW c \in Claims
        PROVE  /\ status'[c] # status[c] =>
                    \/ lock[c] = r /\ status'[c] = "rejected"
                    \/ c = q.claim /\ status'[c] = "verified" /\ q.status # "verified"
               /\ lock[c] \notin {None, r} => status'[c] = status[c]
    BY <1>1, <1>4 DEF q
  <2>3. QED
    BY <2>1, <2>2
<1>9. QED
  BY <1>1, <1>2, <1>3, <1>4, <1>5, <1>6, <1>7, <1>8 DEF q

\* What a committed verification does to the roles: it promotes its user, if it
\* read him to be a client.
LEMMA PromotionEffect ==
  ASSUME FlowInv, NEW r \in Requests, CommitVerified(r)
  PROVE  /\ role' \in [Users -> Roles]
         /\ \A u \in Users : role'[u] # role[u] =>
              /\ u = req[r].user /\ req[r].role = "client"
              /\ role'[u] = "provider_owner"
         /\ req[r].role = "client" => role'[req[r].user] = "provider_owner"
         /\ req[r].role # "client" => role' = role
<1>1. req[r].user \in Users
  BY CommitVerifiedEffect
<1>2. role \in [Users -> Roles] /\ role' = RoleAfter(req[r])
  BY DEF CommitVerified, FlowInv, TypeOK
<1>3. QED
  BY <1>1, <1>2 DEF RoleAfter, PromotesUser, Roles

\* A verification moves claims and locks together.
LEMMA CommitVerifiedFlow ==
  ASSUME FlowInv, NEW r \in Requests, CommitVerified(r)
  PROVE  FlowInv'
<1> DEFINE q == req[r]
<1>1. /\ q \in RequestState /\ WorksOnOwnClaim(q) /\ q.claim \in Claims
      /\ q.user \in Users
      /\ claimant[q.claim] = q.user /\ status[q.claim] # "absent"
      /\ q.op \in {"approve", "verify"}
      /\ q.pc = "commit"
  BY CommitVerifiedEffect DEF CommitVerified
<1>2. /\ q.status = "verified" => q.claim \in verifiedAt
      /\ q.status # "verified" =>
           /\ status'[q.claim] = "verified"
           /\ \A c \in Claims \ {q.claim} : status[c] # "verified"
      /\ status' \in [Claims -> Statuses]
      /\ \A c \in Claims :
           /\ status'[c] # status[c] =>
                \/ lock[c] = r /\ status'[c] = "rejected"
                \/ c = q.claim /\ status'[c] = "verified" /\ q.status # "verified"
           /\ lock[c] = r => status[c] = "pending" /\ c # q.claim
           /\ lock[c] \notin {None, r} => status'[c] = status[c]
      /\ verifiedAt' = verifiedAt \cup {q.claim}
  BY CommitVerifiedEffect
<1>3. isClaimed' \in BOOLEAN /\ claimedBy' \in Users \cup {None}
  BY CommitVerifiedEffect DEF CommitVerified
<1>4. /\ req' \in [Requests -> RequestState]
      /\ req'[r] = Idle
      /\ \A s \in Requests \ {r} : req'[s] = req[s]
      /\ lock' \in [Claims -> Requests \cup {None}]
      /\ \A c \in Claims : lock'[c] # None => lock'[c] = lock[c] /\ lock[c] # r
  BY EndReleaseTyped DEF CommitVerified, FlowInv
<1>5. role' \in [Users -> Roles]
  BY PromotionEffect
<1>6. /\ method' \in [Claims -> Methods]
      /\ \A c \in Claims : method'[c] # method[c] => method'[c] = "admin_manual"
      /\ q.op = "approve" => method'[q.claim] = "admin_manual"
      /\ UNCHANGED <<claimant, token, lastEditor, tag, minted>>
  BY <1>1 DEF CommitVerified, FlowInv, TypeOK, Methods
<1> HIDE DEF q
<1>8. TypeOK'
  BY <1>1, <1>2, <1>3, <1>4, <1>5, <1>6 DEF TypeOK, FlowInv
<1>9. RowsInv'
  <2> SUFFICES ASSUME NEW c \in Claims
               PROVE  /\ status'[c] = "absent" <=> status[c] = "absent"
                      /\ c \in verifiedAt' => status'[c] # "absent"
                      /\ status'[c] = "verified" => c \in verifiedAt'
    BY <1>6 DEF RowsInv, FlowInv
  <2>1. status'[c] = "absent" <=> status[c] = "absent"
    <3>1. CASE status'[c] = status[c]
      BY <3>1
    <3>2. CASE lock[c] = r /\ status'[c] = "rejected"
      BY <1>2, <3>2
    <3>3. CASE c = q.claim
      BY <1>1, <1>2, <3>3
    <3>4. QED
      BY <1>2, <3>1, <3>2, <3>3
  <2>2. QED
    BY <1>1, <1>2, <2>1 DEF FlowInv, RowsInv
<1>10. OwnClaimsInv'
  <2> SUFFICES ASSUME NEW s \in Requests PROVE WorksOnOwnClaim(req[s])'
    BY DEF OwnClaimsInv
  <2>1. WorksOnOwnClaim(req'[s]) /\ req'[s] \in RequestState
    BY <1>4, IdleWorks DEF FlowInv, OwnClaimsInv
  <2>2. \A c \in Claims : status[c] # "absent" => status'[c] # "absent"
    BY <1>2
  <2>3. QED
    BY <1>2, <1>6, <2>1, <2>2 DEF WorksOnOwnClaim, RequestState
<1>11. LocksInv'
  BY <1>2, <1>4 DEF FlowInv, LocksInv, TypeOK
<1>12. TagInv' /\ OneVerifiedClaim'
  BY <1>1, <1>2, <1>6 DEF FlowInv, TagInv, OneVerifiedClaim
<1>13. MetaTagProof'
  <2> SUFFICES ASSUME NEW c \in Claims, status'[c] = "verified",
                      method'[c] = "meta_tag"
               PROVE  claimant[c] \in SiteControllers
    BY <1>6 DEF MetaTagProof
  <2>1. method[c] = "meta_tag"
    BY <1>6
  <2>2. CASE status[c] = "verified"
    BY <2>1, <2>2 DEF FlowInv, MetaTagProof
  <2>3. CASE status[c] # "verified"
    <3>1. c = q.claim
      BY <1>2, <2>3
    <3>2. q.op = "verify"
      BY <1>1, <1>6, <3>1
    <3>3. QED
      BY <1>1, <3>1, <3>2 DEF WorksOnOwnClaim
  <2>4. QED
    BY <2>2, <2>3
<1>14. QED
  BY <1>8, <1>9, <1>10, <1>11, <1>12, <1>13 DEF FlowInv

-----------------------------------------------------------------------------
(* Rows, tags and locks, always.                                           *)

\* Nothing is claimed, published or locked at first.
LEMMA InitFlow == Init => FlowInv
<1> SUFFICES ASSUME Init PROVE FlowInv
  OBVIOUS
<1>1. TypeOK
  <2>1. req \in [Requests -> RequestState]
    BY IdleTyped DEF Init
  <2>2. role \in [Users -> Roles] /\ status \in [Claims -> Statuses]
    BY DEF Init, Roles, Statuses
  <2>3. /\ claimant \in [Claims -> Users \cup {None}]
        /\ method \in [Claims -> Methods]
        /\ token \in [Claims -> Tokens \cup {None}]
        /\ lock \in [Claims -> Requests \cup {None}]
    BY DEF Init, Methods
  <2>4. /\ verifiedAt = {} /\ isClaimed = FALSE /\ minted = 0
        /\ claimedBy = None /\ lastEditor = None /\ tag = None
    BY Zenon DEF Init
  <2>5. 0 \in 0 .. MaxInitiations
    OBVIOUS
  <2>6. /\ verifiedAt \in SUBSET Claims /\ isClaimed \in BOOLEAN
        /\ minted \in 0 .. MaxInitiations /\ claimedBy \in Users \cup {None}
        /\ lastEditor \in Users \cup {None} /\ tag \in Tokens \cup {None}
    BY <2>4, <2>5, Zenon
  <2>7. QED
    BY <2>1, <2>2, <2>3, <2>6, Zenon DEF TypeOK
<1>2. OwnClaimsInv
  BY IdleWorks DEF Init, OwnClaimsInv
<1>3. QED
  BY <1>1, <1>2 DEF Init, FlowInv, RowsInv, TagInv, LocksInv,
     OneVerifiedClaim, MetaTagProof

\* Every step of the claim flow keeps rows, tags and locks in order.
LEMMA StepFlow == FlowInv /\ [Next]_vars => FlowInv'
<1> SUFFICES ASSUME FlowInv, [Next]_vars PROVE FlowInv'
  OBVIOUS
<1>1. ASSUME NEW r \in Requests, Begin(r) PROVE FlowInv'
  BY <1>1, BeginFlow
<1>2. ASSUME NEW r \in Requests, Proceed(r) PROVE FlowInv'
  <2>1. CASE LoadProvider(r) \/ LoadUser(r) \/ LoadPending(r) \/ FetchHomepage(r)
    BY <2>1, LoadProviderFlow, LoadUserFlow, LoadPendingFlow, FetchHomepageFlow
  <2>2. CASE RejectOthers(r) \/ LockUser(r) \/ LockProvider(r)
    BY <2>2, WriteReadsFlow
  <2>6. CASE LockOther(r) \/ CommitVerified(r)
    BY <2>6, LockOtherFlow, CommitVerifiedFlow
  <2>3. CASE VerifiedConflict(r) \/ DeadlockAbort(r)
    BY <2>3, AbortFlow DEF VerifiedConflict, DeadlockAbort
  <2>4. CASE CommitInitiate(r) \/ CommitReject(r) \/ CommitEdit(r)
    BY <2>4, CommitInitiateFlow, CommitRejectFlow, CommitEditFlow
  <2>5. QED
    BY <1>2, <2>1, <2>2, <2>3, <2>4, <2>6 DEF Proceed
<1>3. ASSUME NEW r \in Requests, RequestFails(r) PROVE FlowInv'
  BY <1>3, AbortFlow DEF RequestFails
<1>4. ASSUME NEW t \in Tokens \cup {None}, PublishTag(t) PROVE FlowInv'
  BY <1>4, PublishTagFlow
<1>5. CASE UNCHANGED vars
  <2> USE <1>5 DEF vars, claimVars, providerVars
  <2>1. TypeOK' /\ RowsInv' /\ TagInv' /\ LocksInv'
    BY DEF FlowInv, TypeOK, RowsInv, TagInv, LocksInv
  <2>2. OwnClaimsInv'
    BY DEF FlowInv, OwnClaimsInv, WorksOnOwnClaim
  <2>3. OneVerifiedClaim' /\ MetaTagProof'
    BY DEF FlowInv, OneVerifiedClaim, MetaTagProof
  <2>4. QED
    BY <2>1, <2>2, <2>3 DEF FlowInv
<1>6. QED
  BY <1>1, <1>2, <1>3, <1>4, <1>5 DEF Next

\* Who waits, waits for a request in its write phase.
LEMMA BlockerWrites ==
  ASSUME FlowInv, NEW r \in Requests, NEW s \in Requests, Blocks(s, r)
  PROVE  req[s].pc \in Writing
<1>1. WorksOnOwnClaim(req[r])
  BY DEF FlowInv, OwnClaimsInv
<1>2. ASSUME NEW c \in Claims, lock[c] = s PROVE req[s].pc \in Writing
  BY <1>2 DEF FlowInv, LocksInv
<1>3. CASE req[r].pc \in {"locking", "commit"}
  <2>1. req[r].pc = "locking" => req[r].next \in Claims
    BY <1>1 DEF WorksOnOwnClaim
  <2>2. req[r].pc = "commit" => req[r].claim \in Claims
    BY <1>1 DEF WorksOnOwnClaim
  <2>3. QED
    BY <1>2, <1>3, <2>1, <2>2 DEF Blocks
<1>4. CASE req[r].pc \in {"promote", "award"}
  BY <1>4 DEF Blocks, HoldsUser, HoldsProvider
<1>5. QED
  BY <1>3, <1>4 DEF Blocks

\* Among finitely many that each wait for one of them, some wait in a cycle: take
\* as few of them as possible.
LEMMA SomeCycle ==
  ASSUME NEW W \in SUBSET Requests, W # {},
         \A r \in W : \E s \in W : Blocks(s, r)
  PROVE  \E S \in SUBSET W : S # {} /\ Cycle(S)
<1> DEFINE Closed(S) == S # {} /\ \A r \in S : \E s \in S : Blocks(s, r)
           sizes == {n \in Nat : \E S \in SUBSET W : Closed(S) /\ Cardinality(S) = n}
           less == OpToRel(<, Nat)
<1>1. IsFiniteSet(W)
  BY RequestsAssumption, FS_Subset
<1>2. \A S \in SUBSET W : IsFiniteSet(S) /\ Cardinality(S) \in Nat
  BY <1>1, FS_Subset, FS_CardinalityType
<1>3. sizes \subseteq Nat /\ sizes # {}
  BY <1>2
<1>4. PICK n \in sizes : \A m \in sizes : ~ (<<m, n>> \in less)
  <2>1. IsWellFoundedOn(less, Nat)
    BY NatLessThanWellFounded
  <2> HIDE DEF less, sizes
  <2>2. QED
    BY <1>3, <2>1, WFMin, Zenon
<1>5. \A m \in sizes : n <= m
  <2>1. less = {p \in Nat \X Nat : p[1] < p[2]}
    BY DEF OpToRel
  <2> HIDE DEF less, sizes
  <2>2. n \in Nat
    BY <1>3
  <2>3. ASSUME NEW m \in Nat, m < n PROVE <<m, n>> \in less
    <3> DEFINE p == <<m, n>>
    <3>1. p \in Nat \X Nat /\ p[1] = m /\ p[2] = n
      BY <2>2
    <3> HIDE DEF p
    <3>2. p \in less
      BY <2>1, <2>3, <3>1
    <3>3. QED
      BY <3>2 DEF p
  <2>4. SUFFICES ASSUME NEW m \in sizes PROVE n <= m
    OBVIOUS
  <2>5. m \in Nat /\ ~ (<<m, n>> \in less)
    BY <1>3, <1>4
  <2>6. ~ (m < n)
    BY <2>3, <2>5
  <2>7. QED
    BY <2>2, <2>5, <2>6
<1>6. PICK S \in SUBSET W : Closed(S) /\ Cardinality(S) = n
  OBVIOUS
<1>7. ASSUME NEW t \in S, \A s \in S : ~ Blocks(t, s) PROVE FALSE
  <2> DEFINE R == S \ {t}
  <2>1. Closed(R)
    <3>1. \A r \in S : \E s \in R : Blocks(s, r)
      BY <1>6, <1>7
    <3>2. QED
      BY <1>6, <3>1
  <2>2. Cardinality(R) = Cardinality(S) - 1 /\ Cardinality(R) \in Nat
    BY <1>2, <1>6, FS_RemoveElement
  <2>3. Cardinality(R) \in sizes
    BY <2>1, <2>2
  <2> HIDE DEF sizes
  <2>4. QED
    BY <1>3, <1>5, <1>6, <2>2, <2>3
<1>8. QED
  BY <1>6, <1>7 DEF Cycle

\* One of the requests in their write phase gets the row it is at, or some wait for
\* each other.
LEMMA NoOtherWaits == FlowInv => NoUnbrokenWait
<1> DEFINE W == {r \in Requests : req[r].pc \in Writing}
<1> SUFFICES ASSUME FlowInv, W # {}, \A r \in W : ~ GetsItsRow(r)
             PROVE  \E r \in W : WaitsInCycle(r)
  BY DEF NoUnbrokenWait
<1>1. \A r \in W : \E s \in W : Blocks(s, r)
  BY BlockerWrites DEF GetsItsRow
<1>2. PICK S \in SUBSET W : S # {} /\ Cycle(S)
  <2> HIDE DEF W
  <2>1. W \in SUBSET Requests
    BY DEF W
  <2>2. QED
    BY <1>1, <2>1, SomeCycle
<1>3. QED
  BY <1>2 DEF WaitsInCycle

\* Requests waiting for each other's rows never all stop, however many there are.
THEOREM NoUnbrokenWaitHolds == Spec => []NoUnbrokenWait
  BY InitFlow, StepFlow, NoOtherWaits, PTL DEF Spec

-----------------------------------------------------------------------------
(* Owners, roles and editors: steps that only read.                        *)

\* A free slot has read nothing, so nothing it has read is wrong.
LEMMA IdleOK == RequestOK(Idle)
  BY DEF RequestOK, ReadFreeProvider, ReadLowRole, EditsEntitled, Idle, AdminOps

\* A step that only changes what one request has read keeps the invariant,
\* provided what it has read now is in order.
LEMMA ReadStep ==
  ASSUME IInv, FlowInv', NEW r \in Requests, NEW q, RequestOK(q),
         req' = [req EXCEPT ![r] = q],
         UNCHANGED <<claimVars, providerVars, role>>
  PROVE  IInv'
<1> USE DEF claimVars, providerVars
<1>1. RequestsInv'
  <2> SUFFICES ASSUME NEW s \in Requests PROVE RequestOK(req[s])'
    BY DEF RequestsInv
  <2>1. RequestOK(req'[s])
    BY DEF IInv, RequestsInv, FlowInv, TypeOK
  <2>2. QED
    BY <2>1 DEF RequestOK, ReadFreeProvider, ReadLowRole, EditsEntitled
<1>2. RolesInv' /\ OwnerHasVerifiedClaim' /\ OwnerIsPromoted' /\ EditorWasEntitled'
  BY DEF IInv, RolesInv, OwnerHasVerifiedClaim, OwnerIsPromoted, EditorWasEntitled
<1>3. QED
  BY <1>1, <1>2 DEF IInv

\* Starting a request keeps the invariant.
LEMMA BeginInv ==
  ASSUME IInv, FlowInv', NEW r \in Requests, Begin(r)
  PROVE  IInv'
<1> USE DEF RequestOK, ReadFreeProvider, ReadLowRole, EditsEntitled
<1>1. ASSUME NEW u \in Users, BeginInitiate(r, u) PROVE IInv'
  <2> DEFINE q == [Idle EXCEPT !.pc = "provider", !.op = "initiate", !.user = u,
                               !.token = <<minted + 1, u>>]
  <2>1. RequestOK(q)
    BY DEF Idle, AdminOps
  <2> HIDE DEF q
  <2>2. /\ req' = [req EXCEPT ![r] = q]
        /\ UNCHANGED <<claimVars, providerVars, role>>
    BY <1>1 DEF BeginInitiate, q
  <2>3. QED
    BY <2>1, <2>2, ReadStep
<1>2. ASSUME NEW u \in Users, NEW op \in {"verify", "edit"}, ReadsCaller(r, u, op)
      PROVE  IInv'
  <2> DEFINE q == [Idle EXCEPT !.pc = "provider", !.op = op, !.user = u,
                               !.role = role[u]]
  <2>1. role[u] \in Roles /\ (role[u] = "admin" <=> u \in Admins)
    BY DEF TypeOK, FlowInv, IInv, RolesInv
  <2>2. RequestOK(q)
    BY <2>1 DEF Idle, AdminOps
  <2> HIDE DEF q
  <2>3. QED
    BY <1>2, <2>2, ReadStep DEF ReadsCaller, q
<1>3. ASSUME NEW c \in Claims, NEW op \in AdminOps, BeginReview(r, c, op)
      PROVE  IInv'
  <2> DEFINE p == IF op = "approve" THEN "provider" ELSE "write"
             q == [Idle EXCEPT !.pc = p, !.op = op, !.user = claimant[c],
                               !.claim = c, !.status = status[c]]
  <2>1. p \in {"provider", "write"}
    OBVIOUS
  <2>2. RequestOK(q)
    <3> HIDE DEF p
    <3> QED
      BY <2>1 DEF Idle, AdminOps
  <2> HIDE DEF q
  <2>3. /\ req' = [req EXCEPT ![r] = q]
        /\ UNCHANGED <<claimVars, providerVars, role>>
    BY <1>3 DEF BeginReview, q
  <2>4. QED
    BY <2>2, <2>3, ReadStep
<1>4. QED
  BY <1>1, <1>2, <1>3 DEF Begin, BeginVerify, BeginEdit

\* Reading the provider keeps it: a refusal is decided on what was read.
LEMMA LoadProviderInv ==
  ASSUME IInv, FlowInv', NEW r \in Requests, LoadProvider(r)
  PROVE  IInv'
<1> DEFINE q == req[r]
           p == CASE q.op \in {"initiate", "verify"} -> "pending"
                  [] q.op = "approve" -> "user"
                  [] OTHER -> "write"
           kept == [q EXCEPT !.pc = p, !.role = "client"]
           full == [q EXCEPT !.pc = p, !.claimed = isClaimed, !.owner = claimedBy]
<1>1. /\ q \in RequestState /\ WorksOnOwnClaim(q) /\ RequestOK(q)
      /\ q.pc = "provider"
      /\ isClaimed \in BOOLEAN /\ claimedBy \in Users \cup {None}
      /\ isClaimed <=> claimedBy # None
      /\ isClaimed => \E c \in verifiedAt : claimant[c] = claimedBy
  BY DEF LoadProvider, IInv, FlowInv, TypeOK, OwnClaimsInv, RequestsInv,
         OwnerHasVerifiedClaim
<1>2. UNCHANGED <<claimVars, providerVars, role>>
  BY DEF LoadProvider
<1>3. CASE req' = [req EXCEPT ![r] = Idle]
  BY IdleOK, <1>2, <1>3, ReadStep
<1>4. CASE /\ q.op \in {"initiate", "edit"}
           /\ q.op = "edit" => MayEdit(q.user, q.role, isClaimed, claimedBy)
           /\ req' = [req EXCEPT ![r] = kept]
  <2>1. RequestOK(kept)
    BY <1>1, <1>4 DEF RequestOK, WorksOnOwnClaim, ReadFreeProvider, ReadLowRole,
                      EditsEntitled, RequestState, AdminOps, MayEdit
  <2> HIDE DEF kept
  <2>2. QED
    BY <1>2, <1>4, <2>1, ReadStep
<1>5. CASE /\ q.op \notin {"initiate", "edit"}
           /\ q.op = "verify" => ~TakenFrom(q.user, isClaimed, claimedBy)
           /\ req' = [req EXCEPT ![r] = full]
  <2>1. RequestOK(full)
    BY <1>1, <1>5 DEF RequestOK, WorksOnOwnClaim, ReadFreeProvider, ReadLowRole,
                      EditsEntitled, RequestState, AdminOps, TakenFrom
  <2> HIDE DEF full
  <2>2. QED
    BY <1>2, <1>5, <2>1, ReadStep
<1>6. QED
  BY <1>3, <1>4, <1>5 DEF LoadProvider

\* Reading the claimant keeps it.
LEMMA LoadUserInv ==
  ASSUME IInv, FlowInv', NEW r \in Requests, LoadUser(r)
  PROVE  IInv'
<1> DEFINE q == req[r]
           full == [q EXCEPT !.pc = "others", !.role = role[q.user]]
<1>1. /\ q \in RequestState /\ WorksOnOwnClaim(q) /\ RequestOK(q)
      /\ q.pc = "user"
      /\ role \in [Users -> Roles]
      /\ UNCHANGED <<claimVars, providerVars, role>>
  BY DEF LoadUser, IInv, FlowInv, TypeOK, OwnClaimsInv, RequestsInv
<1>2. CASE TakenFrom(q.user, q.claimed, q.owner)
  BY IdleOK, <1>1, <1>2, ReadStep DEF LoadUser
<1>3. CASE ~TakenFrom(q.user, q.claimed, q.owner)
  <2>1. RequestOK(full)
    BY <1>1, <1>3 DEF RequestOK, WorksOnOwnClaim, ReadFreeProvider, ReadLowRole,
                      EditsEntitled, RequestState, AdminOps, TakenFrom, IInv, RolesInv
  <2>2. req' = [req EXCEPT ![r] = full]
    BY <1>3 DEF LoadUser
  <2> HIDE DEF full
  <2>3. QED
    BY <1>1, <2>1, <2>2, ReadStep
<1>4. QED
  BY <1>2, <1>3

\* Reading the user's pending claim keeps it.
LEMMA LoadPendingInv ==
  ASSUME IInv, FlowInv', NEW r \in Requests, LoadPending(r)
  PROVE  IInv'
<1> DEFINE q == req[r]
           OkStep(n) == RequestOK(n) /\ req' = [req EXCEPT ![r] = n]
<1> USE DEF RequestOK, ReadFreeProvider, ReadLowRole, EditsEntitled, RequestState,
            AdminOps
<1>1. /\ q \in RequestState /\ WorksOnOwnClaim(q) /\ RequestOK(q)
      /\ q.pc = "pending"
      /\ UNCHANGED <<claimVars, providerVars, role>>
  BY DEF LoadPending, IInv, FlowInv, TypeOK, OwnClaimsInv, RequestsInv
<1>2. CASE End(r)
  BY IdleOK, <1>1, <1>2, ReadStep DEF End
<1>3. CASE q.op = "initiate" /\ req' = [req EXCEPT ![r].pc = "write"]
  <2> DEFINE n == [q EXCEPT !.pc = "write"]
  <2>1. OkStep(n)
    BY <1>1, <1>3
  <2> HIDE DEF n
  <2>2. QED
    BY <1>1, <2>1, ReadStep
<1>4. ASSUME NEW c \in PendingOf(q.user), q.op = "initiate",
             req' = [req EXCEPT ![r] = [q EXCEPT !.pc = "write", !.claim = c]]
      PROVE  IInv'
  <2> DEFINE n == [q EXCEPT !.pc = "write", !.claim = c]
  <2>1. OkStep(n)
    BY <1>1, <1>4
  <2> HIDE DEF n
  <2>2. QED
    BY <1>1, <2>1, ReadStep
<1>5. ASSUME NEW c \in PendingOf(q.user), q.op # "initiate",
             req' = [req EXCEPT ![r] =
               [q EXCEPT !.pc = "homepage", !.claim = c, !.status = "pending",
                         !.token = token[c]]]
      PROVE  IInv'
  <2> DEFINE n == [q EXCEPT !.pc = "homepage", !.claim = c, !.status = "pending",
                            !.token = token[c]]
  <2>1. OkStep(n)
    BY <1>1, <1>5 DEF WorksOnOwnClaim
  <2> HIDE DEF n
  <2>2. QED
    BY <1>1, <2>1, ReadStep
<1>6. QED
  BY <1>2, <1>3, <1>4, <1>5 DEF LoadPending

\* Fetching the homepage keeps it.
LEMMA FetchHomepageInv ==
  ASSUME IInv, FlowInv', NEW r \in Requests, FetchHomepage(r)
  PROVE  IInv'
<1> DEFINE q == req[r]
           n == [q EXCEPT !.pc = "others", !.token = None]
<1>1. /\ q \in RequestState /\ WorksOnOwnClaim(q) /\ RequestOK(q)
      /\ q.pc = "homepage"
      /\ UNCHANGED <<claimVars, providerVars, role>>
  BY DEF FetchHomepage, IInv, FlowInv, TypeOK, OwnClaimsInv, RequestsInv
<1>2. CASE req' = [req EXCEPT ![r] = Idle]
  BY IdleOK, <1>1, <1>2, ReadStep
<1>3. CASE req' = [req EXCEPT ![r] = n]
  <2>1. RequestOK(n)
    BY <1>1 DEF RequestOK, WorksOnOwnClaim, ReadFreeProvider, ReadLowRole,
                EditsEntitled, RequestState, AdminOps
  <2> HIDE DEF n
  <2>2. QED
    BY <1>1, <1>3, <2>1, ReadStep
<1>4. QED
  BY <1>2, <1>3 DEF FetchHomepage

\* Taking locks keeps it: no owner or role is read or written.
LEMMA LockingInv ==
  ASSUME IInv, FlowInv', NEW r \in Requests,
         RejectOthers(r) \/ LockOther(r) \/ LockUser(r) \/ LockProvider(r)
  PROVE  IInv'
<1> DEFINE q == req[r]
<1>1. /\ q \in RequestState /\ WorksOnOwnClaim(q) /\ RequestOK(q)
      /\ UNCHANGED <<claimVars, providerVars, role>>
  BY DEF RejectOthers, LockOther, LockUser, LockProvider, IInv, FlowInv, TypeOK,
         OwnClaimsInv, RequestsInv
<1>2. CASE RejectOthers(r) \/ LockOther(r)
  <2> DEFINE rows == IF q.pc = "others" THEN OthersOf(q.claim) ELSE q.todo
  <2>1. /\ q.pc \in {"others", "locking"}
        /\ \E p \in GoesOn(q, rows) : req' = [req EXCEPT ![r] = p]
    BY <1>2 DEF RejectOthers, LockOther
  <2>2. rows \in SUBSET Claims /\ q.claim \notin rows
    BY <1>1, <2>1 DEF OthersOf, RequestState, WorksOnOwnClaim
  <2> HIDE DEF rows
  <2>3. PICK p \in GoesOn(q, rows) : req' = [req EXCEPT ![r] = p]
    BY <2>1
  <2>4. /\ p.pc \in Holding
        /\ p.claim = q.claim /\ p.user = q.user /\ p.op = q.op /\ p.role = q.role
        /\ p.claimed = q.claimed /\ p.owner = q.owner
    BY <1>1, <2>1, <2>2, GoesOnTyped
  <2>5. RequestOK(p)
    BY <1>1, <2>1, <2>4 DEF RequestOK, ReadFreeProvider, ReadLowRole, EditsEntitled
  <2>6. QED
    BY <1>1, <2>3, <2>5, ReadStep
<1>3. ASSUME NEW x \in {"award", "commit"}, q.pc \in {"promote", "award"},
             req' = [req EXCEPT ![r] = [q EXCEPT !.pc = x]]
      PROVE  IInv'
  <2> DEFINE n == [q EXCEPT !.pc = x]
  <2>1. RequestOK(n)
    BY <1>1, <1>3 DEF RequestOK, ReadFreeProvider, ReadLowRole, EditsEntitled,
                      RequestState
  <2>2. req' = [req EXCEPT ![r] = n]
    BY <1>3
  <2> HIDE DEF n
  <2>3. QED
    BY <1>1, <2>1, <2>2, ReadStep
<1>4. CASE LockUser(r) \/ LockProvider(r)
  <2>1. q.pc \in {"promote", "award"}
    BY <1>4 DEF LockUser, LockProvider
  <2>2. \E x \in {"award", "commit"} : req' = [req EXCEPT ![r] = [q EXCEPT !.pc = x]]
    BY <1>4 DEF LockUser, LockProvider
  <2>3. QED
    BY <1>3, <2>1, <2>2
<1>5. QED
  BY <1>2, <1>4

\* A request that gives up (conflict, deadlock, failure) changes nothing else.
LEMMA AbortInv ==
  ASSUME IInv, FlowInv', NEW r \in Requests, End(r),
         UNCHANGED <<claimVars, providerVars, role>>
  PROVE  IInv'
  BY IdleOK, ReadStep DEF End

\* Publishing or removing a tag keeps it.
LEMMA PublishTagInv ==
  ASSUME IInv, FlowInv', NEW t \in Tokens \cup {None}, PublishTag(t)
  PROVE  IInv'
<1> USE DEF claimVars, providerVars
<1>1. RequestsInv'
  BY DEF PublishTag, IInv, RequestsInv, RequestOK, ReadFreeProvider, ReadLowRole,
         EditsEntitled
<1>2. RolesInv' /\ OwnerHasVerifiedClaim' /\ OwnerIsPromoted' /\ EditorWasEntitled'
  BY DEF IInv, RolesInv, OwnerHasVerifiedClaim, OwnerIsPromoted,
         EditorWasEntitled, PublishTag
<1>3. QED
  BY <1>1, <1>2 DEF IInv

-----------------------------------------------------------------------------
(* Owners, roles and editors: steps that write.                            *)

\* What an ended request leaves to be checked are the other requests' reads.
LEMMA EndedRequests ==
  ASSUME IInv, NEW r \in Requests, End(r)
  PROVE  \A s \in Requests : RequestOK(req'[s])
  BY IdleOK, EndReleaseTyped DEF IInv, FlowInv, RequestsInv

\* An edit is written by the user it was authorised for.
LEMMA CommitEditInv ==
  ASSUME IInv, FlowInv', NEW r \in Requests, CommitEdit(r)
  PROVE  IInv'
<1> USE DEF claimVars, providerVars
<1>1. /\ WorksOnOwnClaim(req[r]) /\ RequestOK(req[r])
      /\ req[r].pc = "write" /\ req[r].op = "edit"
  BY DEF CommitEdit, IInv, FlowInv, OwnClaimsInv, RequestsInv
<1>2. RequestsInv'
  BY EndedRequests DEF CommitEdit, RequestsInv, RequestOK, ReadFreeProvider,
                       ReadLowRole, EditsEntitled
<1>3. EditorWasEntitled'
  BY <1>1 DEF CommitEdit, RequestOK, EditsEntitled, EditorWasEntitled, IInv,
              RolesInv, WorksOnOwnClaim
<1>4. RolesInv' /\ OwnerHasVerifiedClaim' /\ OwnerIsPromoted'
  BY DEF IInv, RolesInv, OwnerHasVerifiedClaim, OwnerIsPromoted, CommitEdit
<1>5. QED
  BY <1>2, <1>3, <1>4 DEF IInv

\* An overturned claim keeps its verified_at.
LEMMA CommitRejectInv ==
  ASSUME IInv, FlowInv', NEW r \in Requests, CommitReject(r)
  PROVE  IInv'
<1> USE DEF claimVars, providerVars
<1>1. RequestsInv'
  BY EndedRequests DEF CommitReject, RequestsInv, RequestOK, ReadFreeProvider,
                       ReadLowRole, EditsEntitled
<1>2. RolesInv' /\ OwnerHasVerifiedClaim' /\ OwnerIsPromoted' /\ EditorWasEntitled'
  BY DEF IInv, RolesInv, OwnerHasVerifiedClaim, OwnerIsPromoted,
         EditorWasEntitled, CommitReject
<1>3. QED
  BY <1>1, <1>2 DEF IInv

\* An initiation leaves the user of every verified claim alone.
LEMMA CommitInitiateInv ==
  ASSUME IInv, FlowInv', NEW r \in Requests, CommitInitiate(r)
  PROVE  IInv'
<1> USE DEF claimVars, providerVars
<1>1. \A c \in verifiedAt : claimant'[c] = claimant[c]
  <2> DEFINE row == IF req[r].claim = None THEN req[r].token[1] ELSE req[r].claim
  <2>1. /\ status[row] # "absent" =>
             claimant'[row] = req[r].user /\ claimant[row] = req[r].user
        /\ \A c \in Claims \ {row} : claimant'[c] = claimant[c]
    BY CommitInitiateEffect DEF IInv
  <2> HIDE DEF row
  <2>2. QED
    BY <2>1 DEF IInv, FlowInv, RowsInv, TypeOK
<1>2. UNCHANGED <<verifiedAt, isClaimed, claimedBy, lastEditor, role>>
  BY DEF CommitInitiate
<1>3. RequestsInv'
  <2> SUFFICES ASSUME NEW s \in Requests PROVE RequestOK(req[s])'
    BY DEF RequestsInv
  <2>1. RequestOK(req'[s])
    BY EndedRequests DEF CommitInitiate
  <2>2. QED
    BY <1>1, <1>2, <2>1 DEF RequestOK, ReadFreeProvider, ReadLowRole, EditsEntitled
<1>4. RolesInv' /\ OwnerIsPromoted'
  BY <1>2 DEF IInv, RolesInv, OwnerIsPromoted
<1>5. OwnerHasVerifiedClaim' /\ EditorWasEntitled'
  BY <1>1, <1>2 DEF IInv, OwnerHasVerifiedClaim, EditorWasEntitled
<1>6. QED
  BY <1>3, <1>4, <1>5 DEF IInv

\* What a committed verification does to the owner: a request that read an owned
\* provider leaves the owner it finds, whoever else was awarded the provider since.
LEMMA AwardEffect ==
  ASSUME IInv, NEW r \in Requests, CommitVerified(r)
  PROVE  /\ isClaimed' = TRUE
         /\ claimedBy' \in Users
         /\ claimedBy' = IF req[r].claimed THEN claimedBy ELSE req[r].user
<1> DEFINE q == req[r]
<1>1. /\ q \in RequestState /\ WorksOnOwnClaim(q) /\ RequestOK(q)
      /\ q.user \in Users /\ q.pc = "commit"
  BY CommitVerifiedEffect
     DEF CommitVerified, IInv, RequestsInv
<1>2. /\ q.claimed => isClaimed
      /\ q.claimed <=> q.owner # None
      /\ q.owner \in {None, q.user}
      /\ q.claimed \in BOOLEAN
      /\ isClaimed <=> claimedBy # None
      /\ claimedBy \in Users \cup {None}
      /\ isClaimed \in BOOLEAN
  BY <1>1 DEF RequestOK, ReadFreeProvider, RequestState, IInv, FlowInv, TypeOK,
              OwnerHasVerifiedClaim
<1>3. /\ isClaimed' = (isClaimed \/ ~q.claimed)
      /\ claimedBy' = IF q.owner # q.user THEN q.user ELSE claimedBy
  BY DEF CommitVerified, OwnerAfter
<1>4. QED
  BY <1>1, <1>2, <1>3

\* A verification moves claims, owner and role together.
LEMMA CommitVerifiedInv ==
  ASSUME IInv, FlowInv', NEW r \in Requests, CommitVerified(r)
  PROVE  IInv'
<1> DEFINE q == req[r]
<1>1. /\ q \in RequestState /\ RequestOK(q) /\ q.claim \in Claims /\ q.user \in Users
      /\ claimant[q.claim] = q.user
      /\ q.op \in {"approve", "verify"}
      /\ q.pc = "commit"
      /\ verifiedAt' = verifiedAt \cup {q.claim}
  BY CommitVerifiedEffect DEF CommitVerified, IInv, RequestsInv
<1>2. /\ isClaimed' = TRUE
      /\ claimedBy' \in Users
      /\ claimedBy' = IF q.claimed THEN claimedBy ELSE q.user
  BY AwardEffect
<1>3. UNCHANGED <<claimant, lastEditor>>
  BY DEF CommitVerified
<1>4. /\ \A u \in Users : role'[u] # role[u] =>
           /\ u = q.user /\ q.role = "client" /\ role'[u] = "provider_owner"
      /\ role'[q.user] # "client"
      /\ q.role = "client" => q.user \notin Admins
  <2>1. q.role # "client" => role[q.user] # "client"
    BY <1>1 DEF RequestOK, ReadLowRole
  <2>2. q.role = "client" => q.user \notin Admins
    BY <1>1 DEF RequestOK, ReadLowRole
  <2>3. QED
    BY <2>1, <2>2, PromotionEffect DEF IInv
<1>5. \A s \in Requests : RequestOK(req'[s])
  BY EndedRequests DEF CommitVerified
<1> HIDE DEF q
<1>6. RequestsInv'
  <2> SUFFICES ASSUME NEW s \in Requests PROVE RequestOK(req[s])'
    BY DEF RequestsInv
  <2>1. ReadFreeProvider(req[s])'
    BY <1>2, <1>5 DEF RequestOK, ReadFreeProvider
  <2>2. ReadLowRole(req[s])'
    BY <1>4, <1>5 DEF RequestOK, ReadLowRole
  <2>3. EditsEntitled(req[s])'
    BY <1>1, <1>3, <1>5 DEF RequestOK, EditsEntitled
  <2>4. QED
    BY <2>1, <2>2, <2>3 DEF RequestOK
<1>7. RolesInv'
  BY <1>4 DEF IInv, RolesInv
<1>8. OwnerHasVerifiedClaim'
  <2>1. CASE q.claimed
    <3>1. isClaimed
      BY <1>1, <2>1 DEF RequestOK, ReadFreeProvider
    <3>2. QED
      BY <1>1, <1>2, <1>3, <2>1, <3>1 DEF IInv, OwnerHasVerifiedClaim
  <2>2. CASE ~q.claimed
    BY <1>1, <1>2, <1>3, <2>2 DEF OwnerHasVerifiedClaim
  <2>3. QED
    BY <2>1, <2>2
<1>9. OwnerIsPromoted'
  <2>1. CASE claimedBy' = q.user
    BY <1>4, <2>1 DEF OwnerIsPromoted
  <2>2. CASE claimedBy' = claimedBy
    BY <1>2, <1>4, <2>2 DEF OwnerIsPromoted, IInv
  <2>3. QED
    BY <1>2, <2>1, <2>2
<1>10. EditorWasEntitled'
  <2>1. \A u \in Users : role[u] = "admin" => role'[u] = "admin"
    BY <1>4 DEF IInv, RolesInv
  <2>2. QED
    BY <1>1, <1>3, <2>1 DEF IInv, EditorWasEntitled, FlowInv, TypeOK
<1>11. QED
  BY <1>6, <1>7, <1>8, <1>9, <1>10 DEF IInv

-----------------------------------------------------------------------------
(* The invariant.                                                          *)

\* The invariant holds of the empty tables.
LEMMA InitInv == Init => IInv
<1> SUFFICES ASSUME Init PROVE IInv
  OBVIOUS
<1>1. RequestsInv
  BY IdleOK DEF Init, RequestsInv
<1>2. QED
  BY <1>1, InitFlow DEF Init, IInv, RolesInv, OwnerHasVerifiedClaim,
     OwnerIsPromoted, EditorWasEntitled

\* Every step keeps the invariant.
LEMMA StepInv == IInv /\ [Next]_vars => IInv'
<1> SUFFICES ASSUME IInv, [Next]_vars PROVE IInv'
  OBVIOUS
<1> FlowInv'
  BY StepFlow DEF IInv
<1>1. ASSUME NEW r \in Requests, Begin(r) PROVE IInv'
  BY <1>1, BeginInv
<1>2. ASSUME NEW r \in Requests, Proceed(r) PROVE IInv'
  <2>1. CASE LoadProvider(r) \/ LoadUser(r) \/ LoadPending(r) \/ FetchHomepage(r)
    BY <2>1, LoadProviderInv, LoadUserInv, LoadPendingInv, FetchHomepageInv
  <2>2. CASE RejectOthers(r) \/ LockOther(r) \/ LockUser(r) \/ LockProvider(r)
    BY <2>2, LockingInv
  <2>6. CASE CommitVerified(r)
    BY <2>6, CommitVerifiedInv
  <2>3. CASE VerifiedConflict(r) \/ DeadlockAbort(r)
    BY <2>3, AbortInv DEF VerifiedConflict, DeadlockAbort
  <2>4. CASE CommitInitiate(r) \/ CommitReject(r) \/ CommitEdit(r)
    BY <2>4, CommitInitiateInv, CommitRejectInv, CommitEditInv
  <2>5. QED
    BY <1>2, <2>1, <2>2, <2>3, <2>4, <2>6 DEF Proceed
<1>3. ASSUME NEW r \in Requests, RequestFails(r) PROVE IInv'
  BY <1>3, AbortInv DEF RequestFails
<1>4. ASSUME NEW t \in Tokens \cup {None}, PublishTag(t) PROVE IInv'
  BY <1>4, PublishTagInv
<1>5. CASE UNCHANGED vars
  <2> USE <1>5 DEF vars, claimVars, providerVars
  <2>1. RequestsInv'
    BY DEF IInv, RequestsInv, RequestOK, ReadFreeProvider, ReadLowRole,
           EditsEntitled
  <2>2. RolesInv' /\ OwnerHasVerifiedClaim' /\ OwnerIsPromoted' /\ EditorWasEntitled'
    BY DEF IInv, RolesInv, OwnerHasVerifiedClaim, OwnerIsPromoted,
           EditorWasEntitled
  <2>3. QED
    BY <2>1, <2>2 DEF IInv
<1>6. QED
  BY <1>1, <1>2, <1>3, <1>4, <1>5 DEF Next

\* The inductive invariant: what requests have read is never above what the
\* tables say, and the tables agree with each other.
THEOREM Invariant == Spec => []IInv
  BY InitInv, StepInv, PTL DEF Spec

-----------------------------------------------------------------------------
(* What follows from it.                                                   *)

\* What requests, rows, columns and locks hold stays in its domain.
THEOREM TypeCorrect == Spec => []TypeOK
<1>1. IInv => TypeOK
  BY DEF IInv, FlowInv
<1>2. QED
  BY <1>1, Invariant, PTL

\* However many requests verify and approve at once, one claim is verified.
THEOREM OneVerifiedClaimHolds == Spec => []OneVerifiedClaim
<1>1. IInv => OneVerifiedClaim
  BY DEF IInv, FlowInv
<1>2. QED
  BY <1>1, Invariant, PTL

\* The owner columns and the claims never disagree about there being an owner.
THEOREM OwnerHasVerifiedClaimHolds == Spec => []OwnerHasVerifiedClaim
<1>1. IInv => OwnerHasVerifiedClaim
  BY DEF IInv
<1>2. QED
  BY <1>1, Invariant, PTL

\* As long as no verified claim was overturned, its user is the owner.
THEOREM VerifiedClaimOwnsProviderHolds == Spec => []VerifiedClaimOwnsProvider
<1>1. IInv => VerifiedClaimOwnsProvider
  BY DEF IInv, FlowInv, VerifiedClaimOwnsProvider, Overturned, OwnerHasVerifiedClaim,
         OneVerifiedClaim, RowsInv, TypeOK
<1>2. QED
  BY <1>1, Invariant, PTL

\* A stale role read never leaves the owner a plain client.
THEOREM OwnerIsPromotedHolds == Spec => []OwnerIsPromoted
<1>1. IInv => OwnerIsPromoted
  BY DEF IInv
<1>2. QED
  BY <1>1, Invariant, PTL

\* Nobody wins by meta tag without control of the provider's site.
THEOREM MetaTagProofHolds == Spec => []MetaTagProof
<1>1. IInv => MetaTagProof
  BY DEF IInv, FlowInv
<1>2. QED
  BY <1>1, Invariant, PTL

\* Nobody edits who never was entitled to.
THEOREM EditorWasEntitledHolds == Spec => []EditorWasEntitled
<1>1. IInv => EditorWasEntitled
  BY DEF IInv
<1>2. QED
  BY <1>1, Invariant, PTL

-----------------------------------------------------------------------------
(* The claim flow implements the ownership promise.                        *)

\* Only a committed verification changes the owner or verified_at.
LEMMA OwnerStep ==
  ASSUME [Next]_vars, \A r \in Requests : ~CommitVerified(r)
  PROVE  UNCHANGED <<claimedBy, verifiedAt>>
<1>1. ASSUME NEW r \in Requests, Proceed(r)
      PROVE  UNCHANGED <<claimedBy, verifiedAt>>
  BY <1>1 DEF Proceed, LoadProvider, LoadUser, LoadPending, FetchHomepage,
     RejectOthers, LockOther, LockUser, LockProvider, VerifiedConflict,
     DeadlockAbort, CommitInitiate, CommitReject, CommitEdit, claimVars, providerVars
<1>2. ASSUME NEW r \in Requests, Begin(r) \/ RequestFails(r)
      PROVE  UNCHANGED <<claimedBy, verifiedAt>>
  BY <1>2 DEF Begin, BeginInitiate, BeginVerify, BeginEdit, ReadsCaller,
     BeginReview, RequestFails, claimVars, providerVars
<1>3. ASSUME NEW t \in Tokens \cup {None}, PublishTag(t)
      PROVE  UNCHANGED <<claimedBy, verifiedAt>>
  BY <1>3 DEF PublishTag, claimVars, providerVars
<1>4. QED
  BY <1>1, <1>2, <1>3 DEF Next, vars, claimVars, providerVars

\* With the same owner, any change of Overturned is an overturn or a
\* reinstatement.
LEMMA SameOwnerStep ==
  ASSUME claimedBy' = claimedBy, Overturned' # Overturned => claimedBy # None
  PROVE  [Ownership!Next]_(Ownership!ovars)
<1>1. Overturned \in BOOLEAN /\ Overturned' \in BOOLEAN
  BY DEF Overturned
<1>2. CASE Overturned' = Overturned
  BY <1>2 DEF Ownership!ovars
<1>3. CASE Overturned' = TRUE /\ claimedBy # None
  BY <1>3 DEF Ownership!Next, Ownership!Overturn
<1>4. CASE Overturned = TRUE /\ Overturned' = FALSE
  <2>1. Ownership!Reinstate
    BY <1>4, Zenon DEF Ownership!Reinstate
  <2>2. QED
    BY <2>1, Zenon DEF Ownership!Next
<1>5. QED
  <2>1. (Overturned' = TRUE) \/ (Overturned = TRUE /\ Overturned' = FALSE)
        \/ (Overturned' = Overturned)
    BY <1>1
  <2>2. QED
    BY <1>2, <1>3, <1>4, <2>1, Zenon

\* A verification that changes the owner is the first, or replaces an owner
\* whose verified claim stands overturned, before and after.
LEMMA VerificationStep ==
  ASSUME IInv, NEW r \in Requests, CommitVerified(r), claimedBy' # claimedBy
  PROVE  \/ claimedBy = None /\ ~Overturned /\ ~Overturned'
         \/ claimedBy # None /\ Overturned /\ Overturned'
<1> DEFINE q == req[r]
<1>1. /\ q.claim \in Claims /\ claimant[q.claim] = q.user
      /\ q.status = "verified" => q.claim \in verifiedAt
      /\ q.status # "verified" =>
           /\ status'[q.claim] = "verified"
           /\ \A c \in Claims \ {q.claim} : status[c] # "verified"
      /\ \A c \in Claims : status'[c] # status[c] =>
           \/ status'[c] = "rejected"
           \/ c = q.claim /\ status'[c] = "verified" /\ q.status # "verified"
      /\ verifiedAt' = verifiedAt \cup {q.claim}
  <2>1. /\ q.claim \in Claims /\ claimant[q.claim] = q.user
        /\ q.status = "verified" => q.claim \in verifiedAt
        /\ verifiedAt' = verifiedAt \cup {q.claim}
    BY CommitVerifiedEffect, Zenon DEF IInv
  <2>2. q.status # "verified" =>
          /\ status'[q.claim] = "verified"
          /\ \A c \in Claims \ {q.claim} : status[c] # "verified"
    BY CommitVerifiedEffect, Zenon DEF IInv
  <2>3. ASSUME NEW c \in Claims, status'[c] # status[c]
        PROVE  \/ status'[c] = "rejected"
               \/ c = q.claim /\ status'[c] = "verified" /\ q.status # "verified"
    <3>1. status'[c] = CASE lock[c] = r -> "rejected"
                         [] c = q.claim /\ q.status # "verified" -> "verified"
                         [] OTHER -> status[c]
      BY DEF CommitVerified
    <3> HIDE DEF q
    <3>2. QED
      BY <2>3, <3>1
  <2>4. QED
    BY <2>1, <2>2, <2>3, Zenon
<1>5. claimedBy' = q.user
  BY AwardEffect
<1> HIDE DEF q
<1>2. CASE claimedBy = None
  <2>1. verifiedAt = {}
    BY <1>2 DEF IInv, OwnerHasVerifiedClaim
  <2>2. QED
    BY <1>1, <1>2, <2>1 DEF Overturned
<1>3. CASE claimedBy # None
  <2>1. PICK e \in verifiedAt : claimant[e] = claimedBy
    BY <1>3 DEF IInv, OwnerHasVerifiedClaim
  <2>2. e \in Claims /\ e # q.claim
    BY <1>1, <1>5, <2>1 DEF IInv, FlowInv, TypeOK
  <2>3. CASE q.status # "verified"
    <3>1. status[e] # "verified" /\ status'[e] # "verified"
      BY <1>1, <2>2, <2>3
    <3>2. QED
      BY <1>1, <1>3, <2>1, <3>1 DEF Overturned
  <2>4. CASE q.status = "verified"
    <3>1. ~(status[e] = "verified" /\ status[q.claim] = "verified")
      BY <1>1, <2>2 DEF IInv, FlowInv, OneVerifiedClaim
    <3>2. PICK d \in verifiedAt : status[d] # "verified"
      BY <1>1, <2>1, <2>4, <3>1
    <3>3. d \in Claims /\ status'[d] # "verified"
      BY <1>1, <2>4, <3>2 DEF IInv, FlowInv, TypeOK
    <3>4. QED
      BY <1>1, <1>3, <3>2, <3>3 DEF Overturned
  <2>5. QED
    BY <2>3, <2>4
<1>4. QED
  BY <1>2, <1>3

\* Every step of the claim flow is a step of the ownership promise or a stutter.
LEMMA RefinementStep == IInv /\ [Next]_vars => [Ownership!Next]_(Ownership!ovars)
<1> SUFFICES ASSUME IInv, [Next]_vars
             PROVE  [Ownership!Next]_(Ownership!ovars)
  OBVIOUS
<1>1. ASSUME NEW r \in Requests, CommitVerified(r)
      PROVE  [Ownership!Next]_(Ownership!ovars)
  <2>1. claimedBy' \in Users
    BY <1>1, AwardEffect
  <2>2. CASE claimedBy' # claimedBy
    <3>1. Overturned' = Overturned /\ (claimedBy # None => Overturned)
      <4>1. Overturned \in BOOLEAN /\ Overturned' \in BOOLEAN
        BY DEF Overturned
      <4>2. QED
        BY <1>1, <2>2, <4>1, VerificationStep
    <3>2. Ownership!Award(claimedBy') \/ Ownership!Replace(claimedBy')
      BY <3>1, Zenon DEF Ownership!Award, Ownership!Replace
    <3>3. QED
      BY <2>1, <3>2, Zenon DEF Ownership!Next
  <2>3. CASE claimedBy' = claimedBy
    BY <2>1, <2>3, SameOwnerStep
  <2>4. QED
    BY <2>2, <2>3
<1>2. CASE \A r \in Requests : ~CommitVerified(r)
  <2>1. claimedBy' = claimedBy /\ verifiedAt' = verifiedAt
    BY <1>2, OwnerStep
  <2>2. CASE claimedBy # None
    BY <2>1, <2>2, SameOwnerStep
  <2>3. CASE verifiedAt = {}
    BY <2>1, <2>3, SameOwnerStep DEF Overturned
  <2>4. QED
    BY <2>2, <2>3 DEF IInv, OwnerHasVerifiedClaim
<1>3. QED
  BY <1>1, <1>2

\* An owner, once awarded, is only replaced while a verified claim stands
\* overturned by an admin.
THEOREM ImplementsOwnership == Spec => OwnershipSpec
<1>1. Init => Ownership!Init
  BY DEF Init, Ownership!Init, Overturned
<1>2. QED
  BY <1>1, RefinementStep, Invariant, PTL
     DEF Spec, OwnershipSpec, Ownership!Spec

-----------------------------------------------------------------------------
(* The operator's commands.                                                *)

\* A command writes an owner or a role and nothing else.
LEMMA CommandFlow == FlowInv /\ Command => FlowInv'
<1> SUFFICES ASSUME FlowInv, Command PROVE FlowInv'
  OBVIOUS
<1> USE DEF claimVars, providerVars
<1> DEFINE OnlyOwnerAndRole ==
      /\ UNCHANGED <<claimVars, isClaimed, lastEditor, tag, minted, lock, req>>
      /\ claimedBy' \in Users \cup {None}
      /\ role' \in [Users -> Roles]
<1>1. OnlyOwnerAndRole
  <2>1. ASSUME NEW u \in Users, NEW newRole \in Roles, SetRole(u, newRole)
        PROVE  OnlyOwnerAndRole
    BY <2>1 DEF SetRole, FlowInv, TypeOK
  <2>2. ASSUME NEW u \in Users, ClaimProvider(u) PROVE OnlyOwnerAndRole
    BY <2>2 DEF ClaimProvider, FlowInv, TypeOK
  <2>3. CASE UnclaimProvider
    BY <2>3 DEF UnclaimProvider, FlowInv, TypeOK
  <2>4. QED
    BY <2>1, <2>2, <2>3 DEF Command
<1>2. TypeOK'
  BY <1>1 DEF FlowInv, TypeOK
<1>3. OwnClaimsInv'
  BY <1>1 DEF FlowInv, OwnClaimsInv, WorksOnOwnClaim
<1>4. RowsInv' /\ TagInv' /\ LocksInv'
  BY <1>1 DEF FlowInv, RowsInv, TagInv, LocksInv
<1>5. OneVerifiedClaim' /\ MetaTagProof'
  BY <1>1 DEF FlowInv, OneVerifiedClaim, MetaTagProof
<1>6. QED
  BY <1>2, <1>3, <1>4, <1>5 DEF FlowInv

\* Whether a profile counts as claimed only a committed verification changes, and
\* what a request has read of it is FALSE, as before, or as it is.
LEMMA ClaimedReads ==
  ASSUME FlowInv, [Next]_vars, \A r \in Requests : ~CommitVerified(r)
  PROVE  /\ UNCHANGED <<isClaimed, verifiedAt>>
         /\ \A s \in Requests :
              req'[s].claimed => req[s].claimed \/ isClaimed
<1> USE DEF claimVars, providerVars
<1> DEFINE Goal == /\ UNCHANGED <<isClaimed, verifiedAt>>
                   /\ \A s \in Requests :
                        req'[s].claimed => req[s].claimed \/ isClaimed
<1>1. req \in [Requests -> RequestState]
  BY DEF FlowInv, TypeOK
<1>2. ASSUME NEW r \in Requests, NEW q, ~q.claimed \/ q.claimed = req[r].claimed,
             req' = [req EXCEPT ![r] = q], UNCHANGED <<isClaimed, verifiedAt>>
      PROVE  Goal
  BY <1>1, <1>2
<1>3. ~Idle.claimed
  BY DEF Idle
<1>4. ASSUME NEW r \in Requests, End(r), UNCHANGED <<isClaimed, verifiedAt>>
      PROVE  Goal
  BY <1>2, <1>3, <1>4 DEF End
<1>5. ASSUME NEW r \in Requests, Begin(r) PROVE Goal
  <2>1. ASSUME NEW u \in Users, BeginInitiate(r, u) PROVE Goal
    BY <1>1, <2>1 DEF BeginInitiate, Idle
  <2>2. ASSUME NEW u \in Users, NEW op, ReadsCaller(r, u, op) PROVE Goal
    BY <1>1, <2>2 DEF ReadsCaller, Idle
  <2>3. ASSUME NEW c \in Claims, NEW op, BeginReview(r, c, op) PROVE Goal
    BY <1>1, <2>3 DEF BeginReview, Idle
  <2>4. QED
    BY <1>5, <2>1, <2>2, <2>3 DEF Begin, BeginVerify, BeginEdit
<1>6. ASSUME NEW r \in Requests, Proceed(r) PROVE Goal
  <2>1. req[r] \in RequestState
    BY <1>1
  <2>2. CASE LoadProvider(r)
    BY <1>1, <2>1, <2>2 DEF LoadProvider, Idle, RequestState
  <2>3. CASE LoadUser(r)
    <3> DEFINE full == [req[r] EXCEPT !.pc = "others", !.role = role[req[r].user]]
    <3>1. full.claimed = req[r].claimed
      BY <2>1 DEF RequestState
    <3> HIDE DEF full
    <3>2. req' = [req EXCEPT ![r] = Idle] \/ req' = [req EXCEPT ![r] = full]
      BY <2>3 DEF LoadUser, full
    <3>3. UNCHANGED <<isClaimed, verifiedAt>>
      BY <2>3 DEF LoadUser
    <3>4. QED
      BY <1>2, <1>3, <3>1, <3>2, <3>3
  <2>4. CASE LoadPending(r)
    <3>1. UNCHANGED <<isClaimed, verifiedAt>>
      BY <2>4 DEF LoadPending
    <3>2. CASE End(r)
      BY <1>4, <3>1, <3>2
    <3>3. CASE ~End(r)
      <4>1. PICK q : q.claimed = req[r].claimed /\ req' = [req EXCEPT ![r] = q]
        BY <2>1, <2>4, <3>3 DEF LoadPending, RequestState
      <4>2. QED
        BY <1>2, <3>1, <4>1
    <3>4. QED
      BY <3>2, <3>3
  <2>5. CASE FetchHomepage(r)
    BY <1>1, <2>1, <2>5 DEF FetchHomepage, Idle, RequestState
  <2>6. CASE RejectOthers(r) \/ LockOther(r) \/ LockUser(r) \/ LockProvider(r)
    <3>1. UNCHANGED <<isClaimed, verifiedAt>>
      BY <2>6 DEF RejectOthers, LockOther, LockUser, LockProvider
    <3>2. CASE RejectOthers(r)
      <4>1. PICK q \in GoesOn(req[r], OthersOf(req[r].claim)) :
               req' = [req EXCEPT ![r] = q]
        BY <3>2 DEF RejectOthers
      <4>2. OthersOf(req[r].claim) \in SUBSET Claims
        BY DEF OthersOf
      <4>3. q.claimed = req[r].claimed
        BY <2>1, <4>1, <4>2, GoesOnReads
      <4>4. QED
        BY <1>2, <3>1, <4>1, <4>3
    <3>3. CASE LockOther(r)
      <4>1. PICK q \in GoesOn(req[r], req[r].todo) : req' = [req EXCEPT ![r] = q]
        BY <3>3 DEF LockOther
      <4>2. req[r].todo \in SUBSET Claims
        BY <2>1 DEF RequestState
      <4>3. q.claimed = req[r].claimed
        BY <2>1, <4>1, <4>2, GoesOnReads
      <4>4. QED
        BY <1>2, <3>1, <4>1, <4>3
    <3>4. CASE LockUser(r) \/ LockProvider(r)
      <4>1. PICK q : q.claimed = req[r].claimed /\ req' = [req EXCEPT ![r] = q]
        BY <2>1, <3>4 DEF LockUser, LockProvider, RequestState
      <4>2. QED
        BY <1>2, <3>1, <4>1
    <3>5. QED
      BY <2>6, <3>2, <3>3, <3>4
  <2>7. CASE VerifiedConflict(r) \/ DeadlockAbort(r)
    BY <1>4, <2>7 DEF VerifiedConflict, DeadlockAbort
  <2>8. CASE CommitInitiate(r) \/ CommitReject(r) \/ CommitEdit(r)
    BY <1>4, <2>8 DEF CommitInitiate, CommitReject, CommitEdit
  <2>9. QED
    BY <1>6, <2>2, <2>3, <2>4, <2>5, <2>6, <2>7, <2>8 DEF Proceed
<1>7. ASSUME NEW r \in Requests, RequestFails(r) PROVE Goal
  BY <1>4, <1>7 DEF RequestFails
<1>8. CASE (\E t \in Tokens \cup {None} : PublishTag(t)) \/ UNCHANGED vars
  BY <1>8 DEF PublishTag, vars
<1>9. QED
  BY <1>5, <1>6, <1>7, <1>8 DEF Next

\* A verification sets is_claimed, or has read that it is set.
LEMMA ClaimedStep == CliInv /\ [CliNext]_vars => CliInv'
<1> SUFFICES ASSUME CliInv, [CliNext]_vars PROVE CliInv'
  OBVIOUS
<1>1. FlowInv /\ FlowInv'
  BY StepFlow, CommandFlow DEF CliInv, CliNext
<1>2. \A r \in Requests : req[r].claimed => isClaimed
  BY DEF CliInv, ReadsClaimedInv
<1>3. isClaimed <=> verifiedAt # {}
  BY DEF CliInv, ClaimedByVerification
<1>4. ASSUME NEW r \in Requests, CommitVerified(r)
      PROVE  ReadsClaimedInv' /\ ClaimedByVerification'
  <2>1. isClaimed' = TRUE
    <3>1. isClaimed \in BOOLEAN /\ req[r].claimed \in BOOLEAN
      BY <1>1 DEF FlowInv, TypeOK, RequestState
    <3>2. isClaimed' = (isClaimed \/ ~req[r].claimed)
      BY <1>4 DEF CommitVerified
    <3>3. QED
      BY <1>2, <3>1, <3>2
  <2>2. verifiedAt' # {}
    BY <1>4 DEF CommitVerified
  <2>3. QED
    BY <2>1, <2>2 DEF ReadsClaimedInv, ClaimedByVerification
<1>5. CASE [Next]_vars /\ \A r \in Requests : ~CommitVerified(r)
  <2>1. UNCHANGED <<isClaimed, verifiedAt>>
    BY <1>1, <1>5, ClaimedReads
  <2>2. \A s \in Requests : req'[s].claimed => req[s].claimed \/ isClaimed
    BY <1>1, <1>5, ClaimedReads
  <2>3. ReadsClaimedInv'
    BY <1>2, <2>1, <2>2, Zenon DEF ReadsClaimedInv
  <2>4. ClaimedByVerification'
    BY <1>3, <2>1, Zenon DEF ClaimedByVerification
  <2>5. QED
    BY <1>1, <2>3, <2>4 DEF CliInv
<1>6. CASE Command
  <2>1. UNCHANGED <<isClaimed, verifiedAt, req>>
    BY <1>6 DEF Command, SetRole, ClaimProvider, UnclaimProvider, claimVars,
                providerVars
  <2>2. ReadsClaimedInv'
    BY <1>2, <2>1, Zenon DEF ReadsClaimedInv
  <2>3. ClaimedByVerification'
    BY <1>3, <2>1, Zenon DEF ClaimedByVerification
  <2>4. QED
    BY <1>1, <2>2, <2>3 DEF CliInv
<1>7. QED
  BY <1>1, <1>4, <1>5, <1>6 DEF CliNext, CliInv

\* The inductive invariant of the claim flow together with the commands: rows,
\* tags and locks stay in order while the operator sets roles and owners.
THEOREM CliInvariant == CliSpec => []CliInv
<1>1. Init => CliInv
  BY InitFlow DEF Init, CliInv, ReadsClaimedInv, ClaimedByVerification, Idle
<1>2. QED
  BY <1>1, ClaimedStep, PTL DEF CliSpec

\* Whatever the operator sets meanwhile, at most one claim is verified, nobody
\* has one verified by meta tag without control of the site, the requests in
\* flight do not stop each other, and no command makes a profile a claimed one.
THEOREM CliKeepsClaimFlow ==
  CliSpec => [](/\ OneVerifiedClaim /\ MetaTagProof
                /\ NoUnbrokenWait /\ ClaimedByVerification)
<1>1. CliInv => /\ OneVerifiedClaim /\ MetaTagProof
                /\ NoUnbrokenWait /\ ClaimedByVerification
  BY NoOtherWaits DEF CliInv, FlowInv
<1>2. QED
  BY <1>1, CliInvariant, PTL

\* No claim request in flight across the operator's commands takes the owner
\* away without a successor; only unclaim-provider does.
THEOREM OnlyUnclaimDropsOwnerHolds == CliSpec => OnlyUnclaimDropsOwner
<1>1. ASSUME CliInv, [CliNext]_vars, claimedBy # None, claimedBy' = None
      PROVE  UnclaimProvider
  <2>1. \A r \in Requests : ~CommitVerified(r)
    <3> SUFFICES ASSUME NEW r \in Requests, CommitVerified(r)
                 PROVE  claimedBy' \in Users \/ claimedBy' = claimedBy
      BY <1>1
    <3>1. req[r].user \in Users
      BY <1>1, CommitVerifiedEffect DEF CliInv
    <3>2. QED
      BY <3>1 DEF CommitVerified, OwnerAfter
  <2>2. CASE [Next]_vars
    BY <1>1, <2>1, <2>2, OwnerStep
  <2>3. ASSUME NEW u \in Users, NEW newRole \in Roles, SetRole(u, newRole)
        PROVE  FALSE
    BY <1>1, <2>3 DEF SetRole, providerVars
  <2>4. ASSUME NEW u \in Users, ClaimProvider(u) PROVE FALSE
    BY <1>1, <2>4 DEF ClaimProvider
  <2>5. QED
    BY <1>1, <2>2, <2>3, <2>4 DEF CliNext, Command
<1>2. QED
  BY <1>1, CliInvariant, PTL DEF CliSpec, OnlyUnclaimDropsOwner

=============================================================================
