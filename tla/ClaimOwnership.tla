--------------------------- MODULE ClaimOwnership ---------------------------
(***************************************************************************)
(* Claim-your-company: how a provider profile gets an owner                *)
(* (services/claims.py, routes/claims.py, the claim half of                *)
(* routes/admin.py, the provider_claims table).                            *)
(*                                                                         *)
(* One provider profile is modelled: every row a claim request reads or    *)
(* writes is keyed by the provider, except users.role, which is only ever  *)
(* raised from client to provider_owner.                                   *)
(*                                                                         *)
(* A request is one HTTP call served by one database transaction at READ   *)
(* COMMITTED.  Each SELECT is a step of its own and copies what it read    *)
(* into the request (the ORM identity map), so a later step works on       *)
(* values that may be stale.  The ORM writes a column only when the        *)
(* request assigned a value different from the one it read.                *)
(*                                                                         *)
(* The write phase of a verification locks rows one by one and keeps them  *)
(* to its end: the UPDATE that rejects the other pending claims takes each *)
(* of their rows, the flush then those of the user, of the provider and of *)
(* the claim itself.  What it writes is seen by others at COMMIT, which is *)
(* one step with the last UPDATE.                                          *)
(***************************************************************************)
EXTENDS Naturals, FiniteSets

CONSTANTS
  Users,           \* registered users
  Admins,          \* those whose role is admin from the start
  Editors,         \* those who edit the profile
  SiteControllers, \* those who can put their token on the provider's homepage
  Requests,        \* slots for requests in flight (worker connections)
  MaxInitiations,  \* bound: how many times "initiate" may be called
  None             \* SQL NULL: no user, no claim, no token, no lock

ASSUME NoneAssumption == None \notin Users \cup Requests \cup (Nat \X Users)
ASSUME UsersAssumption ==
  Admins \subseteq Users /\ Editors \subseteq Users /\ SiteControllers \subseteq Users
ASSUME RequestsAssumption == IsFiniteSet(Requests)   \* pool_size + max_overflow
ASSUME BoundAssumption == MaxInitiations \in Nat

Serials == 1 .. MaxInitiations
Claims  == Serials              \* a row's id: the initiation that inserted it
Tokens  == Serials \X Users     \* each initiation mints a token of its own
Roles    == {"client", "provider_owner", "admin"}
Statuses == {"absent", "pending", "verified", "rejected"}
Methods  == {"meta_tag", "admin_manual"}

VARIABLES
  status,      \* [Claims -> Statuses]: provider_claims.status, absent = no row
  claimant,    \* [Claims -> Users]: provider_claims.user_id
  method,      \* [Claims -> Methods]: provider_claims.method
  token,       \* [Claims -> Tokens]: provider_claims.token_hash
  verifiedAt,  \* the claims whose verified_at column is set
  isClaimed,   \* providers.is_claimed
  claimedBy,   \* providers.claimed_by_user_id
  role,        \* [Users -> Roles]: users.role
  lastEditor,  \* the user whose PATCH last wrote the profile
  tag,         \* the ozzb2b-verify token the provider's homepage carries
  minted,      \* how many tokens have been minted
  lock,        \* [Claims -> Requests]: row locks held by open transactions
  req          \* [Requests -> what the request has read, and where it is]

claimVars    == <<status, claimant, method, token, verifiedAt>>
providerVars == <<isClaimed, claimedBy, lastEditor>>
vars == <<claimVars, providerVars, role, tag, minted, lock, req>>

UserOps  == {"initiate", "verify", "edit"}
AdminOps == {"approve", "reject"}
PCs == {"idle", "provider", "user", "pending", "homepage", "others",
        "locking", "promote", "award", "commit", "write"}
Holding == {"locking", "promote", "award", "commit"}   \* may hold row locks
Writing == {"others", "locking", "promote", "award", "commit"}

Idle == [pc |-> "idle", op |-> "none", user |-> None, claim |-> None,
         claimed |-> FALSE, owner |-> None, role |-> "client",
         status |-> "absent", token |-> None, next |-> None, todo |-> {}]

RequestState ==
  [pc: PCs, op: UserOps \cup AdminOps \cup {"none"}, user: Users \cup {None},
   claim: Claims \cup {None}, claimed: BOOLEAN, owner: Users \cup {None},
   role: Roles, status: Statuses, token: Tokens \cup {None},
   next: Claims \cup {None}, todo: SUBSET Claims]

TypeOK ==
  /\ status \in [Claims -> Statuses]
  /\ claimant \in [Claims -> Users \cup {None}]
  /\ method \in [Claims -> Methods]
  /\ token \in [Claims -> Tokens \cup {None}]
  /\ verifiedAt \in SUBSET Claims
  /\ isClaimed \in BOOLEAN
  /\ claimedBy \in Users \cup {None}
  /\ role \in [Users -> Roles]
  /\ lastEditor \in Users \cup {None}
  /\ tag \in Tokens \cup {None}
  /\ minted \in 0 .. MaxInitiations
  /\ lock \in [Claims -> Requests \cup {None}]
  /\ req \in [Requests -> RequestState]

Init ==
  /\ status = [c \in Claims |-> "absent"]
  /\ claimant = [c \in Claims |-> None]
  /\ method = [c \in Claims |-> "meta_tag"]
  /\ token = [c \in Claims |-> None]
  /\ verifiedAt = {}
  /\ isClaimed = FALSE
  /\ claimedBy = None
  /\ role = [u \in Users |-> IF u \in Admins THEN "admin" ELSE "client"]
  /\ lastEditor = None
  /\ tag = None
  /\ minted = 0
  /\ lock = [c \in Claims |-> None]
  /\ req = [r \in Requests |-> Idle]

-----------------------------------------------------------------------------
(* What a request has read.                                                *)

\* The rows of the pending-claim SELECT of initiate and verify.
PendingOf(u) == {c \in Claims : status[c] = "pending" /\ claimant[c] = u}

\* A provider that somebody else owns refuses initiate, verify and approve.
TakenFrom(u, claimed, owner) == claimed /\ owner # u

\* Variant: any claimed provider may be edited.
MayEditClaimed(u, r, claimed, owner) == r = "admin" \/ claimed

\* user_may_edit_provider, on the role and the provider the request read.
MayEdit(u, r, claimed, owner) == r = "admin" \/ (claimed /\ owner = u)

Unlocked(c, r) == lock[c] \in {None, r}

\* What the flush of a verification writes beside the claim.
PromotesUser(q)   == q.role = "client"
AwardsProvider(q) == ~q.claimed \/ q.owner # q.user

\* The rows of users and providers are locked from their UPDATE on.
HoldsUser(s, u) ==
  req[s].pc \in {"award", "commit"} /\ req[s].user = u /\ PromotesUser(req[s])
HoldsProvider(s) == req[s].pc = "commit" /\ AwardsProvider(req[s])

\* The row that the verification r is about to write is locked by s.
Blocks(s, r) ==
  LET q == req[r] IN
  /\ s # r
  /\ \/ q.pc = "locking" /\ lock[q.next] = s
     \/ q.pc = "promote" /\ PromotesUser(q) /\ HoldsUser(s, q.user)
     \/ q.pc = "award" /\ AwardsProvider(q) /\ HoldsProvider(s)
     \/ q.pc = "commit" /\ lock[q.claim] = s

GetsItsRow(r) == \A s \in Requests : ~Blocks(s, r)

\* A set of requests each of which waits for one of them, and is waited for.
Cycle(S) == \A s \in S : (\E t \in S : Blocks(t, s)) /\ (\E t \in S : Blocks(s, t))
WaitsInCycle(r) == \E S \in SUBSET Requests : r \in S /\ Cycle(S)

\* The transaction ends: its row locks go, the slot is free again.
Release(r) == lock' = [c \in Claims |-> IF lock[c] = r THEN None ELSE lock[c]]
End(r) == req' = [req EXCEPT ![r] = Idle]

-----------------------------------------------------------------------------
(* A user's request starts: get_current_user reads the caller's row.       *)

BeginInitiate(r, u) ==
  /\ req[r].pc = "idle"
  /\ minted < MaxInitiations
  /\ minted' = minted + 1
  /\ req' = [req EXCEPT ![r] =
       [Idle EXCEPT !.pc = "provider", !.op = "initiate", !.user = u,
                    !.token = <<minted + 1, u>>]]
  /\ UNCHANGED <<claimVars, providerVars, role, tag, lock>>

ReadsCaller(r, u, op) ==
  /\ req[r].pc = "idle"
  /\ req' = [req EXCEPT ![r] =
       [Idle EXCEPT !.pc = "provider", !.op = op, !.user = u,
                    !.role = role[u]]]
  /\ UNCHANGED <<claimVars, providerVars, role, tag, minted, lock>>

BeginVerify(r, u) == ReadsCaller(r, u, "verify")
BeginEdit(r, u)   == ReadsCaller(r, u, "edit")

\* An admin opens a claim by id, whatever its status: _load_claim_or_404.
BeginReview(r, c, op) ==
  /\ req[r].pc = "idle"
  /\ status[c] # "absent"
  /\ req' = [req EXCEPT ![r] =
       [Idle EXCEPT !.pc = IF op = "approve" THEN "provider" ELSE "write",
                    !.op = op, !.user = claimant[c], !.claim = c,
                    !.status = status[c]]]
  /\ UNCHANGED <<claimVars, providerVars, role, tag, minted, lock>>

\* The provider row is read; a refusal ends the request.
LoadProvider(r) ==
  LET q == req[r]
      next == CASE q.op \in {"initiate", "verify"} -> "pending"
                [] q.op = "approve" -> "user"
                [] OTHER -> "write"
      refused == CASE q.op = "edit" ->
                        ~MayEdit(q.user, q.role, isClaimed, claimedBy)
                   [] q.op \in {"initiate", "verify"} ->
                        TakenFrom(q.user, isClaimed, claimedBy)
                   [] OTHER -> FALSE
  IN  /\ q.pc = "provider"
      /\ req' = [req EXCEPT ![r] =
           IF refused THEN Idle
           ELSE IF q.op \in {"initiate", "edit"}
           THEN [q EXCEPT !.pc = next, !.role = "client"]   \* no longer needed
           ELSE [q EXCEPT !.pc = next, !.claimed = isClaimed,
                          !.owner = claimedBy]]
      /\ UNCHANGED <<claimVars, providerVars, role, tag, minted, lock>>

\* approve reads the claimant last, and only then checks the provider it read.
LoadUser(r) ==
  LET q == req[r] IN
  /\ q.pc = "user"
  /\ req' = [req EXCEPT ![r] =
       IF TakenFrom(q.user, q.claimed, q.owner) THEN Idle
       ELSE [q EXCEPT !.pc = "others", !.role = role[q.user]]]
  /\ UNCHANGED <<claimVars, providerVars, role, tag, minted, lock>>

\* scalar_one_or_none: two pending rows of one user raise MultipleResultsFound.
LoadPending(r) ==
  LET q == req[r]
      rows == PendingOf(q.user)
  IN  /\ q.pc = "pending"
      /\ \/ /\ \E c \in rows :
                 /\ rows = {c}
                 /\ req' = [req EXCEPT ![r] =
                      IF q.op = "initiate"
                      THEN [q EXCEPT !.pc = "write", !.claim = c]
                      ELSE [q EXCEPT !.pc = "homepage", !.claim = c,
                                     !.status = "pending", !.token = token[c]]]
         \/ /\ rows = {}
            /\ q.op = "initiate"
            /\ req' = [req EXCEPT ![r].pc = "write"]
         \/ /\ \/ rows = {} /\ q.op = "verify"
               \/ \E c, d \in rows : c # d
            /\ End(r)
      /\ UNCHANGED <<claimVars, providerVars, role, tag, minted, lock>>

\* Variant: any tag on the homepage will do.
AnyTagProves(q) == tag # None

\* The first tag of the homepage hashes to the token hash the request has read.
TagProves(q) == tag # None /\ tag = q.token

\* The homepage is fetched and its first tag compared with the token hash the
\* request read before the fetch; anything else is a 4xx.
FetchHomepage(r) ==
  LET q == req[r] IN
  /\ q.pc = "homepage"
  /\ req' = [req EXCEPT ![r] =
       IF TagProves(q)
       THEN [q EXCEPT !.pc = "others", !.token = None]
       ELSE Idle]
  /\ UNCHANGED <<claimVars, providerVars, role, tag, minted, lock>>

-----------------------------------------------------------------------------
(* The write phase.                                                        *)

\* Variant: the UPDATE does not spare the claim itself.
AllPending(c) == {d \in Claims : status[d] = "pending"}

\* The other pending claims of the provider.
OthersOf(c) == {d \in Claims \ {c} : status[d] = "pending"}

\* The request goes on to the next of those rows, in whatever order the scan
\* meets them, or to its flush.
GoesOn(q, rows) ==
  IF rows = {} THEN {[q EXCEPT !.pc = "promote", !.next = None, !.todo = {}]}
  ELSE {[q EXCEPT !.pc = "locking", !.next = d, !.todo = rows \ {d}] : d \in rows}

\* _mark_claim_verified, first statement: the UPDATE of the other pending claims
\* finds its rows in the snapshot it starts with.
RejectOthers(r) ==
  LET q == req[r] IN
  /\ q.pc = "others"
  /\ \E p \in GoesOn(q, OthersOf(q.claim)) : req' = [req EXCEPT ![r] = p]
  /\ UNCHANGED <<claimVars, providerVars, role, tag, minted, lock>>

\* It locks them one at a time, waiting for who holds the next one, and leaves
\* alone the row that is not pending any more when its turn comes.
LockOther(r) ==
  LET q == req[r] IN
  /\ q.pc = "locking"
  /\ GetsItsRow(r)
  /\ lock' = IF status[q.next] = "pending" THEN [lock EXCEPT ![q.next] = r] ELSE lock
  /\ \E p \in GoesOn(q, q.todo) : req' = [req EXCEPT ![r] = p]
  /\ UNCHANGED <<claimVars, providerVars, role, tag, minted>>

\* The flush: UPDATE users, then UPDATE providers, each when a column differs.
LockUser(r) ==
  /\ req[r].pc = "promote"
  /\ GetsItsRow(r)
  /\ req' = [req EXCEPT ![r].pc = "award"]
  /\ UNCHANGED <<claimVars, providerVars, role, tag, minted, lock>>

LockProvider(r) ==
  /\ req[r].pc = "award"
  /\ GetsItsRow(r)
  /\ req' = [req EXCEPT ![r].pc = "commit"]
  /\ UNCHANGED <<claimVars, providerVars, role, tag, minted, lock>>

\* Variants: there is no such index; or it is one index entry per user.
NoUniqueIndex(q) == FALSE
UniquePerUser(q) ==
  /\ q.status # "verified"
  /\ \E d \in Claims \ {q.claim} :
       status[d] = "verified" /\ claimant[d] = q.user

\* The partial unique index over provider_id where status = 'verified'.
BreaksUniqueIndex(q) ==
  /\ q.status # "verified"
  /\ \E d \in Claims \ {q.claim} : status[d] = "verified"

\* Variant: the owner column is forgotten.
OwnerForgotten(q) == claimedBy

\* provider.claimed_by_user_id = user.id
OwnerAfter(q) == IF q.owner # q.user THEN q.user ELSE claimedBy

\* Promote client -> provider_owner.
RoleAfter(q) ==
  IF PromotesUser(q) THEN [role EXCEPT ![q.user] = "provider_owner"] ELSE role

\* _mark_claim_verified, end of the flush and COMMIT: only columns that differ
\* from what the request read are written.
CommitVerified(r) ==
  LET q == req[r] IN
  /\ q.pc = "commit"
  /\ GetsItsRow(r)
  /\ ~BreaksUniqueIndex(q)
  /\ status' = [c \in Claims |->
       CASE lock[c] = r -> "rejected"
         [] c = q.claim /\ q.status # "verified" -> "verified"
         [] OTHER -> status[c]]
  /\ method' = IF q.op = "approve"
               THEN [method EXCEPT ![q.claim] = "admin_manual"] ELSE method
  /\ verifiedAt' = verifiedAt \cup {q.claim}
  /\ isClaimed' = (isClaimed \/ ~q.claimed)
  /\ claimedBy' = OwnerAfter(q)
  /\ role' = RoleAfter(q)
  /\ Release(r)
  /\ End(r)
  /\ UNCHANGED <<claimant, token, lastEditor, tag, minted>>

\* The same flush against another verified claim: IntegrityError, rollback.
VerifiedConflict(r) ==
  /\ req[r].pc = "commit"
  /\ GetsItsRow(r)
  /\ BreaksUniqueIndex(req[r])
  /\ Release(r)
  /\ End(r)
  /\ UNCHANGED <<claimVars, providerVars, role, tag, minted>>

\* INSERT of a new pending claim, or a fresh token for the row that was read.
CommitInitiate(r) ==
  LET q == req[r]
      row == IF q.claim = None THEN q.token[1] ELSE q.claim
  IN  /\ q.pc = "write"
      /\ q.op = "initiate"
      /\ Unlocked(row, r)
      /\ token' = [token EXCEPT ![row] = q.token]
      /\ IF q.claim = None
         THEN /\ status[row] = "absent"       \* a fresh primary key
              /\ status' = [status EXCEPT ![row] = "pending"]
              /\ claimant' = [claimant EXCEPT ![row] = q.user]
         ELSE UNCHANGED <<status, claimant>>
      /\ End(r)
      /\ UNCHANGED <<method, verifiedAt, providerVars, role, tag, minted,
                     lock>>

\* claim.status = REJECTED
StatusAfterReject(q) ==
  IF q.status # "rejected"
  THEN [status EXCEPT ![q.claim] = "rejected"] ELSE status

\* admin_reject_claim: any status may be overwritten.
CommitReject(r) ==
  LET q == req[r] IN
  /\ q.pc = "write"
  /\ q.op = "reject"
  /\ Unlocked(q.claim, r)
  /\ status' = StatusAfterReject(q)
  /\ End(r)
  /\ UNCHANGED <<claimant, method, token, verifiedAt, providerVars, role,
                 tag, minted, lock>>

\* update_owned_provider: the fields are written, authorised by the earlier read.
CommitEdit(r) ==
  /\ req[r].pc = "write"
  /\ req[r].op = "edit"
  /\ \A s \in Requests : ~HoldsProvider(s)
  /\ lastEditor' = req[r].user
  /\ End(r)
  /\ UNCHANGED <<claimVars, isClaimed, claimedBy, role, tag, minted, lock>>

-----------------------------------------------------------------------------
(* The environment.                                                        *)

\* A user who controls the provider's site puts a token he was given on it, or
\* takes the tag away.
PublishTag(t) ==
  /\ t # tag
  /\ \/ t = None
     \/ \E c \in Claims : token[c] = t /\ claimant[c] \in SiteControllers
  /\ tag' = t
  /\ UNCHANGED <<claimVars, providerVars, role, minted, lock, req>>

\* Variant: nobody looks for deadlocks.
NoDeadlockDetection(r) == FALSE /\ UNCHANGED vars

\* PostgreSQL aborts one of the transactions that wait for each other.
DeadlockAbort(r) ==
  /\ WaitsInCycle(r)
  /\ Release(r)
  /\ End(r)
  /\ UNCHANGED <<claimVars, providerVars, role, tag, minted>>

\* A request dies at any point: the fetch fails, the process or its database
\* connection goes away.  Nothing it wrote is visible yet.
RequestFails(r) ==
  /\ req[r].pc # "idle"
  /\ Release(r)
  /\ End(r)
  /\ UNCHANGED <<claimVars, providerVars, role, tag, minted>>

-----------------------------------------------------------------------------
Begin(r) ==
  \/ \E u \in Users : BeginInitiate(r, u)
  \/ \E u \in Users : BeginVerify(r, u)
  \/ \E u \in Editors : BeginEdit(r, u)
  \/ \E c \in Claims, op \in AdminOps : BeginReview(r, c, op)

\* The steps a request in flight takes on its own.
Proceed(r) ==
  \/ LoadProvider(r) \/ LoadUser(r) \/ LoadPending(r) \/ FetchHomepage(r)
  \/ RejectOthers(r) \/ LockOther(r) \/ LockUser(r) \/ LockProvider(r)
  \/ CommitVerified(r) \/ VerifiedConflict(r) \/ DeadlockAbort(r)
  \/ CommitInitiate(r) \/ CommitReject(r) \/ CommitEdit(r)

Next ==
  \/ \E r \in Requests : Begin(r) \/ Proceed(r) \/ RequestFails(r)
  \/ \E t \in Tokens \cup {None} : PublishTag(t)

Spec == Init /\ [][Next]_vars

-----------------------------------------------------------------------------
(* What the claim flow guarantees.                                         *)

\* At most one claim of the provider is verified at a time, whatever the
\* interleaving of verifications, approvals and rejections
\* (uq_provider_claims_verified_per_provider).
OneVerifiedClaim ==
  \A c, d \in Claims : status[c] = "verified" /\ status[d] = "verified" => c = d

\* The owner columns agree with each other and with the claims: a provider is
\* claimed exactly when it has an owner, and the owner has a claim that was
\* verified (_mark_claim_verified writes the three together).
OwnerHasVerifiedClaim ==
  /\ isClaimed <=> claimedBy # None
  /\ verifiedAt # {} <=> isClaimed
  /\ isClaimed => \E c \in verifiedAt : claimant[c] = claimedBy

\* A verified claim an admin later rejected.
Overturned == \E c \in verifiedAt : status[c] # "verified"

\* Unless an admin has overturned a verified claim, the user of a verified
\* claim is the owner: concurrent verifications do not leave a winner in one
\* table and another winner in the other.
VerifiedClaimOwnsProvider ==
  ~Overturned =>
    \A c \in Claims : status[c] = "verified" => isClaimed /\ claimedBy = claimant[c]

\* The owner was promoted, even when the role the request read was stale
\* ("promote client -> provider_owner").
OwnerIsPromoted == claimedBy # None => role[claimedBy] # "client"

\* A claim verified by meta tag belongs to a user who controls the provider's
\* website: no interleaving of token refreshes, fetches and verifications lets
\* a user win with somebody else's tag.
MetaTagProof ==
  \A c \in Claims : status[c] = "verified" /\ method[c] = "meta_tag" =>
    claimant[c] \in SiteControllers

\* The profile was last edited by an admin or by a user with a claim that was
\* verified, however stale the ownership the edit was authorised by.
EditorWasEntitled ==
  lastEditor # None =>
    \/ role[lastEditor] = "admin"
    \/ \E c \in verifiedAt : claimant[c] = lastEditor

\* Requests that lock rows one by one (claims.py:243-260) never all stop: while
\* one is in its write phase, some request can go on by itself, and need not
\* fail to let the others through.
SomeRequestMoves ==
  (\E r \in Requests : req[r].pc \in Writing) =>
    \E r \in Requests : ENABLED Proceed(r)

\* The same of the waits alone, whatever the number of requests: as long as some
\* verifications are in their write phase, one of them gets the row it is at, or
\* some wait for each other in a cycle, which the database sees and breaks.
\* Nobody waits for a request that reads, fetches a homepage or has ended.
NoUnbrokenWait ==
  (\E r \in Requests : req[r].pc \in Writing) =>
    \E r \in Requests : req[r].pc \in Writing /\ (GetsItsRow(r) \/ WaitsInCycle(r))

\* The provider's ownership, as the claim flow promises it: awarded once, and
\* given to somebody else only after an admin overturned the verified claim.
Ownership == INSTANCE ProviderOwnership
             WITH owner <- claimedBy, overturned <- Overturned
OwnershipSpec == Ownership!Spec

-----------------------------------------------------------------------------
(* The inductive invariant behind the safety properties.                   *)

\* A row has a user and a token minted for that user; only rows have been
\* verified, and verified_at is never cleared.
RowsInv ==
  \A c \in Claims :
    /\ status[c] = "absent" => claimant[c] = None
    /\ status[c] # "absent" =>
         /\ claimant[c] \in Users
         /\ \E n \in Serials : token[c] = <<n, claimant[c]>>
    /\ c \in verifiedAt => status[c] # "absent"
    /\ status[c] = "verified" => c \in verifiedAt

\* Only those who control the site have had their token on it.
TagInv == tag # None => \E n \in Serials, u \in SiteControllers : tag = <<n, u>>

\* Admins are those who were admins from the start.
RolesInv == \A u \in Users : role[u] = "admin" <=> u \in Admins

\* The claim a request works on is its user's.
WorksOnOwnClaim(q) ==
  /\ q.pc # "idle" => q.user \in Users
  /\ q.pc = "pending" => q.op \in {"initiate", "verify"}
  /\ q.pc = "user" => q.op = "approve"
  /\ q.pc = "homepage" => q.op = "verify"
  /\ q.pc \in Writing => q.op \in {"approve", "verify"}
  /\ q.op \in AdminOps \/ q.pc \in {"homepage"} \cup Writing =>
       /\ q.op \in AdminOps \cup {"verify"}
       /\ q.claim \in Claims
       /\ status[q.claim] # "absent"
       /\ claimant[q.claim] = q.user
       /\ q.status = "verified" => q.claim \in verifiedAt
  /\ q.op = "initiate" =>
       /\ \E n \in Serials : q.token = <<n, q.user>>
       /\ q.claim # None => status[q.claim] # "absent" /\ claimant[q.claim] = q.user
  /\ q.pc = "homepage" => \E n \in Serials : q.token = <<n, q.user>>
  /\ q.pc \in Writing /\ q.op = "verify" => q.user \in SiteControllers
  /\ q.pc = "locking" => q.next \in Claims /\ q.claim \notin {q.next} \cup q.todo

\* The provider a request has read was unowned, or the request's user owned it.
ReadFreeProvider(q) ==
  /\ q.claimed => isClaimed
  /\ q.claimed <=> q.owner # None
  /\ \/ q.pc \in {"homepage"} \cup Writing
     \/ q.pc = "pending" /\ q.op = "verify"
     => q.owner \in {None, q.user}

\* A stale role is never above the real one, and an admin's is never below it.
ReadLowRole(q) ==
  /\ q.role # "client" => q.user \in Users /\ role[q.user] # "client"
  /\ q.role = "admin" => q.user \in Admins
  /\ /\ q.op = "verify" \/ q.pc \in Writing
     /\ q.user \in Admins
     => q.role = "admin"

\* An edit that is about to be written comes from an entitled user.
EditsEntitled(q) ==
  q.op = "edit" /\ q.pc = "write" =>
    \/ q.user \in Admins
    \/ \E c \in verifiedAt : claimant[c] = q.user

OwnClaimsInv == \A r \in Requests : WorksOnOwnClaim(req[r])

RequestOK(q) == ReadFreeProvider(q) /\ ReadLowRole(q) /\ EditsEntitled(q)
RequestsInv == \A r \in Requests : RequestOK(req[r])

\* Locked rows belong to requests in their write phase, and are other pending ones.
LocksInv ==
  \A c \in Claims : lock[c] # None =>
    /\ req[lock[c]].pc \in Holding
    /\ req[lock[c]].claim # c
    /\ status[c] = "pending"

\* The part that speaks of rows, tags and locks only: it holds whoever else
\* writes the owner and role columns.
FlowInv ==
  /\ TypeOK
  /\ RowsInv /\ TagInv /\ OwnClaimsInv
  /\ LocksInv
  /\ OneVerifiedClaim /\ MetaTagProof

IInv ==
  /\ FlowInv
  /\ RolesInv /\ RequestsInv
  /\ OwnerHasVerifiedClaim /\ OwnerIsPromoted /\ EditorWasEntitled

-----------------------------------------------------------------------------
(* What the repository says of it and the code does not keep.              *)

\* claims.py:160, "Verify a pending claim": a claim that is not pending any more,
\* because an admin or another winner rejected it, is not verified by its user;
\* only an admin's approval takes a claim from rejected to verified.
RejectionStands ==
  [][\A c \in Claims : status[c] = "rejected" /\ status'[c] = "verified" =>
       method'[c] = "admin_manual"]_status

=============================================================================
