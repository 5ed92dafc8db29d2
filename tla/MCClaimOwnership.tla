-------------------------- MODULE MCClaimOwnership --------------------------
(***************************************************************************)
(* ClaimOwnership on small instances with interchangeable request slots.   *)
(* The safety run has two parts, told apart by the number of initiations:  *)
(* the whole flow, two requests at once of two users; and the row locks of *)
(* three approvals at once, from where three claims of two users are       *)
(* pending, which three initiations lead to.                               *)
(***************************************************************************)
EXTENDS ClaimOwnership, TLC

CONSTANTS alice, bob, third

Slots == Permutations(Requests \ {third})

-----------------------------------------------------------------------------
\* The third slot and the last initiation are the other part's.
FlowBegin(r) ==
  \/ \E u \in Users :
       (minted + 1 < MaxInitiations /\ BeginInitiate(r, u)) \/ BeginVerify(r, u)
  \/ \E u \in Editors : BeginEdit(r, u)
  \/ \E c \in Claims, op \in AdminOps : BeginReview(r, c, op)

FlowNext ==
  /\ minted < MaxInitiations
  /\ \/ \E r \in Requests \ {third} : FlowBegin(r) \/ Proceed(r) \/ RequestFails(r)
     \/ \E t \in Tokens \cup {None} : PublishTag(t)

-----------------------------------------------------------------------------
ThreePending ==
  /\ claimant = <<alice, alice, bob>>
  /\ status = [c \in Claims |-> "pending"]
  /\ method = [c \in Claims |-> "meta_tag"]
  /\ token = [c \in Claims |-> <<c, claimant[c]>>]
  /\ verifiedAt = {}
  /\ isClaimed = FALSE
  /\ claimedBy = None
  /\ role = [u \in Users |-> IF u \in Admins THEN "admin" ELSE "client"]
  /\ lastEditor = None
  /\ tag = None
  /\ minted = MaxInitiations
  /\ lock = [c \in Claims |-> None]
  /\ req = [r \in Requests |-> Idle]

\* An admin approves any of the claims, any number of times.
Approve(r) == \E c \in Claims : BeginReview(r, c, "approve")

LocksNext ==
  /\ minted = MaxInitiations
  /\ \E r \in Requests : Approve(r) \/ Proceed(r) \/ RequestFails(r)

MCSpec == (Init \/ ThreePending) /\ [][FlowNext \/ LocksNext]_vars

=============================================================================
