-------------------------- MODULE ClaimOwnershipCli --------------------------
(***************************************************************************)
(* The claim flow together with the operator's commands of db/cli.py,      *)
(* which write the same columns without going through the claim flow.      *)
(* Each command is one short transaction that reads the rows it updates by *)
(* unique key and commits at once, so it is one step, for which it waits   *)
(* while a verification holds the row.                                     *)
(***************************************************************************)
EXTENDS ClaimOwnership

\* set-role <email> <role>
SetRole(u, newRole) ==
  /\ role[u] # newRole
  /\ \A s \in Requests : ~HoldsUser(s, u)
  /\ role' = [role EXCEPT ![u] = newRole]
  /\ UNCHANGED <<claimVars, providerVars, tag, minted, lock, req>>

\* claim-provider <slug> <email>: links the user, leaves is_claimed alone.
ClaimProvider(u) ==
  /\ claimedBy # u
  /\ \A s \in Requests : ~HoldsProvider(s)
  /\ claimedBy' = u
  /\ UNCHANGED <<claimVars, isClaimed, lastEditor, role, tag, minted, lock, req>>

\* unclaim-provider <slug>: drops the link, leaves is_claimed and the claims.
UnclaimProvider ==
  /\ claimedBy # None
  /\ \A s \in Requests : ~HoldsProvider(s)
  /\ claimedBy' = None
  /\ UNCHANGED <<claimVars, isClaimed, lastEditor, role, tag, minted, lock, req>>

Command ==
  \/ \E u \in Users, newRole \in Roles : SetRole(u, newRole)
  \/ \E u \in Users : ClaimProvider(u)
  \/ UnclaimProvider

CliNext == Next \/ Command
CliSpec == Init /\ [][CliNext]_vars

-----------------------------------------------------------------------------
(* What the commands leave of the claim flow's guarantees.                 *)

\* A profile counts as claimed exactly when a claim of it was ever verified:
\* claim-provider alone, which leaves is_claimed as it is, lets nobody edit it and
\* shuts nobody out (cli.py:85, claims.py:233).
ClaimedByVerification == isClaimed <=> verifiedAt # {}

\* A request that has read the provider as claimed is right about it for good.
ReadsClaimedInv == \A r \in Requests : req[r].claimed => isClaimed

CliInv == FlowInv /\ ReadsClaimedInv /\ ClaimedByVerification

\* A provider that has an owner loses him only to unclaim-provider: a claim
\* request in flight across a command writes a user into the column or leaves
\* what the command wrote (claims.py:233-234).
OnlyUnclaimDropsOwner ==
  [][claimedBy # None /\ claimedBy' = None => UnclaimProvider]_vars

-----------------------------------------------------------------------------
(* What the repository says of it and the code does not keep.              *)

\* claims.py:236, "never demote an admin": a verification leaves an admin's role.
NeverDemoteAdmin ==
  [][\A u \in Users : role[u] = "admin" /\ req' # req => role'[u] = "admin"]_vars

=============================================================================
