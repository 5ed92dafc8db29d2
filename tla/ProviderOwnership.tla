-------------------------- MODULE ProviderOwnership --------------------------
(***************************************************************************)
(* What the claim flow promises about one provider: who owns it.           *)
(*                                                                         *)
(* An unowned provider is awarded to a user.  From then on it always has   *)
(* an owner, and the owner is replaced only while a verified claim stands  *)
(* overturned by an admin; reinstating the overturned claim leaves the     *)
(* owner as it is.                                                         *)
(***************************************************************************)
CONSTANTS Users, None

VARIABLES
  owner,       \* the owner, or None
  overturned   \* an admin has rejected a claim that had been verified

ovars == <<owner, overturned>>

Init == owner = None /\ overturned = FALSE

\* The first verification that commits wins.
Award(u) ==
  /\ owner = None
  /\ owner' = u
  /\ UNCHANGED overturned

\* An admin rejects the verified claim; the provider keeps its owner.
Overturn ==
  /\ owner # None
  /\ overturned' = TRUE
  /\ UNCHANGED owner

\* Only now may another user's verification take the provider over.
Replace(u) ==
  /\ owner # None
  /\ overturned
  /\ owner' = u
  /\ UNCHANGED overturned

\* The overturned claim is approved again.
Reinstate ==
  /\ overturned
  /\ overturned' = FALSE
  /\ UNCHANGED owner

Next ==
  \/ Overturn \/ Reinstate
  \/ \E u \in Users : Award(u) \/ Replace(u)

Spec == Init /\ [][Next]_ovars

=============================================================================
