------------------------- MODULE MCClaimOwnershipCli -------------------------
(* ClaimOwnershipCli on a small instance: interchangeable request slots.    *)
EXTENDS ClaimOwnershipCli, TLC

Slots == Permutations(Requests)

=============================================================================
