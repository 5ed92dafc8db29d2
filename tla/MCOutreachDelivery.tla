------------------------- MODULE MCOutreachDelivery -------------------------
(* OutreachDelivery on small instances: addresses of one's own or shared,  *)
(* and interchangeable requests.                                           *)
EXTENDS OutreachDelivery, TLC

CONSTANTS p1, p2, a1, a2

OwnAddress == (p1 :> a1) @@ (p2 :> a2)
OneAddress == p1 :> a1
SharedAddress == (p1 :> a1) @@ (p2 :> a1)

RequestSymmetry == Permutations(Requests)

=============================================================================
