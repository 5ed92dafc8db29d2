------------------------- MODULE MCRefreshSessions -------------------------
(* RefreshSessions on small instances: interchangeable requests.           *)
EXTENDS RefreshSessions, TLC

RequestSymmetry == Permutations(Requests)

=============================================================================
