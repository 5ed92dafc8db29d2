----------------------------- MODULE MCRateLimit -----------------------------
(* RateLimit alone on a small instance: two requests, an address and a user.  *)
EXTENDS RateLimit

CONSTANTS address, user

MCScopes == {<<address>>, <<address, user>>}

=============================================================================
