------------------------------- MODULE MCApi -------------------------------
(***************************************************************************)
(* Sessions, the chat, the reference cache and the limiter on small        *)
(* instances.  They share no variable, so the behaviours of one of them    *)
(* at a time are checked, and not their product: part says of which.       *)
(***************************************************************************)
EXTENDS RefreshSessions, ChatFanout, ConversationStart, ReferenceCache, RateLimit, TLC

CONSTANTS
  m1, m2, m3, tab, alice, bob,       \* chat: messages, a page, users
  s1, s2, s3,                        \* requests that start a conversation
  r1, r2, r3, blue, green,           \* cached reads, API processes
  h1, h2, address, user              \* hits, counters

VARIABLE part

(* Alice has the page open and sends m1 from it; bob, who has closed his,     *)
(* sends the others.                                                          *)
MCSentFrom == m1 :> tab @@ m2 :> Nobody @@ m3 :> Nobody
MCSenderOf == m1 :> alice @@ m2 :> bob @@ m3 :> bob
MCUserOf == tab :> alice
ApiSymmetry == Permutations({m2, m3}) \cup Permutations(Requests)

MCServerOf == r1 :> blue @@ r2 :> blue @@ r3 :> green
MCScopes == {<<address>>, <<address, user>>}

-----------------------------------------------------------------------------
Parts == {"session", "chat", "start", "cache", "limit"}

ApiInit ==
  /\ part \in Parts
  /\ Init
  /\ ChatInit /\ (part # "chat" => owner = Nobody)
  /\ StartInit
  /\ CacheInit /\ (part # "cache" => entry = Empty)
  /\ LimitInit

ApiNext ==
  \/ /\ part = "session" /\ Next
     /\ UNCHANGED <<part, chatVars, startVars, cacheVars, limitVars>>
  \/ /\ part = "chat" /\ ChatNext
     /\ UNCHANGED <<part, vars, startVars, cacheVars, limitVars>>
  \/ /\ part = "start" /\ StartNext
     /\ UNCHANGED <<part, vars, chatVars, cacheVars, limitVars>>
  \/ /\ part = "cache" /\ CacheNext
     /\ UNCHANGED <<part, vars, chatVars, startVars, limitVars>>
  \/ /\ part = "limit" /\ LimitNext
     /\ UNCHANGED <<part, vars, chatVars, startVars, cacheVars>>

ApiSpec ==
  ApiInit /\ [][ApiNext]_<<part, vars, chatVars, startVars, cacheVars, limitVars>>

=============================================================================
