----------------------------- MODULE RateLimit -----------------------------
(***************************************************************************)
(* The fixed-window limiter of the API (security/rate_limit.py,            *)
(* routes/auth.py).                                                        *)
(*                                                                         *)
(* A request hits one Redis counter for its address and one for its user   *)
(* or e-mail.  Each hit is INCR, EXPIRE by the hit that created the        *)
(* counter, and TTL: three calls, between which other requests run, Redis  *)
(* may go away, or the process may die.  Any exception lets the hit        *)
(* through.                                                                *)
(***************************************************************************)
EXTENDS Naturals, Sequences

CONSTANTS
  Hitters,     \* slots for requests in flight
  Counters,    \* keys rl:{endpoint}:{scope}
  Scopes,      \* what a request hits: <<address>> or <<address, user>>
  Budget,      \* the limit of the endpoint
  NoCounter,   \* an idle request's counter
  MaxHits      \* bound: the value a counter reaches

ASSUME ScopesAssumption ==
  /\ Scopes \subseteq Seq(Counters)
  /\ \A s \in Scopes : Len(s) > 0
  /\ NoCounter \notin Counters
ASSUME BudgetAssumption == Budget \in Nat \ {0} /\ MaxHits \in Nat

VARIABLES
  count,     \* [Counters -> the value, 0 when the key does not exist]
  expires,   \* counters with an expiry
  hit,       \* [Hitters -> the hit a request is making]
  granted,   \* [Counters -> values of this window that were let through]: history
  orphaned   \* counters whose expiry was lost with the hit that owed it: history

limitVars == <<count, expires, hit, granted, orphaned>>

NoHit == [pc |-> "idle", key |-> NoCounter, left |-> <<>>, n |-> 0,
          over |-> FALSE]

Hits == [pc : {"idle", "incr", "expire", "ttl"},
         key : Counters \cup {NoCounter}, left : Seq(Counters),
         n : Nat, over : BOOLEAN]

LimitTypeOK ==
  /\ count \in [Counters -> Nat]
  /\ expires \subseteq Counters
  /\ hit \in [Hitters -> Hits]
  /\ granted \in [Counters -> SUBSET Nat]
  /\ orphaned \subseteq Counters

LimitInit ==
  /\ count = [k \in Counters |-> 0]
  /\ expires = {}
  /\ hit = [h \in Hitters |-> NoHit]
  /\ granted = [k \in Counters |-> {}]
  /\ orphaned = {}

-----------------------------------------------------------------------------
\* The hit that a scope list begins with; none is left when all were let through.
HitOn(scopes) ==
  IF scopes = <<>> THEN NoHit
  ELSE [NoHit EXCEPT !.pc = "incr", !.key = Head(scopes), !.left = Tail(scopes)]

\* enforce_rate_limit: the address, then the user's scope.
Arrive(h) ==
  /\ hit[h].pc = "idle"
  /\ \E scopes \in Scopes : hit' = [hit EXCEPT ![h] = HitOn(scopes)]
  /\ UNCHANGED <<count, expires, granted, orphaned>>

\* Variant: the expiry is set when INCR returns the number of earlier hits, 0.
NoEarlierHit(n) == n = 0

\* Only the hit that created the counter sets its expiry.
OwesExpiry(n) == n = 1

\* INCR is atomic: every hit gets a value of its own.
Incr(h) ==
  LET k == hit[h].key
  IN  /\ hit[h].pc = "incr"
      /\ count[k] < MaxHits
      /\ count' = [count EXCEPT ![k] = @ + 1]
      /\ hit' = [hit EXCEPT ![h].n = count[k] + 1,
                            ![h].pc = IF OwesExpiry(count[k] + 1) THEN "expire"
                                      ELSE "ttl"]
      /\ UNCHANGED <<expires, granted, orphaned>>

SetExpiry(h) ==
  /\ hit[h].pc = "expire"
  /\ expires' = IF count[hit[h].key] > 0 THEN expires \cup {hit[h].key} ELSE expires
  /\ hit' = [hit EXCEPT ![h].pc = "ttl"]
  /\ UNCHANGED <<count, granted, orphaned>>

\* Variant: the last hit of the budget has to leave one over.
OneTooMany(n) == n <= Budget + 1

InBudget(n) == n <= Budget

\* TTL, which decides nothing, and the decision.  A refused request ends with
\* 429; one that is let through goes on to its next counter.
Decide(h) ==
  LET k == hit[h].key
  IN  /\ hit[h].pc = "ttl"
      /\ hit' = [hit EXCEPT ![h] = IF InBudget(hit[h].n) THEN HitOn(hit[h].left)
                                   ELSE NoHit]
      /\ granted' = IF InBudget(hit[h].n) /\ ~hit[h].over
                    THEN [granted EXCEPT ![k] = @ \cup {hit[h].n}] ELSE granted
      /\ UNCHANGED <<count, expires, orphaned>>

\* The counters whose expiry goes missing when the request stops where it is.
LosesExpiry(h) == IF hit[h].pc = "expire" THEN {hit[h].key} ELSE {}

\* Redis does not answer: the hit is let through, and the request goes on.
FailOpen(h) ==
  /\ hit[h].pc # "idle"
  /\ hit' = [hit EXCEPT ![h] = HitOn(hit[h].left)]
  /\ orphaned' = orphaned \cup LosesExpiry(h)
  /\ UNCHANGED <<count, expires, granted>>

\* Redis has counted, and its answer is lost: the hit is let through, and knows
\* of no counter it would owe an expiry.
IncrUnanswered(h) ==
  LET k == hit[h].key
  IN  /\ hit[h].pc = "incr"
      /\ count[k] < MaxHits
      /\ count' = [count EXCEPT ![k] = @ + 1]
      /\ orphaned' = IF count[k] = 0 THEN orphaned \cup {k} ELSE orphaned
      /\ hit' = [hit EXCEPT ![h] = HitOn(hit[h].left)]
      /\ UNCHANGED <<expires, granted>>

\* The client or the process goes away.
Vanish(h) ==
  /\ hit[h].pc # "idle"
  /\ hit' = [hit EXCEPT ![h] = NoHit]
  /\ orphaned' = orphaned \cup LosesExpiry(h)
  /\ UNCHANGED <<count, expires, granted>>

\* Redis drops a counter whose time has come.  Hits counted before that are
\* over: what they decide does not count for the next window.
WindowEnds(k) ==
  /\ k \in expires
  /\ count' = [count EXCEPT ![k] = 0]
  /\ expires' = expires \ {k}
  /\ granted' = [granted EXCEPT ![k] = {}]
  /\ hit' = [h \in Hitters |->
               IF hit[h].key = k /\ hit[h].n > 0
               THEN [hit[h] EXCEPT !.over = TRUE] ELSE hit[h]]
  /\ UNCHANGED orphaned

LimitNext ==
  \/ \E h \in Hitters :
       \/ Arrive(h) \/ Incr(h) \/ SetExpiry(h) \/ Decide(h)
       \/ FailOpen(h) \/ IncrUnanswered(h) \/ Vanish(h)
  \/ \E k \in Counters : WindowEnds(k)

LimitSpec == LimitInit /\ [][LimitNext]_limitVars

-----------------------------------------------------------------------------
(* What the limiter guarantees.                                            *)

\* A counter that exists has an expiry, or the hit that created it is about to
\* set one (rate_limit.py:54-55), or that hit was lost on the way: whatever
\* requests race for the first INCR, nobody else leaves a window without end.
EveryWindowEnds ==
  \A k \in Counters : count[k] > 0 =>
    \/ k \in expires \cup orphaned
    \/ \E h \in Hitters : hit[h].key = k /\ hit[h].pc = "expire"

\* A counter lets at most Budget hits of a window through (rate_limit.py:63): the
\* values it let through are within the budget, and no hit of the window that is
\* still to be decided has one of them, however requests, ends of windows and
\* failures mix.
BudgetHolds ==
  /\ \A k \in Counters : granted[k] \subseteq 1 .. Budget
  /\ \A h \in Hitters : hit[h].n > 0 /\ ~hit[h].over =>
       hit[h].n \notin granted[hit[h].key]

\* Values of one window are unique, and only a window's creator owes an expiry.
HitsInv ==
  /\ \A h \in Hitters :
       /\ hit[h].pc # "idle" => hit[h].key \in Counters
       /\ hit[h].pc \in {"expire", "ttl"} => hit[h].n > 0
       /\ hit[h].pc \in {"idle", "incr"} => hit[h].n = 0
       /\ hit[h].n > 0 /\ ~hit[h].over => hit[h].n <= count[hit[h].key]
  /\ \A g, h \in Hitters :
       g # h /\ hit[g].key = hit[h].key /\ hit[g].n > 0 /\ hit[g].n = hit[h].n =>
         hit[g].over \/ hit[h].over
  /\ \A h \in Hitters :
       hit[h].n > 0 /\ ~hit[h].over => hit[h].n \notin granted[hit[h].key]

\* The values that were let through are behind the counter.
GrantedInv ==
  \A k \in Counters :
    /\ granted[k] \subseteq 1 .. Budget
    /\ \A n \in granted[k] : n <= count[k]

LimitInv == LimitTypeOK /\ HitsInv /\ EveryWindowEnds /\ GrantedInv

-----------------------------------------------------------------------------
(* What the repository says of it and the code does not keep.              *)

Expiring(k) ==
  k \in expires \/ \E g \in Hitters : hit[g].key = k /\ hit[g].pc = "expire"

\* test_rate_limit_faults.py:3, "fail-open on Redis outage: if Redis is slow,
\* unreachable [...] the limiter must never block legitimate traffic": a hit is
\* refused for the hits of its window only, so its counter expires, unless it did
\* already.  A counter whose expiry an outage took keeps counting for good.
OutageBlocksNobody ==
  [][\A h \in Hitters : Decide(h) /\ ~InBudget(hit[h].n) =>
       Expiring(hit[h].key) \/ hit[h].over]_limitVars

=============================================================================
