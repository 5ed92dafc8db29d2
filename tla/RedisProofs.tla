---------------------------- MODULE RedisProofs -----------------------------
(***************************************************************************)
(* Proofs about what the API keeps in Redis: the rate limiter's counters   *)
(* and the cache of reference data.                                        *)
(***************************************************************************)
EXTENDS RateLimit, ReferenceCache, TLAPS

-----------------------------------------------------------------------------
(* The limiter.  LimitInv is inductive: the values of a window are unique  *)
(* among the hits that still decide, what was granted is within the        *)
(* budget, and a window without an expiry has its creator on the way to    *)
(* set one.                                                                *)

\* The parts of the invariant, each about one kind of thing.
HitOK(h) ==
  /\ hit[h].pc # "idle" => hit[h].key \in Counters
  /\ hit[h].pc \in {"expire", "ttl"} => hit[h].n > 0
  /\ hit[h].pc \in {"idle", "incr"} => hit[h].n = 0
  /\ hit[h].n > 0 /\ ~hit[h].over => hit[h].n <= count[hit[h].key]
  /\ hit[h].n > 0 /\ ~hit[h].over => hit[h].n \notin granted[hit[h].key]

Apart(g, h) ==
  g # h /\ hit[g].key = hit[h].key /\ hit[g].n > 0 /\ hit[g].n = hit[h].n =>
    hit[g].over \/ hit[h].over

LEMMA Parts ==
  HitsInv <=> /\ \A h \in Hitters : HitOK(h)
              /\ \A g, h \in Hitters : Apart(g, h)
  BY DEF HitsInv, HitOK, Apart

\* The hit that a scope list begins with has counted nothing yet.
LEMMA HitOnFacts ==
  ASSUME NEW s \in Seq(Counters)
  PROVE  /\ HitOn(s) \in Hits
         /\ HitOn(s).pc \in {"idle", "incr"}
         /\ HitOn(s).pc # "idle" => HitOn(s).key \in Counters
         /\ HitOn(s).n = 0
  <1>1. CASE s = <<>>
    BY <1>1 DEF HitOn, NoHit, Hits
  <1>2. CASE s # <<>>
    <2>1. Head(s) \in Counters /\ Tail(s) \in Seq(Counters)
      BY <1>2
    <2>2. HitOn(s) = [pc |-> "incr", key |-> Head(s), left |-> Tail(s), n |-> 0,
                      over |-> FALSE]
      BY <1>2 DEF HitOn, NoHit
    <2> QED BY <2>1, <2>2 DEF Hits
  <1> QED BY <1>1, <1>2

LEMMA NoHitFacts == NoHit \in Hits /\ NoHit.pc = "idle" /\ NoHit.n = 0
  BY DEF NoHit, Hits

THEOREM LimitStarts == LimitInit => LimitInv
<1> SUFFICES ASSUME LimitInit PROVE LimitInv
  OBVIOUS
<1>1. LimitTypeOK
  BY NoHitFacts DEF LimitInit, LimitTypeOK
<1>2. HitsInv
  BY NoHitFacts DEF LimitInit, HitsInv
<1>3. EveryWindowEnds /\ GrantedInv
  BY DEF LimitInit, EveryWindowEnds, GrantedInv
<1> QED BY <1>1, <1>2, <1>3 DEF LimitInv

-----------------------------------------------------------------------------
\* The hits after a step of request h that gives h a hit without a value: those
\* of the others are as good as they were, wherever counts have not fallen and
\* what was granted since is h's old value.
LEMMA FreshHit ==
  ASSUME LimitTypeOK, HitsInv,
         NEW h \in Hitters, NEW new \in Hits,
         new.n = 0,
         new.pc \in {"idle", "incr"},
         new.pc # "idle" => new.key \in Counters,
         hit' = [hit EXCEPT ![h] = new],
         \A k \in Counters : count'[k] \in Nat /\ count'[k] >= count[k],
         \A k \in Counters : \A n \in granted'[k] :
           n \in granted[k] \/ (k = hit[h].key /\ n = hit[h].n /\ n > 0 /\ ~hit[h].over)
  PROVE  hit' \in [Hitters -> Hits] /\ HitsInv'
<1>1. hit' \in [Hitters -> Hits]
  BY DEF LimitTypeOK
<1>2. hit'[h] = new /\ \A g \in Hitters \ {h} : hit'[g] = hit[g]
  BY DEF LimitTypeOK
<1>3. \A g \in Hitters : HitOK(g) /\ hit[g] \in Hits
  BY Parts DEF LimitTypeOK
<1>4. ASSUME NEW g \in Hitters PROVE HitOK(g)'
  <2>1. CASE g = h
    BY <2>1, <1>2 DEF HitOK, Hits
  <2>2. CASE g # h
    <3>1. hit'[g] = hit[g] /\ HitOK(g) /\ hit[g] \in Hits /\ Apart(g, h) /\ hit[h] \in Hits
      BY <2>2, <1>2, <1>3, Parts
    <3>2. hit[g].n > 0 => hit[g].key \in Counters
      BY <3>1 DEF HitOK, Hits
    <3>3. hit[g].n > 0 /\ ~hit[g].over => hit[g].n <= count'[hit[g].key]
      BY <3>1, <3>2 DEF HitOK, Hits, LimitTypeOK
    <3>4. hit[g].n > 0 /\ ~hit[g].over => hit[g].n \notin granted'[hit[g].key]
      BY <3>1, <3>2, <2>2 DEF HitOK, Apart, Hits
    <3> QED BY <3>1, <3>3, <3>4 DEF HitOK
  <2> QED BY <2>1, <2>2
<1>5. ASSUME NEW f \in Hitters, NEW g \in Hitters PROVE Apart(f, g)'
  <2>1. Apart(f, g)
    BY Parts
  <2> QED BY <2>1, <1>2, <1>3 DEF Apart, Hits
<1> QED BY <1>1, <1>4, <1>5, Parts DEF HitsInv, HitOK, Apart

\* A step of h that goes on with the value it has.
LEMMA SameHits ==
  ASSUME LimitTypeOK, HitsInv,
         NEW h \in Hitters, NEW pc \in {"expire", "ttl"},
         hit[h].n > 0, hit[h].pc \in {"expire", "ttl"},
         hit' = [hit EXCEPT ![h].pc = pc],
         UNCHANGED <<count, granted>>
  PROVE  hit' \in [Hitters -> Hits] /\ HitsInv'
<1>1. hit[h] \in Hits /\ hit' = [hit EXCEPT ![h] = [hit[h] EXCEPT !.pc = pc]]
  BY DEF LimitTypeOK
<1>2. hit' \in [Hitters -> Hits]
  BY <1>1 DEF LimitTypeOK, Hits
<1>3. \A g \in Hitters : /\ hit'[g].key = hit[g].key /\ hit'[g].n = hit[g].n
                         /\ hit'[g].over = hit[g].over
                         /\ g # h => hit'[g].pc = hit[g].pc
  BY <1>1 DEF LimitTypeOK, Hits
<1>4. hit'[h].pc = pc
  BY <1>1 DEF LimitTypeOK, Hits
<1>5. ASSUME NEW g \in Hitters PROVE HitOK(g)'
  <2>1. HitOK(g) /\ HitOK(h)
    BY Parts
  <2> QED BY <2>1, <1>3, <1>4 DEF HitOK
<1>6. ASSUME NEW f \in Hitters, NEW g \in Hitters PROVE Apart(f, g)'
  <2>1. Apart(f, g)
    BY Parts
  <2> QED BY <2>1, <1>3 DEF Apart
<1> QED BY <1>2, <1>5, <1>6, Parts DEF HitsInv, HitOK, Apart

-----------------------------------------------------------------------------
LEMMA ArriveKeeps ==
  ASSUME LimitInv, NEW h \in Hitters, Arrive(h) PROVE LimitInv'
<1> USE DEF LimitInv
<1>1. PICK s \in Scopes : hit' = [hit EXCEPT ![h] = HitOn(s)]
  BY DEF Arrive
<1>2. s \in Seq(Counters)
  BY ScopesAssumption
<1>3. UNCHANGED <<count, expires, granted, orphaned>> /\ hit[h].pc = "idle"
  BY DEF Arrive
<1>4. hit' \in [Hitters -> Hits] /\ HitsInv'
  <2>1. \A k \in Counters : count'[k] \in Nat /\ count'[k] >= count[k]
    BY <1>3 DEF LimitTypeOK
  <2>2. \A k \in Counters : granted'[k] = granted[k]
    BY <1>3
  <2> HIDE DEF LimitInv
  <2>3. LimitTypeOK /\ HitsInv
    BY DEF LimitInv
  <2> QED BY <1>1, <1>2, <2>1, <2>2, <2>3, HitOnFacts, FreshHit
<1>5. LimitTypeOK' /\ GrantedInv'
  BY <1>3, <1>4 DEF LimitTypeOK, GrantedInv
<1>6. EveryWindowEnds'
  <2>1. \A g \in Hitters \ {h} : hit'[g] = hit[g]
    BY <1>1 DEF LimitTypeOK
  <2> QED BY <2>1, <1>3 DEF EveryWindowEnds
<1> QED BY <1>4, <1>5, <1>6

LEMMA IncrKeeps ==
  ASSUME LimitInv, NEW h \in Hitters, Incr(h) PROVE LimitInv'
<1> USE DEF LimitInv
<1> DEFINE k == hit[h].key
           n == count[k] + 1
           pc == IF OwesExpiry(n) THEN "expire" ELSE "ttl"
           new == [hit[h] EXCEPT !.n = n, !.pc = pc]
<1>1. /\ hit[h] \in Hits /\ hit[h].pc = "incr" /\ k \in Counters
      /\ count[k] \in Nat /\ hit[h].n = 0
  BY Parts DEF Incr, HitOK, LimitTypeOK
<1>2. /\ count' = [count EXCEPT ![k] = n] /\ hit' = [hit EXCEPT ![h] = new]
      /\ UNCHANGED <<expires, granted, orphaned>>
  BY DEF Incr
<1>3. n \in Nat /\ n > 0 /\ n > count[k]
  BY <1>1
<1>p. pc \in {"expire", "ttl"}
  OBVIOUS
<1> HIDE DEF pc, n
<1>4. /\ new \in Hits /\ new.n = n /\ new.pc = pc /\ new.key = k
      /\ new.over = hit[h].over /\ pc \in {"expire", "ttl"}
  BY <1>1, <1>3, <1>p DEF Hits
<1> USE DEF n
<1> HIDE DEF new
<1>5. hit'[h] = new /\ \A g \in Hitters \ {h} : hit'[g] = hit[g]
  BY <1>2 DEF LimitTypeOK
<1>6. count'[k] = n /\ \A c \in Counters \ {k} : count'[c] = count[c]
  BY <1>2, <1>1 DEF LimitTypeOK
<1>7. LimitTypeOK'
  BY <1>2, <1>3, <1>4 DEF LimitTypeOK
<1>8. \A g \in Hitters : HitOK(g)'
  <2>1. SUFFICES ASSUME NEW g \in Hitters PROVE HitOK(g)'
    OBVIOUS
  <2>2. CASE g = h
    <3>1. n \notin granted[k]
      BY <1>1, <1>4 DEF GrantedInv
    <3> QED BY <2>2, <3>1, <1>1, <1>2, <1>3, <1>4, <1>5, <1>6 DEF HitOK
  <2>3. CASE g # h
    <3>1. HitOK(g) /\ hit[g] \in Hits /\ hit'[g] = hit[g]
      BY <2>3, <1>5, Parts DEF LimitTypeOK
    <3>2. hit[g].n > 0 => hit[g].key \in Counters
      BY <3>1 DEF HitOK, Hits
    <3>3. \A c \in Counters : /\ count[c] \in Nat /\ count'[c] \in Nat
                              /\ count'[c] >= count[c]
      BY <1>1, <1>3, <1>6 DEF LimitTypeOK
    <3>4. hit[g].n \in Nat
      BY <3>1 DEF Hits
    <3>5. hit[g].n > 0 /\ ~hit[g].over => hit[g].n <= count'[hit[g].key]
      BY <3>1, <3>2, <3>3, <3>4 DEF HitOK
    <3> QED BY <3>1, <3>5, <1>2 DEF HitOK
  <2> QED BY <2>2, <2>3
<1>9. \A f, g \in Hitters : Apart(f, g)'
  <2>1. ASSUME NEW g \in Hitters, g # h, hit[g].key = k, hit[g].n > 0, hit[g].n = n
        PROVE  hit[g].over
    <3>1. HitOK(g) /\ hit[g] \in Hits
      BY <2>1, Parts DEF LimitTypeOK
    <3> QED BY <2>1, <3>1, <1>1, <1>4 DEF HitOK, Hits
  <2>2. \A f, g \in Hitters : Apart(f, g) /\ hit[f] \in Hits /\ hit[g] \in Hits
    BY Parts DEF LimitTypeOK
  <2> QED BY <2>1, <2>2, <1>3, <1>4, <1>5 DEF Apart
<1>10. EveryWindowEnds'
  <2>1. SUFFICES ASSUME NEW c \in Counters, count'[c] > 0
                 PROVE  \/ c \in expires' \cup orphaned'
                        \/ \E g \in Hitters : hit'[g].key = c /\ hit'[g].pc = "expire"
    BY DEF EveryWindowEnds
  <2>2. CASE c = k /\ count[k] = 0
    BY <2>2, <1>1, <1>4, <1>5 DEF pc, OwesExpiry
  <2>3. CASE ~(c = k /\ count[k] = 0)
    <3>1. count[c] > 0
      BY <2>1, <2>3, <1>1, <1>6 DEF LimitTypeOK
    <3>2. \/ c \in expires \cup orphaned
          \/ \E g \in Hitters : hit[g].key = c /\ hit[g].pc = "expire"
      BY <3>1 DEF EveryWindowEnds
    <3> QED BY <3>2, <1>1, <1>2, <1>5
  <2> QED BY <2>2, <2>3
<1>11. GrantedInv'
  BY <1>1, <1>2, <1>4, <1>6 DEF GrantedInv, LimitTypeOK
<1>12. HitsInv'
  BY <1>8, <1>9 DEF HitsInv, HitOK, Apart
<1> QED BY <1>7, <1>10, <1>11, <1>12

LEMMA SetExpiryKeeps ==
  ASSUME LimitInv, NEW h \in Hitters, SetExpiry(h) PROVE LimitInv'
<1>0. LimitTypeOK /\ HitsInv /\ EveryWindowEnds /\ GrantedInv
  BY DEF LimitInv
<1>1. HitOK(h) /\ hit[h] \in Hits /\ hit[h].pc = "expire"
  BY <1>0, Parts DEF SetExpiry, LimitTypeOK
<1>2. hit[h].key \in Counters /\ hit[h].n > 0
  BY <1>1 DEF HitOK
<1>3. hit' = [hit EXCEPT ![h].pc = "ttl"] /\ UNCHANGED <<count, granted, orphaned>>
  BY DEF SetExpiry
<1>4. hit' \in [Hitters -> Hits] /\ HitsInv'
  BY <1>0, <1>1, <1>2, <1>3, SameHits
<1>5. expires \subseteq expires' /\ expires' \subseteq Counters
      /\ (count[hit[h].key] > 0 => hit[h].key \in expires')
  BY <1>0, <1>2 DEF SetExpiry, LimitTypeOK
<1>6. LimitTypeOK' /\ GrantedInv'
  BY <1>0, <1>3, <1>4, <1>5 DEF LimitTypeOK, GrantedInv
<1>7. EveryWindowEnds'
  <2>1. \A g \in Hitters \ {h} : hit'[g] = hit[g]
    BY <1>0, <1>3 DEF LimitTypeOK
  <2> QED BY <2>1, <1>0, <1>3, <1>5 DEF EveryWindowEnds
<1> QED BY <1>4, <1>6, <1>7 DEF LimitInv

LEMMA DecideKeeps ==
  ASSUME LimitInv, NEW h \in Hitters, Decide(h) PROVE LimitInv'
<1>0. LimitTypeOK /\ HitsInv /\ EveryWindowEnds /\ GrantedInv
  BY DEF LimitInv
<1> DEFINE k == hit[h].key
           n == hit[h].n
           new == IF InBudget(n) THEN HitOn(hit[h].left) ELSE NoHit
<1>1. HitOK(h) /\ hit[h] \in Hits /\ hit[h].pc = "ttl"
  BY <1>0, Parts DEF Decide, LimitTypeOK
<1>2. k \in Counters /\ n \in Nat /\ n > 0 /\ hit[h].left \in Seq(Counters)
  BY <1>1 DEF HitOK, Hits
<1>3. /\ hit' = [hit EXCEPT ![h] = new] /\ UNCHANGED <<count, expires, orphaned>>
      /\ granted' = IF InBudget(n) /\ ~hit[h].over
                    THEN [granted EXCEPT ![k] = @ \cup {n}] ELSE granted
  BY DEF Decide
<1>4. /\ new \in Hits /\ new.n = 0 /\ new.pc \in {"idle", "incr"}
      /\ new.pc # "idle" => new.key \in Counters
  BY <1>2, HitOnFacts, NoHitFacts
<1> HIDE DEF new
<1>5. \A c \in Counters : \A v \in granted'[c] :
        v \in granted[c] \/ (c = k /\ v = n /\ v > 0 /\ ~hit[h].over /\ InBudget(n))
  BY <1>0, <1>2, <1>3 DEF LimitTypeOK
<1>6. \A c \in Counters : count'[c] \in Nat /\ count'[c] >= count[c]
  BY <1>0, <1>3 DEF LimitTypeOK
<1>7. hit' \in [Hitters -> Hits] /\ HitsInv'
  BY <1>0, <1>3, <1>4, <1>5, <1>6, FreshHit
<1>8. LimitTypeOK'
  BY <1>0, <1>2, <1>3, <1>7 DEF LimitTypeOK
<1>9. GrantedInv'
  BY <1>0, <1>1, <1>2, <1>3, <1>5, BudgetAssumption DEF GrantedInv, InBudget, HitOK
<1>10. EveryWindowEnds'
  <2>1. \A g \in Hitters \ {h} : hit'[g] = hit[g]
    BY <1>0, <1>3 DEF LimitTypeOK
  <2> QED BY <2>1, <1>0, <1>1, <1>3 DEF EveryWindowEnds
<1> QED BY <1>7, <1>8, <1>9, <1>10 DEF LimitInv

\* The three ways in which a request stops deciding on a counter.
LEMMA StopsKeeps ==
  ASSUME LimitInv, NEW h \in Hitters, FailOpen(h) \/ Vanish(h) PROVE LimitInv'
<1>0. LimitTypeOK /\ HitsInv /\ EveryWindowEnds /\ GrantedInv
  BY DEF LimitInv
<1>1. HitOK(h) /\ hit[h] \in Hits /\ hit[h].pc # "idle"
  BY <1>0, Parts DEF FailOpen, Vanish, LimitTypeOK
<1>2. hit[h].key \in Counters /\ hit[h].left \in Seq(Counters)
  BY <1>1 DEF HitOK, Hits
<1>3. PICK new \in {HitOn(hit[h].left), NoHit} : hit' = [hit EXCEPT ![h] = new]
  BY DEF FailOpen, Vanish
<1>4. UNCHANGED <<count, expires, granted>> /\ orphaned' = orphaned \cup LosesExpiry(h)
  BY DEF FailOpen, Vanish
<1>5. /\ new \in Hits /\ new.n = 0 /\ new.pc \in {"idle", "incr"}
      /\ new.pc # "idle" => new.key \in Counters
  BY <1>2, <1>3, HitOnFacts, NoHitFacts
<1>6. \A c \in Counters : count'[c] \in Nat /\ count'[c] >= count[c]
  BY <1>0, <1>4 DEF LimitTypeOK
<1>7. \A c \in Counters : granted'[c] = granted[c]
  BY <1>4
<1>8. hit' \in [Hitters -> Hits] /\ HitsInv'
  BY <1>0, <1>3, <1>5, <1>6, <1>7, FreshHit
<1>9. LimitTypeOK' /\ GrantedInv'
  BY <1>0, <1>2, <1>4, <1>8 DEF LimitTypeOK, GrantedInv, LosesExpiry
<1>10. EveryWindowEnds'
  <2>1. \A g \in Hitters \ {h} : hit'[g] = hit[g]
    BY <1>0, <1>3 DEF LimitTypeOK
  <2> QED BY <2>1, <1>0, <1>4 DEF EveryWindowEnds, LosesExpiry
<1> QED BY <1>8, <1>9, <1>10 DEF LimitInv

LEMMA IncrUnansweredKeeps ==
  ASSUME LimitInv, NEW h \in Hitters, IncrUnanswered(h) PROVE LimitInv'
<1>0. LimitTypeOK /\ HitsInv /\ EveryWindowEnds /\ GrantedInv
  BY DEF LimitInv
<1> DEFINE k == hit[h].key
           new == HitOn(hit[h].left)
<1>1. HitOK(h) /\ hit[h] \in Hits /\ hit[h].pc = "incr"
  BY <1>0, Parts DEF IncrUnanswered, LimitTypeOK
<1>2. k \in Counters /\ count[k] \in Nat /\ hit[h].left \in Seq(Counters)
  BY <1>0, <1>1 DEF HitOK, Hits, LimitTypeOK
<1>3. /\ hit' = [hit EXCEPT ![h] = new] /\ UNCHANGED <<expires, granted>>
      /\ count' = [count EXCEPT ![k] = @ + 1]
      /\ orphaned' = IF count[k] = 0 THEN orphaned \cup {k} ELSE orphaned
  BY DEF IncrUnanswered
<1>4. /\ new \in Hits /\ new.n = 0 /\ new.pc \in {"idle", "incr"}
      /\ new.pc # "idle" => new.key \in Counters
  BY <1>2, HitOnFacts
<1> HIDE DEF new
<1>5. /\ count'[k] = count[k] + 1
      /\ \A c \in Counters : /\ count'[c] \in Nat /\ count'[c] >= count[c]
                             /\ c # k => count'[c] = count[c]
  BY <1>0, <1>2, <1>3 DEF LimitTypeOK
<1>6. \A c \in Counters : granted'[c] = granted[c]
  BY <1>3
<1>7. hit' \in [Hitters -> Hits] /\ HitsInv'
  BY <1>0, <1>3, <1>4, <1>5, <1>6, FreshHit
<1>8. LimitTypeOK'
  BY <1>0, <1>2, <1>3, <1>7 DEF LimitTypeOK
<1>9. GrantedInv'
  BY <1>0, <1>3, <1>5 DEF GrantedInv, LimitTypeOK
<1>10. EveryWindowEnds'
  <2>1. \A g \in Hitters \ {h} : hit'[g] = hit[g]
    BY <1>0, <1>3 DEF LimitTypeOK
  <2>2. SUFFICES ASSUME NEW c \in Counters, count'[c] > 0
                 PROVE  \/ c \in expires' \cup orphaned'
                        \/ \E g \in Hitters : hit'[g].key = c /\ hit'[g].pc = "expire"
    BY DEF EveryWindowEnds
  <2>3. CASE count[c] > 0
    BY <2>1, <2>3, <1>0, <1>1, <1>3 DEF EveryWindowEnds
  <2>4. CASE ~(count[c] > 0)
    <3>1. c = k /\ count[k] = 0
      BY <2>2, <2>4, <1>0, <1>2, <1>5 DEF LimitTypeOK
    <3> QED BY <3>1, <1>3
  <2> QED BY <2>3, <2>4
<1> QED BY <1>7, <1>8, <1>9, <1>10 DEF LimitInv

LEMMA WindowEndsKeeps ==
  ASSUME LimitInv, NEW k \in Counters, WindowEnds(k) PROVE LimitInv'
<1>0. LimitTypeOK /\ HitsInv /\ EveryWindowEnds /\ GrantedInv
  BY DEF LimitInv
<1>1. /\ count' = [count EXCEPT ![k] = 0] /\ expires' = expires \ {k}
      /\ granted' = [granted EXCEPT ![k] = {}] /\ UNCHANGED orphaned
      /\ hit' = [h \in Hitters |-> IF hit[h].key = k /\ hit[h].n > 0
                                   THEN [hit[h] EXCEPT !.over = TRUE] ELSE hit[h]]
  BY DEF WindowEnds
<1>2. \A h \in Hitters : hit[h] \in Hits /\ HitOK(h)
  BY <1>0, Parts DEF LimitTypeOK
<1>3. ASSUME NEW h \in Hitters
      PROVE  /\ hit'[h] \in Hits
             /\ hit'[h].pc = hit[h].pc /\ hit'[h].key = hit[h].key /\ hit'[h].n = hit[h].n
             /\ hit[h].over => hit'[h].over
             /\ hit[h].key = k /\ hit[h].n > 0 => hit'[h].over
  <2>1. hit[h] \in Hits /\ [hit[h] EXCEPT !.over = TRUE] \in Hits
    BY <1>2 DEF Hits
  <2> QED BY <2>1, <1>1 DEF Hits
<1>4. /\ count'[k] = 0 /\ granted'[k] = {}
      /\ \A c \in Counters \ {k} : count'[c] = count[c] /\ granted'[c] = granted[c]
  BY <1>0, <1>1 DEF LimitTypeOK
<1>5. LimitTypeOK'
  <2>1. hit' \in [Hitters -> Hits]
    BY <1>1, <1>3
  <2> QED BY <2>1, <1>0, <1>1 DEF LimitTypeOK
<1>6. ASSUME NEW h \in Hitters PROVE HitOK(h)'
  <2>1. hit[h] \in Hits /\ HitOK(h)
    BY <1>2
  <2>2. hit[h].n > 0 => hit[h].key \in Counters
    BY <2>1 DEF HitOK, Hits
  <2>3. CASE hit[h].key = k /\ hit[h].n > 0
    BY <2>1, <2>3, <1>3 DEF HitOK
  <2>4. CASE hit[h].key # k \/ ~(hit[h].n > 0)
    BY <2>1, <2>2, <2>4, <1>3, <1>4 DEF HitOK
  <2> QED BY <2>3, <2>4
<1>7. ASSUME NEW g \in Hitters, NEW h \in Hitters PROVE Apart(g, h)'
  <2>1. Apart(g, h)
    BY <1>0, Parts
  <2> QED BY <2>1, <1>3 DEF Apart
<1>8. HitsInv'
  BY <1>6, <1>7 DEF HitsInv, HitOK, Apart
<1>9. EveryWindowEnds'
  <2>1. \A h \in Hitters : hit'[h].pc = hit[h].pc /\ hit'[h].key = hit[h].key
    BY <1>3
  <2> QED BY <2>1, <1>0, <1>1, <1>4 DEF EveryWindowEnds
<1>10. GrantedInv'
  BY <1>0, <1>4 DEF GrantedInv
<1> QED BY <1>5, <1>8, <1>9, <1>10 DEF LimitInv

THEOREM LimitStep == LimitInv /\ [LimitNext]_limitVars => LimitInv'
<1> SUFFICES ASSUME LimitInv, [LimitNext]_limitVars PROVE LimitInv'
  OBVIOUS
<1>1. ASSUME NEW h \in Hitters,
             \/ Arrive(h) \/ Incr(h) \/ SetExpiry(h) \/ Decide(h)
             \/ FailOpen(h) \/ IncrUnanswered(h) \/ Vanish(h)
      PROVE  LimitInv'
  BY <1>1, ArriveKeeps, IncrKeeps, SetExpiryKeeps, DecideKeeps, StopsKeeps,
     IncrUnansweredKeeps
<1>2. ASSUME NEW k \in Counters, WindowEnds(k) PROVE LimitInv'
  BY <1>2, WindowEndsKeeps
<1>3. CASE UNCHANGED limitVars
  BY <1>3 DEF limitVars, LimitInv, LimitTypeOK, HitsInv, EveryWindowEnds, GrantedInv
<1> QED BY <1>1, <1>2, <1>3 DEF LimitNext

\* Every state of the limiter has its invariant (rate_limit.py 39-72).
THEOREM LimiterIsSound == LimitSpec => []LimitInv
  BY LimitStarts, LimitStep, PTL DEF LimitSpec

\* No interleaving of first hits leaves a window without an end but by a failure
\* of the hit that created it (rate_limit.py:54-55).
THEOREM WindowsEnd == LimitSpec => []EveryWindowEnds
<1>1. LimitInv => EveryWindowEnds
  BY DEF LimitInv
<1> QED BY <1>1, LimiterIsSound, PTL

\* A counter lets no more than its budget through in one window
\* (rate_limit.py:62-67).
THEOREM BudgetIsKept == LimitSpec => []BudgetHolds
<1>1. LimitInv => BudgetHolds
  BY DEF LimitInv, HitsInv, GrantedInv, BudgetHolds
<1> QED BY <1>1, LimiterIsSound, PTL

-----------------------------------------------------------------------------
(* The cache.  For any number of reads and processes, CacheInv is          *)
(* inductive, and it implies one load per cold key and process, and that   *)
(* no process puts back rows older than its last.                          *)

Steps == {"idle", "get", "lock", "look", "load", "store", "direct"}
Slots == [pc : Steps, rows : Versions]

LEMMA Spaces ==
  /\ 0 \in Versions /\ Versions \subseteq Nat
  /\ Empty \notin Versions /\ Garbled \notin Versions /\ Empty \notin Reads
BY CacheAssumption DEF Versions

\* The steps of a read outside the lock: it is not at work, and does not become it.
LEMMA OutsideKeeps ==
  ASSUME CacheInv, NEW r \in Reads, NEW s \in Slots,
         read[r].pc \notin {"look", "load", "store"},
         s.pc \notin {"look", "load", "store"},
         read' = [read EXCEPT ![r] = s],
         UNCHANGED <<rows, entry, mutex, loads, newest>>
  PROVE  CacheInv'
<1>1. CacheTypeOK /\ MutexInv /\ OneLoadPerColdKey /\ ColdInv /\ NobodyLoadsTwice
      /\ ForwardInv
  BY DEF CacheInv
<1>2. read'[r] = s /\ \A q \in Reads \ {r} : read'[q] = read[q]
  BY <1>1 DEF CacheTypeOK
<1>3. CacheTypeOK'
  BY <1>1 DEF CacheTypeOK, Slots, Steps
<1>4. MutexInv' /\ NobodyLoadsTwice' /\ ForwardInv'
  BY <1>1, <1>2 DEF MutexInv, NobodyLoadsTwice, ForwardInv
<1>5. ColdInv'
  <2>1. \A q \in Reads : read[q].pc = "store" => read'[q].pc = "store"
    BY <1>2
  <2> QED BY <2>1, <1>1 DEF ColdInv
<1>6. OneLoadPerColdKey'
  BY <1>1 DEF OneLoadPerColdKey
<1> QED BY <1>3, <1>4, <1>5, <1>6 DEF CacheInv

\* Moving to another step, and ending, give slots of the type.
LEMMA SlotMoves ==
  ASSUME CacheTypeOK, NEW r \in Reads, NEW pc \in Steps
  PROVE  \E s \in Slots : /\ s.pc = pc /\ s.rows = read[r].rows
                          /\ Moves(r, pc) => read' = [read EXCEPT ![r] = s]
<1>1. read[r] \in Slots
  BY DEF CacheTypeOK, Slots, Steps
<1>2. [read[r] EXCEPT !.pc = pc] \in Slots
  BY <1>1 DEF Slots
<1>3. /\ [read[r] EXCEPT !.pc = pc].pc = pc
      /\ [read[r] EXCEPT !.pc = pc].rows = read[r].rows
  BY <1>1 DEF Slots
<1>4. Moves(r, pc) => read' = [read EXCEPT ![r] = [read[r] EXCEPT !.pc = pc]]
  BY DEF Moves
<1> QED BY <1>2, <1>3, <1>4

LEMMA SlotEnds ==
  ASSUME NEW r \in Reads
  PROVE  \E s \in Slots : /\ s.pc = "idle"
                          /\ Ends(r) => read' = [read EXCEPT ![r] = s]
<1>1. Resting \in Slots /\ Resting.pc = "idle"
  BY Spaces DEF Resting, Slots, Steps
<1> QED BY <1>1 DEF Ends

\* One read in a process holds the lock, and only it is at work there.
LEMMA OneAtWork ==
  ASSUME MutexInv, NEW p \in Reads, NEW q \in Reads, ServerOf[p] = ServerOf[q],
         read[p].pc \in {"look", "load", "store"},
         read[q].pc \in {"look", "load", "store"}
  PROVE  p = q
BY DEF MutexInv

LEMMA InitHolds ==
  ASSUME CacheInit PROVE CacheInv
<1>1. \A r \in Reads : read[r].pc = "idle" /\ ServerOf[r] \in Servers
  BY ServerAssumption DEF CacheInit, Resting
<1>2. CacheTypeOK
  BY Spaces DEF CacheInit, CacheTypeOK, Resting
<1>3. MutexInv
  BY <1>1, Spaces DEF CacheInit, MutexInv
<1>4. OneLoadPerColdKey /\ ColdInv
  BY DEF CacheInit, OneLoadPerColdKey, ColdInv
<1>5. NobodyLoadsTwice /\ ForwardInv
  BY <1>1 DEF CacheInit, NobodyLoadsTwice, ForwardInv
<1> QED BY <1>2, <1>3, <1>4, <1>5 DEF CacheInv

LEMMA AskKeeps ==
  ASSUME CacheInv, NEW r \in Reads, Ask(r) PROVE CacheInv'
BY OutsideKeeps, SlotMoves DEF Ask, CacheInv, Steps

LEMMA GetKeeps ==
  ASSUME CacheInv, NEW r \in Reads, Get(r) PROVE CacheInv'
<1>1. CASE Decodable
  BY <1>1, OutsideKeeps, SlotEnds DEF Get
<1>2. CASE ~Decodable
  BY <1>2, OutsideKeeps, SlotMoves DEF Get, CacheInv, Steps
<1> QED BY <1>1, <1>2

LEMMA GetFailsKeeps ==
  ASSUME CacheInv, NEW r \in Reads, GetFails(r) PROVE CacheInv'
BY OutsideKeeps, SlotMoves DEF GetFails, CacheInv, Steps

LEMMA LoadDirectlyKeeps ==
  ASSUME CacheInv, NEW r \in Reads, LoadDirectly(r) PROVE CacheInv'
BY OutsideKeeps, SlotEnds DEF LoadDirectly

LEMMA LockKeeps ==
  ASSUME CacheInv, NEW r \in Reads, Lock(r) PROVE CacheInv'
<1>1. CacheTypeOK /\ MutexInv /\ OneLoadPerColdKey /\ ColdInv /\ NobodyLoadsTwice
      /\ ForwardInv
  BY DEF CacheInv
<1>2. PICK s \in Slots : s.pc = "look" /\ read' = [read EXCEPT ![r] = s]
  BY <1>1, SlotMoves DEF Lock, Steps
<1>3. read'[r] = s /\ \A q \in Reads \ {r} : read'[q] = read[q]
  BY <1>1, <1>2 DEF CacheTypeOK
<1>4. /\ mutex[ServerOf[r]] = Empty /\ ServerOf[r] \in Servers
      /\ mutex' = [mutex EXCEPT ![ServerOf[r]] = r]
      /\ UNCHANGED <<rows, entry, loads, newest>> /\ read[r].pc = "lock"
  BY ServerAssumption DEF Lock, Free
<1>5. /\ mutex'[ServerOf[r]] = r
      /\ \A x \in Servers \ {ServerOf[r]} : mutex'[x] = mutex[x]
  BY <1>1, <1>4 DEF CacheTypeOK
<1>6. CacheTypeOK'
  BY <1>1, <1>2, <1>4 DEF CacheTypeOK, Slots, Steps
<1>7. MutexInv'
  <2>1. SUFFICES ASSUME NEW q \in Reads
                 PROVE  read'[q].pc \in {"look", "load", "store"}
                          <=> mutex'[ServerOf[q]] = q
    BY DEF MutexInv
  <2>2. CASE q = r
    BY <2>2, <1>2, <1>3, <1>5
  <2>3. CASE q # r
    BY <2>3, <1>1, <1>3, <1>4, <1>5, Spaces, ServerAssumption DEF MutexInv
  <2> QED BY <2>2, <2>3
<1>8. ColdInv'
  <2>1. SUFFICES ASSUME NEW x \in Servers, loads[x] = 1
                 PROVE  \/ entry \in Versions
                        \/ \E q \in Reads : /\ mutex'[x] = q /\ ServerOf[q] = x
                                            /\ read'[q].pc = "store"
    BY <1>4 DEF ColdInv
  <2>2. \/ entry \in Versions
        \/ \E q \in Reads : mutex[x] = q /\ ServerOf[q] = x /\ read[q].pc = "store"
    BY <2>1, <1>1 DEF ColdInv
  <2>3. ASSUME NEW q \in Reads, mutex[x] = q, ServerOf[q] = x, read[q].pc = "store"
        PROVE  mutex'[x] = q /\ read'[q].pc = "store"
    BY <2>3, <1>3, <1>4, <1>5, Spaces
  <2> QED BY <2>2, <2>3
<1>9. NobodyLoadsTwice' /\ ForwardInv' /\ OneLoadPerColdKey'
  BY <1>1, <1>2, <1>3, <1>4 DEF NobodyLoadsTwice, ForwardInv, OneLoadPerColdKey
<1> QED BY <1>6, <1>7, <1>8, <1>9 DEF CacheInv

\* A read at work leaves the lock of its process, having loaded nothing that is
\* still to be counted.
LEMMA LeavingKeeps ==
  ASSUME CacheInv, NEW r \in Reads, read[r].pc \in {"look", "load", "store"},
         Ends(r), Leaves(r), UNCHANGED rows,
         entry' = entry \/ entry' \in Versions,
         loads' \in [Servers -> Nat], newest' \in [Servers -> Versions],
         \A s \in Servers : /\ loads'[s] = loads[s] \/ loads'[s] = 0
                            /\ newest'[s] <= rows,
         \A s \in Servers \ {ServerOf[r]} : newest'[s] = newest[s],
         entry' \in Versions \/ loads'[ServerOf[r]] = 0
  PROVE  CacheInv'
<1>1. CacheTypeOK /\ MutexInv /\ OneLoadPerColdKey /\ ColdInv /\ NobodyLoadsTwice
      /\ ForwardInv
  BY DEF CacheInv
<1>2. PICK s \in Slots : s.pc = "idle" /\ read' = [read EXCEPT ![r] = s]
  BY SlotEnds
<1>3. read'[r] = s /\ \A q \in Reads \ {r} : read'[q] = read[q]
  BY <1>1, <1>2 DEF CacheTypeOK
<1>4. ServerOf[r] \in Servers /\ mutex[ServerOf[r]] = r
  BY <1>1, ServerAssumption DEF MutexInv
<1>5. /\ mutex'[ServerOf[r]] = Empty
      /\ \A x \in Servers \ {ServerOf[r]} : mutex'[x] = mutex[x]
  BY <1>1, <1>4 DEF CacheTypeOK, Leaves
<1>6. CacheTypeOK'
  <2>1. read' \in [Reads -> Slots]
    BY <1>1, <1>2 DEF CacheTypeOK, Slots, Steps
  <2>2. mutex' \in [Servers -> Reads \cup {Empty}]
    BY <1>1 DEF CacheTypeOK, Leaves
  <2> QED BY <1>1, <2>1, <2>2 DEF CacheTypeOK, Slots, Steps
<1>7. MutexInv'
  <2>1. SUFFICES ASSUME NEW q \in Reads
                 PROVE  read'[q].pc \in {"look", "load", "store"}
                          <=> mutex'[ServerOf[q]] = q
    BY DEF MutexInv
  <2>2. CASE q = r
    BY <2>2, <1>2, <1>3, <1>5, Spaces
  <2>3. CASE q # r /\ ServerOf[q] = ServerOf[r]
    BY <2>3, <1>1, <1>3, <1>4, <1>5, Spaces DEF MutexInv
  <2>4. CASE q # r /\ ServerOf[q] # ServerOf[r]
    BY <2>4, <1>1, <1>3, <1>5, ServerAssumption DEF MutexInv
  <2> QED BY <2>2, <2>3, <2>4
<1>8. ColdInv'
  <2>1. SUFFICES ASSUME NEW x \in Servers, loads'[x] = 1, entry' \notin Versions
                 PROVE  \E q \in Reads : /\ mutex'[x] = q /\ ServerOf[q] = x
                                         /\ read'[q].pc = "store"
    BY DEF ColdInv
  <2>2. x # ServerOf[r] /\ loads[x] = 1 /\ entry \notin Versions
    BY <2>1, <1>4
  <2>3. PICK q \in Reads : mutex[x] = q /\ ServerOf[q] = x /\ read[q].pc = "store"
    BY <2>2, <1>1 DEF ColdInv
  <2>4. mutex'[x] = q /\ read'[q] = read[q]
    BY <2>2, <2>3, <1>3, <1>5
  <2> QED BY <2>3, <2>4
<1>9. NobodyLoadsTwice'
  <2>1. \A q \in Reads : read'[q].pc = "load" => loads[ServerOf[q]] = 0
    BY <1>1, <1>2, <1>3 DEF NobodyLoadsTwice
  <2> QED BY <2>1, ServerAssumption DEF NobodyLoadsTwice
<1>10. OneLoadPerColdKey'
  BY <1>1 DEF OneLoadPerColdKey
<1>11. ForwardInv'
  <2>1. SUFFICES ASSUME NEW q \in Reads, read'[q].pc = "store"
                 PROVE  /\ newest'[ServerOf[q]] <= read'[q].rows
                        /\ read'[q].rows <= rows
    BY DEF ForwardInv
  <2>2. q # r /\ read'[q] = read[q]
    BY <2>1, <1>2, <1>3
  <2>3. ServerOf[q] # ServerOf[r] /\ ServerOf[q] \in Servers
    BY <2>1, <2>2, <1>1, OneAtWork, ServerAssumption
  <2> QED BY <2>1, <2>2, <2>3, <1>1 DEF ForwardInv
<1> QED BY <1>6, <1>7, <1>8, <1>9, <1>10, <1>11 DEF CacheInv

\* What the key's reader does under the lock, short of leaving it: only its own
\* slot moves on.
LEMMA WorkingKeeps ==
  ASSUME CacheInv, NEW r \in Reads, NEW s \in Slots,
         read[r].pc \in {"look", "load"}, s.pc \in {"load", "store"},
         read' = [read EXCEPT ![r] = s],
         UNCHANGED <<rows, entry, mutex, newest>>,
         loads' \in [Servers -> Nat],
         \A x \in Servers \ {ServerOf[r]} : loads'[x] = loads[x],
         s.pc = "load" => loads'[ServerOf[r]] = 0,
         s.pc = "store" => loads'[ServerOf[r]] = 1 /\ s.rows = rows
  PROVE  CacheInv'
<1>1. CacheTypeOK /\ MutexInv /\ OneLoadPerColdKey /\ ColdInv /\ NobodyLoadsTwice
      /\ ForwardInv
  BY DEF CacheInv
<1>2. read'[r] = s /\ \A q \in Reads \ {r} : read'[q] = read[q]
  BY <1>1 DEF CacheTypeOK
<1>3. ServerOf[r] \in Servers /\ mutex[ServerOf[r]] = r
  BY <1>1, ServerAssumption DEF MutexInv
<1>4. CacheTypeOK'
  BY <1>1 DEF CacheTypeOK, Slots, Steps
<1>5. MutexInv'
  BY <1>1, <1>2 DEF MutexInv
<1>6. OneLoadPerColdKey'
  BY <1>1, <1>3 DEF OneLoadPerColdKey
<1>7. ColdInv'
  <2>1. SUFFICES ASSUME NEW x \in Servers, loads'[x] = 1, entry \notin Versions
                 PROVE  \E q \in Reads : /\ mutex[x] = q /\ ServerOf[q] = x
                                         /\ read'[q].pc = "store"
    BY DEF ColdInv
  <2>2. CASE x = ServerOf[r]
    BY <2>1, <2>2, <1>2, <1>3
  <2>3. CASE x # ServerOf[r]
    BY <2>1, <2>3, <1>1, <1>2 DEF ColdInv
  <2> QED BY <2>2, <2>3
<1>8. NobodyLoadsTwice'
  <2>1. SUFFICES ASSUME NEW q \in Reads, read'[q].pc = "load"
                 PROVE  loads'[ServerOf[q]] = 0
    BY DEF NobodyLoadsTwice
  <2>2. CASE q = r
    BY <2>1, <2>2, <1>2
  <2>3. CASE q # r
    <3>1. read'[q] = read[q] /\ read[q].pc = "load"
      BY <2>1, <2>3, <1>2
    <3>2. ServerOf[q] # ServerOf[r] /\ ServerOf[q] \in Servers
      BY <2>3, <3>1, <1>1, OneAtWork, ServerAssumption
    <3> QED BY <3>1, <3>2, <1>1 DEF NobodyLoadsTwice
  <2> QED BY <2>2, <2>3
<1>9. ForwardInv'
  BY <1>1, <1>2, <1>3, Spaces DEF ForwardInv, CacheTypeOK
<1> QED BY <1>4, <1>5, <1>6, <1>7, <1>8, <1>9 DEF CacheInv

\* A read that still has to load finds no load of its process since the key
\* went cold.
LEMMA NothingLoaded ==
  ASSUME CacheInv, NEW r \in Reads, read[r].pc = "look", entry \notin Versions
  PROVE  loads[ServerOf[r]] = 0
<1>1. ServerOf[r] \in Servers /\ mutex[ServerOf[r]] = r
  BY ServerAssumption DEF CacheInv, MutexInv
<1>2. loads[ServerOf[r]] # 1
  BY <1>1 DEF CacheInv, ColdInv
<1>3. loads[ServerOf[r]] \in Nat /\ loads[ServerOf[r]] <= 1
  BY <1>1 DEF CacheInv, CacheTypeOK, OneLoadPerColdKey
<1> QED BY <1>2, <1>3

LEMMA LookKeeps ==
  ASSUME CacheInv, NEW r \in Reads, Look(r) PROVE CacheInv'
<1>1. CacheTypeOK /\ ForwardInv
  BY DEF CacheInv
<1>2. read[r].pc = "look" /\ UNCHANGED <<rows, entry, loads, newest>>
  BY DEF Look
<1>3. CASE Decodable
  <2>1. Ends(r) /\ Leaves(r) /\ entry \in Versions
    BY <1>3 DEF Look, FoundMeanwhile, Decodable
  <2> QED BY <2>1, <1>1, <1>2, LeavingKeeps DEF CacheTypeOK, ForwardInv
<1>4. CASE ~Decodable
  <2>1. Moves(r, "load") /\ UNCHANGED mutex /\ entry \notin Versions
    BY <1>4 DEF Look, FoundMeanwhile, Decodable
  <2>2. PICK s \in Slots : s.pc = "load" /\ read' = [read EXCEPT ![r] = s]
    BY <2>1, <1>1, SlotMoves DEF Steps
  <2>3. loads[ServerOf[r]] = 0
    BY <1>2, <2>1, NothingLoaded
  <2> QED BY <2>1, <2>2, <2>3, <1>1, <1>2, WorkingKeeps DEF CacheTypeOK
<1> QED BY <1>3, <1>4

LEMMA LookFailsKeeps ==
  ASSUME CacheInv, NEW r \in Reads, LookFails(r) PROVE CacheInv'
<1>1. CacheTypeOK
  BY DEF CacheInv
<1>2. /\ read[r].pc = "look" /\ UNCHANGED <<rows, entry, mutex, newest>>
      /\ loads' = [loads EXCEPT ![ServerOf[r]] = 0]
  BY DEF LookFails, Excuse
<1>3. PICK s \in Slots : s.pc = "load" /\ read' = [read EXCEPT ![r] = s]
  BY <1>1, SlotMoves DEF LookFails, Steps
<1>4. /\ loads' \in [Servers -> Nat] /\ loads'[ServerOf[r]] = 0
      /\ \A x \in Servers \ {ServerOf[r]} : loads'[x] = loads[x]
  BY <1>1, <1>2, ServerAssumption DEF CacheTypeOK
<1> QED BY <1>2, <1>3, <1>4, WorkingKeeps

LEMMA LoadKeeps ==
  ASSUME CacheInv, NEW r \in Reads, Load(r) PROVE CacheInv'
<1> DEFINE s == [pc |-> "store", rows |-> rows]
<1>1. CacheTypeOK /\ NobodyLoadsTwice /\ ServerOf[r] \in Servers
  BY ServerAssumption DEF CacheInv
<1>2. /\ read[r].pc = "load" /\ UNCHANGED <<rows, entry, mutex, newest>>
      /\ loads' = [loads EXCEPT ![ServerOf[r]] = loads[ServerOf[r]] + 1]
      /\ read' = [read EXCEPT ![r] = s]
  BY DEF Load
<1>3. s \in Slots /\ s.pc = "store" /\ s.rows = rows
  BY <1>1 DEF CacheTypeOK, Slots, Steps
<1>4. loads[ServerOf[r]] = 0
  BY <1>1, <1>2 DEF NobodyLoadsTwice
<1>5. /\ loads' \in [Servers -> Nat] /\ loads'[ServerOf[r]] = 1
      /\ \A x \in Servers \ {ServerOf[r]} : loads'[x] = loads[x]
  BY <1>1, <1>2, <1>4 DEF CacheTypeOK
<1> HIDE DEF s
<1> QED BY <1>2, <1>3, <1>5, WorkingKeeps

LEMMA LoadFailsKeeps ==
  ASSUME CacheInv, NEW r \in Reads, LoadFails(r) PROVE CacheInv'
<1>1. CacheTypeOK /\ ForwardInv /\ NobodyLoadsTwice
  BY DEF CacheInv
<1>2. Ends(r) /\ UNCHANGED <<rows, entry, loads, newest>>
  BY DEF LoadFails
<1>3. CASE read[r].pc = "load"
  <2>1. Leaves(r) /\ loads[ServerOf[r]] = 0
    BY <1>1, <1>3 DEF LoadFails, NobodyLoadsTwice
  <2> QED BY <2>1, <1>1, <1>2, <1>3, LeavingKeeps DEF CacheTypeOK, ForwardInv
<1>4. CASE read[r].pc = "direct"
  <2>1. UNCHANGED mutex
    BY <1>4 DEF LoadFails
  <2> QED BY <2>1, <1>2, <1>4, OutsideKeeps, SlotEnds
<1> QED BY <1>3, <1>4 DEF LoadFails

\* The store puts back nothing older than what its process has stored.
LEMMA StoreMovesForward ==
  ASSUME CacheInv, NEW r \in Reads, Store(r)
  PROVE  /\ newest' \in [Servers -> Versions]
         /\ \A s \in Servers \ {ServerOf[r]} : newest'[s] = newest[s]
         /\ \A s \in Servers : newest'[s] >= newest[s] /\ newest'[s] <= rows
<1>1. CacheTypeOK /\ ForwardInv /\ ServerOf[r] \in Servers
  BY ServerAssumption DEF CacheInv
<1>2. /\ read[r].pc = "store"
      /\ newest' = [newest EXCEPT ![ServerOf[r]] = read[r].rows]
  BY DEF Store
<1>3. /\ newest[ServerOf[r]] <= read[r].rows /\ read[r].rows <= rows
      /\ read[r].rows \in Versions
  BY <1>1, <1>2 DEF ForwardInv, CacheTypeOK
<1>4. /\ newest' \in [Servers -> Versions] /\ newest'[ServerOf[r]] = read[r].rows
      /\ \A s \in Servers \ {ServerOf[r]} : newest'[s] = newest[s]
  BY <1>1, <1>2, <1>3 DEF CacheTypeOK
<1>5. \A s \in Servers : newest[s] \in Nat /\ newest[s] <= rows
  BY <1>1, Spaces DEF CacheTypeOK, ForwardInv
<1> QED BY <1>3, <1>4, <1>5

LEMMA StoreKeeps ==
  ASSUME CacheInv, NEW r \in Reads, Store(r) PROVE CacheInv'
<1>1. CacheTypeOK
  BY DEF CacheInv
<1>2. /\ read[r].pc = "store" /\ Ends(r) /\ Leaves(r) /\ UNCHANGED <<rows, loads>>
      /\ entry' \in Versions
  BY <1>1 DEF Store, CacheTypeOK
<1> QED BY <1>1, <1>2, StoreMovesForward, LeavingKeeps DEF CacheTypeOK

LEMMA StoreFailsKeeps ==
  ASSUME CacheInv, NEW r \in Reads, StoreFails(r) PROVE CacheInv'
<1>1. CacheTypeOK /\ ForwardInv /\ ServerOf[r] \in Servers
  BY ServerAssumption DEF CacheInv
<1>2. /\ read[r].pc = "store" /\ Ends(r) /\ Leaves(r)
      /\ UNCHANGED <<rows, entry, newest>>
      /\ loads' = [loads EXCEPT ![ServerOf[r]] = 0]
  BY DEF StoreFails, Excuse
<1>3. /\ loads' \in [Servers -> Nat] /\ loads'[ServerOf[r]] = 0
      /\ \A x \in Servers : loads'[x] = loads[x] \/ loads'[x] = 0
  BY <1>1, <1>2 DEF CacheTypeOK
<1> QED BY <1>1, <1>2, <1>3, LeavingKeeps DEF CacheTypeOK, ForwardInv

LEMMA ExpireKeeps ==
  ASSUME CacheInv, Expire PROVE CacheInv'
<1>1. CacheTypeOK /\ MutexInv /\ ForwardInv
  BY DEF CacheInv
<1>2. /\ entry' = Empty /\ loads' = [s \in Servers |-> 0]
      /\ UNCHANGED <<rows, mutex, read, newest>>
  BY DEF Expire
<1>3. CacheTypeOK' /\ MutexInv' /\ ForwardInv'
  BY <1>1, <1>2 DEF CacheTypeOK, MutexInv, ForwardInv
<1>4. OneLoadPerColdKey' /\ ColdInv' /\ NobodyLoadsTwice'
  BY <1>2, ServerAssumption DEF OneLoadPerColdKey, ColdInv, NobodyLoadsTwice
<1> QED BY <1>3, <1>4 DEF CacheInv

LEMMA ChangeKeeps ==
  ASSUME CacheInv, Change PROVE CacheInv'
<1>1. CacheTypeOK /\ ForwardInv /\ rows \in Nat
  BY Spaces DEF CacheInv, CacheTypeOK
<1>2. rows' = rows + 1 /\ rows' \in Versions
      /\ UNCHANGED <<entry, mutex, read, loads, newest>>
  BY <1>1, CacheAssumption DEF Change, Versions
<1>3. CacheTypeOK'
  BY <1>1, <1>2 DEF CacheTypeOK
<1>4. ForwardInv'
  <2>1. \A s \in Servers : newest[s] \in Nat
    BY <1>1, Spaces DEF CacheTypeOK
  <2>2. \A r \in Reads : read[r].rows \in Nat
    BY <1>1, Spaces DEF CacheTypeOK
  <2> QED BY <2>1, <2>2, <1>1, <1>2 DEF ForwardInv
<1>5. MutexInv' /\ OneLoadPerColdKey' /\ ColdInv' /\ NobodyLoadsTwice'
  BY <1>2 DEF CacheInv, MutexInv, OneLoadPerColdKey, ColdInv, NobodyLoadsTwice
<1> QED BY <1>3, <1>4, <1>5 DEF CacheInv

LEMMA NextKeeps ==
  ASSUME CacheInv, [CacheNext]_cacheVars PROVE CacheInv'
<1>1. CASE UNCHANGED cacheVars
  BY <1>1 DEF cacheVars, CacheInv, CacheTypeOK, MutexInv, OneLoadPerColdKey, ColdInv,
     NobodyLoadsTwice, ForwardInv
<1>2. CASE CacheNext
  BY <1>2, AskKeeps, GetKeeps, GetFailsKeeps, LoadDirectlyKeeps, LockKeeps, LookKeeps,
     LookFailsKeeps, LoadKeeps, LoadFailsKeeps, StoreKeeps, StoreFailsKeeps,
     ExpireKeeps, ChangeKeeps DEF CacheNext
<1> QED BY <1>1, <1>2

-----------------------------------------------------------------------------
\* The cache's inductive invariant (clients/cache.py:39-82): who holds the lock,
\* what it has loaded, and how the rows it holds relate to those stored.
THEOREM CacheIsSound == CacheSpec => []CacheInv
<1>1. CacheInit => CacheInv
  BY InitHolds
<1>2. CacheInv /\ [CacheNext]_cacheVars => CacheInv'
  BY NextKeeps
<1> QED BY <1>1, <1>2, PTL DEF CacheSpec

\* However many readers meet a cold key, a process loads it once
\* (clients/cache.py:64-79).
THEOREM OneReaderLoads == CacheSpec => []OneLoadPerColdKey
<1>1. CacheInv => OneLoadPerColdKey
  BY DEF CacheInv
<1> QED BY <1>1, CacheIsSound, PTL

\* No step of a process replaces the rows it has stored by older ones
\* (clients/cache.py:77-79).
THEOREM StoresNeverGoBack == CacheSpec => StoresMoveForward
<1>1. CacheInv /\ [CacheNext]_cacheVars
        => [\A s \in Servers : newest'[s] >= newest[s]]_newest
  <2>1. SUFFICES ASSUME CacheInv, CacheNext, newest' # newest
                 PROVE  \A s \in Servers : newest'[s] >= newest[s]
    BY DEF cacheVars
  <2>2. PICK r \in Reads : Store(r)
    BY <2>1 DEF CacheNext, Ask, Get, GetFails, LoadDirectly, Lock, Look, LookFails,
       Load, LoadFails, StoreFails, Expire, Change
  <2> QED BY <2>1, <2>2, StoreMovesForward
<1> QED BY <1>1, CacheIsSound, PTL DEF CacheSpec, StoresMoveForward

=============================================================================
