----------------------------- MODULE ChatProofs ------------------------------
(***************************************************************************)
(* The chat, for any numbers of users, sends, pages and losses, and the    *)
(* start of a conversation, for any number of requests: ChatInv and        *)
(* StartInv are inductive.                                                 *)
(***************************************************************************)
EXTENDS ChatFanout, ConversationStart, FiniteSetTheorems, SequenceTheorems, TLAPS

-----------------------------------------------------------------------------
(* Finite sets with a time on each element.                                *)

\* A finite set whose elements have different times has an order by time.
LEMMA SortedExists ==
  ASSUME NEW S, IsFiniteSet(S), NEW time \in [S -> Nat],
         \A x, y \in S : time[x] = time[y] => x = y
  PROVE  \E s \in [1 .. Cardinality(S) -> S] :
           /\ \A i, j \in 1 .. Cardinality(S) : i < j => time[s[i]] < time[s[j]]
           /\ {s[i] : i \in 1 .. Cardinality(S)} = S
<1> DEFINE n == Cardinality(S)
           upTo(x) == {y \in S : time[y] <= time[x]}
           rank == [x \in S |-> Cardinality(upTo(x))]
<1>1. n \in Nat
  BY FS_CardinalityType
<1>2. ASSUME NEW x \in S
      PROVE  IsFiniteSet(upTo(x)) /\ rank[x] \in 1 .. n
  <2>1. upTo(x) \in SUBSET S /\ x \in upTo(x)
    OBVIOUS
  <2>2. /\ IsFiniteSet(upTo(x)) /\ Cardinality(upTo(x)) <= n
        /\ Cardinality(upTo(x)) \in Nat /\ Cardinality(upTo(x)) # 0
    BY <2>1, FS_Subset, FS_CardinalityType, FS_EmptySet
  <2> HIDE DEF upTo, n
  <2>3. QED
    BY <1>1, <2>2
<1>3. ASSUME NEW x \in S, NEW y \in S, time[x] < time[y]
      PROVE  rank[x] < rank[y]
  <2>1. upTo(x) \in SUBSET upTo(y) /\ y \in upTo(y) /\ y \notin upTo(x)
    BY <1>3
  <2>2. /\ Cardinality(upTo(x)) <= Cardinality(upTo(y))
        /\ Cardinality(upTo(x)) # Cardinality(upTo(y))
    BY <1>2, <2>1, FS_Subset
  <2>3. rank[x] = Cardinality(upTo(x)) /\ rank[y] = Cardinality(upTo(y))
    OBVIOUS
  <2>4. rank[x] \in Nat /\ rank[y] \in Nat
    BY <1>1, <1>2
  <2> HIDE DEF upTo, rank
  <2>5. QED
    BY <2>2, <2>3, <2>4
<1> HIDE DEF rank, n
<1>4. \A x, y \in S : rank[x] = rank[y] => x = y
  <2>1. \A x, y \in S : x # y => time[x] < time[y] \/ time[y] < time[x]
    <3>1. \A i, j \in Nat : i # j => i < j \/ j < i
      OBVIOUS
    <3>2. QED
      BY <3>1
  <2>2. \A x \in S : rank[x] \in Nat
    <3> HIDE DEF upTo
    <3>1. QED
      BY <1>1, <1>2
  <2>3. QED
    BY <1>3, <2>1, <2>2
<1>5. rank \in [S -> 1 .. n]
  BY <1>2 DEF rank
<1>6. rank \in Injection(S, 1 .. n)
  BY <1>4, <1>5 DEF Injection, IsInjective
<1>7. IsFiniteSet(1 .. n) /\ Cardinality(1 .. n) = n
  BY <1>1, FS_Interval
<1>8. rank \in Surjection(S, 1 .. n)
  BY <1>6, <1>7, FS_Injection DEF n
<1>9. \A i \in 1 .. n : \E x \in S : rank[x] = i
  BY <1>8 DEF Surjection
<1> DEFINE s == [i \in 1 .. n |-> CHOOSE x \in S : rank[x] = i]
<1>10. \A i \in 1 .. n : s[i] \in S /\ rank[s[i]] = i
  BY <1>9
<1>11. s \in [1 .. n -> S]
  BY <1>10
<1> HIDE DEF s
<1>12. \A i, j \in 1 .. n : i < j => time[s[i]] < time[s[j]]
  <2> SUFFICES ASSUME NEW i \in 1 .. n, NEW j \in 1 .. n, i < j
               PROVE  time[s[i]] < time[s[j]]
    OBVIOUS
  <2>1. s[i] # s[j] /\ ~(rank[s[j]] < rank[s[i]])
    BY <1>1, <1>10
  <2>2. time[s[i]] # time[s[j]] /\ ~(time[s[j]] < time[s[i]])
    BY <1>3, <1>10, <2>1
  <2>3. time[s[i]] \in Nat /\ time[s[j]] \in Nat
    BY <1>10
  <2>4. QED
    BY <2>2, <2>3
<1>13. \A x \in S : x = s[rank[x]]
  BY <1>4, <1>5, <1>10
<1>14. {s[i] : i \in 1 .. n} = S
  BY <1>5, <1>10, <1>13
<1>15. QED
  BY <1>11, <1>12, <1>14 DEF n

\* Of a finite set with at least L elements after the time t, L of them have fewer
\* than L elements after them: they are the L latest.
LEMMA LatestSuffice ==
  ASSUME NEW S, IsFiniteSet(S), NEW time \in [S -> Nat], NEW t \in Nat, NEW L \in Nat,
         \A x, y \in S : time[x] = time[y] => x = y,
         Cardinality({y \in S : time[y] > t}) >= L
  PROVE  Cardinality({x \in S : /\ time[x] > t
                                /\ Cardinality({y \in S : time[y] > time[x]}) < L}) >= L
<1> DEFINE N == {y \in S : time[y] > t}
           after(x) == {y \in S : time[y] > time[x]}
           early == {x \in N : Cardinality(after(x)) >= L}
           late == {x \in N : Cardinality(after(x)) < L}
           n == Cardinality(N)
           rank == [x \in early |-> Cardinality(after(x))]
<1>1. /\ IsFiniteSet(N) /\ n \in Nat /\ n >= L
      /\ early \in SUBSET N /\ late \in SUBSET N
  BY FS_Subset, FS_CardinalityType
<1>2. ASSUME NEW x \in N
      PROVE  /\ IsFiniteSet(after(x)) /\ Cardinality(after(x)) \in Nat
             /\ Cardinality(after(x)) < n
  <2>1. after(x) \in SUBSET N /\ x \notin after(x)
    OBVIOUS
  <2>2. /\ IsFiniteSet(after(x)) /\ Cardinality(after(x)) \in Nat
        /\ Cardinality(after(x)) <= n /\ Cardinality(after(x)) # n
    BY <1>1, <2>1, FS_Subset, FS_CardinalityType
  <2> HIDE DEF after, n
  <2>3. QED
    BY <1>1, <2>2
<1>3. ASSUME NEW x \in N, NEW y \in N, time[x] < time[y]
      PROVE  Cardinality(after(y)) < Cardinality(after(x))
  <2>1. after(y) \in SUBSET after(x) /\ y \in after(x) /\ y \notin after(y)
    BY <1>3
  <2>2. /\ Cardinality(after(y)) <= Cardinality(after(x))
        /\ Cardinality(after(y)) # Cardinality(after(x))
    BY <1>2, <2>1, FS_Subset
  <2>3. Cardinality(after(x)) \in Nat /\ Cardinality(after(y)) \in Nat
    BY <1>2
  <2> HIDE DEF after
  <2>4. QED
    BY <2>2, <2>3
<1>4. rank \in [early -> L .. n - 1]
  <2>1. \A x \in early : Cardinality(after(x)) \in L .. n - 1
    <3> HIDE DEF after, n
    <3>1. QED
      BY <1>1, <1>2
  <2>2. QED
    BY <2>1
<1>5. \A x, y \in early : rank[x] = rank[y] => x = y
  <2>1. \A x, y \in N : x # y => time[x] < time[y] \/ time[y] < time[x]
    OBVIOUS
  <2>2. \A x \in early : rank[x] = Cardinality(after(x)) /\ Cardinality(after(x)) \in Nat
    BY <1>2
  <2> HIDE DEF after, rank
  <2>3. QED
    BY <1>3, <2>1, <2>2
<1>6. rank \in Injection(early, L .. n - 1)
  BY <1>4, <1>5 DEF Injection, IsInjective
<1> HIDE DEF rank, n
<1>7. IsFiniteSet(L .. n - 1) /\ Cardinality(L .. n - 1) = n - L
  BY <1>1, FS_Interval
<1>8. Cardinality(early) <= n - L
  BY <1>6, <1>7, FS_Injection DEF n
<1>9. IsFiniteSet(late) /\ Cardinality(late) \in Nat /\ Cardinality(early) \in Nat
  BY <1>1, FS_Subset, FS_CardinalityType
<1>10. Cardinality(N \ early) = n - Cardinality(N \cap early)
  BY <1>1, FS_Difference DEF n
<1>11. N \cap early = early
  OBVIOUS
<1>12. N \ early = late
  <2>1. \A x \in N : Cardinality(after(x)) < L <=> ~(Cardinality(after(x)) >= L)
    <3> HIDE DEF after, N
    <3>1. QED
      BY <1>2
  <2>2. QED
    BY <2>1
<1>13. Cardinality(late) >= L
  <2>1. Cardinality(late) = n - Cardinality(early)
    BY <1>10, <1>11, <1>12
  <2> HIDE DEF early, late
  <2>2. QED
    BY <1>1, <1>8, <1>9, <2>1
<1>14. late = {x \in S : time[x] > t /\ Cardinality({y \in S : time[y] > time[x]}) < L}
  OBVIOUS
<1>15. QED
  BY <1>13, <1>14

-----------------------------------------------------------------------------
(* Lists of messages.                                                      *)

\* Messages are finitely many, so what a list shows is a finite set.
LEMMA ShownTyped ==
  ASSUME ChatAssumption, NEW s \in Seq(Messages)
  PROVE  /\ Shown(s) \subseteq Messages
         /\ IsFiniteSet(Shown(s))
<1>1. Shown(s) \in SUBSET Messages
  BY LenProperties DEF Shown
<1>2. QED
  BY <1>1, FS_Subset DEF ChatAssumption

\* The empty list shows nothing.
LEMMA ShownEmpty == Shown(<<>>) = {}
  BY DEF Shown

\* A push adds its message to what is on its way.
LEMMA ShownAppend ==
  ASSUME NEW s \in Seq(Messages), NEW m \in Messages
  PROVE  Append(s, m) \in Seq(Messages) /\ Shown(Append(s, m)) = Shown(s) \cup {m}
<1> DEFINE a == Append(s, m)
<1>1. /\ a \in Seq(Messages) /\ Len(a) = Len(s) + 1
      /\ \A i \in 1 .. Len(s) : a[i] = s[i]
      /\ a[Len(s) + 1] = m
  BY AppendProperties
<1>2. Len(s) \in Nat /\ DOMAIN s = 1 .. Len(s) /\ DOMAIN a = 1 .. Len(a)
  BY <1>1, LenProperties
<1> HIDE DEF a
<1>3. DOMAIN a = DOMAIN s \cup {Len(s) + 1}
  BY <1>1, <1>2
<1>4. Shown(a) = Shown(s) \cup {m}
  BY <1>1, <1>2, <1>3 DEF Shown
<1>5. QED
  BY <1>1, <1>4 DEF a

\* The head of a list is what is shown and not in the tail, or shown twice.
LEMMA ShownTail ==
  ASSUME NEW s \in Seq(Messages), s # <<>>
  PROVE  /\ Head(s) \in Messages /\ Tail(s) \in Seq(Messages)
         /\ Shown(s) = {Head(s)} \cup Shown(Tail(s))
<1> DEFINE t == Tail(s)
<1>1. /\ t \in Seq(Messages) /\ Len(t) = Len(s) - 1
      /\ \A i \in 1 .. Len(t) : t[i] = s[i + 1]
      /\ Head(s) \in Messages
  BY HeadTailProperties
<1>2. Len(s) \in Nat \ {0} /\ DOMAIN s = 1 .. Len(s) /\ DOMAIN t = 1 .. Len(t)
  BY <1>1, LenProperties, EmptySeq
<1>3. Head(s) = s[1]
  OBVIOUS
<1> HIDE DEF t
<1>4. ASSUME NEW x \in Shown(s) PROVE x \in {Head(s)} \cup Shown(t)
  <2>1. PICK i \in 1 .. Len(s) : x = s[i]
    BY <1>2, <1>4 DEF Shown
  <2>2. CASE i = 1
    BY <1>3, <2>1, <2>2
  <2>3. CASE i # 1
    <3>1. i - 1 \in DOMAIN t /\ t[i - 1] = s[i]
      BY <1>1, <1>2, <2>3
    <3>2. QED
      BY <2>1, <3>1 DEF Shown
  <2>4. QED
    BY <2>2, <2>3
<1>5. ASSUME NEW x \in Shown(t) PROVE x \in Shown(s)
  <2>1. PICK i \in 1 .. Len(t) : x = t[i]
    BY <1>2, <1>5 DEF Shown
  <2>2. i + 1 \in DOMAIN s /\ x = s[i + 1]
    BY <1>1, <1>2, <2>1
  <2>3. QED
    BY <2>2 DEF Shown
<1>6. Head(s) \in Shown(s)
  BY <1>2, <1>3 DEF Shown
<1>7. QED
  BY <1>1, <1>4, <1>5, <1>6 DEF t

\* Sorting messages whose transactions began shows each of them, in order.
LEMMA InOrderSorts ==
  ASSUME ChatAssumption, ChatTypeOK, SendInv, NEW S \in SUBSET Begun
  PROVE  /\ InOrder(S) \in Seq(Messages)
         /\ Ordered(InOrder(S))
         /\ Shown(InOrder(S)) = S
<1>1. S \in SUBSET Messages
  BY DEF Begun
<1>2. IsFiniteSet(S) /\ Cardinality(S) \in Nat
  BY <1>1, FS_Subset, FS_CardinalityType DEF ChatAssumption
<1> DEFINE time == [m \in S |-> send[m].at]
<1>3. time \in [S -> Nat]
  BY <1>1 DEF ChatTypeOK
<1>4. \A x, y \in S : time[x] = time[y] => x = y
  BY DEF SendInv
<1> HIDE DEF time
<1>5. \E s \in [1 .. Cardinality(S) -> S] :
        /\ \A i, j \in 1 .. Cardinality(S) : i < j => time[s[i]] < time[s[j]]
        /\ {s[i] : i \in 1 .. Cardinality(S)} = S
  BY <1>2, <1>3, <1>4, SortedExists
<1>6. \E s \in [1 .. Cardinality(S) -> S] : Ordered(s) /\ Shown(s) = S
  BY <1>5 DEF Ordered, Shown, time
<1>7. /\ InOrder(S) \in [1 .. Cardinality(S) -> S]
      /\ Ordered(InOrder(S)) /\ Shown(InOrder(S)) = S
  BY <1>6 DEF InOrder
<1>8. InOrder(S) \in Seq(Messages)
  BY <1>1, <1>2, <1>7
<1>9. QED
  BY <1>7, <1>8

-----------------------------------------------------------------------------
(* What the steps of a send and of a page have in common.                  *)

\* Everything out of the API is a message whose transaction began.
LEMMA OutBegun ==
  ASSUME ChatAssumption, ChatTypeOK, SendInv
  PROVE  /\ Out \subseteq Begun
         /\ \A p \in Pages :
              /\ Shown(net[p]) \subseteq Out
              /\ Shown(page[p].items) \subseteq Out /\ Shown(page[p].history) \subseteq Out
              /\ Loaded(p) \subseteq Out /\ IsFiniteSet(Loaded(p))
<1>1. \A p \in Pages : page[p].items \in Seq(Messages) /\ page[p].history \in Seq(Messages)
                        /\ net[p] \in Seq(Messages)
  BY DEF ChatTypeOK
<1>2. \A p \in Pages : Loaded(p) \subseteq Messages /\ Shown(net[p]) \subseteq Messages
  BY <1>1, ShownTyped DEF Loaded
<1>3. Out \subseteq Messages
  BY <1>2 DEF Out, ChatTypeOK
<1>4. Out \subseteq Begun
  BY <1>3 DEF SendInv, Begun
<1>5. \A p \in Pages : IsFiniteSet(Loaded(p))
  BY <1>1, ShownTyped, FS_Union DEF Loaded
<1>6. QED
  BY <1>4, <1>5 DEF Out, Loaded

\* While no transaction that began begins again, a list of begun messages stays
\* in order, and what is newer than a message in a set stays so.
TimesKept == \A m \in Begun : m \in Begun' /\ send'[m].at = send[m].at

LEMMA OrderKept ==
  ASSUME TimesKept, NEW s, Ordered(s), Shown(s) \subseteq Begun
  PROVE  Ordered(s)'
  BY DEF Ordered, Shown, TimesKept

LEMMA NewerKept ==
  ASSUME TimesKept, NEW S \in SUBSET Begun, NEW m \in Begun
  PROVE  NewerIn(S, m)' = NewerIn(S, m)
  BY DEF NewerIn, TimesKept

\* A page keeps what CompleteInv says of it while what it has loaded grows, and
\* what was on its way is still on its way, loaded or missed.
LEMMA CompleteKept ==
  ASSUME ChatAssumption, ChatInv, ChatTypeOK', TimesKept,
         NEW p \in Pages, page[p].pc # "error",
         Loaded(p) \subseteq Loaded(p)', Loaded(p)' \subseteq Begun',
         missed[p] \cup Shown(net[p])
           \subseteq missed'[p] \cup Shown(net'[p]) \cup Loaded(p)',
         Published' \subseteq Published \cup missed'[p] \cup Shown(net'[p])
  PROVE  \A m \in Published' \ (missed'[p] \cup Shown(net'[p]) \cup Loaded(p)') :
           Cardinality(NewerIn(Loaded(p), m)') >= HistoryLimit
<1> SUFFICES ASSUME NEW m \in Published' \ (missed'[p] \cup Shown(net'[p]) \cup Loaded(p)')
             PROVE  Cardinality(NewerIn(Loaded(p), m)') >= HistoryLimit
  OBVIOUS
<1>1. m \in Published \ (missed[p] \cup Shown(net[p]) \cup Loaded(p))
  OBVIOUS
<1>2. Cardinality(NewerIn(Loaded(p), m)) >= HistoryLimit
  BY <1>1 DEF ChatInv, CompleteInv
<1>3. m \in Begun
  BY <1>1 DEF Published, Begun
<1>4. Loaded(p) \subseteq Begun
  BY OutBegun DEF ChatInv
<1>5. IsFiniteSet(Loaded(p)')
  <2>1. page'[p].items \in Seq(Messages) /\ page'[p].history \in Seq(Messages)
    BY DEF ChatTypeOK
  <2>2. Loaded(p)' = Shown(page'[p].items) \cup Shown(page'[p].history)
    BY DEF Loaded, Shown
  <2>3. IsFiniteSet(Shown(page'[p].items)) /\ IsFiniteSet(Shown(page'[p].history))
    BY <2>1, ShownTyped
  <2>4. IsFiniteSet(Shown(page'[p].items) \cup Shown(page'[p].history))
    BY <2>3, FS_Union
  <2>5. QED
    BY <2>2, <2>4
<1>6. NewerIn(Loaded(p), m) \subseteq NewerIn(Loaded(p), m)'
  BY <1>3, <1>4 DEF NewerIn, TimesKept
<1>7. NewerIn(Loaded(p), m)' \in SUBSET Loaded(p)'
  BY DEF NewerIn
<1>8. IsFiniteSet(NewerIn(Loaded(p), m)')
  BY <1>5, <1>7, FS_Subset
<1>9. /\ Cardinality(NewerIn(Loaded(p), m)) <= Cardinality(NewerIn(Loaded(p), m)')
      /\ Cardinality(NewerIn(Loaded(p), m)) \in Nat
      /\ Cardinality(NewerIn(Loaded(p), m)') \in Nat
  BY <1>6, <1>8, FS_Subset, FS_CardinalityType
<1>10. HistoryLimit \in Nat
  BY DEF ChatAssumption
<1>11. QED
  BY <1>2, <1>9, <1>10

\* A step of the send m that changes no page and does not take back what is out.
LEMMA SendKeeps ==
  ASSUME ChatAssumption, ChatInv, ChatTypeOK', ActivityInv', NEW m \in Messages,
         page' = page, TimesKept,
         \A k \in Messages \ {m} :
           send'[k] = send[k] /\ (rowLock' = k <=> rowLock = k),
         send'[m].pc # "new",
         rowLock' = m <=> send'[m].pc \in {"bumped", "published", "answered"},
         \/ m \in Begun /\ clock' = clock
         \/ clock' = clock + 1 /\ send'[m].at = clock',
         replies' \subseteq replies \cup {m},
         \A p \in Pages :
           /\ Shown(net'[p]) \subseteq Shown(net[p]) \cup {m}
           /\ missed[p] \cup Shown(net[p]) \subseteq missed'[p] \cup Shown(net'[p])
           /\ m \in Published' => m \in Published \cup missed'[p] \cup Shown(net'[p]),
         (m \in Out \/ m \in replies' \/ \E p \in Pages : m \in Shown(net'[p]))
           => send'[m].pc \in {"published", "answered", "stored", "lost"}
  PROVE  ChatInv'
<1> USE DEF ChatInv
<1>1. clock \in Nat /\ \A k \in Messages : send[k].at \in Nat
  BY DEF ChatTypeOK
<1>2. Begun' = Begun \cup {m}
  BY DEF Begun
<1>3. \A k \in Begun' : send'[k].at <= clock'
  <2>1. \A k \in Begun : send'[k].at = send[k].at /\ send[k].at <= clock /\ send[k].at \in Nat
    BY <1>1 DEF TimesKept, SendInv, Begun
  <2>2. CASE m \in Begun /\ clock' = clock
    BY <1>2, <2>1, <2>2
  <2>3. CASE clock' = clock + 1 /\ send'[m].at = clock'
    <3>1. \A k \in Begun : send'[k].at <= clock'
      BY <1>1, <2>1, <2>3
    <3>2. send'[m].at <= clock'
      BY <1>1, <2>3
    <3>3. QED
      BY <1>2, <3>1, <3>2
  <2>4. QED
    BY <2>2, <2>3
<1>4. \A j, k \in Begun' : send'[j].at = send'[k].at => j = k
  <2>1. \A k \in Begun : send'[k].at = send[k].at /\ send[k].at <= clock /\ send[k].at \in Nat
    BY <1>1 DEF TimesKept, SendInv, Begun
  <2>2. \A j, k \in Begun : send'[j].at = send'[k].at => j = k
    BY <2>1 DEF SendInv
  <2>3. CASE m \in Begun /\ clock' = clock
    BY <1>2, <2>2, <2>3
  <2>4. CASE clock' = clock + 1 /\ send'[m].at = clock'
    <3>1. \A k \in Begun : send'[k].at # send'[m].at
      BY <1>1, <2>1, <2>4
    <3>2. QED
      BY <1>2, <2>2, <3>1
  <2>5. QED
    BY <2>3, <2>4
<1>5. \A k \in Messages :
        rowLock' = k <=> send'[k].pc \in {"bumped", "published", "answered"}
  BY DEF SendInv
<1>6. \A p \in Pages : Loaded(p)' = Loaded(p)
  BY DEF Loaded, Shown
<1>7. \A k \in Out' : send'[k].pc \in {"published", "answered", "stored", "lost"}
  <2>1. Out' \subseteq Out \cup {m}
    BY <1>6 DEF Out
  <2>2. Out \subseteq Messages
    BY OutBegun DEF Begun
  <2>3. \A k \in Out' : k \in Out \/ k \in replies' \/ \E p \in Pages : k \in Shown(net'[p])
    BY <1>6 DEF Out
  <2>4. \A k \in Out \ {m} : send'[k].pc \in {"published", "answered", "stored", "lost"}
    BY <2>2 DEF SendInv
  <2>5. QED
    BY <2>1, <2>3, <2>4
<1>8. SendInv'
  BY <1>3, <1>4, <1>5, <1>7 DEF SendInv
<1>9. OrderInv'
  <2>1. \A p \in Pages : /\ Shown(page[p].items) \subseteq Begun
                         /\ Shown(page[p].history) \subseteq Begun
    BY OutBegun
  <2>2. \A p \in Pages : Ordered(page[p].items)' /\ Ordered(page[p].history)'
    <3>1. \A p \in Pages : Ordered(page[p].items) /\ Ordered(page[p].history)
      BY DEF OrderInv
    <3>2. QED
      BY <2>1, <3>1 DEF Ordered, Shown, TimesKept
  <2>3. QED
    BY <2>2 DEF OrderInv
<1>10. CompleteInv'
  <2>1. ASSUME NEW p \in Pages, page'[p].pc # "error"
        PROVE  \A k \in Published' \ (missed'[p] \cup Shown(net'[p]) \cup Loaded(p)') :
                 Cardinality(NewerIn(Loaded(p), k)') >= HistoryLimit
    <3>1. Loaded(p) \subseteq Begun'
      BY <1>2, OutBegun
    <3>2. \A k \in Published' : k \in Published \cup {m}
      BY DEF Published
    <3>3. QED
      BY <1>6, <2>1, <3>1, <3>2, CompleteKept
  <2>2. QED
    BY <2>1 DEF CompleteInv, Shown
<1>11. QED
  BY <1>8, <1>9, <1>10

\* What a page's state shows.
Holds(state) == Shown(state.items) \cup Shown(state.history)

PageState == [pc : {"loading", "read", "ready", "error"},
              items : Seq(Messages), history : Seq(Messages)]

LEMMA HoldsLoaded ==
  ASSUME NEW p \in Pages
  PROVE  Loaded(p) = Holds(page[p]) /\ Loaded(p)' = Holds(page'[p])
  BY DEF Loaded, Holds, Shown

\* A step of the page p, which may be no page at all, that leaves the sends alone.
LEMMA PageKeeps ==
  ASSUME ChatAssumption, ChatInv, ChatTypeOK',
         clock' = clock, send' = send, rowLock' = rowLock, lastAt' = lastAt,
         during' = during, NEW p,
         replies' \subseteq replies,
         \A q \in Pages \ {p} :
           page'[q] = page[q] /\ net'[q] = net[q] /\ missed'[q] = missed[q],
         p \in Pages =>
           /\ Shown(net'[p]) \subseteq Shown(net[p])
           /\ Holds(page'[p]) \subseteq Loaded(p) \cup replies \cup Shown(net[p]) \cup Stored
           /\ Ordered(page'[p].items) /\ Ordered(page'[p].history)
           /\ page'[p].pc \in {"loading", "read"} => page'[p].items = <<>>
           /\ page'[p].pc # "read" => page'[p].history = <<>>
           /\ page'[p].pc # "error" =>
                \A m \in Published \ (missed'[p] \cup Shown(net'[p]) \cup Holds(page'[p])) :
                  Cardinality(NewerIn(Holds(page'[p]), m)) >= HistoryLimit
  PROVE  ChatInv'
<1> USE DEF ChatInv
<1>1. \A q \in Pages \ {p} : Holds(page'[q]) = Loaded(q)
  BY HoldsLoaded
<1>2. Out' \subseteq Out \cup Stored
  <2>1. Out' = replies' \cup UNION {Shown(net'[q]) \cup Holds(page'[q]) : q \in Pages}
    BY DEF Out, Loaded, Holds, Shown
  <2>2. ASSUME NEW q \in Pages
        PROVE  Shown(net'[q]) \cup Holds(page'[q]) \subseteq Out \cup Stored
    <3>1. CASE q = p
      BY <3>1 DEF Out
    <3>2. CASE q # p
      BY <1>1, <3>2 DEF Out
    <3>3. QED
      BY <3>1, <3>2
  <2>3. replies \subseteq Out
    BY DEF Out
  <2>4. QED
    BY <2>1, <2>2, <2>3
<1>3. SendInv'
  <2>1. Begun' = Begun
    BY DEF Begun
  <2>2. \A m \in Out' : send'[m].pc \in {"published", "answered", "stored", "lost"}
    BY <1>2 DEF SendInv, Stored
  <2>3. QED
    BY <2>1, <2>2 DEF SendInv
<1>4. ActivityInv'
  BY DEF ActivityInv, LastActivity, Stored, UnderWay
<1>5. OrderInv'
  <2>1. ASSUME NEW q \in Pages
        PROVE  /\ Ordered(page'[q].items) /\ Ordered(page'[q].history)
               /\ page'[q].pc \in {"loading", "read"} => page'[q].items = <<>>
               /\ page'[q].pc # "read" => page'[q].history = <<>>
    BY DEF OrderInv
  <2>2. QED
    BY <2>1 DEF OrderInv, Ordered
<1>6. CompleteInv'
  <2>1. ASSUME NEW q \in Pages, page'[q].pc # "error",
               NEW m \in Published \ (missed'[q] \cup Shown(net'[q]) \cup Holds(page'[q]))
        PROVE  Cardinality(NewerIn(Holds(page'[q]), m)) >= HistoryLimit
    <3>1. CASE q = p
      BY <2>1, <3>1
    <3>2. CASE q # p
      BY <1>1, <2>1, <3>2 DEF CompleteInv
    <3>3. QED
      BY <3>1, <3>2
  <2>2. Published' = Published
    BY DEF Published
  <2>3. \A q \in Pages, m \in Published :
          NewerIn(Loaded(q), m)' = NewerIn(Holds(page'[q]), m)
    BY HoldsLoaded DEF NewerIn
  <2>4. \A q \in Pages : Loaded(q)' = Holds(page'[q]) /\ Shown(net[q])' = Shown(net'[q])
    BY HoldsLoaded DEF Shown
  <2>5. QED
    BY <2>1, <2>2, <2>3, <2>4 DEF CompleteInv
<1>7. QED
  BY <1>3, <1>4, <1>5, <1>6

\* Merging a message that is out into an ordered list adds it in its place.
LEMMA MergeSorts ==
  ASSUME ChatAssumption, ChatTypeOK, SendInv, NEW m \in Out, NEW s \in Seq(Messages),
         Shown(s) \subseteq Out, Ordered(s)
  PROVE  /\ mergeMessage(s, m) \in Seq(Messages)
         /\ Ordered(mergeMessage(s, m))
         /\ Shown(mergeMessage(s, m)) = Shown(s) \cup {m}
<1>1. Shown(s) \cup {m} \in SUBSET Begun
  BY OutBegun
<1>2. CASE m \in Shown(s)
  BY <1>2 DEF mergeMessage
<1>3. CASE m \notin Shown(s)
  BY <1>1, <1>3, InOrderSorts DEF mergeMessage
<1>4. QED
  BY <1>2, <1>3

\* A page that is ready shows, after a merge, what it showed and the message.
LEMMA MergesShow ==
  ASSUME ChatAssumption, ChatInv, NEW m \in Out, NEW p, Merges(p, m)
  PROVE  /\ page' \in [Pages -> PageState]
         /\ \A q \in Pages \ {p} : page'[q] = page[q]
         /\ p \in Pages =>
              /\ page'[p].pc = page[p].pc /\ page'[p].history = page[p].history
              /\ Ordered(page'[p].items)
              /\ page[p].pc = "ready" => Holds(page'[p]) = Loaded(p) \cup {m}
              /\ page[p].pc # "ready" => page'[p] = page[p]
<1> USE DEF ChatInv
<1>1. page \in [Pages -> PageState]
  BY DEF ChatTypeOK, PageState
<1>2. CASE p \in Pages /\ page[p].pc = "ready"
  <2> DEFINE s == mergeMessage(page[p].items, m)
  <2>1. page[p].items \in Seq(Messages) /\ page[p].history \in Seq(Messages)
    BY <1>1, <1>2 DEF PageState
  <2>2. Shown(page[p].items) \subseteq Out /\ Ordered(page[p].items)
    BY <1>2, OutBegun DEF OrderInv
  <2>3. /\ s \in Seq(Messages) /\ Ordered(s)
        /\ Shown(s) = Shown(page[p].items) \cup {m}
    BY <2>1, <2>2, MergeSorts
  <2>4. page' = [page EXCEPT ![p].items = s]
    BY <1>2 DEF Merges
  <2> HIDE DEF s
  <2>5. /\ page' \in [Pages -> PageState]
        /\ \A q \in Pages \ {p} : page'[q] = page[q]
        /\ page'[p].pc = page[p].pc /\ page'[p].history = page[p].history
        /\ page'[p].items = s
    BY <1>1, <1>2, <2>3, <2>4 DEF PageState
  <2>6. Holds(page'[p]) = Loaded(p) \cup {m}
    BY <2>3, <2>5 DEF Holds, Loaded
  <2>7. QED
    BY <1>2, <2>3, <2>5, <2>6
<1>3. CASE ~(p \in Pages /\ page[p].pc = "ready")
  BY <1>1, <1>3 DEF Merges, OrderInv
<1>4. QED
  BY <1>2, <1>3

-----------------------------------------------------------------------------
(* The steps of a send.                                                    *)

SendState == [pc : SendSteps, at : Nat]

\* A send that moves on keeps the time of its transaction.
LEMMA ReachesTyped ==
  ASSUME ChatTypeOK, NEW m \in Messages, NEW pc \in SendSteps, pc # "new", Reaches(m, pc)
  PROVE  /\ send' \in [Messages -> SendState]
         /\ send'[m].pc = pc /\ send'[m].at = send[m].at
         /\ \A k \in Messages \ {m} : send'[k] = send[k]
         /\ TimesKept
<1>1. /\ send' \in [Messages -> SendState]
      /\ send'[m].pc = pc /\ send'[m].at = send[m].at
      /\ \A k \in Messages \ {m} : send'[k] = send[k]
  BY DEF ChatTypeOK, SendState, Reaches
<1>2. QED
  BY <1>1 DEF TimesKept, Begun

\* While no send ends, the activity is what it was; a transaction that begins
\* does so after all that are stored.
LEMMA ActivityQuiet ==
  ASSUME ChatTypeOK, SendInv, ActivityInv, TimesKept, NEW m \in Messages,
         lastAt' = lastAt, during' = during, Stored' = Stored,
         UnderWay' \subseteq UnderWay \cup {m},
         m \in UnderWay \/ send'[m].at = clock + 1
  PROVE  ActivityInv'
<1>1. Stored \subseteq Begun /\ UnderWay \subseteq Begun
  BY DEF Stored, UnderWay, Begun
<1>2. \A k \in Stored : send'[k].at = send[k].at /\ send[k].at <= clock
  BY <1>1 DEF TimesKept, SendInv
<1>3. clock \in Nat /\ \A k \in Stored : send[k].at \in Nat
  BY DEF ChatTypeOK, Stored
<1>4. ASSUME NEW s \in Stored, NEW k \in UnderWay', send'[k].at < send'[s].at
      PROVE  k \in during[s]
  <2>1. CASE k \in UnderWay
    BY <1>1, <1>4, <2>1 DEF TimesKept, ActivityInv
  <2>2. CASE k \notin UnderWay
    <3>1. send'[k].at = clock + 1
      BY <1>4, <2>2
    <3>2. QED
      BY <1>2, <1>3, <1>4, <3>1
  <2>3. QED
    BY <2>1, <2>2
<1>5. LastActivity'
  <2>1. \A s \in Stored : lastAt >= send[s].at
          \/ \E k \in during[s] \cap Stored : send[k].at = lastAt
    BY DEF ActivityInv, LastActivity
  <2>2. QED
    BY <1>2, <2>1 DEF LastActivity
<1>6. QED
  BY <1>4, <1>5 DEF ActivityInv

\* The transaction begins, later than all before it.
LEMMA OpenKeeps ==
  ASSUME ChatAssumption, ChatInv, NEW m \in Messages, OpenSend(m)
  PROVE  ChatInv'
<1> USE DEF ChatInv
<1>1. /\ send[m].pc = "new" /\ clock' = clock + 1
      /\ send' = [send EXCEPT ![m] = [pc |-> "open", at |-> clock + 1]]
      /\ owner' = owner /\ rowLock' = rowLock /\ lastAt' = lastAt /\ during' = during
      /\ replies' = replies /\ page' = page /\ socket' = socket /\ net' = net
      /\ losses' = losses /\ missed' = missed
  BY DEF OpenSend, pageVars
<1>2. clock' \in Nat /\ "open" \in SendSteps
  BY <1>1 DEF ChatTypeOK, SendSteps
<1>3. /\ send' \in [Messages -> SendState]
      /\ send'[m].pc = "open" /\ send'[m].at = clock + 1
      /\ \A k \in Messages \ {m} : send'[k] = send[k]
  BY <1>1, <1>2 DEF ChatTypeOK, SendState
<1>4. ChatTypeOK'
  BY <1>1, <1>2, <1>3 DEF ChatTypeOK, SendState
<1>5. TimesKept
  BY <1>1, <1>3 DEF TimesKept, Begun
<1>6. ActivityInv'
  <2>1. Stored' = Stored /\ UnderWay' \subseteq UnderWay \cup {m}
    BY <1>1, <1>3 DEF Stored, UnderWay
  <2>2. QED
    BY <1>1, <1>3, <1>5, <2>1, ActivityQuiet
<1>7. rowLock # m /\ m \notin Out /\ m \notin replies
      /\ \A p \in Pages : m \notin Shown(net[p])
  <2>1. rowLock # m /\ m \notin Out
    BY <1>1 DEF SendInv
  <2>2. QED
    BY <2>1 DEF Out
<1>8. m \notin Published'
  BY <1>3 DEF Published
<1>9. QED
  BY <1>1, <1>3, <1>4, <1>5, <1>6, <1>7, <1>8, SendKeeps

\* A step that leaves what is out and on its way, and ends no transaction.
LEMMA QuietSendKeeps ==
  ASSUME ChatAssumption, ChatInv, ChatTypeOK', NEW m \in Messages,
         NEW pc \in SendSteps, pc # "new", pc # "stored", Reaches(m, pc),
         m \in UnderWay,
         clock' = clock, lastAt' = lastAt, during' = during, replies' = replies,
         page' = page, net' = net, missed' = missed,
         \A k \in Messages \ {m} : rowLock' = k <=> rowLock = k,
         rowLock' = m <=> pc \in {"bumped", "published", "answered"},
         pc \in {"published", "answered"} => m \in Published,
         m \in Out => pc \in {"published", "answered", "stored", "lost"}
  PROVE  ChatInv'
<1> USE DEF ChatInv
<1>1. /\ send'[m].pc = pc /\ send'[m].at = send[m].at
      /\ \A k \in Messages \ {m} : send'[k] = send[k]
      /\ TimesKept
  BY ReachesTyped
<1>2. ActivityInv'
  <2>1. Stored' = Stored /\ UnderWay' \subseteq UnderWay \cup {m}
    BY <1>1 DEF Stored, UnderWay
  <2>2. QED
    BY <1>1, <2>1, ActivityQuiet
<1>3. m \in Begun
  BY DEF UnderWay, Begun
<1>4. m \in Out \/ m \in replies \/ (\E p \in Pages : m \in Shown(net[p])) => m \in Out
  BY DEF Out
<1>5. m \in Published' => m \in Published
  BY <1>1 DEF Published
<1>6. QED
  BY <1>1, <1>2, <1>3, <1>4, <1>5, SendKeeps

LEMMA InsertMessageKeeps ==
  ASSUME ChatAssumption, ChatInv, NEW m \in Messages, InsertMessage(m)
  PROVE  ChatInv'
<1> USE DEF ChatInv
<1> DEFINE pc == IF CanAccess(SenderOf[m]) THEN "inserted" ELSE "failed"
<1>1. /\ send[m].pc = "open" /\ Reaches(m, pc)
      /\ owner' = owner /\ clock' = clock /\ rowLock' = rowLock /\ lastAt' = lastAt
      /\ during' = during /\ replies' = replies /\ page' = page /\ socket' = socket
      /\ net' = net /\ losses' = losses /\ missed' = missed
  BY DEF InsertMessage, pageVars
<1>2. pc \in SendSteps /\ pc \in {"inserted", "failed"}
  BY DEF SendSteps
<1> HIDE DEF pc
<1>3. ChatTypeOK'
  BY <1>1, <1>2, ReachesTyped DEF ChatTypeOK, SendState
<1>4. m \in UnderWay /\ rowLock # m /\ m \notin Out
  BY <1>1 DEF UnderWay, SendInv
<1>5. QED
  BY <1>1, <1>2, <1>3, <1>4, QuietSendKeeps

LEMMA BumpKeeps ==
  ASSUME ChatAssumption, ChatInv, NEW m \in Messages, BumpConversation(m)
  PROVE  ChatInv'
<1> USE DEF ChatInv
<1>1. /\ send[m].pc = "inserted" /\ Reaches(m, "bumped")
      /\ rowLock = Nobody /\ rowLock' = m
      /\ owner' = owner /\ clock' = clock /\ lastAt' = lastAt
      /\ during' = during /\ replies' = replies /\ page' = page /\ socket' = socket
      /\ net' = net /\ losses' = losses /\ missed' = missed
  BY DEF BumpConversation, pageVars
<1>2. "bumped" \in SendSteps
  BY DEF SendSteps
<1>3. ChatTypeOK'
  BY <1>1, <1>2, ReachesTyped DEF ChatTypeOK, SendState
<1>4. m \in UnderWay /\ m \notin Out
  BY <1>1 DEF UnderWay, SendInv
<1>5. \A k \in Messages \ {m} : rowLock' = k <=> rowLock = k
  BY <1>1 DEF ChatAssumption
<1>6. QED
  BY <1>1, <1>2, <1>3, <1>4, <1>5, QuietSendKeeps

\* What a rolled back send leaves out was published by it.
LEMMA SendFailsKeeps ==
  ASSUME ChatAssumption, ChatInv, NEW m \in Messages, SendFails(m)
  PROVE  ChatInv'
<1> USE DEF ChatInv
<1> DEFINE pc == IF send[m].pc \in {"published", "answered"} THEN "lost" ELSE "failed"
<1>1. /\ m \in UnderWay /\ Reaches(m, pc) /\ rowLock' = Unlocked(m)
      /\ owner' = owner /\ clock' = clock /\ lastAt' = lastAt
      /\ during' = during /\ replies' = replies /\ page' = page /\ socket' = socket
      /\ net' = net /\ losses' = losses /\ missed' = missed
  BY DEF SendFails, pageVars
<1>2. pc \in SendSteps /\ pc \in {"lost", "failed"}
  BY DEF SendSteps
<1>3. m \in Out => pc = "lost"
  BY <1>1 DEF SendInv, UnderWay
<1> HIDE DEF pc
<1>4. /\ rowLock' # m /\ rowLock' \in Messages \cup {Nobody}
      /\ \A k \in Messages \ {m} : rowLock' = k <=> rowLock = k
  BY <1>1 DEF Unlocked, ChatAssumption, ChatTypeOK
<1>5. ChatTypeOK'
  BY <1>1, <1>2, <1>4, ReachesTyped DEF ChatTypeOK, SendState
<1>6. QED
  BY <1>1, <1>2, <1>3, <1>4, <1>5, QuietSendKeeps

\* The commit of a send: what it overtakes was under way with it.
LEMMA CommitSendKeeps ==
  ASSUME ChatAssumption, ChatInv, NEW m \in Messages, CommitSend(m)
  PROVE  ChatInv'
<1> USE DEF ChatInv
<1>1. /\ send[m].pc = "answered" /\ Reaches(m, "stored")
      /\ lastAt' = send[m].at /\ rowLock' = Nobody
      /\ during' = [during EXCEPT ![m] = UnderWay \ {m}]
      /\ owner' = owner /\ clock' = clock
      /\ replies' = replies /\ page' = page /\ socket' = socket
      /\ net' = net /\ losses' = losses /\ missed' = missed
  BY DEF CommitSend, LastMessageAt, pageVars
<1>2. "stored" \in SendSteps
  BY DEF SendSteps
<1>3. /\ send' \in [Messages -> SendState]
      /\ send'[m].pc = "stored" /\ send'[m].at = send[m].at
      /\ \A k \in Messages \ {m} : send'[k] = send[k]
      /\ TimesKept
  BY <1>1, <1>2, ReachesTyped
<1>4. /\ during' \in [Messages -> SUBSET Messages]
      /\ during'[m] = UnderWay \ {m}
      /\ \A k \in Messages \ {m} : during'[k] = during[k]
  BY <1>1 DEF ChatTypeOK, UnderWay
<1>5. ChatTypeOK'
  <2>1. lastAt' \in Nat
    BY <1>1 DEF ChatTypeOK
  <2>2. QED
    BY <1>1, <1>3, <1>4, <2>1 DEF ChatTypeOK, SendState
<1>6. /\ Stored' = Stored \cup {m} /\ m \notin Stored
      /\ UnderWay' = UnderWay \ {m} /\ m \in UnderWay
  BY <1>1, <1>3 DEF Stored, UnderWay
<1>7. /\ \A k \in Messages : send'[k].at = send[k].at /\ send[k].at \in Nat
      /\ Stored \subseteq Messages /\ UnderWay \subseteq Messages
  BY <1>3 DEF ChatTypeOK, Stored, UnderWay
<1>8. ActivityInv'
  <2>1. ASSUME NEW s \in Stored', NEW k \in UnderWay', send'[k].at < send'[s].at
        PROVE  k \in during'[s]
    <3>1. CASE s = m
      BY <1>4, <1>6, <2>1, <3>1
    <3>2. CASE s # m
      BY <1>4, <1>6, <1>7, <2>1, <3>2 DEF ActivityInv
    <3>3. QED
      BY <3>1, <3>2
  <2>2. ASSUME NEW s \in Stored'
        PROVE  \/ lastAt' >= send'[s].at
               \/ \E k \in during'[s] \cap Stored' : send'[k].at = lastAt'
    <3>1. CASE send[m].at < send[s].at
      <4>1. s \in Stored
        BY <1>6, <1>7, <3>1
      <4>2. m \in during[s]
        BY <1>6, <3>1, <4>1 DEF ActivityInv
      <4>3. m \in during'[s] \cap Stored'
        BY <1>4, <1>6, <1>7, <4>1, <4>2
      <4>4. QED
        BY <1>1, <1>3, <4>3
    <3>2. CASE ~(send[m].at < send[s].at)
      BY <1>1, <1>6, <1>7, <3>2
    <3>3. QED
      BY <3>1, <3>2
  <2>3. QED
    BY <2>1, <2>2 DEF ActivityInv, LastActivity
<1>9. rowLock = m /\ m \in Begun /\ m \in Published
  BY <1>1 DEF SendInv, Begun, Published
<1>10. \A k \in Messages \ {m} : rowLock' = k <=> rowLock = k
  BY <1>1, <1>9 DEF ChatAssumption
<1>11. rowLock' # m
  BY <1>1 DEF ChatAssumption
<1>12. QED
  BY <1>1, <1>3, <1>5, <1>8, <1>9, <1>10, <1>11, SendKeeps

\* A step of a send that puts its message out, under the lock.
LEMMA OutStepKeeps ==
  ASSUME ChatAssumption, ChatInv, ChatTypeOK', NEW m \in Messages,
         NEW pc \in {"published", "answered"}, Reaches(m, pc),
         send[m].pc \in {"bumped", "published"},
         clock' = clock, rowLock' = rowLock, lastAt' = lastAt, during' = during,
         page' = page, replies' \subseteq replies \cup {m},
         \A p \in Pages :
           /\ Shown(net'[p]) \subseteq Shown(net[p]) \cup {m}
           /\ missed[p] \cup Shown(net[p]) \subseteq missed'[p] \cup Shown(net'[p])
           /\ m \in Published \cup missed'[p] \cup Shown(net'[p])
  PROVE  ChatInv'
<1> USE DEF ChatInv
<1>1. pc \in SendSteps /\ pc # "new"
  BY DEF SendSteps
<1>2. /\ send'[m].pc = pc /\ send'[m].at = send[m].at
      /\ \A k \in Messages \ {m} : send'[k] = send[k]
      /\ TimesKept
  BY <1>1, ReachesTyped
<1>3. m \in UnderWay /\ m \in Begun /\ rowLock = m
  BY DEF UnderWay, Begun, SendInv
<1>4. ActivityInv'
  <2>1. Stored' = Stored /\ UnderWay' \subseteq UnderWay \cup {m}
    BY <1>2 DEF Stored, UnderWay
  <2>2. QED
    BY <1>2, <1>3, <2>1, ActivityQuiet
<1>5. QED
  BY <1>2, <1>3, <1>4, SendKeeps

\* Redis hands the message to the pages that listen; the others miss it.
LEMMA PublishKeeps ==
  ASSUME ChatAssumption, ChatInv, NEW m \in Messages, Publish(m) \/ PublishFails(m)
  PROVE  ChatInv'
<1> USE DEF ChatInv
<1>1. /\ send[m].pc = "bumped" /\ Reaches(m, "published")
      /\ owner' = owner /\ clock' = clock /\ rowLock' = rowLock /\ lastAt' = lastAt
      /\ during' = during /\ replies' = replies /\ page' = page /\ socket' = socket
  BY DEF Publish, PublishFails, MayPublish
<1>2. "published" \in SendSteps
  BY DEF SendSteps
<1>3. \A p \in Pages : net[p] \in Seq(Messages)
  BY DEF ChatTypeOK
<1>4. /\ net' \in [Pages -> Seq(Messages)] /\ missed' \in [Pages -> SUBSET Messages]
      /\ losses' \in [Pages -> 0 .. MaxLosses]
      /\ \A p \in Pages :
           /\ Shown(net'[p]) \subseteq Shown(net[p]) \cup {m}
           /\ missed[p] \cup Shown(net[p]) \subseteq missed'[p] \cup Shown(net'[p])
           /\ m \in missed'[p] \cup Shown(net'[p])
  <2>1. CASE Publish(m)
    <3>0. PICK deaf \in SUBSET {p \in Pages : socket[p] = "subscribed" /\ losses[p] < MaxLosses} :
            /\ net' = [p \in Pages |-> IF socket[p] = "subscribed" /\ p \notin deaf
                                       THEN Append(net[p], m) ELSE net[p]]
            /\ missed' = [p \in Pages |-> IF socket[p] = "subscribed" /\ p \notin deaf
                                          THEN missed[p] ELSE missed[p] \cup {m}]
            /\ losses' = [p \in Pages |-> IF p \in deaf THEN losses[p] + 1 ELSE losses[p]]
      BY <2>1 DEF Publish
    <3>1. losses' \in [Pages -> 0 .. MaxLosses]
      <4>1. \A p \in Pages : losses[p] \in 0 .. MaxLosses
        BY DEF ChatTypeOK
      <4>2. \A p \in deaf : losses[p] + 1 \in 0 .. MaxLosses
        BY <4>1 DEF ChatAssumption
      <4> QED BY <3>0, <4>1, <4>2
    <3>2. \A p \in Pages : /\ Append(net[p], m) \in Seq(Messages)
                           /\ Shown(Append(net[p], m)) = Shown(net[p]) \cup {m}
      BY <1>3, ShownAppend
    <3>3. missed \in [Pages -> SUBSET Messages]
      BY DEF ChatTypeOK
    <3>4. \A p \in Pages :
            /\ net'[p] \in Seq(Messages) /\ missed'[p] \in SUBSET Messages
            /\ \/ Shown(net'[p]) = Shown(net[p]) \cup {m} /\ missed'[p] = missed[p]
               \/ net'[p] = net[p] /\ missed'[p] = missed[p] \cup {m}
      BY <1>3, <3>0, <3>2, <3>3
    <3>5. net' \in [Pages -> Seq(Messages)] /\ missed' \in [Pages -> SUBSET Messages]
      BY <3>0, <3>4
    <3>6. \A p \in Pages :
            /\ Shown(net'[p]) \subseteq Shown(net[p]) \cup {m}
            /\ missed[p] \cup Shown(net[p]) \subseteq missed'[p] \cup Shown(net'[p])
            /\ m \in missed'[p] \cup Shown(net'[p])
      <4> SUFFICES ASSUME NEW p \in Pages
                   PROVE  /\ Shown(net'[p]) \subseteq Shown(net[p]) \cup {m}
                          /\ missed[p] \cup Shown(net[p]) \subseteq missed'[p] \cup Shown(net'[p])
                          /\ m \in missed'[p] \cup Shown(net'[p])
        OBVIOUS
      <4>1. \/ Shown(net'[p]) = Shown(net[p]) \cup {m} /\ missed'[p] = missed[p]
            \/ net'[p] = net[p] /\ missed'[p] = missed[p] \cup {m}
        BY <3>4
      <4>2. CASE Shown(net'[p]) = Shown(net[p]) \cup {m} /\ missed'[p] = missed[p]
        BY <4>2
      <4>3. CASE net'[p] = net[p] /\ missed'[p] = missed[p] \cup {m}
        <5>1. Shown(net'[p]) = Shown(net[p])
          BY <4>3 DEF Shown
        <5> QED BY <4>3, <5>1
      <4> QED BY <4>1, <4>2, <4>3
    <3>7. QED
      BY <3>1, <3>5, <3>6
  <2>2. CASE PublishFails(m)
    BY <2>2 DEF PublishFails, ChatTypeOK
  <2>3. QED
    BY <2>1, <2>2 DEF Publish, PublishFails
<1>5. ChatTypeOK'
  BY <1>1, <1>2, <1>4, ReachesTyped DEF ChatTypeOK, SendState
<1>6. QED
  BY <1>1, <1>4, <1>5, OutStepKeeps

LEMMA AnswerSendKeeps ==
  ASSUME ChatAssumption, ChatInv, NEW m \in Messages, AnswerSend(m)
  PROVE  ChatInv'
<1> USE DEF ChatInv
<1>1. /\ send[m].pc = "published" /\ Reaches(m, "answered")
      /\ replies' \subseteq replies \cup {m}
      /\ owner' = owner /\ clock' = clock /\ rowLock' = rowLock /\ lastAt' = lastAt
      /\ during' = during /\ page' = page /\ socket' = socket
      /\ net' = net /\ losses' = losses /\ missed' = missed
  BY DEF AnswerSend, pageVars
<1>2. "answered" \in SendSteps
  BY DEF SendSteps
<1>3. ChatTypeOK'
  BY <1>1, <1>2, ReachesTyped DEF ChatTypeOK, SendState
<1>4. m \in Published
  BY <1>1 DEF Published
<1>5. QED
  BY <1>1, <1>3, <1>4, OutStepKeeps

-----------------------------------------------------------------------------
(* The steps of a page.                                                    *)

\* A step that changes no message and no page.
LEMMA StillKeeps ==
  ASSUME ChatAssumption, ChatInv, ChatTypeOK',
         clock' = clock, send' = send, rowLock' = rowLock, lastAt' = lastAt,
         during' = during, replies' = replies, page' = page, net' = net,
         missed' = missed
  PROVE  ChatInv'
<1>1. Nobody \notin Pages
  BY DEF ChatAssumption
<1>2. QED
  BY <1>1, PageKeeps

LEMMA ClaimedKeeps ==
  ASSUME ChatAssumption, ChatInv, NEW u \in Claimants \cup {Nobody}, Claimed(u)
  PROVE  ChatInv'
<1>1. ChatTypeOK'
  BY DEF Claimed, pageVars, ChatInv, ChatTypeOK
<1>2. QED
  BY <1>1, StillKeeps DEF Claimed, pageVars

LEMMA PlugsKeeps ==
  ASSUME ChatAssumption, ChatInv, NEW p \in Pages, NEW state \in SocketStates,
         Plugs(p, state)
  PROVE  ChatInv'
<1>1. ChatTypeOK'
  BY DEF Plugs, apiVars, ChatInv, ChatTypeOK
<1>2. QED
  BY <1>1, StillKeeps DEF Plugs, apiVars

\* A message that is out is merged into a page: what was on its way to the page
\* is still so, missed, or is the message itself.
LEMMA MergeKeeps ==
  ASSUME ChatAssumption, ChatInv, NEW m \in Out, NEW p, Merges(p, m),
         owner' = owner, clock' = clock, send' = send, rowLock' = rowLock,
         lastAt' = lastAt, during' = during, socket' = socket, losses' = losses,
         replies' \subseteq replies,
         net' \in [Pages -> Seq(Messages)], missed' \in [Pages -> SUBSET Messages],
         \A q \in Pages \ {p} : net'[q] = net[q] /\ missed'[q] = missed[q],
         m \in replies \/ (p \in Pages /\ m \in Shown(net[p])),
         p \in Pages =>
           /\ Shown(net'[p]) \subseteq Shown(net[p])
           /\ missed[p] \cup Shown(net[p]) \subseteq missed'[p] \cup Shown(net'[p])
                \cup (IF page[p].pc = "ready" THEN {m} ELSE {})
  PROVE  ChatInv'
<1> USE DEF ChatInv
<1>1. /\ page' \in [Pages -> PageState]
      /\ \A q \in Pages \ {p} : page'[q] = page[q]
      /\ p \in Pages =>
           /\ page'[p].pc = page[p].pc /\ page'[p].history = page[p].history
           /\ Ordered(page'[p].items)
           /\ page[p].pc = "ready" => Holds(page'[p]) = Loaded(p) \cup {m}
           /\ page[p].pc # "ready" => page'[p] = page[p]
  BY MergesShow
<1>2. ChatTypeOK'
  BY <1>1 DEF ChatTypeOK, PageState
<1>3. TimesKept
  BY DEF TimesKept, Begun
<1>4. ASSUME p \in Pages
      PROVE  /\ Loaded(p) \subseteq Holds(page'[p])
             /\ page[p].pc = "ready" => m \in Holds(page'[p])
             /\ Holds(page'[p]) \subseteq Loaded(p) \cup {m}
             /\ Loaded(p)' = Holds(page'[p])
  BY <1>1, <1>4, HoldsLoaded
<1>5. ASSUME p \in Pages, page'[p].pc # "error"
      PROVE  \A k \in Published \ (missed'[p] \cup Shown(net'[p]) \cup Holds(page'[p])) :
               Cardinality(NewerIn(Holds(page'[p]), k)) >= HistoryLimit
  <2>1. Loaded(p) \subseteq Begun /\ m \in Begun
    BY <1>5, OutBegun
  <2>2. Holds(page'[p]) \subseteq Begun
    BY <1>4, <1>5, <2>1
  <2>3. Published' = Published /\ Begun' = Begun
    BY DEF Published, Begun
  <2>4. \A k \in Published' \ (missed'[p] \cup Shown(net'[p]) \cup Loaded(p)') :
          Cardinality(NewerIn(Loaded(p), k)') >= HistoryLimit
    <3>1. page[p].pc # "error" /\ Loaded(p) \subseteq Loaded(p)' /\ Loaded(p)' \subseteq Begun'
      BY <1>1, <1>4, <1>5, <2>2, <2>3
    <3>2. missed[p] \cup Shown(net[p])
            \subseteq missed'[p] \cup Shown(net'[p]) \cup Loaded(p)'
      BY <1>4, <1>5
    <3>3. QED
      BY <1>2, <1>3, <1>5, <2>3, <3>1, <3>2, CompleteKept
  <2>5. \A k : NewerIn(Loaded(p), k)' = NewerIn(Holds(page'[p]), k)
    BY <1>4, <1>5 DEF NewerIn
  <2>6. QED
    BY <1>4, <1>5, <2>3, <2>4, <2>5
<1>6. p \in Pages =>
        /\ Ordered(page'[p].history)
        /\ page'[p].pc \in {"loading", "read"} => page'[p].items = <<>>
        /\ page'[p].pc # "read" => page'[p].history = <<>>
  BY <1>1 DEF OrderInv
<1>7. p \in Pages => Holds(page'[p]) \subseteq Loaded(p) \cup replies \cup Shown(net[p])
  BY <1>4
<1>8. QED
  BY <1>1, <1>2, <1>5, <1>6, <1>7, PageKeeps

\* The page shows the answer to its own send.
LEMMA ShowReplyKeeps ==
  ASSUME ChatAssumption, ChatInv, NEW m \in Messages, ShowReply(m)
  PROVE  ChatInv'
<1> DEFINE p == SentFrom[m]
<1>1. /\ m \in replies /\ replies' = replies \ {m} /\ Merges(p, m)
      /\ owner' = owner /\ clock' = clock /\ send' = send /\ rowLock' = rowLock
      /\ lastAt' = lastAt /\ during' = during /\ socket' = socket
      /\ net' = net /\ losses' = losses /\ missed' = missed
  BY DEF ShowReply, apiVars
<1>2. m \in Out
  BY <1>1 DEF Out
<1>3. net' \in [Pages -> Seq(Messages)] /\ missed' \in [Pages -> SUBSET Messages]
  BY <1>1 DEF ChatInv, ChatTypeOK
<1> HIDE DEF p
<1>4. QED
  BY <1>1, <1>2, <1>3, MergeKeeps

\* A push arrives: shown by a page that is ready, dropped by any other.
LEMMA ReceiveKeeps ==
  ASSUME ChatAssumption, ChatInv, NEW p \in Pages, Receive(p)
  PROVE  ChatInv'
<1> DEFINE m == Head(net[p])
<1>1. /\ net[p] # <<>> /\ net' = [net EXCEPT ![p] = Tail(@)] /\ Merges(p, m)
      /\ missed' = IF page[p].pc = "ready" THEN missed
                   ELSE [missed EXCEPT ![p] = @ \cup {m}]
      /\ owner' = owner /\ clock' = clock /\ send' = send /\ rowLock' = rowLock
      /\ lastAt' = lastAt /\ during' = during /\ socket' = socket
      /\ losses' = losses /\ replies' = replies
  BY DEF Receive, apiVars
<1>2. net \in [Pages -> Seq(Messages)] /\ missed \in [Pages -> SUBSET Messages]
  BY DEF ChatInv, ChatTypeOK
<1>3. /\ m \in Messages /\ Tail(net[p]) \in Seq(Messages)
      /\ Shown(net[p]) = {m} \cup Shown(Tail(net[p]))
  BY <1>1, <1>2, ShownTail
<1>4. m \in Out
  BY <1>3 DEF Out
<1> HIDE DEF m
<1>5. /\ net' \in [Pages -> Seq(Messages)] /\ missed' \in [Pages -> SUBSET Messages]
      /\ net'[p] = Tail(net[p])
      /\ \A q \in Pages \ {p} : net'[q] = net[q] /\ missed'[q] = missed[q]
      /\ page[p].pc = "ready" => missed'[p] = missed[p]
      /\ page[p].pc # "ready" => missed'[p] = missed[p] \cup {m}
  BY <1>1, <1>2, <1>3
<1>6. QED
  BY <1>1, <1>3, <1>4, <1>5, MergeKeeps

\* The history is read from what is stored: a stored message that it lacks is
\* older than all of it, and it is full.
LEMMA HistoryReaches ==
  ASSUME ChatAssumption, ChatTypeOK, SendInv, NEW m \in Stored \ Shown(History(Stored))
  PROVE  Cardinality(NewerIn(Shown(History(Stored)), m)) >= HistoryLimit
<1> DEFINE H == {k \in Stored : Cardinality(NewerIn(Stored, k)) < HistoryLimit}
           time == [k \in Stored |-> send[k].at]
<1>1. Stored \in SUBSET Messages /\ Stored \subseteq Begun /\ IsFiniteSet(Stored)
  BY FS_Subset DEF Stored, Begun, ChatAssumption
<1>2. Shown(History(Stored)) = H
  BY <1>1, InOrderSorts DEF History
<1>3. HistoryLimit \in Nat
  BY DEF ChatAssumption
<1>4. time \in [Stored -> Nat] /\ send[m].at \in Nat
  BY <1>1 DEF ChatTypeOK
<1>5. \A x, y \in Stored : time[x] = time[y] => x = y
  BY <1>1 DEF SendInv
<1>6. \A k \in Stored : NewerIn(Stored, k) = {y \in Stored : time[y] > time[k]}
  BY DEF NewerIn
<1>7. NewerIn(Stored, m) = {y \in Stored : time[y] > send[m].at}
  BY DEF NewerIn
<1>8. Cardinality(NewerIn(Stored, m)) \in Nat
  <2>1. NewerIn(Stored, m) \in SUBSET Stored
    BY DEF NewerIn
  <2>2. QED
    BY <1>1, <2>1, FS_Subset, FS_CardinalityType
<1>9. Cardinality(NewerIn(Stored, m)) >= HistoryLimit
  BY <1>2, <1>3, <1>8
<1>10. NewerIn(H, m) =
         {x \in Stored : /\ time[x] > send[m].at
                        /\ Cardinality({y \in Stored : time[y] > time[x]}) < HistoryLimit}
  <2>1. NewerIn(H, m) = {x \in H : time[x] > send[m].at}
    BY DEF NewerIn
  <2>2. QED
    BY <1>6, <2>1
<1> HIDE DEF time, H
<1> DEFINE t == send[m].at
          L == HistoryLimit
          S == Stored
<1>11. Cardinality({y \in S : time[y] > t}) >= L
  BY <1>7, <1>9
<1>12. /\ IsFiniteSet(S) /\ time \in [S -> Nat] /\ t \in Nat /\ L \in Nat
       /\ \A x, y \in S : time[x] = time[y] => x = y
  BY <1>1, <1>3, <1>4, <1>5
<1>13. Cardinality({x \in S : /\ time[x] > t
                            /\ Cardinality({y \in S : time[y] > time[x]}) < L}) >= L
  <2> HIDE DEF t, L, S
  <2>1. QED
    BY <1>11, <1>12, LatestSuffice
<1>14. QED
  BY <1>2, <1>10, <1>13

LEMMA ReadHistoryKeeps ==
  ASSUME ChatAssumption, ChatInv, NEW p \in Pages, ReadHistory(p)
  PROVE  ChatInv'
<1> USE DEF ChatInv
<1> DEFINE h == History(Stored)
<1>1. /\ page[p].pc = "loading"
      /\ owner' = owner /\ clock' = clock /\ send' = send /\ rowLock' = rowLock
      /\ lastAt' = lastAt /\ during' = during /\ socket' = socket
      /\ losses' = losses /\ replies' = replies /\ net' = net
  BY DEF ReadHistory, apiVars
<1>2. page \in [Pages -> PageState] /\ missed \in [Pages -> SUBSET Messages]
  BY DEF ChatTypeOK, PageState
<1>3. page[p].items = <<>> /\ page[p].history = <<>>
  BY <1>1 DEF OrderInv
<1>4. {m \in Stored : Cardinality(NewerIn(Stored, m)) < HistoryLimit} \in SUBSET Begun
  BY DEF Stored, Begun
<1>5. /\ h \in Seq(Messages) /\ Ordered(h)
      /\ Shown(h) = {m \in Stored : Cardinality(NewerIn(Stored, m)) < HistoryLimit}
  BY <1>4, InOrderSorts DEF History
<1>6. Loaded(p) = {} /\ Ordered(<<>>)
  BY <1>3, ShownEmpty DEF Loaded, Ordered
<1>7. CASE CanAccess(UserOf[p])
  <2>1. /\ page' = [page EXCEPT ![p].pc = "read", ![p].history = h]
        /\ missed' = [missed EXCEPT ![p] = @ \ Stored]
    BY <1>7 DEF ReadHistory
  <2> HIDE DEF h
  <2>2. /\ page' \in [Pages -> PageState] /\ missed' \in [Pages -> SUBSET Messages]
        /\ page'[p].pc = "read" /\ page'[p].items = <<>> /\ page'[p].history = h
        /\ missed'[p] = missed[p] \ Stored
        /\ \A q \in Pages \ {p} : page'[q] = page[q] /\ missed'[q] = missed[q]
    <3> DEFINE state == [page[p] EXCEPT !.pc = "read", !.history = h]
    <3>1. page[p] \in PageState
      BY <1>2
    <3>2. /\ state \in PageState /\ state.pc = "read"
          /\ state.items = page[p].items /\ state.history = h
      BY <1>5, <3>1 DEF PageState
    <3>3. page' = [page EXCEPT ![p] = state]
      BY <2>1
    <3> HIDE DEF state
    <3>4. /\ page' \in [Pages -> PageState] /\ page'[p] = state
          /\ \A q \in Pages \ {p} : page'[q] = page[q]
      BY <1>2, <3>2, <3>3
    <3>5. /\ missed' \in [Pages -> SUBSET Messages] /\ missed'[p] = missed[p] \ Stored
          /\ \A q \in Pages \ {p} : missed'[q] = missed[q]
      BY <1>2, <2>1
    <3>6. QED
      BY <1>3, <3>2, <3>4, <3>5
  <2>3. ChatTypeOK'
    BY <1>1, <2>2 DEF ChatTypeOK, PageState
  <2>4. Holds(page'[p]) = Shown(h)
    BY <2>2, ShownEmpty DEF Holds
  <2>5. ASSUME NEW m \in Published \ (missed'[p] \cup Shown(net'[p]) \cup Shown(h))
        PROVE  Cardinality(NewerIn(Shown(h), m)) >= HistoryLimit
    <3>1. NewerIn({}, m) = {}
      BY DEF NewerIn
    <3>2. ~(Cardinality(NewerIn({}, m)) >= HistoryLimit)
      BY <3>1, FS_EmptySet DEF ChatAssumption
    <3>3. m \in missed[p] \cup Shown(net[p])
      BY <1>1, <1>6, <3>2 DEF CompleteInv
    <3>4. m \in Stored \ Shown(h)
      BY <1>1, <2>2, <2>5, <3>3
    <3>5. QED
      BY <3>4, HistoryReaches DEF h
  <2>6. Shown(h) \subseteq Stored
    BY <1>5
  <2>7. QED
    BY <1>1, <1>5, <1>6, <2>2, <2>3, <2>4, <2>5, <2>6, PageKeeps
<1>8. CASE ~CanAccess(UserOf[p])
  <2>1. page' = [page EXCEPT ![p].pc = "error"] /\ missed' = missed
    BY <1>8 DEF ReadHistory
  <2>2. /\ page' \in [Pages -> PageState]
        /\ page'[p].pc = "error" /\ page'[p].items = <<>> /\ page'[p].history = <<>>
        /\ \A q \in Pages \ {p} : page'[q] = page[q]
    <3> DEFINE state == [page[p] EXCEPT !.pc = "error"]
    <3>1. page[p] \in PageState
      BY <1>2
    <3>2. /\ state \in PageState /\ state.pc = "error"
          /\ state.items = page[p].items /\ state.history = page[p].history
      BY <3>1 DEF PageState
    <3>3. page' = [page EXCEPT ![p] = state]
      BY <2>1
    <3> HIDE DEF state
    <3>4. /\ page' \in [Pages -> PageState] /\ page'[p] = state
          /\ \A q \in Pages \ {p} : page'[q] = page[q]
      BY <1>2, <3>2, <3>3
    <3>5. QED
      BY <1>3, <3>2, <3>4
  <2>3. ChatTypeOK'
    BY <1>1, <1>2, <2>1, <2>2 DEF ChatTypeOK, PageState
  <2>4. Holds(page'[p]) = {}
    BY <2>2, ShownEmpty DEF Holds
  <2>5. QED
    BY <1>1, <1>6, <2>1, <2>2, <2>3, <2>4, PageKeeps
<1>9. QED
  BY <1>7, <1>8

\* The history is shown as it was read.
LEMMA ShowHistoryKeeps ==
  ASSUME ChatAssumption, ChatInv, NEW p \in Pages, ShowHistory(p)
  PROVE  ChatInv'
<1> USE DEF ChatInv
<1> DEFINE h == page[p].history
<1>1. /\ page[p].pc = "read"
      /\ page' = [page EXCEPT ![p] = [pc |-> "ready", items |-> h, history |-> <<>>]]
      /\ owner' = owner /\ clock' = clock /\ send' = send /\ rowLock' = rowLock
      /\ lastAt' = lastAt /\ during' = during /\ socket' = socket
      /\ losses' = losses /\ replies' = replies /\ net' = net /\ missed' = missed
  BY DEF ShowHistory, apiVars
<1>2. page \in [Pages -> PageState] /\ h \in Seq(Messages) /\ <<>> \in Seq(Messages)
  BY DEF ChatTypeOK, PageState
<1>3. page[p].items = <<>> /\ Ordered(h)
  BY <1>1 DEF OrderInv
<1>4. Loaded(p) = Shown(h) /\ Ordered(<<>>)
  BY <1>3, ShownEmpty DEF Loaded, Ordered
<1> HIDE DEF h
<1>5. /\ page' \in [Pages -> PageState]
      /\ page'[p].pc = "ready" /\ page'[p].items = h /\ page'[p].history = <<>>
      /\ \A q \in Pages \ {p} : page'[q] = page[q]
  BY <1>1, <1>2 DEF PageState
<1>6. ChatTypeOK'
  BY <1>1, <1>5 DEF ChatTypeOK, PageState
<1>7. Holds(page'[p]) = Shown(h)
  BY <1>5, ShownEmpty DEF Holds
<1>8. \A m \in Published \ (missed'[p] \cup Shown(net'[p]) \cup Shown(h)) :
        Cardinality(NewerIn(Shown(h), m)) >= HistoryLimit
  BY <1>1, <1>4 DEF CompleteInv
<1>9. QED
  BY <1>1, <1>3, <1>4, <1>5, <1>6, <1>7, <1>8, PageKeeps

LEMMA LoadingFailsKeeps ==
  ASSUME ChatAssumption, ChatInv, NEW p \in Pages, LoadingFails(p)
  PROVE  ChatInv'
<1> USE DEF ChatInv
<1>1. /\ page[p].pc \in {"loading", "read"}
      /\ page' = [page EXCEPT ![p].pc = "error", ![p].history = <<>>]
      /\ owner' = owner /\ clock' = clock /\ send' = send /\ rowLock' = rowLock
      /\ lastAt' = lastAt /\ during' = during /\ socket' = socket
      /\ losses' = losses /\ replies' = replies /\ net' = net /\ missed' = missed
  BY DEF LoadingFails, apiVars
<1>2. page \in [Pages -> PageState] /\ page[p].items = <<>>
  BY <1>1 DEF ChatTypeOK, PageState, OrderInv
<1>3. <<>> \in Seq(Messages) /\ Ordered(<<>>)
  BY DEF Ordered
<1>4. /\ page' \in [Pages -> PageState]
      /\ page'[p].pc = "error" /\ page'[p].items = <<>> /\ page'[p].history = <<>>
      /\ \A q \in Pages \ {p} : page'[q] = page[q]
  BY <1>1, <1>2, <1>3 DEF PageState
<1>5. ChatTypeOK'
  BY <1>1, <1>4 DEF ChatTypeOK, PageState
<1>6. Holds(page'[p]) = {}
  BY <1>4, ShownEmpty DEF Holds
<1>7. QED
  BY <1>1, <1>3, <1>4, <1>5, <1>6, PageKeeps

\* The pushes on the way to a socket that is lost are missed.
LEMMA SocketLostKeeps ==
  ASSUME ChatAssumption, ChatInv, NEW p \in Pages, SocketLost(p)
  PROVE  ChatInv'
<1> USE DEF ChatInv
<1>1. /\ losses[p] < MaxLosses
      /\ losses' = [losses EXCEPT ![p] = @ + 1]
      /\ socket' = [socket EXCEPT ![p] = "closed"]
      /\ net' = [net EXCEPT ![p] = <<>>]
      /\ missed' = [missed EXCEPT ![p] = @ \cup Shown(net[p])]
      /\ owner' = owner /\ clock' = clock /\ send' = send /\ rowLock' = rowLock
      /\ lastAt' = lastAt /\ during' = during /\ replies' = replies /\ page' = page
  BY DEF SocketLost, apiVars
<1>2. /\ net \in [Pages -> Seq(Messages)] /\ missed \in [Pages -> SUBSET Messages]
      /\ losses \in [Pages -> 0 .. MaxLosses] /\ socket \in [Pages -> SocketStates]
      /\ Shown(net[p]) \subseteq Messages
  BY ShownTyped DEF ChatTypeOK
<1>3. losses[p] + 1 \in 0 .. MaxLosses /\ "closed" \in SocketStates
      /\ <<>> \in Seq(Messages)
  BY <1>1, <1>2 DEF SocketStates, ChatAssumption
<1>4. /\ net' \in [Pages -> Seq(Messages)] /\ missed' \in [Pages -> SUBSET Messages]
      /\ losses' \in [Pages -> 0 .. MaxLosses] /\ socket' \in [Pages -> SocketStates]
      /\ net'[p] = <<>> /\ missed'[p] = missed[p] \cup Shown(net[p])
      /\ \A q \in Pages \ {p} : net'[q] = net[q] /\ missed'[q] = missed[q]
  BY <1>1, <1>2, <1>3
<1>5. ChatTypeOK'
  BY <1>1, <1>4 DEF ChatTypeOK
<1>6. Shown(net'[p]) = {} /\ Holds(page'[p]) = Loaded(p)
  BY <1>1, <1>4, ShownEmpty DEF Holds, Loaded
<1>7. page[p].pc # "error" =>
        \A m \in Published \ (missed'[p] \cup Shown(net'[p]) \cup Loaded(p)) :
          Cardinality(NewerIn(Loaded(p), m)) >= HistoryLimit
  BY <1>4 DEF CompleteInv
<1>8. QED
  BY <1>1, <1>4, <1>5, <1>6, <1>7, PageKeeps DEF OrderInv

-----------------------------------------------------------------------------
(* The results about the chat.                                             *)

\* Nothing is sent and no page loaded at first.
LEMMA ChatInitInv == ASSUME ChatAssumption, ChatInit PROVE ChatInv
<1>1. ChatTypeOK
  BY DEF ChatInit, ChatTypeOK, SendSteps, SocketStates, ChatAssumption
<1>2. Begun = {} /\ Stored = {} /\ Published = {}
  BY DEF ChatInit, Begun, Stored, Published
<1>3. Out = {}
  BY ShownEmpty DEF ChatInit, Out, Loaded
<1>4. SendInv
  BY <1>2, <1>3 DEF ChatInit, SendInv, ChatAssumption
<1>5. ActivityInv /\ CompleteInv
  BY <1>2 DEF ActivityInv, LastActivity, CompleteInv
<1>6. OrderInv
  BY DEF ChatInit, OrderInv, Ordered
<1>7. QED
  BY <1>1, <1>4, <1>5, <1>6 DEF ChatInv

\* Every step of a send, of a page and of the claim flow keeps the invariant.
LEMMA ChatNextInv == ASSUME ChatAssumption, ChatInv, [ChatNext]_chatVars PROVE ChatInv'
<1>1. CASE UNCHANGED chatVars
  <2>1. /\ owner' = owner /\ clock' = clock /\ send' = send /\ rowLock' = rowLock
        /\ lastAt' = lastAt /\ during' = during /\ replies' = replies /\ page' = page
        /\ socket' = socket /\ net' = net /\ losses' = losses /\ missed' = missed
    BY <1>1 DEF chatVars, apiVars, pageVars
  <2>2. ChatTypeOK'
    BY <2>1 DEF ChatInv, ChatTypeOK
  <2>3. QED
    BY <2>1, <2>2, StillKeeps
<1>2. ASSUME NEW u \in Claimants \cup {Nobody}, Claimed(u) PROVE ChatInv'
  BY <1>2, ClaimedKeeps
<1>3. ASSUME NEW m \in Messages,
             \/ OpenSend(m) \/ InsertMessage(m) \/ BumpConversation(m) \/ Publish(m)
             \/ PublishFails(m) \/ AnswerSend(m) \/ CommitSend(m) \/ SendFails(m)
             \/ ShowReply(m)
      PROVE  ChatInv'
  BY <1>3, OpenKeeps, InsertMessageKeeps, BumpKeeps, PublishKeeps, AnswerSendKeeps,
     CommitSendKeeps, SendFailsKeeps, ShowReplyKeeps
<1>4. ASSUME NEW p \in Pages,
             Connect(p) \/ ConnectFails(p) \/ Accept(p) \/ Subscribe(p)
      PROVE  ChatInv'
  BY <1>4, PlugsKeeps DEF Connect, ConnectFails, Accept, Subscribe, SocketStates
<1>5. ASSUME NEW p \in Pages,
             \/ ReadHistory(p) \/ ShowHistory(p) \/ LoadingFails(p)
             \/ SocketLost(p) \/ Receive(p)
      PROVE  ChatInv'
  BY <1>5, ReadHistoryKeeps, ShowHistoryKeeps, LoadingFailsKeeps, SocketLostKeeps,
     ReceiveKeeps
<1>6. QED
  BY <1>1, <1>2, <1>3, <1>4, <1>5 DEF ChatNext

\* The invariant holds for any numbers of users, sends, pages and lost sockets.
THEOREM ChatIsSound == ChatSpec => []ChatInv
<1>1. ChatInit => ChatInv
  BY ChatAssumption, ChatInitInv
<1>2. ChatInv /\ [ChatNext]_chatVars => ChatInv'
  BY ChatAssumption, ChatNextInv
<1>3. QED
  BY <1>1, <1>2, PTL DEF ChatSpec

\* A page shows every message once and by created_at, whatever comes first of the
\* history, the pushes and the answers to its own sends.
THEOREM PagesStayInOrder == ChatSpec => []PagesInOrder
<1>1. ChatInv => PagesInOrder
  BY DEF ChatInv, OrderInv, PagesInOrder
<1>2. QED
  BY <1>1, ChatIsSound, PTL

\* A message that left the API before its commit was rolled back, is stored, or
\* is the only one whose transaction holds the conversation's row.
THEOREM OneMessageAheadOfCommit == ChatSpec => []OutAheadOfCommit
<1>1. ChatInv => OutAheadOfCommit
  <2> SUFFICES ASSUME ChatInv, NEW m \in Messages,
                      \/ m \in replies
                      \/ \E p \in Pages : m \in Shown(page[p].items) \cup Shown(net[p])
               PROVE  send[m].pc \in {"stored", "lost"} \/ rowLock = m
    BY DEF OutAheadOfCommit
  <2>1. m \in Out
    BY DEF Out, Loaded
  <2>2. QED
    BY <2>1 DEF ChatInv, SendInv
<1>2. QED
  BY <1>1, ChatIsSound, PTL

\* The time that orders the list of conversations falls behind a stored message
\* only through a send that was under way when that message was committed.
THEOREM LastActivityHolds == ChatSpec => []LastActivity
<1>1. ChatInv => LastActivity
  BY DEF ChatInv, ActivityInv
<1>2. QED
  BY <1>1, ChatIsSound, PTL

\* A page that shows the conversation lacks a stored message only when it is full
\* with newer ones, or the push was lost or is still on its way.
THEOREM PagesStayComplete == ChatSpec => []PagesComplete
<1>1. ChatInv => PagesComplete
  <2> SUFFICES ASSUME ChatInv, NEW p \in Pages, page[p].pc = "ready",
                      NEW m \in Stored \ (missed[p] \cup Shown(net[p])
                                          \cup Shown(page[p].items))
               PROVE  Cardinality(NewerIn(Shown(page[p].items), m)) >= HistoryLimit
    BY DEF PagesComplete
  <2>1. page[p].history = <<>>
    BY DEF ChatInv, OrderInv
  <2>2. Loaded(p) = Shown(page[p].items)
    BY <2>1, ShownEmpty DEF Loaded
  <2>3. m \in Published
    BY DEF Stored, Published
  <2>4. QED
    BY <2>2, <2>3 DEF ChatInv, CompleteInv
<1>2. QED
  BY <1>1, ChatIsSound, PTL

-----------------------------------------------------------------------------
(* The start of a conversation.                                            *)

\* A request that stops, whose row, if it had one, goes with it.
LEMMA StoppingKeeps ==
  ASSUME StartInv, NEW s \in Starts, NEW pc \in {"missing", "conflict", "lost"},
         NEW id \in Starts \cup {NoId}, Steps(s, pc, id), UNCHANGED convs,
         pc = "conflict" => convs # {}
  PROVE  StartInv'
<1>1. /\ start'[s] = [pc |-> pc, id |-> id]
      /\ \A t \in Starts \ {s} : start'[t] = start[t]
  BY DEF Steps, StartInv, StartTypeOK
<1>2. StartTypeOK'
  BY DEF Steps, StartInv, StartTypeOK
<1>3. OneConversation'
  BY <1>1 DEF StartInv, OneConversation
<1>4. \A t \in Starts : InFlight(t)' => t # s /\ InFlight(t)
  BY <1>1 DEF InFlight
<1>5. /\ \A t, u \in Starts : InFlight(t)' /\ InFlight(u)' => t = u
      /\ \A t \in Starts : InFlight(t)' => convs' = {} /\ start'[t].id = t
  BY <1>1, <1>4 DEF StartInv
<1>6. \A t \in Starts : start'[t].pc \in {"found", "served", "stored"} =>
        start'[t].id \in convs'
  BY <1>1 DEF StartInv
<1> QED BY <1>2, <1>3, <1>5, <1>6 DEF StartInv

LEMMA FindKeeps ==
  ASSUME StartInv, NEW s \in Starts, Find(s) PROVE StartInv'
<1>1. CASE convs = {}
  BY <1>1, StoppingKeeps DEF Find
<1>2. CASE convs # {}
  <2>1. PICK c \in convs : Steps(s, "found", c) /\ UNCHANGED convs
    BY <1>2 DEF Find
  <2>2. /\ start'[s] = [pc |-> "found", id |-> c] /\ c \in Starts
        /\ \A t \in Starts \ {s} : start'[t] = start[t]
    BY <2>1 DEF Steps, StartInv, StartTypeOK
  <2>3. StartTypeOK'
    BY <2>1, <2>2 DEF Steps, StartInv, StartTypeOK
  <2>4. OneConversation'
    BY <1>2, <2>1, <2>2 DEF StartInv, OneConversation
  <2>5. \A t \in Starts : ~InFlight(t)'
    BY <1>2, <2>2 DEF StartInv, InFlight
  <2>6. \A t \in Starts : start'[t].pc \in {"found", "served", "stored"} =>
          start'[t].id \in convs'
    BY <2>1, <2>2 DEF StartInv
  <2> QED BY <2>1, <2>3, <2>4, <2>5, <2>6 DEF StartInv
<1> QED BY <1>1, <1>2

LEMMA InsertKeeps ==
  ASSUME StartInv, NEW s \in Starts, InsertConversation(s) PROVE StartInv'
<1>1. /\ start[s].pc = "missing" /\ UNCHANGED convs
      /\ \A t \in Starts : ~InFlight(t)
  BY DEF InsertConversation, UniqueIndex
<1>2. CASE convs # {}
  BY <1>2, StoppingKeeps DEF InsertConversation, UniqueIndex
<1>3. CASE convs = {}
  <2>1. Steps(s, "inserted", s)
    BY <1>3 DEF InsertConversation, UniqueIndex
  <2>2. /\ start'[s] = [pc |-> "inserted", id |-> s]
        /\ \A t \in Starts \ {s} : start'[t] = start[t]
    BY <2>1 DEF Steps, StartInv, StartTypeOK
  <2>3. StartTypeOK'
    BY <1>1, <2>1 DEF Steps, StartInv, StartTypeOK
  <2>4. OneConversation'
    BY <1>1, <2>2 DEF StartInv, OneConversation
  <2>5. \A t \in Starts : InFlight(t)' => t = s
    BY <1>1, <2>2 DEF InFlight
  <2>6. \A t \in Starts : start'[t].pc \in {"found", "served", "stored"} =>
          start'[t].id \in convs'
    BY <1>1, <2>2 DEF StartInv
  <2> QED BY <1>1, <1>3, <2>2, <2>3, <2>4, <2>5, <2>6 DEF StartInv
<1> QED BY <1>2, <1>3

\* Before the commit of the one insert there is nothing to find, so nobody else
\* has an answer to give.
LEMMA AnswerKeeps ==
  ASSUME StartInv, NEW s \in Starts, AnswerStart(s) PROVE StartInv'
<1> DEFINE pc == IF start[s].pc = "found" THEN "served" ELSE "answered"
<1>1. /\ start[s].pc \in {"found", "inserted"} /\ UNCHANGED convs
      /\ Steps(s, pc, start[s].id)
  BY DEF AnswerStart
<1>2. start[s].id \in Starts \cup {NoId} /\ pc \in {"served", "answered"}
  BY DEF StartInv, StartTypeOK
<1>3. /\ start'[s] = [pc |-> pc, id |-> start[s].id]
      /\ \A t \in Starts \ {s} : start'[t] = start[t]
  BY <1>1 DEF Steps, StartInv, StartTypeOK
<1>4. StartTypeOK'
  BY <1>1, <1>2 DEF Steps, StartInv, StartTypeOK
<1>5. CASE start[s].pc = "found"
  <2>1. start[s].id \in convs /\ pc = "served"
    BY <1>5 DEF StartInv
  <2>2. \A t \in Starts : ~InFlight(t) /\ ~InFlight(t)'
    BY <2>1, <1>3 DEF StartInv, InFlight
  <2>3. \A t \in Starts : start'[t].pc \in {"found", "served", "stored"} =>
          start'[t].id \in convs'
    BY <1>1, <1>3, <2>1 DEF StartInv
  <2>4. OneConversation'
    <3>1. \A t \in Starts : start'[t].pc \in {"answered", "stored", "served"} =>
            start'[t].id \in convs
      BY <1>1, <2>2, <2>3 DEF InFlight
    <3> QED BY <3>1, <1>1, <1>3, <2>1 DEF StartInv, OneConversation
  <2> QED BY <1>1, <1>4, <2>2, <2>3, <2>4 DEF StartInv
<1>6. CASE start[s].pc = "inserted"
  <2>1. /\ InFlight(s) /\ convs = {} /\ start[s].id = s /\ pc = "answered"
        /\ \A t \in Starts : InFlight(t) => t = s
    BY <1>6 DEF StartInv, InFlight
  <2>2. \A t \in Starts : start'[t].pc \notin {"found", "served", "stored"}
    BY <1>3, <2>1 DEF StartInv
  <2>3. \A t \in Starts : InFlight(t)' => t = s
    BY <1>3, <2>1 DEF InFlight
  <2>4. OneConversation'
    BY <1>1, <1>3, <2>1, <2>2, <2>3 DEF StartInv, OneConversation, InFlight
  <2> QED BY <1>1, <1>3, <1>4, <2>1, <2>2, <2>3, <2>4 DEF StartInv
<1> QED BY <1>1, <1>5, <1>6

LEMMA CommitKeeps ==
  ASSUME StartInv, NEW s \in Starts, CommitStart(s) PROVE StartInv'
<1>1. /\ InFlight(s) /\ Steps(s, "stored", s) /\ convs' = convs \cup {s}
  BY DEF CommitStart, InFlight
<1>2. convs' = {s} /\ \A t \in Starts : InFlight(t) => t = s
  BY <1>1 DEF StartInv
<1>3. /\ start'[s] = [pc |-> "stored", id |-> s]
      /\ \A t \in Starts \ {s} : start'[t] = start[t]
  BY <1>1 DEF Steps, StartInv, StartTypeOK
<1>4. StartTypeOK'
  BY <1>1, <1>2 DEF Steps, StartInv, StartTypeOK
<1>5. \A t \in Starts : ~InFlight(t)'
  BY <1>2, <1>3 DEF InFlight
<1>6. convs = {}
  BY <1>1 DEF StartInv
<1>7. \A t \in Starts \ {s} : start'[t].pc \notin {"found", "served", "stored"}
  BY <1>3, <1>6 DEF StartInv
<1>8. OneConversation'
  BY <1>2, <1>3, <1>5, <1>7 DEF StartInv, OneConversation, InFlight
<1> QED BY <1>2, <1>3, <1>4, <1>5, <1>7, <1>8 DEF StartInv

LEMMA FailsKeeps ==
  ASSUME StartInv, NEW s \in Starts, StartFails(s) PROVE StartInv'
<1>1. start[s].id \in Starts \cup {NoId}
  BY DEF StartInv, StartTypeOK
<1> QED BY <1>1, StoppingKeeps DEF StartFails

\* The invariant behind the conversation's identity (services/chat.py:98-122):
\* one insert is in flight, and only while the pair has no conversation.
THEOREM StartIsSound == StartSpec => []StartInv
<1>1. StartInit => StartInv
  BY DEF StartInit, StartInv, StartTypeOK, OneConversation, InFlight, NoStart
<1>2. StartInv /\ [StartNext]_startVars => StartInv'
  <2>1. SUFFICES ASSUME StartInv, [StartNext]_startVars PROVE StartInv'
    OBVIOUS
  <2>2. CASE UNCHANGED startVars
    BY <2>1, <2>2 DEF startVars, StartInv, StartTypeOK, OneConversation, InFlight
  <2>3. CASE StartNext
    BY <2>1, <2>3, FindKeeps, InsertKeeps, AnswerKeeps, CommitKeeps, FailsKeeps
       DEF StartNext
  <2> QED BY <2>1, <2>2, <2>3
<1> QED BY <1>1, <1>2, PTL DEF StartSpec

\* However many requests start a conversation at once, all answers name one
\* conversation, unless a request was rolled back after it answered.
THEOREM PairHasOneConversation == StartSpec => []OneConversation
<1>1. StartInv => OneConversation
  BY DEF StartInv
<1> QED BY <1>1, StartIsSound, PTL

=============================================================================
