--------------------------- MODULE CatalogProofs ----------------------------
(***************************************************************************)
(* Proofs about the search, the listing and the index, for any catalogue   *)
(* of providers, any queries and any number of reindexes.                  *)
(***************************************************************************)
EXTENDS CatalogSearch, FiniteSetTheorems, SequenceTheorems, TLAPS

-----------------------------------------------------------------------------
(* Orders, pages and what is kept of a page.                               *)

Distinct(s) == \A i, j \in DOMAIN s : s[i] = s[j] => i = j

\* An order of a set is a sequence that has each of its elements once.
LEMMA OrderFacts ==
  ASSUME NEW S, IsFiniteSet(S), NEW s \in Orders(S)
  PROVE  /\ s \in Seq(S) /\ Distinct(s)
         /\ Len(s) = Cardinality(S) /\ Elements(s) = S
<1> DEFINE n == Cardinality(S)
<1>1. n \in Nat
  BY FS_CardinalityType
<1>2. s \in [1 .. n -> S] /\ Distinct(s)
  BY DEF Orders, Distinct
<1>3. s \in Seq(S) /\ Len(s) = n /\ DOMAIN s = 1 .. n
  BY <1>1, <1>2, SeqDef
<1>4. s \in Injection(1 .. n, S)
  BY <1>2 DEF Injection, IsInjective, Distinct
<1>5. Cardinality(1 .. n) = n
  BY <1>1, FS_Interval
<1>6. s \in Surjection(1 .. n, S)
  BY <1>4, <1>5, FS_Injection
<1> QED BY <1>2, <1>3, <1>6 DEF Surjection, Elements

\* A sequence without repetitions is as long as its elements are many.
LEMMA DistinctLength ==
  ASSUME NEW S, NEW s \in Seq(S), Distinct(s)
  PROVE  Cardinality(Elements(s)) = Len(s)
<1> DEFINE n == Len(s)
<1>1. n \in Nat /\ DOMAIN s = 1 .. n /\ s \in [1 .. n -> S]
  BY LenProperties
<1>2. s \in [1 .. n -> Elements(s)]
  BY <1>1 DEF Elements
<1>3. s \in Surjection(1 .. n, Elements(s)) /\ s \in Injection(1 .. n, Elements(s))
  BY <1>1, <1>2 DEF Surjection, Injection, IsInjective, Distinct, Elements
<1>4. IsFiniteSet(1 .. n) /\ Cardinality(1 .. n) = n
  BY <1>1, FS_Interval
<1> QED BY <1>3, <1>4, FS_Surjection

\* A page of a sequence.
LEMMA PageFacts ==
  ASSUME NEW S, NEW s \in Seq(S), NEW limit \in Nat, NEW offset \in Nat
  PROVE  LET page == PageOf(s, limit, offset)
         IN  /\ page \in Seq(S)
             /\ Len(page) = PageLength(Len(s), limit, offset)
             /\ \A i \in DOMAIN page : i + offset \in DOMAIN s /\ page[i] = s[i + offset]
             /\ Elements(page) \subseteq Elements(s)
             /\ Distinct(s) => Distinct(page)
<1> DEFINE page == PageOf(s, limit, offset)
           last == IF offset + limit < Len(s) THEN offset + limit ELSE Len(s)
<1>1. Len(s) \in Nat /\ DOMAIN s = 1 .. Len(s) /\ \A i \in 1 .. Len(s) : s[i] \in S
  BY LenProperties, ElementOfSeq
<1>2. last \in Int /\ offset + 1 \in Int /\ last <= Len(s)
  BY <1>1
<1>3. \A i \in offset + 1 .. last : s[i] \in S
  BY <1>1, <1>2
<1>4. page = SubSeq(s, offset + 1, last)
  BY DEF PageOf
<1> HIDE DEF page, last
<1>5. /\ page \in Seq(S)
      /\ Len(page) = IF offset + 1 <= last THEN last - (offset + 1) + 1 ELSE 0
      /\ \A i \in 1 .. last - (offset + 1) + 1 : page[i] = s[offset + 1 + i - 1]
  BY <1>2, <1>3, <1>4, SubSeqProperties
<1>6. Len(page) = PageLength(Len(s), limit, offset)
  <2>1. Len(s) \in Nat /\ limit \in Nat /\ offset \in Nat
    BY <1>1
  <2>2. CASE offset + limit < Len(s)
    <3>1. last = offset + limit
      BY <2>2 DEF last
    <3>2. Len(page) = limit
      BY <2>1, <3>1, <1>5
    <3> QED BY <2>1, <2>2, <3>2 DEF PageLength
  <2>3. CASE ~(offset + limit < Len(s))
    <3>1. last = Len(s)
      BY <2>3 DEF last
    <3>2. Len(page) = IF Len(s) <= offset THEN 0 ELSE Len(s) - offset
      BY <2>1, <3>1, <1>5
    <3> QED BY <2>1, <2>3, <3>2 DEF PageLength
  <2> QED BY <2>2, <2>3
<1>7. DOMAIN page = 1 .. Len(page)
  BY <1>5, LenProperties
<1>8. \A i \in DOMAIN page : i + offset \in DOMAIN s /\ page[i] = s[i + offset]
  <2> SUFFICES ASSUME NEW i \in DOMAIN page
               PROVE  i + offset \in DOMAIN s /\ page[i] = s[i + offset]
    OBVIOUS
  <2>1. i \in 1 .. last - (offset + 1) + 1 /\ i \in Nat /\ i > 0
    BY <1>2, <1>5, <1>7
  <2>2. i + offset \in 1 .. Len(s) /\ offset + 1 + i - 1 = i + offset
    BY <1>1, <1>2, <2>1
  <2> QED BY <1>1, <1>5, <2>1, <2>2
<1>9. Elements(page) \subseteq Elements(s)
  BY <1>8 DEF Elements
<1>10. Distinct(s) => Distinct(page)
  BY <1>1, <1>7, <1>8, <1>5, LenProperties DEF Distinct
<1> QED BY <1>5, <1>6, <1>8, <1>9, <1>10 DEF page

\* What is kept of a sequence: the elements asked for, once each.
LEMMA KeptFacts ==
  ASSUME NEW S, IsFiniteSet(S), NEW s \in Seq(S), NEW T, NEW r \in Kept(s, T)
  PROVE  /\ r \in Seq(S) /\ Distinct(r)
         /\ Elements(r) = T \cap Elements(s)
<1>1. Elements(s) \subseteq S
  BY LenProperties, ElementOfSeq DEF Elements
<1>2. IsFiniteSet(T \cap Elements(s))
  BY <1>1, FS_Subset
<1>3. r \in Orders(T \cap Elements(s))
  BY DEF Kept
<1>4. /\ r \in Seq(T \cap Elements(s)) /\ Distinct(r)
      /\ Elements(r) = T \cap Elements(s)
  BY <1>2, <1>3, OrderFacts
<1>5. r \in Seq(S)
  BY <1>1, <1>4, SeqMonotonic
<1> QED BY <1>4, <1>5

\* The hits, reordered: each of them, once.
LEMMA RerankedFacts ==
  ASSUME NEW S, IsFiniteSet(S), NEW hits \in Seq(S), NEW ranked \in Seq(S),
         NEW new \in Reranked(hits, ranked)
  PROVE  new \in Seq(S) /\ Elements(new) = Elements(hits)
<1> DEFINE A == Elements(hits)
           B == Elements(hits) \ Elements(ranked)
<1>1. PICK first \in Kept(ranked, A), rest \in Kept(hits, B) : new = first \o rest
  BY DEF Reranked
<1> HIDE DEF A, B
<1>2. first \in Seq(S) /\ Elements(first) = A \cap Elements(ranked)
  BY KeptFacts
<1>3. rest \in Seq(S) /\ Elements(rest) = B \cap Elements(hits)
  BY KeptFacts
<1>4. /\ new \in Seq(S) /\ Len(new) = Len(first) + Len(rest)
      /\ \A i \in 1 .. Len(first) + Len(rest) :
           new[i] = IF i <= Len(first) THEN first[i] ELSE rest[i - Len(first)]
  BY <1>1, <1>2, <1>3, ConcatProperties
<1>5. /\ DOMAIN new = 1 .. Len(new) /\ DOMAIN first = 1 .. Len(first)
      /\ DOMAIN rest = 1 .. Len(rest) /\ Len(first) \in Nat /\ Len(rest) \in Nat
  BY <1>2, <1>3, <1>4, LenProperties
<1>6. Elements(new) \subseteq Elements(first) \cup Elements(rest)
  <2> SUFFICES ASSUME NEW i \in DOMAIN new
               PROVE  new[i] \in Elements(first) \cup Elements(rest)
    BY DEF Elements
  <2>1. CASE i <= Len(first)
    BY <2>1, <1>4, <1>5 DEF Elements
  <2>2. CASE i > Len(first)
    <3>1. i - Len(first) \in DOMAIN rest /\ new[i] = rest[i - Len(first)]
      BY <2>2, <1>4, <1>5
    <3> QED BY <3>1 DEF Elements
  <2> QED BY <2>1, <2>2, <1>5
<1>7. Elements(first) \subseteq Elements(new)
  BY <1>4, <1>5 DEF Elements
<1>8. Elements(rest) \subseteq Elements(new)
  <2> SUFFICES ASSUME NEW i \in DOMAIN rest
               PROVE  rest[i] \in Elements(new)
    BY DEF Elements
  <2> DEFINE k == i + Len(first)
  <2>1. k \in DOMAIN new /\ k - Len(first) = i /\ ~(k <= Len(first))
    BY <1>4, <1>5
  <2>2. new[k] = rest[i]
    BY <2>1, <1>4, <1>5
  <2> QED BY <2>1, <2>2 DEF Elements
<1>9. Elements(new) = (A \cap Elements(ranked)) \cup (B \cap Elements(hits))
  BY <1>2, <1>3, <1>6, <1>7, <1>8
<1> QED BY <1>4, <1>9 DEF A, B

-----------------------------------------------------------------------------
(* Totals and facets.                                                      *)

\* Joining the categories and counting distinct providers counts who matches.
LEMMA TotalCounts ==
  ASSUME NEW catalogue, NEW f, NEW word
  PROVE  Total(catalogue, f, word) = Cardinality(Matching(catalogue, f, word))
<1> DEFINE joined(p) == IF f["categories"] = {} THEN {NoValue}
                        ELSE f["categories"] \cap catalogue[p].on["categories"]
           found == Matching(catalogue, f, word)
<1>1. \A p \in found : joined(p) # {}
  BY DEF Matching, Passes, Axes, AxisOrder
<1>2. Joined(catalogue, f, word) = UNION {{<<p, c>> : c \in joined(p)} : p \in found}
  BY DEF Joined
<1> HIDE DEF joined, found
<1>3. {j[1] : j \in UNION {{<<p, c>> : c \in joined(p)} : p \in found}} = found
  <2> DEFINE all == UNION {{<<p, c>> : c \in joined(p)} : p \in found}
  <2>1. ASSUME NEW j \in all PROVE j[1] \in found
    <3>1. PICK p \in found : j \in {<<p, c>> : c \in joined(p)}
      OBVIOUS
    <3>2. PICK c \in joined(p) : j = <<p, c>>
      BY <3>1
    <3> QED BY <3>2
  <2>2. ASSUME NEW p \in found PROVE \E j \in all : j[1] = p
    <3>1. PICK c \in joined(p) : TRUE
      BY <1>1
    <3>2. <<p, c>> \in all
      OBVIOUS
    <3> QED BY <3>2
  <2> HIDE DEF all
  <2>3. {j[1] : j \in all} = found
    BY <2>1, <2>2
  <2> QED BY <2>3 DEF all
<1> QED BY <1>2, <1>3 DEF Total, found

\* A value that counts for another one has no value that counts for it.
LEMMA RolledIsRoot ==
  ASSUME NEW v, NEW w, Rolled(w) = v
  PROVE  Rolled(v) = v
  BY TreeAssumption DEF Rolled

\* The count of a facet is the total of the request that asks for its value, and
\* for a root the providers linked below it only.
LEMMA FacetIsTotal ==
  ASSUME NEW catalogue, NEW f \in [Axes -> SUBSET Values], NEW word,
         IsFiniteSet(DOMAIN catalogue), NEW a \in Axes, NEW v \in Values
  PROVE  CountAxis(catalogue, a, f, word)[v] =
           IF Rolled(v) # v THEN 0
           ELSE Total(catalogue, Asking(f, a, v), word)
                + Cardinality(OnlyBelow(catalogue, a, f, v, word))
<1> DEFINE found == Matching(catalogue, WithoutAxis(f, a), word)
           on == {p \in found : \E w \in catalogue[p].on[a] : Rolled(w) = v}
           g == Asking(f, a, v)
           own == Matching(catalogue, g, word)
           below == OnlyBelow(catalogue, a, f, v, word)
<1>1. CountAxis(catalogue, a, f, word)[v] = Cardinality(on)
  BY DEF CountAxis
<1>2. CASE Rolled(v) # v
  <2>1. on = {}
    BY <1>2, RolledIsRoot
  <2> QED BY <1>1, <1>2, <2>1, FS_EmptySet
<1>3. CASE Rolled(v) = v
  <2>1. /\ g[a] = {v} /\ WithoutAxis(f, a)[a] = {}
        /\ \A b \in Axes \ {a} : g[b] = f[b] /\ WithoutAxis(f, a)[b] = f[b]
    BY DEF Asking, WithoutAxis
  <2>2. ASSUME NEW p \in DOMAIN catalogue
        PROVE  Passes(catalogue[p], g) <=>
                 Passes(catalogue[p], WithoutAxis(f, a)) /\ v \in catalogue[p].on[a]
    BY <2>1 DEF Passes
  <2>3. own = {p \in found : v \in catalogue[p].on[a]}
    BY <2>2 DEF Matching
  <2>4. below = {p \in found : /\ v \notin catalogue[p].on[a]
                               /\ \E w \in catalogue[p].on[a] : Rolled(w) = v}
    BY DEF OnlyBelow
  <2>5. on = own \cup below /\ own \cap below = {}
    BY <1>3, <2>3, <2>4
  <2>6. IsFiniteSet(own) /\ IsFiniteSet(below)
    <3>1. own \subseteq DOMAIN catalogue /\ below \subseteq DOMAIN catalogue
      BY DEF OnlyBelow, Matching
    <3> QED BY <3>1, FS_Subset
  <2> HIDE DEF own, below, on
  <2>7. /\ Cardinality(own \cap below) = 0
        /\ Cardinality(own) \in Nat /\ Cardinality(below) \in Nat
    BY <2>5, <2>6, FS_EmptySet, FS_CardinalityType
  <2>8. Cardinality(on) = Cardinality(own) + Cardinality(below)
    <3>1. Cardinality(own \cup below) =
            Cardinality(own) + Cardinality(below) - Cardinality(own \cap below)
      BY <2>6, FS_Union, Zenon
    <3> QED BY <2>5, <2>7, <3>1
  <2>9. Total(catalogue, g, word) = Cardinality(own)
    BY TotalCounts DEF own
  <2> QED BY <1>1, <1>3, <2>8, <2>9 DEF below
<1> QED BY <1>2, <1>3

-----------------------------------------------------------------------------
(* The index.                                                              *)

\* A task that does not go back behind v takes nothing away.
LEMMA SettlesAppend ==
  ASSUME NEW index, NEW queue \in Seq(DocBatches), NEW t \in DocBatches,
         NEW p, NEW v \in Nat,
         \A d \in Elements(t) : d[1] = p => d[2] >= v,
         Settles(index, queue, p, v) \/ \E d \in Elements(t) : d[1] = p
  PROVE  Settles(index, Append(queue, t), p, v)
<1> DEFINE new == Append(queue, t)
           n == Len(queue)
<1>1. /\ n \in Nat /\ DOMAIN queue = 1 .. n
      /\ DOMAIN new = 1 .. n + 1 /\ Len(new) = n + 1
      /\ \A i \in 1 .. n : new[i] = queue[i]
      /\ new[n + 1] = t
  BY AppendProperties, LenProperties
<1> HIDE DEF new, n
<1>2. CASE \E d \in Elements(t) : d[1] = p
  <2>1. n + 1 \in 0 .. Len(new) /\ n + 1 # 0
    BY <1>1
  <2>2. \A i \in DOMAIN new : i >= n + 1 => new[i] = t
    BY <1>1
  <2> QED BY <1>1, <1>2, <2>1, <2>2 DEF Settles, new
<1>3. CASE Settles(index, queue, p, v)
  <2>1. PICK from \in 0 .. n :
          /\ IF from = 0 THEN index[p] >= v ELSE \E d \in Elements(queue[from]) : d[1] = p
          /\ \A i \in DOMAIN queue : i >= from =>
               \A d \in Elements(queue[i]) : d[1] = p => d[2] >= v
    BY <1>3 DEF Settles, n
  <2>2. from \in 0 .. Len(new) /\ (from # 0 => new[from] = queue[from])
    BY <1>1
  <2>3. ASSUME NEW i \in DOMAIN new, i >= from
        PROVE  \A d \in Elements(new[i]) : d[1] = p => d[2] >= v
    <3>1. CASE i = n + 1
      BY <3>1, <1>1
    <3>2. CASE i # n + 1
      <4>1. i \in DOMAIN queue /\ new[i] = queue[i]
        BY <3>2, <1>1
      <4> QED BY <4>1, <2>1, <2>3
    <3> QED BY <3>1, <3>2
  <2> QED BY <2>1, <2>2, <2>3 DEF Settles, new
<1> QED BY <1>2, <1>3

\* A document that a task replaces comes from the task.
LEMMA AppliedFacts ==
  ASSUME NEW index, NEW t \in DocBatches, NEW p \in Providers
  PROVE  \/ \E d \in Elements(t) : d[1] = p /\ Applied(index, t)[p] = d[2]
         \/ /\ Applied(index, t)[p] = index[p]
            /\ \A d \in Elements(t) : d[1] # p
<1>1. CASE \E i \in DOMAIN t : t[i][1] = p
  <2> DEFINE c == CHOOSE d \in Elements(t) : d[1] = p
  <2>1. \E d \in Elements(t) : d[1] = p
    BY <1>1 DEF Elements
  <2>2. c \in Elements(t) /\ c[1] = p
    BY <2>1
  <2>3. Applied(index, t)[p] = c[2]
    BY <1>1 DEF Applied
  <2> QED BY <2>2, <2>3
<1>2. CASE ~ \E i \in DOMAIN t : t[i][1] = p
  <2>1. Applied(index, t)[p] = index[p]
    BY <1>2 DEF Applied
  <2> QED BY <1>2, <2>1 DEF Elements
<1> QED BY <1>1, <1>2

\* Applying the oldest task changes nothing of what there will be.
LEMMA SettlesApply ==
  ASSUME NEW index, NEW queue \in Seq(DocBatches), queue # <<>>,
         NEW p \in Providers, NEW v \in Nat,
         Settles(index, queue, p, v)
  PROVE  Settles(Applied(index, Head(queue)), Tail(queue), p, v)
<1> DEFINE rest == Tail(queue)
           t == queue[1]
           n == Len(queue)
           next == Applied(index, Head(queue))
<1>1. /\ n \in Nat /\ n > 0 /\ DOMAIN queue = 1 .. n /\ Head(queue) = t
      /\ Len(rest) = n - 1 /\ DOMAIN rest = 1 .. n - 1
      /\ \A i \in 1 .. n - 1 : rest[i] = queue[i + 1]
  BY HeadTailProperties, LenProperties, EmptySeq
<1>2. t \in DocBatches
  BY <1>1, ElementOfSeq
<1>3. \/ \E d \in Elements(t) : d[1] = p /\ next[p] = d[2]
      \/ next[p] = index[p] /\ \A d \in Elements(t) : d[1] # p
  BY <1>1, <1>2, AppliedFacts
<1>4. PICK from \in 0 .. n :
        /\ IF from = 0 THEN index[p] >= v ELSE \E d \in Elements(queue[from]) : d[1] = p
        /\ \A i \in DOMAIN queue : i >= from =>
             \A d \in Elements(queue[i]) : d[1] = p => d[2] >= v
  BY DEF Settles
<1> HIDE DEF rest, t, n, next
<1>5. \A i \in DOMAIN rest : i + 1 \in DOMAIN queue /\ rest[i] = queue[i + 1] /\ i \in Nat
  BY <1>1
<1>6. 1 \in DOMAIN queue
  BY <1>1
<1>7. CASE from <= 1
  <2>1. next[p] >= v
    BY <1>3, <1>4, <1>6, <1>7 DEF t
  <2>2. \A i \in DOMAIN rest : \A d \in Elements(rest[i]) : d[1] = p => d[2] >= v
    <3>1. \A i \in DOMAIN rest : i + 1 >= from
      BY <1>5, <1>7
    <3> QED BY <1>4, <1>5, <3>1
  <2>3. 0 \in 0 .. Len(rest)
    BY <1>1
  <2> QED BY <2>1, <2>2, <2>3 DEF Settles, next, rest
<1>8. CASE from > 1
  <2>1. from - 1 \in 0 .. Len(rest) /\ from - 1 # 0 /\ from - 1 \in DOMAIN rest
        /\ from - 1 + 1 = from
    BY <1>1, <1>8
  <2>2. \E d \in Elements(rest[from - 1]) : d[1] = p
    BY <1>4, <1>5, <1>8, <2>1
  <2>3. \A i \in DOMAIN rest : i >= from - 1 =>
          \A d \in Elements(rest[i]) : d[1] = p => d[2] >= v
    <3>1. \A i \in DOMAIN rest : i >= from - 1 => i + 1 >= from
      BY <1>5
    <3> QED BY <1>4, <1>5, <3>1
  <2> QED BY <2>1, <2>2, <2>3 DEF Settles, next, rest
<1> QED BY <1>7, <1>8

-----------------------------------------------------------------------------
(* Every step of the index keeps its invariant.                            *)

LEMMA IndexStarts == IndexInit => IndexInv
<1> SUFFICES ASSUME IndexInit PROVE IndexInv
  OBVIOUS
<1>1. \A p \in Providers : Len(RowAt[p]) \in Nat /\ Len(RowAt[p]) >= 1
  BY RowsAssumption
<1>2. IndexTypeOK
  <2>1. NoJob \in [pc : {"idle", "sending"}, snapshot : [Providers -> Nat],
                   left : Seq(Providers)]
    BY DEF NoJob
  <2>2. job \in [Reindexers -> [pc : {"idle", "sending"}, snapshot : [Providers -> Nat],
                                left : Seq(Providers)]]
    BY <2>1 DEF IndexInit
  <2>3. version \in [Providers -> Nat] /\ tasks \in Seq(DocBatches)
    BY DEF IndexInit
  <2> QED BY <2>2, <2>3 DEF IndexInit, IndexTypeOK
<1>3. FromRowsInv
  BY <1>1 DEF IndexInit, FromRowsInv, NoJob
<1>4. AloneInv
  BY DEF IndexInit, AloneInv, NoJob, PublishedAt
<1> QED BY <1>2, <1>3, <1>4 DEF IndexInv

LEMMA EditKeeps ==
  ASSUME IndexInv, NEW q \in Providers, Edit(q)
  PROVE  IndexInv'
<1>1. IndexTypeOK /\ FromRowsInv /\ AloneInv
  BY DEF IndexInv
<1>2. \A p \in Providers : Len(RowAt[p]) \in Nat
  BY RowsAssumption
<1>3. /\ version' \in [Providers -> Nat]
      /\ \A p \in Providers : version'[p] >= version[p] /\ version'[p] <= Len(RowAt[p])
  BY <1>1, <1>2 DEF Edit, IndexTypeOK, FromRowsInv
<1>4. UNCHANGED <<docs, tasks, indexed, job, covered, jobsOverlapped>>
  BY DEF Edit
<1>5. IndexTypeOK'
  BY <1>1, <1>3, <1>4 DEF IndexTypeOK
<1>6. FromRowsInv'
  <2> SUFFICES ASSUME NEW p \in Providers
               PROVE  /\ docs[p] <= version'[p] /\ covered[p] <= version'[p]
                      /\ \A j \in Reindexers : job[j].snapshot[p] <= version'[p]
                      /\ \A i \in DOMAIN tasks : \A d \in Elements(tasks[i]) :
                           d[1] = p => d[2] <= version'[p]
    BY <1>3, <1>4 DEF FromRowsInv
  <2>1. /\ docs[p] \in Nat /\ covered[p] \in Nat /\ version[p] \in Nat
        /\ version'[p] \in Nat /\ version'[p] >= version[p]
    BY <1>1, <1>3 DEF IndexTypeOK
  <2>2. \A j \in Reindexers : job[j].snapshot[p] \in Nat
    BY <1>1 DEF IndexTypeOK
  <2>3. \A i \in DOMAIN tasks : \A d \in Elements(tasks[i]) : d[2] \in Nat
    <3> TAKE i \in DOMAIN tasks
    <3>1. tasks[i] \in DocBatches
      BY <1>1, LenProperties, ElementOfSeq DEF IndexTypeOK
    <3> QED BY <3>1, LenProperties, ElementOfSeq DEF DocBatches, Elements
  <2> QED BY <1>1, <2>1, <2>2, <2>3 DEF FromRowsInv
<1>7. AloneInv'
  BY <1>1, <1>4 DEF AloneInv
<1> QED BY <1>5, <1>6, <1>7 DEF IndexInv

\* What the documents of a task that joins the queue must say.
LEMMA FromRowsAppend ==
  ASSUME tasks \in Seq(DocBatches), NEW t \in DocBatches, NEW p,
         \A i \in DOMAIN tasks : \A d \in Elements(tasks[i]) : d[1] = p => d[2] <= version[p],
         \A d \in Elements(t) : d[1] = p => d[2] <= version[p]
  PROVE  \A i \in DOMAIN Append(tasks, t) : \A d \in Elements(Append(tasks, t)[i]) :
           d[1] = p => d[2] <= version[p]
<1> DEFINE new == Append(tasks, t)
<1>1. /\ DOMAIN tasks = 1 .. Len(tasks) /\ Len(tasks) \in Nat
      /\ DOMAIN new = 1 .. Len(tasks) + 1
      /\ \A i \in 1 .. Len(tasks) : new[i] = tasks[i]
      /\ new[Len(tasks) + 1] = t
  BY AppendProperties, LenProperties
<1> HIDE DEF new
<1>2. \A i \in DOMAIN new : new[i] = t \/ (i \in DOMAIN tasks /\ new[i] = tasks[i])
  BY <1>1
<1>3. \A i \in DOMAIN new : \A d \in Elements(new[i]) : d[1] = p => d[2] <= version[p]
  BY <1>2
<1> QED BY <1>3 DEF new

LEMMA SelectKeeps ==
  ASSUME IndexInv, NEW j \in Reindexers, Select(j)
  PROVE  IndexInv'
<1>1. IndexTypeOK /\ FromRowsInv /\ AloneInv
  BY DEF IndexInv
<1> DEFINE published == {p \in Providers : PublishedAt(p, version[p])}
<1>2. PICK left \in Orders(published) :
        job' = [job EXCEPT ![j] = [pc |-> "sending", snapshot |-> version, left |-> left]]
  BY DEF Select, ByCreation
<1>3. left \in Seq(Providers) /\ Elements(left) = published
  <2>1. IsFiniteSet(published)
    BY RowsAssumption, FS_Subset
  <2>2. left \in Seq(published) /\ Elements(left) = published
    BY <2>1, OrderFacts
  <2> QED BY <2>2, SeqMonotonic
<1>4. /\ tasks' = Append(tasks, <<>>)
      /\ jobsOverlapped' = (jobsOverlapped \/ \E k \in Reindexers \ {j} : job[k].pc # "idle")
      /\ UNCHANGED <<version, docs, indexed, covered>>
      /\ job[j].pc = "idle"
  BY DEF Select
<1>5. <<>> \in DocBatches /\ Elements(<<>>) = {}
  BY DEF DocBatches, Elements
<1> DEFINE state == [pc |-> "sending", snapshot |-> version, left |-> left]
<1>6. state \in [pc : {"idle", "sending"}, snapshot : [Providers -> Nat], left : Seq(Providers)]
  BY <1>1, <1>3 DEF IndexTypeOK
<1>7. job' = [job EXCEPT ![j] = state]
  BY <1>2
<1>8. state.pc = "sending" /\ state.snapshot = version /\ state.left = left
  OBVIOUS
<1> HIDE DEF state, published
<1>9. job'[j] = state /\ \A k \in Reindexers \ {j} : job'[k] = job[k]
  BY <1>1, <1>7 DEF IndexTypeOK
<1>10. IndexTypeOK'
  <2>1. job' \in [Reindexers -> [pc : {"idle", "sending"}, snapshot : [Providers -> Nat],
                                 left : Seq(Providers)]]
    BY <1>1, <1>6, <1>7 DEF IndexTypeOK
  <2>2. tasks' \in Seq(DocBatches)
    BY <1>1, <1>4, <1>5, AppendProperties DEF IndexTypeOK
  <2>3. jobsOverlapped' \in BOOLEAN
    BY <1>1, <1>4 DEF IndexTypeOK
  <2> QED BY <1>1, <1>4, <2>1, <2>2, <2>3 DEF IndexTypeOK
<1>11. FromRowsInv'
  <2> SUFFICES ASSUME NEW p \in Providers
               PROVE  /\ version[p] <= Len(RowAt[p])
                      /\ docs[p] <= version[p] /\ covered[p] <= version[p]
                      /\ \A k \in Reindexers : job'[k].snapshot[p] <= version[p]
                      /\ \A i \in DOMAIN tasks' : \A d \in Elements(tasks'[i]) :
                           d[1] = p => d[2] <= version[p]
    BY <1>4 DEF FromRowsInv
  <2>1. version[p] <= version[p]
    BY <1>1 DEF IndexTypeOK
  <2>2. \A k \in Reindexers : job'[k].snapshot[p] <= version[p]
    BY <1>1, <1>8, <1>9, <2>1 DEF FromRowsInv
  <2>3. \A i \in DOMAIN tasks' : \A d \in Elements(tasks'[i]) : d[1] = p => d[2] <= version[p]
    BY <1>1, <1>4, <1>5, FromRowsAppend DEF FromRowsInv, IndexTypeOK
  <2> QED BY <1>1, <2>2, <2>3 DEF FromRowsInv
<1>12. AloneInv'
  <2> SUFFICES ASSUME ~jobsOverlapped'
               PROVE  /\ \A i, k \in Reindexers :
                           job'[i].pc = "sending" /\ job'[k].pc = "sending" => i = k
                      /\ \A p \in Providers :
                           /\ PublishedAt(p, covered[p]) => Settles(docs, tasks', p, covered[p])
                           /\ \A k \in Reindexers : job'[k].pc = "sending" =>
                                /\ covered[p] <= job'[k].snapshot[p]
                                /\ PublishedAt(p, job'[k].snapshot[p])
                                     /\ p \notin Elements(job'[k].left) =>
                                     Settles(docs, tasks', p, job'[k].snapshot[p])
    BY <1>4 DEF AloneInv
  <2>1. ~jobsOverlapped /\ \A k \in Reindexers \ {j} : job'[k].pc = "idle"
    BY <1>4, <1>9
  <2>2. \A i, k \in Reindexers : job'[i].pc = "sending" /\ job'[k].pc = "sending" => i = k
    BY <2>1
  <2>3. ASSUME NEW p \in Providers, PublishedAt(p, covered[p])
        PROVE  Settles(docs, tasks', p, covered[p])
    <3>1. Settles(docs, tasks, p, covered[p]) /\ covered[p] \in Nat
      BY <1>1, <2>1, <2>3 DEF AloneInv, IndexTypeOK
    <3>2. Settles(docs, Append(tasks, <<>>), p, covered[p])
      BY <1>1, <1>5, <3>1, SettlesAppend DEF IndexTypeOK
    <3> QED BY <1>4, <3>2
  <2>4. ASSUME NEW p \in Providers, NEW k \in Reindexers, job'[k].pc = "sending"
        PROVE  /\ covered[p] <= job'[k].snapshot[p]
               /\ PublishedAt(p, job'[k].snapshot[p]) => p \in Elements(job'[k].left)
    <3>1. job'[k].snapshot = version /\ job'[k].left = left
      BY <1>8, <1>9, <2>1, <2>4
    <3>2. covered[p] <= version[p]
      BY <1>1 DEF FromRowsInv
    <3> QED BY <1>3, <3>1, <3>2 DEF published
  <2> QED BY <2>2, <2>3, <2>4
<1> QED BY <1>10, <1>11, <1>12 DEF IndexInv

\* The next batch and the rest are what was left.
LEMMA BatchFacts ==
  ASSUME NEW left \in Seq(Providers)
  PROVE  LET batch == NextBatch(left)
             rest == PageOf(left, Len(left), BatchSize)
         IN  /\ batch \in Seq(Providers) /\ rest \in Seq(Providers)
             /\ Elements(left) \subseteq Elements(batch) \cup Elements(rest)
<1> DEFINE batch == NextBatch(left)
           rest == PageOf(left, Len(left), BatchSize)
           n == Len(left)
<1>1. n \in Nat /\ DOMAIN left = 1 .. n /\ BatchSize \in Nat /\ BatchSize > 0
  BY LenProperties, BatchAssumption
<1>2. /\ batch \in Seq(Providers) /\ Len(batch) = PageLength(n, BatchSize, 0)
      /\ \A i \in DOMAIN batch : i + 0 \in DOMAIN left /\ batch[i] = left[i + 0]
  <2> DEFINE none == 0
             first == PageOf(left, BatchSize, none)
  <2>1. none \in Nat /\ BatchSize \in Nat
    BY <1>1
  <2> HIDE DEF none
  <2>2. /\ first \in Seq(Providers) /\ Len(first) = PageLength(n, BatchSize, none)
        /\ \A i \in DOMAIN first : i + none \in DOMAIN left /\ first[i] = left[i + none]
    BY <2>1, PageFacts
  <2> QED BY <2>2 DEF NextBatch, none
<1>3. /\ rest \in Seq(Providers) /\ Len(rest) = PageLength(n, n, BatchSize)
      /\ \A i \in DOMAIN rest : i + BatchSize \in DOMAIN left /\ rest[i] = left[i + BatchSize]
  BY <1>1, PageFacts
<1>4. DOMAIN batch = 1 .. Len(batch) /\ DOMAIN rest = 1 .. Len(rest)
  BY <1>2, <1>3, LenProperties
<1> HIDE DEF batch, rest, n
<1>5. ASSUME NEW i \in DOMAIN left
      PROVE  left[i] \in Elements(batch) \cup Elements(rest)
  <2>1. i \in Nat /\ i > 0 /\ i <= n
    BY <1>1
  <2>2. CASE i <= BatchSize
    <3>1. i \in DOMAIN batch /\ i + 0 = i
      BY <1>1, <1>2, <1>4, <2>1, <2>2 DEF PageLength
    <3>2. batch[i] = left[i]
      BY <1>2, <3>1
    <3> QED BY <3>1, <3>2 DEF Elements
  <2>3. CASE i > BatchSize
    <3>1. i - BatchSize \in DOMAIN rest /\ i - BatchSize + BatchSize = i
      BY <1>1, <1>3, <1>4, <2>1, <2>3 DEF PageLength
    <3>2. rest[i - BatchSize] = left[i]
      BY <1>3, <3>1
    <3> QED BY <3>1, <3>2 DEF Elements
  <2> QED BY <1>1, <2>1, <2>2, <2>3
<1> QED BY <1>2, <1>3, <1>5 DEF batch, rest, Elements

\* The documents a batch is sent as: one for each of its providers, as selected.
LEMMA SentFacts ==
  ASSUME NEW batch \in Seq(Providers), NEW seen \in [Providers -> Nat]
  PROVE  LET t == [i \in DOMAIN batch |-> <<batch[i], seen[batch[i]]>>]
         IN  /\ t \in DocBatches
             /\ \A d \in Elements(t) : d[1] \in Elements(batch) /\ d[2] = seen[d[1]]
             /\ \A p \in Elements(batch) : \E d \in Elements(t) : d[1] = p
<1> DEFINE t == [i \in DOMAIN batch |-> <<batch[i], seen[batch[i]]>>]
<1>1. Len(batch) \in Nat /\ DOMAIN batch = 1 .. Len(batch)
      /\ \A i \in DOMAIN batch : batch[i] \in Providers
  BY LenProperties, ElementOfSeq
<1>2. t \in [1 .. Len(batch) -> Providers \X Nat]
  BY <1>1
<1>3. t \in DocBatches
  BY <1>1, <1>2, SeqDef DEF DocBatches
<1>4. DOMAIN t = DOMAIN batch /\ \A i \in DOMAIN batch : t[i] = <<batch[i], seen[batch[i]]>>
  OBVIOUS
<1> HIDE DEF t
<1>5. \A i \in DOMAIN batch : t[i][1] = batch[i] /\ t[i][2] = seen[batch[i]]
  BY <1>4
<1>6. \A d \in Elements(t) : d[1] \in Elements(batch) /\ d[2] = seen[d[1]]
  BY <1>4, <1>5 DEF Elements
<1>7. \A p \in Elements(batch) : \E d \in Elements(t) : d[1] = p
  BY <1>4, <1>5 DEF Elements
<1> QED BY <1>3, <1>6, <1>7 DEF t

\* A reindex that leaves, having covered nothing more.
LEMMA LeavingIndexKeeps ==
  ASSUME IndexInv, NEW j \in Reindexers, job' = [job EXCEPT ![j] = NoJob],
         UNCHANGED <<version, docs, tasks, indexed, covered, jobsOverlapped>>
  PROVE  IndexInv'
<1>1. IndexTypeOK /\ FromRowsInv /\ AloneInv
  BY DEF IndexInv
<1>2. /\ NoJob \in [pc : {"idle", "sending"}, snapshot : [Providers -> Nat],
                    left : Seq(Providers)]
      /\ NoJob.pc = "idle" /\ \A p \in Providers : NoJob.snapshot[p] = 0
  BY DEF NoJob
<1>3. job'[j] = NoJob /\ \A k \in Reindexers \ {j} : job'[k] = job[k]
  BY <1>1 DEF IndexTypeOK
<1>4. IndexTypeOK'
  BY <1>1, <1>2 DEF IndexTypeOK
<1>5. FromRowsInv'
  <2>1. \A p \in Providers : version[p] \in Nat
    BY <1>1 DEF IndexTypeOK
  <2>2. \A p \in Providers : \A k \in Reindexers : job'[k].snapshot[p] <= version[p]
    BY <1>1, <1>2, <1>3, <2>1 DEF FromRowsInv
  <2> QED BY <1>1, <2>2 DEF FromRowsInv
<1>6. AloneInv'
  <2>1. \A k \in Reindexers : job'[k].pc = "sending" => job'[k] = job[k] /\ job[k].pc = "sending"
    BY <1>2, <1>3
  <2> QED BY <1>1, <2>1 DEF AloneInv
<1> QED BY <1>4, <1>5, <1>6 DEF IndexInv

LEMMA ReindexFailsKeeps ==
  ASSUME IndexInv, NEW j \in Reindexers, ReindexFails(j)
  PROVE  IndexInv'
BY LeavingIndexKeeps DEF ReindexFails

LEMMA SendBatchKeeps ==
  ASSUME IndexInv, NEW j \in Reindexers, SendBatch(j)
  PROVE  IndexInv'
<1>1. IndexTypeOK /\ FromRowsInv /\ AloneInv
  BY DEF IndexInv
<1> DEFINE left == job[j].left
           seen == job[j].snapshot
           batch == NextBatch(left)
           rest == PageOf(left, Len(left), BatchSize)
           t == [i \in DOMAIN batch |-> <<batch[i], seen[batch[i]]>>]
<1>2. left \in Seq(Providers) /\ seen \in [Providers -> Nat]
  BY <1>1 DEF IndexTypeOK
<1>3. /\ batch \in Seq(Providers) /\ rest \in Seq(Providers)
      /\ Elements(left) \subseteq Elements(batch) \cup Elements(rest)
  BY <1>2, BatchFacts
<1>4. /\ t \in DocBatches
      /\ \A d \in Elements(t) : d[1] \in Elements(batch) /\ d[2] = seen[d[1]]
      /\ \A p \in Elements(batch) : \E d \in Elements(t) : d[1] = p
  BY <1>2, <1>3, SentFacts
<1>5. /\ job[j].pc = "sending"
      /\ tasks' = IF batch = <<>> THEN tasks ELSE Append(tasks, t)
      /\ IF rest = <<>>
         THEN job' = [job EXCEPT ![j] = NoJob] /\ covered' = seen
         ELSE job' = [job EXCEPT ![j].left = rest] /\ UNCHANGED covered
      /\ UNCHANGED <<version, docs, indexed, jobsOverlapped>>
  BY DEF SendBatch
<1>6. Elements(<<>>) = {}
  BY DEF Elements
<1> HIDE DEF left, seen, batch, rest, t
<1>7. tasks' \in Seq(DocBatches)
  BY <1>1, <1>4, <1>5, AppendProperties DEF IndexTypeOK
<1>8. covered' \in [Providers -> Nat]
  BY <1>1, <1>2, <1>5 DEF IndexTypeOK
<1>9. /\ NoJob \in [pc : {"idle", "sending"}, snapshot : [Providers -> Nat],
                    left : Seq(Providers)]
      /\ NoJob.pc = "idle" /\ \A p \in Providers : NoJob.snapshot[p] = 0
  BY DEF NoJob
<1> DEFINE going == [pc |-> "sending", snapshot |-> seen, left |-> rest]
<1>10. /\ going \in [pc : {"idle", "sending"}, snapshot : [Providers -> Nat],
                     left : Seq(Providers)]
       /\ going.pc = "sending" /\ going.snapshot = seen /\ going.left = rest
  BY <1>2, <1>3
<1>11. [job[j] EXCEPT !.left = rest] = going
  <2> DEFINE r == job[j]
  <2>1. /\ r \in [pc : {"idle", "sending"}, snapshot : [Providers -> Nat],
                  left : Seq(Providers)]
        /\ r.pc = "sending" /\ r.snapshot = seen
    BY <1>1, <1>5 DEF IndexTypeOK, seen
  <2> HIDE DEF r, seen, rest
  <2>2. r = [pc |-> "sending", snapshot |-> seen, left |-> r.left]
    BY <2>1
  <2>3. [r EXCEPT !.left = rest] = [pc |-> "sending", snapshot |-> seen, left |-> rest]
    BY <2>2
  <2> QED BY <2>3 DEF r, seen, rest
<1> HIDE DEF going
<1>12. job' = [job EXCEPT ![j] = IF rest = <<>> THEN NoJob ELSE going]
  BY <1>1, <1>5, <1>11 DEF IndexTypeOK
<1>13. /\ job'[j] = IF rest = <<>> THEN NoJob ELSE going
       /\ \A k \in Reindexers \ {j} : job'[k] = job[k]
  BY <1>1, <1>12 DEF IndexTypeOK
<1>14. IndexTypeOK'
  <2>1. job' \in [Reindexers -> [pc : {"idle", "sending"}, snapshot : [Providers -> Nat],
                                 left : Seq(Providers)]]
    BY <1>1, <1>9, <1>10, <1>12 DEF IndexTypeOK
  <2> QED BY <1>1, <1>5, <1>7, <1>8, <2>1 DEF IndexTypeOK
<1>15. ASSUME NEW p \in Providers
       PROVE  /\ seen[p] \in Nat /\ seen[p] <= version[p] /\ version[p] \in Nat
              /\ covered[p] \in Nat
              /\ \A d \in Elements(t) : d[1] = p => d[2] = seen[p]
  BY <1>1, <1>2, <1>4 DEF FromRowsInv, IndexTypeOK, seen
<1>16. FromRowsInv'
  <2> SUFFICES ASSUME NEW p \in Providers
               PROVE  /\ version[p] <= Len(RowAt[p])
                      /\ docs[p] <= version[p] /\ covered'[p] <= version[p]
                      /\ \A k \in Reindexers : job'[k].snapshot[p] <= version[p]
                      /\ \A i \in DOMAIN tasks' : \A d \in Elements(tasks'[i]) :
                           d[1] = p => d[2] <= version[p]
    BY <1>5 DEF FromRowsInv
  <2>1. covered'[p] <= version[p]
    BY <1>1, <1>5, <1>15 DEF FromRowsInv
  <2>2. \A k \in Reindexers : job'[k].snapshot[p] <= version[p]
    <3>1. job'[j].snapshot[p] = 0 \/ job'[j].snapshot[p] = seen[p]
      BY <1>9, <1>10, <1>13
    <3>2. job'[j].snapshot[p] <= version[p]
      BY <3>1, <1>15
    <3>3. \A k \in Reindexers \ {j} : job'[k].snapshot[p] <= version[p]
      BY <1>1, <1>13 DEF FromRowsInv
    <3> QED BY <3>2, <3>3
  <2>3. \A i \in DOMAIN tasks' : \A d \in Elements(tasks'[i]) : d[1] = p => d[2] <= version[p]
    <3>1. CASE batch = <<>>
      BY <3>1, <1>1, <1>5 DEF FromRowsInv
    <3>2. CASE batch # <<>>
      <4>1. \A d \in Elements(t) : d[1] = p => d[2] <= version[p]
        BY <1>15
      <4>2. /\ tasks \in Seq(DocBatches)
            /\ \A i \in DOMAIN tasks : \A d \in Elements(tasks[i]) :
                 d[1] = p => d[2] <= version[p]
        BY <1>1 DEF FromRowsInv, IndexTypeOK
      <4>3. tasks' = Append(tasks, t)
        BY <3>2, <1>5
      <4> QED BY <1>4, <4>1, <4>2, <4>3, FromRowsAppend
    <3> QED BY <3>1, <3>2
  <2> QED BY <1>1, <2>1, <2>2, <2>3 DEF FromRowsInv
<1>17. AloneInv'
  <2> SUFFICES ASSUME ~jobsOverlapped
               PROVE  /\ \A i, k \in Reindexers :
                           job'[i].pc = "sending" /\ job'[k].pc = "sending" => i = k
                      /\ \A p \in Providers :
                           /\ PublishedAt(p, covered'[p]) => Settles(docs, tasks', p, covered'[p])
                           /\ \A k \in Reindexers : job'[k].pc = "sending" =>
                                /\ covered'[p] <= job'[k].snapshot[p]
                                /\ PublishedAt(p, job'[k].snapshot[p])
                                     /\ p \notin Elements(job'[k].left) =>
                                     Settles(docs, tasks', p, job'[k].snapshot[p])
    BY <1>5 DEF AloneInv
  <2>1. \A i, k \in Reindexers : job[i].pc = "sending" /\ job[k].pc = "sending" => i = k
    BY <1>1 DEF AloneInv
  <2>2. \A k \in Reindexers : job'[k].pc = "sending" => k = j /\ rest # <<>> /\ job'[k] = going
    BY <1>5, <1>9, <1>13, <2>1
  <2>3. ASSUME NEW p \in Providers, NEW v \in Nat, v <= seen[p],
               Settles(docs, tasks, p, v) \/ p \in Elements(batch)
        PROVE  Settles(docs, tasks', p, v)
    <3>1. CASE batch = <<>>
      BY <3>1, <2>3, <1>5, <1>6
    <3>2. CASE batch # <<>>
      <4>1. Settles(docs, Append(tasks, t), p, v)
        BY <1>1, <1>4, <1>15, <2>3, SettlesAppend DEF IndexTypeOK
      <4> QED BY <3>2, <4>1, <1>5
    <3> QED BY <3>1, <3>2
  <2>4. ASSUME NEW p \in Providers
        PROVE  /\ covered[p] <= seen[p]
               /\ PublishedAt(p, covered[p]) => Settles(docs, tasks', p, covered[p])
               /\ PublishedAt(p, seen[p]) /\ p \notin Elements(rest) =>
                    Settles(docs, tasks', p, seen[p])
    <3>1. /\ covered[p] <= seen[p]
          /\ PublishedAt(p, covered[p]) => Settles(docs, tasks, p, covered[p])
          /\ PublishedAt(p, seen[p]) /\ p \notin Elements(left) =>
               Settles(docs, tasks, p, seen[p])
      BY <1>1, <1>5 DEF AloneInv, seen, left
    <3>2. seen[p] <= seen[p] /\ seen[p] \in Nat /\ covered[p] \in Nat
      BY <1>15
    <3>3. PublishedAt(p, covered[p]) => Settles(docs, tasks', p, covered[p])
      BY <2>3, <3>1, <3>2
    <3>4. PublishedAt(p, seen[p]) /\ p \notin Elements(rest) =>
            Settles(docs, tasks', p, seen[p])
      BY <1>3, <2>3, <3>1, <3>2
    <3> QED BY <3>1, <3>3, <3>4
  <2>5. ASSUME NEW p \in Providers
        PROVE  PublishedAt(p, covered'[p]) => Settles(docs, tasks', p, covered'[p])
    BY <2>4, <1>5, <1>6
  <2>6. ASSUME NEW p \in Providers, NEW k \in Reindexers, job'[k].pc = "sending"
        PROVE  /\ covered'[p] <= job'[k].snapshot[p]
               /\ PublishedAt(p, job'[k].snapshot[p]) /\ p \notin Elements(job'[k].left) =>
                    Settles(docs, tasks', p, job'[k].snapshot[p])
    BY <2>2, <2>4, <2>6, <1>5, <1>10
  <2> QED BY <2>2, <2>5, <2>6
<1> QED BY <1>14, <1>16, <1>17 DEF IndexInv

LEMMA ApplyBatchKeeps ==
  ASSUME IndexInv, ApplyBatch
  PROVE  IndexInv'
<1>1. IndexTypeOK /\ FromRowsInv /\ AloneInv
  BY DEF IndexInv
<1> DEFINE t == Head(tasks)
<1>2. /\ tasks # <<>> /\ indexed' = TRUE
      /\ docs' = Applied(docs, t) /\ tasks' = Tail(tasks)
      /\ UNCHANGED <<version, job, covered, jobsOverlapped>>
  BY DEF ApplyBatch
<1>3. /\ Len(tasks) \in Nat /\ DOMAIN tasks = 1 .. Len(tasks) /\ Len(tasks) > 0
      /\ t = tasks[1] /\ t \in DocBatches
      /\ tasks' \in Seq(DocBatches) /\ Len(tasks') = Len(tasks) - 1
      /\ DOMAIN tasks' = 1 .. Len(tasks')
      /\ \A i \in 1 .. Len(tasks') : tasks'[i] = tasks[i + 1]
  BY <1>1, <1>2, HeadTailProperties, LenProperties, EmptySeq DEF IndexTypeOK
<1> HIDE DEF t
<1>4. \A p \in Providers :
        \/ \E d \in Elements(t) : d[1] = p /\ docs'[p] = d[2]
        \/ docs'[p] = docs[p]
  BY <1>2, <1>3, AppliedFacts
<1>5. \A d \in Elements(t) : d[2] \in Nat
  BY <1>3, LenProperties, ElementOfSeq DEF DocBatches, Elements
<1>6. docs' \in [Providers -> Nat]
  <2>1. \A p \in Providers : docs'[p] \in Nat
    BY <1>1, <1>4, <1>5 DEF IndexTypeOK
  <2>2. docs' = [p \in Providers |-> docs'[p]]
    BY <1>2 DEF Applied
  <2> QED BY <2>1, <2>2
<1>7. IndexTypeOK'
  BY <1>1, <1>2, <1>3, <1>6 DEF IndexTypeOK
<1>8. FromRowsInv'
  <2>1. \A i \in DOMAIN tasks' : i + 1 \in DOMAIN tasks /\ tasks'[i] = tasks[i + 1]
    BY <1>3
  <2>2. 1 \in DOMAIN tasks
    BY <1>3
  <2>3. ASSUME NEW p \in Providers PROVE docs'[p] <= version[p]
    BY <1>1, <1>3, <1>4, <2>2 DEF FromRowsInv
  <2>4. ASSUME NEW p \in Providers, NEW i \in DOMAIN tasks',
               NEW d \in Elements(tasks'[i]), d[1] = p
        PROVE  d[2] <= version[p]
    BY <1>1, <2>1, <2>4 DEF FromRowsInv
  <2> QED BY <1>1, <1>2, <2>3, <2>4 DEF FromRowsInv
<1>9. AloneInv'
  <2>1. ASSUME NEW p \in Providers, NEW v \in Nat, Settles(docs, tasks, p, v)
        PROVE  Settles(docs', tasks', p, v)
    BY <1>1, <1>2, <2>1, SettlesApply DEF IndexTypeOK, t
  <2>2. \A p \in Providers : covered[p] \in Nat /\ \A k \in Reindexers : job[k].snapshot[p] \in Nat
    BY <1>1 DEF IndexTypeOK
  <2> QED BY <1>1, <1>2, <2>1, <2>2 DEF AloneInv
<1> QED BY <1>7, <1>8, <1>9 DEF IndexInv

LEMMA IndexStutters ==
  ASSUME IndexInv, UNCHANGED indexVars
  PROVE  IndexInv'
BY DEF IndexInv, indexVars, IndexTypeOK, FromRowsInv, AloneInv

LEMMA IndexKeeps ==
  ASSUME IndexInv, IndexNext
  PROVE  IndexInv'
BY EditKeeps, SelectKeeps, SendBatchKeeps, ReindexFailsKeeps, ApplyBatchKeeps DEF IndexNext

\* Once all tasks are applied, what will be is.
LEMMA CatchUp == IndexInv => IndexCatchesUp
<1> SUFFICES ASSUME IndexInv, tasks = <<>>, ~jobsOverlapped,
                    NEW p \in Providers, PublishedAt(p, covered[p])
             PROVE  docs[p] >= covered[p]
  BY DEF IndexCatchesUp
<1>1. Settles(docs, tasks, p, covered[p])
  BY DEF IndexInv, AloneInv
<1>2. \A from \in 0 .. Len(tasks) : from = 0
  OBVIOUS
<1> QED BY <1>1, <1>2 DEF Settles

\* However many reindexes run, and wherever they fail, the invariant holds:
\* what the last one covered is in the index or on its way to it.
THEOREM IndexIsSound == IndexSpec => []IndexInv
<1>1. IndexInit => IndexInv
  BY IndexStarts
<1>2. IndexInv /\ [IndexNext]_indexVars => IndexInv'
  BY IndexKeeps, IndexStutters
<1> QED BY <1>1, <1>2, PTL DEF IndexSpec

\* Reindexes that do not overlap leave an index that is not behind what the last
\* of them selected (services/indexer.py), for any batch size and catalogue.
THEOREM IndexCatchesUpHolds == IndexSpec => []IndexCatchesUp
BY IndexIsSound, CatchUp, PTL

-----------------------------------------------------------------------------
(* A request.                                                              *)

Fields == {"pc", "q", "words", "hits", "total", "engine", "items", "axis", "facets", "moved"}

LEMMA NoAskFields ==
  /\ DOMAIN NoAsk = Fields
  /\ NoAsk.pc = "idle" /\ NoAsk.hits = <<>> /\ NoAsk.items = <<>> /\ NoAsk.axis = 1
  /\ NoAsk.facets = NoCounts /\ NoAsk.moved = FALSE
  /\ DOMAIN NoCounts = Axes /\ <<>> \in Seq(Providers)
BY DEF NoAsk, Fields, NoCounts

LEMMA NoAskTyped ==
  /\ NoAsk.pc \in AskSteps /\ NoAsk.pc = "idle" /\ NoAsk.axis \in Nat
  /\ NoAsk.moved \in BOOLEAN
  /\ NoAsk.hits \in Seq(Providers) /\ NoAsk.items \in Seq(Providers)
  /\ DOMAIN NoAsk.facets = Axes
<1>1. NoAsk.pc \in AskSteps /\ NoAsk.axis \in Nat
  BY NoAskFields DEF AskSteps
<1>2. NoAsk.moved \in BOOLEAN
  BY NoAskFields, Zenon
<1> QED BY <1>1, <1>2, NoAskFields

\* The catalogue is finite and its rows are rows; the index has nothing else.
LEMMA CatalogueFacts ==
  ASSUME IndexInv
  PROVE  DOMAIN Index \subseteq DOMAIN Catalogue /\ DOMAIN Catalogue \subseteq Providers
<1>1. \A p \in Providers : docs[p] \in Nat /\ version[p] \in Nat /\ docs[p] <= version[p]
  BY DEF IndexInv, IndexTypeOK, FromRowsInv
<1>2. /\ DOMAIN Catalogue = {p \in Providers : version[p] > 0}
      /\ DOMAIN Index = {p \in Providers : docs[p] > 0}
  BY DEF Catalogue, Index, At
<1> QED BY <1>1, <1>2

LEMMA FoundFacts ==
  ASSUME NEW catalogue, DOMAIN catalogue \subseteq Providers, NEW f, NEW word
  PROVE  /\ Matching(catalogue, f, word) \subseteq DOMAIN catalogue
         /\ IsFiniteSet(Matching(catalogue, f, word))
<1>1. Matching(catalogue, f, word) \subseteq DOMAIN catalogue
  BY DEF Matching
<1> QED BY <1>1, RowsAssumption, FS_Subset

\* The page of what was found.
LEMMA FoundPage ==
  ASSUME NEW found \in SUBSET Providers, NEW order \in Orders(found),
         NEW limit \in Nat, NEW offset \in Nat
  PROVE  LET page == PageOf(order, limit, offset)
         IN  /\ page \in Seq(Providers) /\ Distinct(page)
             /\ Elements(page) \subseteq found
             /\ Len(page) = PageLength(Cardinality(found), limit, offset)
<1> DEFINE page == PageOf(order, limit, offset)
<1>1. IsFiniteSet(found)
  BY RowsAssumption, FS_Subset
<1>2. /\ order \in Seq(found) /\ Distinct(order)
      /\ Len(order) = Cardinality(found) /\ Elements(order) = found
  BY <1>1, OrderFacts
<1>3. order \in Seq(Providers)
  BY <1>2, SeqMonotonic
<1>4. /\ page \in Seq(Providers)
      /\ Len(page) = PageLength(Len(order), limit, offset)
      /\ Elements(page) \subseteq Elements(order)
      /\ Distinct(order) => Distinct(page)
  BY <1>3, PageFacts
<1> QED BY <1>2, <1>4

\* A step of the request alone.
LEMMA SameWorld ==
  ASSUME IndexInv, UNCHANGED indexVars
  PROVE  IndexInv' /\ Catalogue' = Catalogue
<1>1. IndexInv'
  BY IndexStutters
<1>2. Catalogue' = Catalogue
  BY DEF Catalogue, At, indexVars
<1> QED BY <1>1, <1>2

LEMMA SearchStarts == SearchInit => SearchInv
<1> SUFFICES ASSUME SearchInit PROVE SearchInv
  OBVIOUS
<1>1. IndexInv /\ ask = NoAsk
  BY IndexStarts DEF SearchInit
<1>2. AskTypeOK
  BY <1>1, NoAskTyped DEF AskTypeOK
<1>3. AnswerInv /\ TotalInv /\ FacetsInv
  BY <1>1, NoAskFields DEF AnswerInv, TotalInv, FacetsInv, Elements
<1> QED BY <1>1, <1>2, <1>3 DEF SearchInv

LEMMA AnswerKeeps ==
  ASSUME SearchInv, Answer
  PROVE  SearchInv'
<1>1. ask' = NoAsk /\ IndexInv'
  BY SameWorld DEF Answer, AskIs, SearchInv
<1>2. AskTypeOK'
  BY <1>1, NoAskTyped DEF AskTypeOK
<1>3. AnswerInv' /\ TotalInv' /\ FacetsInv'
  BY <1>1, NoAskFields DEF AnswerInv, TotalInv, FacetsInv, Elements
<1> QED BY <1>1, <1>2, <1>3 DEF SearchInv

LEMMA ReceiveQueryKeeps ==
  ASSUME SearchInv, NEW q \in Queries, ReceiveQuery(q)
  PROVE  SearchInv'
<1>1. IndexInv'
  BY SameWorld DEF ReceiveQuery, AskIs, SearchInv
<1>2. /\ DOMAIN ask' = Fields
      /\ ask'.pc = (IF q.kind = "list" THEN "count" ELSE "meili")
      /\ ask'.q = q /\ ask'.hits = <<>> /\ ask'.items = <<>>
      /\ ask'.axis = 1 /\ ask'.facets = NoCounts /\ ask'.moved = FALSE
  BY NoAskFields DEF ReceiveQuery, AskIs, Fields
<1>3. AskTypeOK'
  <2>1. ask'.pc \in AskSteps /\ ask'.axis \in Nat
    BY <1>2 DEF AskSteps
  <2>2. ask'.moved \in BOOLEAN
    BY <1>2, Zenon
  <2>3. ask'.hits \in Seq(Providers) /\ ask'.items \in Seq(Providers)
    BY <1>2, NoAskFields
  <2> QED BY <1>2, <2>1, <2>2, <2>3, NoAskFields DEF AskTypeOK
<1>4. AnswerInv' /\ TotalInv' /\ FacetsInv'
  BY <1>2 DEF AnswerInv, TotalInv, FacetsInv, Elements
<1> QED BY <1>1, <1>3, <1>4 DEF SearchInv

\* What a step of the request leaves of its type.
LEMMA StillTyped ==
  ASSUME AskTypeOK, DOMAIN ask' = DOMAIN ask, ask'.pc \in AskSteps, ask.pc # "idle",
         ask'.q = ask.q, ask'.axis \in Nat, ask'.moved = ask.moved,
         ask'.hits \in Seq(Providers), ask'.items \in Seq(Providers),
         DOMAIN ask'.facets = Axes
  PROVE  AskTypeOK'
<1>1. ask'.moved \in BOOLEAN
  BY Zenon DEF AskTypeOK
<1> QED BY <1>1, NoAskFields DEF AskTypeOK

LEMMA AskMeilisearchKeeps ==
  ASSUME SearchInv, AskMeilisearch
  PROVE  SearchInv'
<1>1. IndexInv /\ AskTypeOK /\ AnswerInv /\ TotalInv /\ FacetsInv
  BY DEF SearchInv
<1>2. IndexInv' /\ Catalogue' = Catalogue
  BY <1>1, SameWorld DEF AskMeilisearch, AskIs
<1> DEFINE q == ask.q
           found == Matching(Index, q.filter, Head(ask.words))
<1>3. ask.pc = "meili" /\ q \in Queries /\ q.limit \in Nat /\ q.offset \in Nat /\ q.kind # "list"
  BY <1>1, QueriesAssumption DEF AskMeilisearch, AskTypeOK, FacetsInv
<1>4. PICK order \in Orders(found) :
        LET hits == PageOf(order, q.limit, q.offset)
        IN  ask' = [ask EXCEPT
              !.hits = hits, !.total = Cardinality(found),
              !.engine = "meilisearch", !.words = Tail(@),
              !.pc = IF hits = <<>> /\ Len(ask.words) > 1 THEN "meili"
                     ELSE IF q.kind = "suggest" THEN "done" ELSE "hydrate",
              !.items = IF q.kind = "suggest" THEN hits ELSE <<>>]
  BY DEF AskMeilisearch, AskIs
<1> DEFINE hits == PageOf(order, q.limit, q.offset)
<1>5. /\ hits \in Seq(Providers) /\ Distinct(hits) /\ Elements(hits) \subseteq DOMAIN Catalogue
      /\ Len(hits) = PageLength(Cardinality(found), q.limit, q.offset)
  <2>1. DOMAIN Index \subseteq Providers /\ DOMAIN Index \subseteq DOMAIN Catalogue
    BY <1>1, CatalogueFacts
  <2>2. found \subseteq DOMAIN Index
    BY <2>1, FoundFacts
  <2> DEFINE limit == q.limit
             offset == q.offset
             first == PageOf(order, limit, offset)
  <2> HIDE DEF found, q
  <2>3. found \in SUBSET Providers /\ limit \in Nat /\ offset \in Nat
    BY <2>1, <2>2, <1>3
  <2> HIDE DEF limit, offset
  <2>4. /\ first \in Seq(Providers) /\ Distinct(first) /\ Elements(first) \subseteq found
        /\ Len(first) = PageLength(Cardinality(found), limit, offset)
    BY <2>3, FoundPage
  <2> QED BY <2>1, <2>2, <2>4 DEF limit, offset
<1>6. /\ DOMAIN ask' = DOMAIN ask
      /\ ask'.pc = (IF hits = <<>> /\ Len(ask.words) > 1 THEN "meili"
                    ELSE IF q.kind = "suggest" THEN "done" ELSE "hydrate")
      /\ ask'.q = q /\ ask'.hits = hits /\ ask'.total = Cardinality(found)
      /\ ask'.engine = "meilisearch" /\ ask'.axis = ask.axis /\ ask'.moved = ask.moved
      /\ ask'.facets = ask.facets
      /\ ask'.items = (IF q.kind = "suggest" THEN hits ELSE <<>>)
  <2>1. DOMAIN ask = Fields
    BY <1>1, NoAskFields DEF AskTypeOK
  <2> HIDE DEF hits, found
  <2>2. ask' = [ask EXCEPT
              !.hits = hits, !.total = Cardinality(found),
              !.engine = "meilisearch", !.words = Tail(@),
              !.pc = IF hits = <<>> /\ Len(ask.words) > 1 THEN "meili"
                     ELSE IF q.kind = "suggest" THEN "done" ELSE "hydrate",
              !.items = IF q.kind = "suggest" THEN hits ELSE <<>>]
    BY <1>4 DEF hits
  <2> QED BY <2>1, <2>2 DEF Fields
<1> HIDE DEF hits, found, q
<1>7. ask'.pc \in {"meili", "done", "hydrate"} /\ (ask'.pc = "done" => ask'.items = hits)
  BY <1>6
<1>8. AskTypeOK'
  <2>1. ask'.pc \in AskSteps /\ ask'.axis \in Nat
    BY <1>1, <1>6, <1>7 DEF AskSteps, AskTypeOK
  <2>2. ask'.hits \in Seq(Providers) /\ ask'.items \in Seq(Providers)
    BY <1>5, <1>6, NoAskFields
  <2> QED BY <1>1, <1>3, <1>6, <2>1, <2>2, StillTyped DEF AskTypeOK, q
<1>9. AnswerInv'
  BY <1>2, <1>5, <1>6, <1>7 DEF AnswerInv, Distinct
<1>10. TotalInv'
  BY <1>5, <1>6, <1>7 DEF TotalInv
<1>11. FacetsInv'
  BY <1>1, <1>3, <1>6, <1>7 DEF FacetsInv
<1> QED BY <1>2, <1>8, <1>9, <1>10, <1>11 DEF SearchInv

LEMMA MeilisearchFailsKeeps ==
  ASSUME SearchInv, MeilisearchFails
  PROVE  SearchInv'
<1>1. IndexInv /\ AskTypeOK /\ AnswerInv /\ TotalInv /\ FacetsInv
  BY DEF SearchInv
<1>2. IndexInv' /\ Catalogue' = Catalogue
  BY <1>1, SameWorld DEF MeilisearchFails, AskIs
<1>3. ask.pc = "meili" /\ DOMAIN ask = Fields
  BY <1>1, NoAskFields DEF MeilisearchFails, AskTypeOK
<1>4. /\ DOMAIN ask' = DOMAIN ask
      /\ ask'.pc \in {"failed", "count"} /\ ask'.q = ask.q
      /\ ask'.hits = <<>> /\ ask'.items = ask.items /\ ask'.axis = ask.axis
      /\ ask'.facets = ask.facets /\ ask'.moved = ask.moved
  BY <1>3 DEF MeilisearchFails, AskIs, Fields
<1>5. AskTypeOK'
  <2>1. ask'.pc \in AskSteps /\ ask'.axis \in Nat
    BY <1>1, <1>4 DEF AskSteps, AskTypeOK
  <2> QED BY <1>1, <1>3, <1>4, <2>1, StillTyped, NoAskFields DEF AskTypeOK
<1>6. AnswerInv' /\ TotalInv'
  BY <1>4 DEF AnswerInv, TotalInv, Elements
<1>7. FacetsInv'
  BY <1>1, <1>3, <1>4 DEF FacetsInv
<1> QED BY <1>2, <1>5, <1>6, <1>7 DEF SearchInv

LEMMA SearchRefusedKeeps ==
  ASSUME SearchInv, SearchRefused
  PROVE  SearchInv'
<1>1. IndexInv /\ AskTypeOK /\ AnswerInv /\ TotalInv /\ FacetsInv
  BY DEF SearchInv
<1>2. IndexInv' /\ Catalogue' = Catalogue
  BY <1>1, SameWorld DEF SearchRefused, AskIs
<1>3. ask.pc = "count" /\ DOMAIN ask = Fields
  BY <1>1, NoAskFields DEF SearchRefused, AskTypeOK
<1>4. /\ DOMAIN ask' = DOMAIN ask
      /\ ask'.pc = "failed" /\ ask'.q = ask.q /\ ask'.hits = ask.hits
      /\ ask'.items = ask.items /\ ask'.axis = ask.axis
      /\ ask'.facets = ask.facets /\ ask'.moved = ask.moved
  BY <1>3 DEF SearchRefused, AskIs, Fields
<1>5. AskTypeOK'
  <2>1. ask'.pc \in AskSteps /\ ask'.axis \in Nat
    BY <1>1, <1>4 DEF AskSteps, AskTypeOK
  <2> QED BY <1>1, <1>3, <1>4, <2>1, StillTyped DEF AskTypeOK
<1>6. AnswerInv' /\ TotalInv'
  BY <1>1, <1>2, <1>4 DEF AnswerInv, TotalInv
<1>7. FacetsInv'
  BY <1>1, <1>3, <1>4 DEF FacetsInv
<1> QED BY <1>2, <1>5, <1>6, <1>7 DEF SearchInv

LEMMA CountRowsKeeps ==
  ASSUME SearchInv, CountRows
  PROVE  SearchInv'
<1>1. IndexInv /\ AskTypeOK /\ AnswerInv /\ TotalInv /\ FacetsInv
  BY DEF SearchInv
<1>2. IndexInv' /\ Catalogue' = Catalogue
  BY <1>1, SameWorld DEF CountRows, AskIs
<1>3. ask.pc = "count" /\ DOMAIN ask = Fields
  BY <1>1, NoAskFields DEF CountRows, AskTypeOK
<1>4. /\ DOMAIN ask' = DOMAIN ask
      /\ ask'.pc = "rows" /\ ask'.q = ask.q
      /\ ask'.hits = ask.hits /\ ask'.items = ask.items /\ ask'.axis = ask.axis
      /\ ask'.facets = ask.facets /\ ask'.moved = ask.moved /\ ask'.engine = "postgres"
      /\ ask'.total = Total(Catalogue, ask.q.filter, Head(ask.q.words))
  BY <1>3 DEF CountRows, AskIs, Fields
<1>5. AskTypeOK'
  <2>1. ask'.pc \in AskSteps /\ ask'.axis \in Nat
    BY <1>1, <1>4 DEF AskSteps, AskTypeOK
  <2> QED BY <1>1, <1>3, <1>4, <2>1, StillTyped DEF AskTypeOK
<1>6. AnswerInv'
  BY <1>1, <1>2, <1>4 DEF AnswerInv
<1>7. TotalInv'
  BY <1>1, <1>2, <1>3, <1>4 DEF TotalInv
<1>8. FacetsInv'
  BY <1>1, <1>3, <1>4 DEF FacetsInv
<1> QED BY <1>2, <1>5, <1>6, <1>7, <1>8 DEF SearchInv

LEMMA FetchRowsKeeps ==
  ASSUME SearchInv, FetchRows
  PROVE  SearchInv'
<1>1. IndexInv /\ AskTypeOK /\ AnswerInv /\ TotalInv /\ FacetsInv
  BY DEF SearchInv
<1>2. IndexInv' /\ Catalogue' = Catalogue
  BY <1>1, SameWorld DEF FetchRows, AskIs
<1> DEFINE q == ask.q
           found == Matching(Catalogue, q.filter, Head(q.words))
<1>3. ask.pc = "rows" /\ q \in Queries /\ q.limit \in Nat /\ q.offset \in Nat
  BY <1>1, QueriesAssumption DEF FetchRows, AskTypeOK
<1>4. PICK order \in Orders(found) :
        LET page == PageOf(order, q.limit, q.offset)
        IN  ask' = [ask EXCEPT !.hits = page,
              !.items = IF q.kind = "list" THEN page ELSE <<>>,
              !.pc = IF q.kind = "list" THEN "facets" ELSE "hydrate"]
  BY DEF FetchRows, AskIs, ByName
<1> DEFINE page == PageOf(order, q.limit, q.offset)
<1>5. /\ page \in Seq(Providers) /\ Distinct(page) /\ Elements(page) \subseteq DOMAIN Catalogue
      /\ Len(page) = PageLength(Cardinality(found), q.limit, q.offset)
  <2>1. DOMAIN Catalogue \subseteq Providers
    BY <1>1, CatalogueFacts
  <2>2. found \subseteq DOMAIN Catalogue
    BY <2>1, FoundFacts
  <2> DEFINE limit == q.limit
             offset == q.offset
             first == PageOf(order, limit, offset)
  <2> HIDE DEF found, q
  <2>3. found \in SUBSET Providers /\ limit \in Nat /\ offset \in Nat
    BY <2>1, <2>2, <1>3
  <2> HIDE DEF limit, offset
  <2>4. /\ first \in Seq(Providers) /\ Distinct(first) /\ Elements(first) \subseteq found
        /\ Len(first) = PageLength(Cardinality(found), limit, offset)
    BY <2>3, FoundPage
  <2> QED BY <2>1, <2>2, <2>4 DEF limit, offset
<1>6. /\ DOMAIN ask' = DOMAIN ask
      /\ ask'.pc = (IF q.kind = "list" THEN "facets" ELSE "hydrate")
      /\ ask'.q = q /\ ask'.hits = page /\ ask'.total = ask.total
      /\ ask'.engine = ask.engine /\ ask'.axis = ask.axis /\ ask'.moved = ask.moved
      /\ ask'.facets = ask.facets
      /\ ask'.items = (IF q.kind = "list" THEN page ELSE <<>>)
  <2>1. DOMAIN ask = Fields
    BY <1>1, NoAskFields DEF AskTypeOK
  <2> HIDE DEF page
  <2>2. ask' = [ask EXCEPT !.hits = page,
              !.items = IF q.kind = "list" THEN page ELSE <<>>,
              !.pc = IF q.kind = "list" THEN "facets" ELSE "hydrate"]
    BY <1>4 DEF page
  <2> QED BY <2>1, <2>2 DEF Fields
<1>7. ~ask.moved => ask.total = Cardinality(found)
  <2>1. ~ask.moved => ask.total = Total(Catalogue, q.filter, Head(q.words))
    BY <1>1, <1>3 DEF TotalInv
  <2> QED BY <2>1, TotalCounts
<1>8. ask.engine = "postgres" /\ ask.axis = 1
  BY <1>1, <1>3 DEF TotalInv, FacetsInv
<1> HIDE DEF page, found
<1>9. AskTypeOK'
  <2>1. ask'.pc \in AskSteps /\ ask'.axis \in Nat
    BY <1>1, <1>6 DEF AskSteps, AskTypeOK
  <2>2. ask'.hits \in Seq(Providers) /\ ask'.items \in Seq(Providers)
    BY <1>5, <1>6, NoAskFields
  <2> QED BY <1>1, <1>3, <1>6, <2>1, <2>2, StillTyped DEF AskTypeOK
<1> HIDE DEF q
<1>10. AnswerInv'
  BY <1>2, <1>5, <1>6 DEF AnswerInv, Distinct
<1>11. TotalInv'
  BY <1>5, <1>6, <1>7, <1>8 DEF TotalInv
<1>12. FacetsInv'
  BY <1>6, <1>8 DEF FacetsInv, AxisOrder
<1> QED BY <1>2, <1>9, <1>10, <1>11, <1>12 DEF SearchInv

LEMMA AxesFacts ==
  /\ DOMAIN AxisOrder = 1 .. 4 /\ Len(AxisOrder) = 4
  /\ Axes = {AxisOrder[i] : i \in DOMAIN AxisOrder}
  /\ \A i, k \in DOMAIN AxisOrder : AxisOrder[i] = AxisOrder[k] => i = k
BY DEF Axes, AxisOrder

LEMMA CountFacetsKeeps ==
  ASSUME SearchInv, CountFacets
  PROVE  SearchInv'
<1>1. IndexInv /\ AskTypeOK /\ AnswerInv /\ TotalInv /\ FacetsInv
  BY DEF SearchInv
<1>2. IndexInv' /\ Catalogue' = Catalogue
  BY <1>1, SameWorld DEF CountFacets, AskIs
<1>3. ask.pc = "facets" /\ DOMAIN ask = Fields /\ ask.axis \in DOMAIN AxisOrder
      /\ ask.q.kind = "list" /\ DOMAIN ask.facets = Axes
  BY <1>1, NoAskFields DEF CountFacets, AskTypeOK, FacetsInv
<1> DEFINE axis == AxisOrder[ask.axis]
           count == CountAxis(Catalogue, axis, ask.q.filter, Head(ask.q.words))
<1>4. ask' = [ask EXCEPT !.facets[axis] = count, !.axis = @ + 1,
                         !.pc = IF ask.axis = Len(AxisOrder) THEN "done" ELSE "facets"]
  BY DEF CountFacets, AskIs
<1> HIDE DEF axis, count
<1>5. /\ DOMAIN ask' = DOMAIN ask
      /\ ask'.pc = (IF ask.axis = Len(AxisOrder) THEN "done" ELSE "facets")
      /\ ask'.q = ask.q /\ ask'.hits = ask.hits /\ ask'.items = ask.items
      /\ ask'.total = ask.total /\ ask'.engine = ask.engine /\ ask'.moved = ask.moved
      /\ ask'.axis = ask.axis + 1
      /\ ask'.facets = [ask.facets EXCEPT ![axis] = count]
  BY <1>3, <1>4 DEF Fields
<1>6. /\ DOMAIN ask'.facets = Axes
      /\ ask'.facets[axis] = count
      /\ \A a \in Axes \ {axis} : ask'.facets[a] = ask.facets[a]
  <2>1. axis \in Axes
    BY <1>3, AxesFacts DEF axis
  <2> QED BY <1>3, <1>5, <2>1
<1>7. ask'.pc \in {"facets", "done"} /\ ask.axis \in Nat
  BY <1>1, <1>5 DEF AskTypeOK
<1>8. AskTypeOK'
  <2>1. ask'.pc \in AskSteps /\ ask'.axis \in Nat
    BY <1>5, <1>7 DEF AskSteps
  <2> QED BY <1>1, <1>3, <1>5, <1>6, <2>1, StillTyped DEF AskTypeOK
<1>9. AnswerInv'
  BY <1>1, <1>2, <1>3, <1>5 DEF AnswerInv
<1>10. TotalInv'
  BY <1>1, <1>3, <1>5, <1>7 DEF TotalInv
<1>11. FacetsInv'
  <2>1. ask'.pc = "facets" => ask'.axis \in DOMAIN AxisOrder
    BY <1>3, <1>5, AxesFacts
  <2>2. ask'.pc = "done" => ask'.axis > Len(AxisOrder)
    BY <1>5, AxesFacts
  <2>3. ASSUME ~ask.moved, NEW i \in DOMAIN AxisOrder, i < ask.axis + 1
        PROVE  ask'.facets[AxisOrder[i]] =
                 CountAxis(Catalogue, AxisOrder[i], ask.q.filter, Head(ask.q.words))
    <3>1. CASE i = ask.axis
      BY <3>1, <1>6 DEF axis, count
    <3>2. CASE i # ask.axis
      <4>1. i < ask.axis
        BY <3>2, <1>7, <2>3, AxesFacts
      <4>2. AxisOrder[i] \in Axes \ {axis}
        BY <3>2, <1>3, AxesFacts DEF axis
      <4>3. ask.facets[AxisOrder[i]] =
              CountAxis(Catalogue, AxisOrder[i], ask.q.filter, Head(ask.q.words))
        BY <1>1, <1>3, <2>3, <4>1 DEF FacetsInv
      <4> QED BY <1>6, <4>2, <4>3
    <3> QED BY <3>1, <3>2
  <2> QED BY <1>2, <1>3, <1>5, <1>7, <2>1, <2>2, <2>3 DEF FacetsInv
<1> QED BY <1>2, <1>8, <1>9, <1>10, <1>11 DEF SearchInv

\* What a page needs when its items are taken from the hits.
LEMMA ItemsKeep ==
  ASSUME SearchInv, UNCHANGED indexVars, ask.pc \in {"hydrate", "rank"},
         NEW items \in Seq(Providers), Distinct(items), Elements(items) = Elements(ask.hits),
         NEW pc \in {"rank", "done"}, ask' = [ask EXCEPT !.items = items, !.pc = pc]
  PROVE  SearchInv'
<1>1. IndexInv /\ AskTypeOK /\ AnswerInv /\ TotalInv /\ FacetsInv
  BY DEF SearchInv
<1>2. IndexInv' /\ Catalogue' = Catalogue
  BY <1>1, SameWorld
<1>3. DOMAIN ask = Fields
  BY <1>1, NoAskFields DEF AskTypeOK
<1>4. /\ DOMAIN ask' = DOMAIN ask /\ ask'.pc = pc /\ ask'.items = items
      /\ ask'.q = ask.q /\ ask'.hits = ask.hits /\ ask'.total = ask.total
      /\ ask'.engine = ask.engine /\ ask'.moved = ask.moved /\ ask'.axis = ask.axis
      /\ ask'.facets = ask.facets
  BY <1>3 DEF Fields
<1>5. Len(items) = Len(ask.hits)
  <2>1. ask.hits \in Seq(Providers) /\ Distinct(ask.hits)
    BY <1>1 DEF AskTypeOK, AnswerInv, Distinct
  <2>2. Cardinality(Elements(ask.hits)) = Len(ask.hits)
    BY <2>1, DistinctLength
  <2>3. Cardinality(Elements(items)) = Len(items)
    BY DistinctLength
  <2> QED BY <2>2, <2>3
<1>6. AskTypeOK'
  <2>1. ask'.pc \in AskSteps /\ ask'.axis \in Nat /\ ask.pc # "idle"
    BY <1>1, <1>4 DEF AskSteps, AskTypeOK
  <2> QED BY <1>1, <1>4, <2>1, StillTyped DEF AskTypeOK
<1>7. AnswerInv'
  BY <1>1, <1>2, <1>4, <1>5 DEF AnswerInv
<1>8. TotalInv'
  BY <1>1, <1>4 DEF TotalInv
<1>9. FacetsInv'
  BY <1>1, <1>4 DEF FacetsInv
<1> QED BY <1>2, <1>6, <1>7, <1>8, <1>9 DEF SearchInv

LEMMA HydrateKeeps ==
  ASSUME SearchInv, Hydrate
  PROVE  SearchInv'
<1>1. AskTypeOK /\ AnswerInv /\ ask.pc = "hydrate"
  BY DEF SearchInv, Hydrate
<1>2. PICK rows \in Kept(ask.hits, DOMAIN Catalogue) :
        AskIs([ask EXCEPT !.items = rows, !.pc = IF rows = <<>> THEN "done" ELSE "rank"])
  BY DEF Hydrate
<1>3. ask.hits \in Seq(Providers) /\ IsFiniteSet(Providers)
  BY <1>1, RowsAssumption DEF AskTypeOK
<1>4. /\ rows \in Seq(Providers) /\ Distinct(rows)
      /\ Elements(rows) = DOMAIN Catalogue \cap Elements(ask.hits)
  BY <1>3, KeptFacts
<1>5. Elements(rows) = Elements(ask.hits)
  BY <1>1, <1>4 DEF AnswerInv
<1> DEFINE pc == IF rows = <<>> THEN "done" ELSE "rank"
<1>6. pc \in {"rank", "done"} /\ ask' = [ask EXCEPT !.items = rows, !.pc = pc]
      /\ UNCHANGED indexVars
  BY <1>2 DEF AskIs
<1> HIDE DEF pc
<1> QED BY <1>1, <1>4, <1>5, <1>6, ItemsKeep

LEMMA MatcherUnavailableKeeps ==
  ASSUME SearchInv, MatcherUnavailable
  PROVE  SearchInv'
<1>1. IndexInv /\ AskTypeOK /\ AnswerInv /\ TotalInv /\ FacetsInv
  BY DEF SearchInv
<1>2. IndexInv' /\ Catalogue' = Catalogue
  BY <1>1, SameWorld DEF MatcherUnavailable, AskIs
<1>3. ask.pc = "rank" /\ DOMAIN ask = Fields
  BY <1>1, NoAskFields DEF MatcherUnavailable, AskTypeOK
<1>4. /\ DOMAIN ask' = DOMAIN ask /\ ask'.pc = "done" /\ ask'.items = ask.items
      /\ ask'.q = ask.q /\ ask'.hits = ask.hits /\ ask'.total = ask.total
      /\ ask'.engine = ask.engine /\ ask'.moved = ask.moved /\ ask'.axis = ask.axis
      /\ ask'.facets = ask.facets
  BY <1>3 DEF MatcherUnavailable, AskIs, Fields
<1>5. AskTypeOK'
  <2>1. ask'.pc \in AskSteps /\ ask'.axis \in Nat
    BY <1>1, <1>4 DEF AskSteps, AskTypeOK
  <2> QED BY <1>1, <1>3, <1>4, <2>1, StillTyped DEF AskTypeOK
<1>6. AnswerInv'
  BY <1>1, <1>2, <1>3, <1>4 DEF AnswerInv
<1>7. TotalInv'
  BY <1>1, <1>3, <1>4 DEF TotalInv
<1>8. FacetsInv'
  BY <1>1, <1>3, <1>4 DEF FacetsInv
<1> QED BY <1>2, <1>5, <1>6, <1>7, <1>8 DEF SearchInv

LEMMA RerankKeeps ==
  ASSUME SearchInv, Rerank
  PROVE  SearchInv'
<1>1. AskTypeOK /\ AnswerInv /\ ask.pc = "rank"
  BY DEF SearchInv, Rerank
<1>2. PICK S \in SUBSET Elements(ask.items) : \E ranked \in Orders(S) :
        \E hits \in Reranked(ask.hits, ranked) : \E page \in Kept(hits, Elements(ask.items)) :
          AskIs([ask EXCEPT !.items = page, !.pc = "done"])
  BY DEF Rerank
<1>3. PICK ranked \in Orders(S) :
        \E hits \in Reranked(ask.hits, ranked) : \E page \in Kept(hits, Elements(ask.items)) :
          AskIs([ask EXCEPT !.items = page, !.pc = "done"])
  BY <1>2
<1>4. PICK hits \in Reranked(ask.hits, ranked) : \E page \in Kept(hits, Elements(ask.items)) :
        AskIs([ask EXCEPT !.items = page, !.pc = "done"])
  BY <1>3
<1>5. PICK page \in Kept(hits, Elements(ask.items)) :
        AskIs([ask EXCEPT !.items = page, !.pc = "done"])
  BY <1>4
<1>6. /\ ask.hits \in Seq(Providers) /\ ask.items \in Seq(Providers)
      /\ IsFiniteSet(Providers) /\ Elements(ask.items) = Elements(ask.hits)
  BY <1>1, RowsAssumption DEF AskTypeOK, AnswerInv
<1>7. ranked \in Seq(Providers)
  <2>1. Elements(ask.items) \subseteq Providers
    BY <1>6, LenProperties, ElementOfSeq DEF Elements
  <2>2. S \subseteq Providers /\ IsFiniteSet(S)
    BY <1>6, <2>1, FS_Subset
  <2>3. ranked \in Seq(S)
    BY <2>2, OrderFacts
  <2> QED BY <2>2, <2>3, SeqMonotonic
<1>8. hits \in Seq(Providers) /\ Elements(hits) = Elements(ask.hits)
  BY <1>6, <1>7, RerankedFacts
<1>9. /\ page \in Seq(Providers) /\ Distinct(page)
      /\ Elements(page) = Elements(ask.items) \cap Elements(hits)
  BY <1>6, <1>8, KeptFacts
<1>10. Elements(page) = Elements(ask.hits)
  BY <1>6, <1>8, <1>9
<1>11. ask' = [ask EXCEPT !.items = page, !.pc = "done"] /\ UNCHANGED indexVars
  BY <1>5 DEF AskIs
<1> QED BY <1>1, <1>9, <1>10, <1>11, ItemsKeep

\* No row is removed.
LEMMA VersionsGrow ==
  ASSUME IndexInv, IndexNext, NEW p \in Providers
  PROVE  version'[p] >= version[p]
<1>1. version \in [Providers -> Nat]
  BY DEF IndexInv, IndexTypeOK
<1>2. CASE UNCHANGED version
  BY <1>1, <1>2
<1>3. ASSUME NEW q \in Providers, Edit(q)
      PROVE  version'[p] >= version[p]
  BY <1>1, <1>3 DEF Edit
<1> QED BY <1>2, <1>3 DEF IndexNext, Select, SendBatch, ReindexFails, ApplyBatch

LEMMA WorldMovesKeeps ==
  ASSUME SearchInv, WorldMoves
  PROVE  SearchInv'
<1>1. IndexInv /\ AskTypeOK /\ AnswerInv /\ TotalInv /\ FacetsInv
  BY DEF SearchInv
<1>2. IndexNext /\ IndexInv'
  BY <1>1, IndexKeeps DEF WorldMoves
<1>3. DOMAIN Catalogue \subseteq DOMAIN Catalogue'
  <2>1. \A p \in Providers : version[p] \in Nat /\ version'[p] \in Nat
    BY <1>1, <1>2 DEF IndexInv, IndexTypeOK
  <2>2. \A p \in Providers : version[p] > 0 => version'[p] > 0
    BY <1>1, <1>2, <2>1, VersionsGrow
  <2> QED BY <2>2 DEF Catalogue, At
<1>4. DOMAIN ask = Fields
  BY <1>1, NoAskFields DEF AskTypeOK
<1> DEFINE moved == ask.pc # "idle" /\ (ask.moved \/ version' # version)
<1>5. ask' = [ask EXCEPT !.moved = moved]
  BY DEF WorldMoves
<1>6. moved \in BOOLEAN
  OBVIOUS
<1>7. ask.pc # "idle" /\ ~moved => ~ask.moved /\ Catalogue' = Catalogue
  BY DEF Catalogue, At
<1> HIDE DEF moved
<1>8. /\ DOMAIN ask' = DOMAIN ask /\ ask'.pc = ask.pc /\ ask'.items = ask.items
      /\ ask'.q = ask.q /\ ask'.hits = ask.hits /\ ask'.total = ask.total
      /\ ask'.engine = ask.engine /\ ask'.axis = ask.axis /\ ask'.facets = ask.facets
  BY <1>4, <1>5 DEF Fields
<1>9. ask'.moved = moved
  BY <1>4, <1>5 DEF Fields
<1>10. AskTypeOK'
  <2>1. ask'.moved \in BOOLEAN
    BY <1>6, <1>9, Zenon
  <2> QED BY <1>1, <1>8, <2>1, NoAskFields DEF AskTypeOK
<1>11. AnswerInv'
  BY <1>1, <1>3, <1>8 DEF AnswerInv
<1>12. ask.pc # "idle" /\ ~ask'.moved => ~ask.moved /\ Catalogue' = Catalogue
  BY <1>7, <1>9, Zenon
<1>13. TotalInv'
  BY <1>1, <1>8, <1>12 DEF TotalInv
<1>14. FacetsInv'
  BY <1>1, <1>8, <1>12 DEF FacetsInv
<1> QED BY <1>2, <1>10, <1>11, <1>13, <1>14 DEF SearchInv

LEMMA SearchStutters ==
  ASSUME SearchInv, UNCHANGED searchVars
  PROVE  SearchInv'
<1>1. UNCHANGED indexVars /\ ask' = ask
  BY DEF searchVars
<1>2. IndexInv' /\ Catalogue' = Catalogue
  BY <1>1, SameWorld DEF SearchInv
<1> QED BY <1>1, <1>2 DEF SearchInv, AskTypeOK, AnswerInv, TotalInv, FacetsInv

\* Whatever is edited and reindexed under the requests, and whatever the index
\* and the matcher answer, the invariant of a request holds.
THEOREM SearchIsSound == SearchSpec => []SearchInv
<1>1. SearchInit => SearchInv
  BY SearchStarts
<1>2. SearchInv /\ [SearchNext]_searchVars => SearchInv'
  BY WorldMovesKeeps, ReceiveQueryKeeps, AskMeilisearchKeeps, MeilisearchFailsKeeps,
     SearchRefusedKeeps, CountRowsKeeps, FetchRowsKeeps, CountFacetsKeeps, HydrateKeeps,
     MatcherUnavailableKeeps, RerankKeeps, AnswerKeeps, SearchStutters
  DEF SearchNext
<1> QED BY <1>1, <1>2, PTL DEF SearchSpec

\* Re-ranking and hydration (services/search.py) lose no hit and repeat none, for
\* any page and whatever the matcher scores.
THEOREM AnswerKeepsHitsHolds == SearchSpec => []AnswerKeepsHits
<1>1. SearchInv => AnswerKeepsHits
  BY DEF SearchInv, AnswerInv, AnswerKeepsHits
<1> QED BY <1>1, SearchIsSound, PTL

\* The total of an answer and the length of its page fit each other, for any
\* limit and offset (services/catalog.py, services/search.py).
THEOREM PageFilledHolds == SearchSpec => []PageFilled
<1>1. SearchInv => PageFilled
  BY DEF SearchInv, AnswerInv, TotalInv, PageFilled
<1> QED BY <1>1, SearchIsSound, PTL

\* Every count of a facet is the total that asking for its value gives, and for a
\* root what is linked below it only beside that (services/catalog.py:163-218), for
\* any tree of categories and any filter.
THEOREM FacetsPredictHolds == SearchSpec => []FacetsPredict
<1>1. SearchInv => FacetsPredict
  <2> SUFFICES ASSUME SearchInv, ask.pc = "done", ask.q.kind = "list", ~ask.moved,
                      NEW a \in Axes, NEW v \in Values
               PROVE  ask.facets[a][v] =
                        IF Rolled(v) # v THEN 0
                        ELSE Total(Catalogue, Asking(ask.q.filter, a, v), Head(ask.q.words))
                             + Cardinality(OnlyBelow(Catalogue, a, ask.q.filter, v,
                                                     Head(ask.q.words)))
    BY DEF FacetsPredict
  <2>1. PICK i \in DOMAIN AxisOrder : a = AxisOrder[i]
    BY AxesFacts
  <2>2. i < ask.axis
    BY AxesFacts DEF SearchInv, AskTypeOK, FacetsInv
  <2>3. ask.facets[a] = CountAxis(Catalogue, a, ask.q.filter, Head(ask.q.words))
    BY <2>1, <2>2 DEF SearchInv, FacetsInv
  <2>4. ask.q.filter \in [Axes -> SUBSET Values]
    BY QueriesAssumption DEF SearchInv, AskTypeOK
  <2>5. IsFiniteSet(DOMAIN Catalogue)
    <3>1. DOMAIN Catalogue \subseteq Providers
      BY CatalogueFacts DEF SearchInv
    <3> QED BY <3>1, RowsAssumption, FS_Subset
  <2> QED BY <2>3, <2>4, <2>5, FacetIsTotal
<1> QED BY <1>1, SearchIsSound, PTL

=============================================================================
