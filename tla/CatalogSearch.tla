--------------------------- MODULE CatalogSearch ---------------------------
(***************************************************************************)
(* A request that searches or lists the catalogue, while providers change  *)
(* and the index is rebuilt (services/search.py, services/catalog.py,      *)
(* clients/matcher.py and their routes).                                   *)
(*                                                                         *)
(* Every statement of the request sees what is committed when it runs.  A  *)
(* search asks Meilisearch, falls back to PostgreSQL when that fails, and  *)
(* lets the matcher reorder the page.  A listing counts its facets after   *)
(* its rows.                                                               *)
(***************************************************************************)
EXTENDS CatalogIndex

CONSTANT Queries  \* what is asked: limits and offsets are naturals (routes/search.py:52-53)

ASSUME QueriesAssumption ==
  \A q \in Queries :
    /\ q.kind \in {"search", "list", "suggest"}
    /\ q.limit \in Nat /\ q.offset \in Nat
    /\ q.filter \in [Axes -> SUBSET Values]

VARIABLE ask  \* the request

searchVars == <<indexVars, ask>>

NoCounts == [a \in Axes |-> [v \in Values |-> 0]]
NoAsk == [pc |-> "idle", q |-> NoValue, words |-> <<>>, hits |-> <<>>, total |-> 0,
          engine |-> "none", items |-> <<>>, axis |-> 1, facets |-> NoCounts,
          moved |-> FALSE]

SearchInit == IndexInit /\ ask = NoAsk

-----------------------------------------------------------------------------
AskIs(a) == ask' = a /\ UNCHANGED indexVars

\* The catalogue or the index changes under the request.
WorldMoves ==
  /\ IndexNext
  /\ ask' = [ask EXCEPT !.moved = ask.pc # "idle" /\ (@ \/ version' # version)]

ReceiveQuery(q) ==
  /\ ask.pc = "idle"
  /\ AskIs([NoAsk EXCEPT !.q = q, !.words = q.words,
                      !.pc = IF q.kind = "list" THEN "count" ELSE "meili"])

\* One call for each variant of the query, until one has hits on its page.  The
\* total that Meilisearch estimates is taken as exact.
AskMeilisearch ==
  LET q == ask.q
      found == Matching(Index, q.filter, Head(ask.words))
  IN  /\ ask.pc = "meili"
      /\ indexed
      /\ \E order \in Orders(found) :
           LET hits == PageOf(order, q.limit, q.offset)
           IN  AskIs([ask EXCEPT
                 !.hits = hits, !.total = Cardinality(found),
                 !.engine = "meilisearch", !.words = Tail(@),
                 !.pc = IF hits = <<>> /\ Len(ask.words) > 1 THEN "meili"
                        ELSE IF q.kind = "suggest" THEN "done" ELSE "hydrate",
                 !.items = IF q.kind = "suggest" THEN hits ELSE <<>>])

\* No index yet, no answer, a timeout: a search goes to PostgreSQL, with the
\* query as it was typed; suggestions have nothing to fall back to.
MeilisearchFails ==
  /\ ask.pc = "meili"
  /\ AskIs([ask EXCEPT !.pc = IF ask.q.kind = "suggest" THEN "failed" ELSE "count",
                    !.words = ask.q.words, !.hits = <<>>])

\* Without words, the search's SELECT DISTINCT is ordered by a name that it does
\* not select, which PostgreSQL refuses.
Unordered(q) == q.kind = "search" /\ Head(q.words) = Blank

SearchRefused ==
  /\ ask.pc = "count"
  /\ Unordered(ask.q)
  /\ AskIs([ask EXCEPT !.pc = "failed"])

CountRows ==
  /\ ask.pc = "count"
  /\ ~Unordered(ask.q)
  /\ AskIs([ask EXCEPT
       !.total = Total(Catalogue, ask.q.filter, Head(ask.q.words)),
       !.engine = "postgres", !.pc = "rows"])

\* By rank, or by name: the second statement, with what is committed by now.
FetchRows ==
  LET q == ask.q
      found == Matching(Catalogue, q.filter, Head(q.words))
  IN  /\ ask.pc = "rows"
      /\ \E order \in IF q.kind = "list" THEN ByName(Catalogue, found) ELSE Orders(found) :
           LET page == PageOf(order, q.limit, q.offset)
           IN  AskIs([ask EXCEPT !.hits = page,
                 !.items = IF q.kind = "list" THEN page ELSE <<>>,
                 !.pc = IF q.kind = "list" THEN "facets" ELSE "hydrate"])

\* facet_counts: one statement for each axis, on the request's session.
CountFacets ==
  LET axis == AxisOrder[ask.axis]
  IN  /\ ask.pc = "facets"
      /\ AskIs([ask EXCEPT
           !.facets[axis] = CountAxis(Catalogue, axis, ask.q.filter, Head(ask.q.words)),
           !.axis = @ + 1,
           !.pc = IF ask.axis = Len(AxisOrder) THEN "done" ELSE "facets"])

\* hydrate_providers: the rows of the hits, whatever they say by now.
Hydrate ==
  /\ ask.pc = "hydrate"
  /\ \E rows \in Kept(ask.hits, DOMAIN Catalogue) :
       AskIs([ask EXCEPT !.items = rows, !.pc = IF rows = <<>> THEN "done" ELSE "rank"])

\* The matcher is disabled, late or away: the page stays as it is.
MatcherUnavailable == ask.pc = "rank" /\ AskIs([ask EXCEPT !.pc = "done"])

\* Variant: hits the matcher has not scored are dropped.
OnlyRanked(hits, ranked) == Kept(ranked, Elements(hits))

\* Ids the request did not ask about are skipped; hits without a score follow
\* in their order.
Reranked(hits, ranked) ==
  UNION {{scored \o rest : rest \in Kept(hits, Elements(hits) \ Elements(ranked))} :
         scored \in Kept(ranked, Elements(hits))}

\* The matcher scores some of the candidates, each once, in an order of its own
\* (matcher/src/scoring.rs: one score for every candidate it is sent).
Rerank ==
  /\ ask.pc = "rank"
  /\ \E S \in SUBSET Elements(ask.items) : \E ranked \in Orders(S) :
       \E hits \in Reranked(ask.hits, ranked) : \E page \in Kept(hits, Elements(ask.items)) :
         AskIs([ask EXCEPT !.items = page, !.pc = "done"])

Answer == ask.pc \in {"done", "failed"} /\ AskIs(NoAsk)

SearchNext ==
  \/ WorldMoves
  \/ \E q \in Queries : ReceiveQuery(q)
  \/ AskMeilisearch \/ MeilisearchFails \/ SearchRefused \/ CountRows \/ FetchRows \/ CountFacets
  \/ Hydrate \/ MatcherUnavailable \/ Rerank \/ Answer

SearchSpec == SearchInit /\ [][SearchNext]_searchVars

-----------------------------------------------------------------------------
(* What a request is promised.                                             *)

\* search.py:272-275, with hydrate_providers between the two: whatever the
\* matcher scores, leaves out or reorders, and whatever was written since the
\* index was built, the page has every hit exactly once.
AnswerKeepsHits ==
  ask.pc = "done" =>
    /\ Elements(ask.items) = Elements(ask.hits)
    /\ Len(ask.items) = Len(ask.hits)

\* The total and the items of an answer fit each other: always when one call of
\* Meilisearch gave both, and when two statements of PostgreSQL did, unless the
\* catalogue was written meanwhile.
PageFilled ==
  ask.pc = "done" /\ (ask.engine = "meilisearch" \/ ~ask.moved) =>
    Len(ask.items) = PageLength(ask.total, ask.q.limit, ask.q.offset)

\* A facet's count is the total that the same request has once the page asks for
\* that value instead of its own on the axis (catalog.py:163-218), with one
\* exception: a root's count is larger by the providers that are linked to a
\* category below it and not to the root, which its own slug does not find
\* (catalog.py:70).  A category below a root has no count.
FacetsPredict ==
  ask.pc = "done" /\ ask.q.kind = "list" /\ ~ask.moved =>
    \A a \in Axes, v \in Values :
      LET f == ask.q.filter  first == Head(ask.q.words)
      IN  ask.facets[a][v] =
            IF Rolled(v) # v THEN 0
            ELSE Total(Catalogue, Asking(f, a, v), first)
                 + Cardinality(OnlyBelow(Catalogue, a, f, v, first))

-----------------------------------------------------------------------------
(* The inductive invariant of the three.                                   *)

AskSteps == {"idle", "meili", "count", "rows", "facets", "hydrate", "rank", "done", "failed"}

AskTypeOK ==
  /\ DOMAIN ask = DOMAIN NoAsk
  /\ ask.pc \in AskSteps
  /\ ask.pc # "idle" => ask.q \in Queries
  /\ ask.axis \in Nat /\ ask.moved \in BOOLEAN
  /\ ask.hits \in Seq(Providers) /\ ask.items \in Seq(Providers)
  /\ DOMAIN ask.facets = Axes

\* A hit is on the page once, and is in the table, from which no row is removed;
\* the items are the hits from when they are read.
AnswerInv ==
  /\ \A i, j \in DOMAIN ask.hits : ask.hits[i] = ask.hits[j] => i = j
  /\ Elements(ask.hits) \subseteq DOMAIN Catalogue
  /\ ask.pc \in {"facets", "rank", "done"} =>
       Elements(ask.items) = Elements(ask.hits) /\ Len(ask.items) = Len(ask.hits)

\* The total and the hits are of one state of the catalogue, or of the index.
TotalInv ==
  /\ ask.pc = "rows" => ask.engine = "postgres"
  /\ ask.pc = "rows" /\ ~ask.moved =>
       ask.total = Total(Catalogue, ask.q.filter, Head(ask.q.words))
  /\ ask.pc \in {"facets", "hydrate", "rank", "done"}
       /\ (ask.engine = "meilisearch" \/ ~ask.moved) =>
       Len(ask.hits) = PageLength(ask.total, ask.q.limit, ask.q.offset)

\* The axes that have been counted.
FacetsInv ==
  /\ ask.pc \notin {"facets", "done"} => ask.axis = 1
  /\ ask.pc \in {"meili", "hydrate", "rank"} => ask.q.kind # "list"
  /\ ask.pc = "facets" => ask.q.kind = "list" /\ ask.axis \in DOMAIN AxisOrder
  /\ ask.pc = "done" /\ ask.q.kind = "list" => ask.axis > Len(AxisOrder)
  /\ ask.pc \in {"facets", "done"} /\ ask.q.kind = "list" /\ ~ask.moved =>
       \A i \in DOMAIN AxisOrder : i < ask.axis =>
         ask.facets[AxisOrder[i]] =
           CountAxis(Catalogue, AxisOrder[i], ask.q.filter, Head(ask.q.words))

SearchInv == IndexInv /\ AskTypeOK /\ AnswerInv /\ TotalInv /\ FacetsInv

=============================================================================
