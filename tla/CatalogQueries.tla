--------------------------- MODULE CatalogQueries ---------------------------
(***************************************************************************)
(* The queries over the providers table and over the documents of the      *)
(* index (services/catalog.py, services/search.py, services/indexer.py).   *)
(*                                                                         *)
(* A catalogue is a function from some providers to their rows.  A row has *)
(* a set of values on each axis: its categories, and at most one country,  *)
(* city and legal form.  A text is the set of words that find it; names    *)
(* are known by their place in the alphabet.                               *)
(***************************************************************************)
EXTENDS Naturals, FiniteSets, Sequences

CONSTANTS
  CategorySlugs, \* slugs of the categories
  ParentOf,      \* [CategorySlugs -> the parent, or NoValue for a root]
  Places,        \* codes and slugs of countries, cities and legal forms
  NoValue,       \* no parent, no category joined
  Blank          \* the query without words

ASSUME TreeAssumption ==
  /\ ParentOf \in [CategorySlugs -> CategorySlugs \cup {NoValue}]
  /\ NoValue \notin CategorySlugs
  /\ \A c \in CategorySlugs : ParentOf[c] # NoValue => ParentOf[ParentOf[c]] = NoValue
ASSUME PlacesAssumption == Places \cap CategorySlugs = {}

\* The axes of filters and facets, in the order they are counted.
AxisOrder == <<"categories", "countries", "cities", "legal_forms">>
Axes == {AxisOrder[i] : i \in 1 .. Len(AxisOrder)}
Values == CategorySlugs \cup Places

\* A row has categories on their axis, and places on the others.
RowOK(row) ==
  /\ row.published \in BOOLEAN
  /\ \A a \in Axes : row.on[a] \subseteq IF a = "categories" THEN CategorySlugs ELSE Places

Says(row, word) == word = Blank \/ word \in row.words

\* A filter asks for any of its values on every axis it names, among published
\* providers.
Passes(row, f) ==
  /\ row.published
  /\ \A a \in Axes : f[a] = {} \/ f[a] \cap row.on[a] # {}

Matching(catalogue, f, word) ==
  {p \in DOMAIN catalogue : Passes(catalogue[p], f) /\ Says(catalogue[p], word)}

\* Filtering by category joins a provider once for every category of it that
\* was asked for.
Joined(catalogue, f, word) ==
  UNION {{<<p, c>> : c \in IF f["categories"] = {} THEN {NoValue}
                           ELSE f["categories"] \cap catalogue[p].on["categories"]} :
         p \in Matching(catalogue, f, word)}

\* Variant: without DISTINCT.
JoinedRows(catalogue, f, word) == Cardinality(Joined(catalogue, f, word))

\* SELECT count(*) over the distinct providers.
Total(catalogue, f, word) ==
  Cardinality({j[1] : j \in Joined(catalogue, f, word)})

Elements(s) == {s[i] : i \in DOMAIN s}

PageOf(s, limit, offset) ==
  SubSeq(s, offset + 1, IF offset + limit < Len(s) THEN offset + limit ELSE Len(s))

PageLength(total, limit, offset) ==
  IF total <= offset THEN 0
  ELSE IF total - offset < limit THEN total - offset ELSE limit

\* The sequences of all of S: an order that PostgreSQL or Meilisearch may choose.
Orders(S) ==
  {s \in [1 .. Cardinality(S) -> S] : \A i, j \in DOMAIN s : s[i] = s[j] => i = j}

\* ORDER BY display_name; providers of one name come in any order.
ByName(catalogue, S) ==
  {s \in Orders(S) : \A i, j \in DOMAIN s :
     i < j => catalogue[s[i]].name <= catalogue[s[j]].name}

\* What S has of the sequence s, in the order of s.
Kept(s, S) ==
  {r \in Orders(S \cap Elements(s)) : \A i, j \in DOMAIN r, k, l \in DOMAIN s :
     r[i] = s[k] /\ r[j] = s[l] /\ i < j => k < l}

-----------------------------------------------------------------------------
(* Facets.  The fifty-city limit of the cities axis is left out.           *)

\* Variant: the axis keeps its own filter.
KeepAxis(f, axis) == f

\* An axis counts what the other axes let through.
WithoutAxis(f, axis) == [f EXCEPT ![axis] = {}]

\* A category counts for its root.
Rolled(c) == IF c \in CategorySlugs /\ ParentOf[c] # NoValue THEN ParentOf[c] ELSE c

CountAxis(catalogue, axis, f, word) ==
  LET found == Matching(catalogue, WithoutAxis(f, axis), word)
  IN  [v \in Values |->
         Cardinality({p \in found : \E w \in catalogue[p].on[axis] : Rolled(w) = v})]

\* The filter that asks for a value of an axis: the slug or code itself, for a root
\* too (ProviderFilters.tsx:243).
Asking(f, axis, v) == [f EXCEPT ![axis] = {v}]

\* Those a root counts and its own slug does not find: linked below it only.
OnlyBelow(catalogue, axis, f, v, word) ==
  {p \in Matching(catalogue, WithoutAxis(f, axis), word) :
     /\ v \notin catalogue[p].on[axis]
     /\ \E w \in catalogue[p].on[axis] : Rolled(w) = v}

=============================================================================
