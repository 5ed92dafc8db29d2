-------------------------- MODULE CatalogueContents --------------------------
(***************************************************************************)
(* What the seed and the spiders' lists make of the catalogue: the tree of *)
(* categories as the seed command builds it, and the references and the    *)
(* row that an imported item finds there (db/seed.py, pipeline.py).        *)
(*                                                                         *)
(* Imports are few (MaxImports), of any items in any order: what can go    *)
(* wrong between the lists is between two of their entries.  Merging by    *)
(* name and by tax id is in CatalogIngestion.                              *)
(***************************************************************************)
EXTENDS SpiderLists, FnsRegistry

CONSTANTS
  Root,       \* the parent of a category without one
  NoHost,     \* an item without a homepage
  MaxImports  \* bound: items imported

VARIABLES
  tree,       \* the categories table: [slugs -> the parent's slug, or Root]
  sown,       \* roots the seed is done with
  seed,       \* "running", "done" or "failed"
  companies,  \* the rows of providers
  imports     \* items imported so far

contentVars == <<tree, sown, seed, companies, imports>>

ContentInit ==
  /\ tree = <<>> /\ sown = 0 /\ seed = "running"
  /\ companies = {} /\ imports = 0

-----------------------------------------------------------------------------
(* The seed.                                                               *)

\* _upsert_categories: the root is inserted when it is missing; a child that is
\* there already is moved below it.
Upserted(root) ==
  LET slugs == DOMAIN tree \cup {root} \cup Tree[root]
      parent(c) == IF c \in Tree[root] THEN root
                   ELSE IF c \in DOMAIN tree THEN tree[c] ELSE Root
  IN  [c \in slugs |-> parent(c)]

SowRoot ==
  /\ seed = "running" /\ sown < Len(TreeOrder)
  /\ tree' = Upserted(TreeOrder[sown + 1])
  /\ sown' = sown + 1
  /\ UNCHANGED <<seed, companies, imports>>

\* The categories a row gets: slugs the table does not have are dropped.
Linked(slugs) == slugs \cap DOMAIN tree

\* The demo providers' homepages are all below one host.
DemoHost == "example.com"
ASSUME NoHostAssumption == NoHost # DemoHost

SeedRow(p) ==
  [key |-> <<"seed", p.slug>>, host |-> DemoHost, form |-> LegalFormOf(p.country, p.form),
   linked |-> Linked(p.categories), asked |-> p.categories, of |-> {}]

\* _upsert_providers: a country or a city that is not seeded is a KeyError, which
\* rolls the whole seed back.
SeedRows ==
  LET lost == {p \in SeedProviders : p.country \notin Countries
                                      \/ p.city \notin Cities[p.country]}
  IN  /\ seed = "running" /\ sown = Len(TreeOrder)
      /\ IF lost = {}
         THEN /\ seed' = "done" /\ companies' = {SeedRow(p) : p \in SeedProviders}
              /\ UNCHANGED <<tree, sown>>
         ELSE seed' = "failed" /\ tree' = <<>> /\ sown' = 0 /\ UNCHANGED companies
      /\ UNCHANGED imports

\* Later runs of the command, between any two imports: a root that is there keeps
\* its row, a demo provider its row too, with the seed's categories alone.
SeedAgain ==
  /\ seed = "done"
  /\ \/ /\ \E n \in 1 .. Len(TreeOrder) : tree' = Upserted(TreeOrder[n])
        /\ UNCHANGED companies
     \/ /\ \E p \in SeedProviders : \E c \in {d \in companies : d.key = <<"seed", p.slug>>} :
             companies' = (companies \ {c}) \cup
               {[c EXCEPT !.linked = Linked(p.categories), !.asked = p.categories]}
        /\ UNCHANGED tree
  /\ UNCHANGED <<sown, seed, imports>>

-----------------------------------------------------------------------------
(* The items of the lists and of the registry.                             *)

Offer(source, id, host, country, form, categories, from) ==
  [source |-> source, id |-> id, host |-> host, country |-> country, form |-> form,
   categories |-> categories, from |-> from]

CuratedItems ==
  UNION {{Offer(s, e.id, e.host, "RU", e.form, e.categories, e) : e \in Curated[s]} :
         s \in DOMAIN Curated}

NicheItems ==
  {Offer("ru_marketplace", n.host, n.host, "RU", NicheForm(digits), NicheCategories, n) :
   n \in Niche, digits \in {0, 10, 12}}

DemoSpiderItems ==
  {Offer("demo", e.slug, DemoHost, e.country, e.form, e.categories, e) : e \in DemoItems}

RegistryItems ==
  LET importable == {d \in Documents : ParseDocument(d) # Absent}
      item(d) == LET r == ParseDocument(d)
                 IN  Offer("ru_fns", r.id, NoHost, "RU", r.form, r.categories, d)
  IN  {item(d) : d \in importable}

Offers == CuratedItems \cup NicheItems \cup DemoSpiderItems \cup RegistryItems

\* _find_existing_by_source, _find_existing_by_domain, whose pattern asks for a slash
\* after the host: every homepage of the lists and of the seed has one.
Existing(i) ==
  LET same == {c \in companies : c.key = <<i.source, i.id>>}
      near == {c \in companies : c.host = i.host /\ i.host # NoHost}
  IN  IF same # {} THEN same ELSE near

NewCompany(i) == [key |-> <<i.source, i.id>>, host |-> i.host, form |-> NoForm, linked |-> {},
              asked |-> {}, of |-> {}]

\* The row with what the item says: COALESCE for the form, ON CONFLICT DO NOTHING
\* for the categories.
Absorbing(c, i) ==
  LET form == LegalFormOf(i.country, i.form)
  IN  [c EXCEPT !.form = IF form = NoForm THEN @ ELSE form,
                !.host = IF i.host = NoHost THEN @ ELSE i.host,
                !.linked = @ \cup Linked(i.categories),
                !.asked = @ \cup i.categories,
                !.of = @ \cup {i}]

Import(i) ==
  /\ seed = "done" /\ imports < MaxImports
  /\ imports' = imports + 1
  /\ IF Existing(i) = {} THEN companies' = companies \cup {Absorbing(NewCompany(i), i)}
     ELSE \E c \in Existing(i) : companies' = (companies \ {c}) \cup {Absorbing(c, i)}
  /\ UNCHANGED <<tree, sown, seed>>

ContentNext ==
  \/ SowRoot \/ SeedRows \/ SeedAgain
  \/ \E i \in Offers : Import(i)

ContentSpec == ContentInit /\ [][ContentNext]_contentVars

-----------------------------------------------------------------------------
\* What names a form or categories names some there are.
Resolved(c) == c.form # NoForm /\ c.linked = c.asked

(* The seed is one whole: it never fails, no category it has placed is     *)
(* moved by a later root (seed.py 358-373), and every demo provider finds  *)
(* its form and all its categories (seed.py 456-460, 485); also when it    *)
(* runs again over what the spiders have made of its rows.                 *)
SeedIsWhole ==
  /\ seed # "failed"
  /\ \A n \in 1 .. sown :
       /\ tree[TreeOrder[n]] = Root
       /\ \A c \in Tree[TreeOrder[n]] : tree[c] = TreeOrder[n]
  /\ \A c \in companies : c.key[1] = "seed" => Resolved(c)

(* No list names a category that the tree or a legal form that its country *)
(* does not have: a slug that matches nothing is dropped without a word,   *)
(* and the row shows up in no filter (pipeline.py 82-92, 181-188).         *)
ListsResolve ==
  \A c \in companies : \A i \in c.of :
    i.source # "ru_fns" => Resolved(c) /\ i.country \in Countries

OneCompany(i, j) ==
  \/ i.from = j.from
  \/ i.source = "ru_fns" /\ j.source = "ru_fns" /\ i.id = j.id

(* No two entries of the lists that run-all crawls are one company to the  *)
(* pipeline, which overwrites the row of the first with the second by      *)
(* their source key or their homepage's host (pipeline.py 96-128,          *)
(* 200-215).  Records of the registry with one tax id are one company.     *)
CompaniesApart ==
  \A c \in companies : \A i, j \in c.of :
    i.source # "demo" /\ j.source # "demo" => OneCompany(i, j)

\* The rules that know a code, each with the prefix by which it does; the categories
\* of the one with the longest; the first activity that any rule knows.
Fits(code) ==
  {r \in (DOMAIN Rules) \X UNION {Rules[n].at : n \in DOMAIN Rules} :
     r[2] \in Rules[r[1]].at /\ Applies([Rules[r[1]] EXCEPT !.at = {r[2]}], code)}
LongestRule(code) ==
  LET best == CHOOSE r \in Fits(code) : \A q \in Fits(code) : Len(q[2]) <= Len(r[2])
  IN  Rules[best[1]].categories
FirstKnown(activities) ==
  activities[Min({n \in DOMAIN activities : Fits(activities[n]) # {}})]

(* Whatever the order of its if-chain, the importer gives a record the     *)
(* categories of the most specific OKVED prefix; its form is one the seed  *)
(* knows and the city of its region too (ru_fns_sme_registry.py 29-44,     *)
(* 73-108, 131-154).                                                       *)
RegistryResolves ==
  \A c \in companies : \A i \in c.of :
    i.source = "ru_fns" =>
      /\ Resolved(c)
      /\ i.categories = LongestRule(FirstKnown(i.from.activities))
      /\ LET city == CityFromLocation(i.from)
         IN  i.from.town = Absent /\ city # Absent => city \in Cities["RU"]

\* The rows below the demo host hold demo items only; any other holds items of one
\* source key and one homepage.
RowApart(c) ==
  IF c.host = DemoHost
  THEN c.key[1] \in {"seed", "demo"} /\ \A i \in c.of : i.source = "demo"
  ELSE /\ c.of # {}
       /\ \A i \in c.of : i.source # "demo" /\ c.key = <<i.source, i.id>> /\ c.host = i.host

\* The tree as far as the seed has come, and rows that found all they name.
ContentInv ==
  /\ sown \in 0 .. Len(TreeOrder)
  /\ DOMAIN tree = UNION {{TreeOrder[n]} \cup Tree[TreeOrder[n]] : n \in 1 .. sown}
  /\ \A n \in 1 .. sown :
       /\ tree[TreeOrder[n]] = Root
       /\ \A c \in Tree[TreeOrder[n]] : tree[c] = TreeOrder[n]
  /\ \/ seed = "running" /\ companies = {}
     \/ seed = "done" /\ sown = Len(TreeOrder)
  /\ \A c \in companies :
       /\ DOMAIN c = {"key", "host", "form", "linked", "asked", "of"}
       /\ Resolved(c) /\ RowApart(c) /\ c.of \subseteq Offers

=============================================================================
