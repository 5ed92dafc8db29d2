---------------------------- MODULE MCCatalogue ----------------------------
(* CatalogIngestion on a small instance: a curated company, a registry     *)
(* record, a niche firm that is found in the registry when its contacts    *)
(* page can be read and resembles it by name, and a demo provider with the *)
(* curated company's slug.  Next to it, each in behaviours of its own      *)
(* (part), what the real lists and the seed's data make of the catalogue,  *)
(* the command that cuts the registry's dump, and the index of the         *)
(* catalogue and its search.                                               *)
EXTENDS CatalogIngestion, CatalogueContents, CatalogSearch, TLC

CONSTANTS
  curated, listed, firm, demo,       \* entries
  acme, beta, chef,                  \* providers
  it, web, law, RU, word, typo,      \* categories, a country, searched words
  cron, operator                     \* reindexes

MCKind == (curated :> "seed") @@ (listed :> "registry") @@ (firm :> "market")
          @@ (demo :> "demo")

F(name, mail, tax, city) ==
  ("name" :> name) @@ ("mail" :> mail) @@ ("tax" :> tax) @@ ("city" :> city)
Unread == F(None, None, None, None)

MCCard ==
  (curated :> F("Beta", None, None, "Moscow"))
  @@ (listed :> F("BETA", None, "7701", None))
  @@ (firm :> F(None, None, None, "Moscow"))
  @@ (demo :> F("Beta", "hi@beta", None, "Moscow"))
MCHost == (curated :> "beta.ru") @@ (listed :> None) @@ (firm :> "beta.ru")
          @@ (demo :> "example.com")
MCLanding == [e \in Entries |->
  IF e = firm THEN F("BETA", None, None, None) ELSE Unread]
MCHome == [e \in Entries |->
  IF e = curated THEN F("Beta", "info@beta", None, None)
  ELSE Unread]
MCContact == [e \in Entries |->
  IF e = firm THEN F(None, "info@beta", "7701", None) ELSE Unread]

MCTexts == {"Beta", "BETA", "7701", "Moscow", "beta.ru", "example.com",
            "info@beta", "hi@beta", "beta", "beta-ru"}
MCSlugOf == [t \in MCTexts |->
  IF t \in {"Beta", "BETA"} THEN "beta" ELSE IF t = "beta.ru" THEN "beta-ru" ELSE t]
MCSimilar == {<<"Beta", "BETA">>, <<"BETA", "Beta">>}

MCFeed == ("seed" :> <<curated>>) @@ ("registry" :> <<listed>>) @@ ("market" :> <<firm>>)
MCPlan == ("runall" :> <<"registry", "seed">>) @@ ("crawlall" :> <<"registry", "market">>)
MCLimit == ("runall" :> 1) @@ ("crawlall" :> 9)

Doc(subject, short, full, mentions, activities, region) ==
  [subject |-> subject, short |-> short, full |-> full, mentions |-> mentions,
   activities |-> activities, region |-> region, town |-> Absent,
   inn |-> ToString(<<full, activities, region>>)]

\* Two documents that are imported and one, whose code has no digit, that is not.
MCDumpDocuments == {
  Doc("org", "Beta", "Beta LLC", {"AO", "OOO"}, <<<<47, 1>>, <<62, 0, 1>>>>, "r77"),
  Doc("ip", Absent, "Ivanov", {}, <<<<73, 1, 1>>, <<69, 2, 0>>>>, "r77"),
  Doc("org", "Gamma", "Gamma LLC", {"OOO"}, <<<<62>>>>, "r77")}

\* One for every prefix of the rules, alone and with a digit after it, one for every
\* region, and one of a company that has moved.
RulePrefixes == UNION {Rules[n].at : n \in DOMAIN Rules}
Codes == RulePrefixes \cup {Append(p, 9) : p \in RulePrefixes}
MCDocuments ==
  MCDumpDocuments
  \cup {Doc("org", Absent, "Delta LLC", {"OOO"}, <<c>>, "r77") : c \in Codes}
  \cup {Doc("org", Absent, "Zeta AO", {"AO"}, <<<<62, 0>>>>, r) :
          r \in DOMAIN RegionToCity \cup {"r99"}}
  \cup {[Doc("ip", Absent, "Ivanov", {}, <<<<73, 1, 1>>, <<69, 2, 0>>>>, "r77")
          EXCEPT !.region = "r78"]}
MCDumps == BoundedSeq(MCDumpDocuments, 4)

-----------------------------------------------------------------------------
(* A provider changes its categories, one is withdrawn, one appears.          *)
Row(published, name, categories, countries, words) ==
  [published |-> published, name |-> name, words |-> words,
   on |-> [a \in Axes |-> CASE a = "categories" -> categories
                            [] a = "countries" -> countries
                            [] OTHER -> {}]]
MCRowAt ==
  acme :> <<Row(TRUE, 2, {it, web}, {RU}, {word, typo}), Row(TRUE, 2, {web}, {RU}, {})>> @@
  beta :> <<Row(TRUE, 1, {law}, {}, {word}), Row(FALSE, 1, {law}, {}, {word})>> @@
  chef :> <<Row(TRUE, 1, {it}, {RU}, {word})>>
MCCreatedAt == acme :> 1 @@ beta :> 2 @@ chef :> 3
MCParentOf == it :> NoValue @@ web :> it @@ law :> NoValue

Unfiltered == [a \in Axes |-> {}]
Query(kind, words, filter, limit, offset) ==
  [kind |-> kind, words |-> words, filter |-> filter, limit |-> limit, offset |-> offset]
MCQueries ==
  LET ofIt == [Unfiltered EXCEPT !["categories"] = {it, web}]
      ofRU == [Unfiltered EXCEPT !["countries"] = {RU}]
  IN  {Query("search", <<word>>, Unfiltered, 2, 0),
       Query("search", <<typo, word>>, ofIt, 1, 1),
       Query("search", <<Blank>>, ofRU, 1, 0),
       Query("list", <<Blank>>, ofIt, 2, 0),
       Query("list", <<word>>, ofRU, 1, 1),
       Query("suggest", <<word>>, Unfiltered, 2, 0)}

-----------------------------------------------------------------------------
VARIABLE part  \* which of the five a behaviour is about

MCInit ==
  /\ part \in {"runs", "contents", "dump", "index", "search"}
  /\ Init /\ ContentInit /\ CutInit
  /\ SearchInit /\ version[acme] = 1 /\ version[beta] = 1 /\ version[chef] = 0

MCNext ==
  \/ part = "runs" /\ Next /\ UNCHANGED <<contentVars, cut, searchVars, part>>
  \/ part = "contents" /\ ContentNext /\ UNCHANGED <<vars, cut, searchVars, part>>
  \/ part = "dump" /\ CutNext /\ UNCHANGED <<vars, contentVars, searchVars, part>>
  \/ /\ part = "index" /\ IndexNext
     /\ UNCHANGED <<vars, contentVars, cut, ask, part>>
  \/ \* Under a request, cron's reindex is the only one.
     /\ part = "search" /\ SearchNext /\ UNCHANGED job[operator]
     /\ UNCHANGED <<vars, contentVars, cut, part>>

MCSpec == MCInit /\ [][MCNext]_<<vars, contentVars, cut, searchVars, part>>

WorkerSymmetry == Permutations(Workers)

=============================================================================
