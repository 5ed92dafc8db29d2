---------------------------- MODULE FnsRegistry ----------------------------
(***************************************************************************)
(* The importer of the tax service's registry of small companies           *)
(* (spiders/ru_fns_sme_registry.py) and the command that cuts its dump     *)
(* into batches (cli.py, prepare-fns-sme).  An OKVED code is the tuple of  *)
(* its class and the digits after the dot, "62.01" is <<62, 0, 1>>; names  *)
(* are opaque.                                                             *)
(***************************************************************************)
EXTENDS CatalogueData, Naturals, SequencesExt

CONSTANTS
  Documents,  \* documents a dump may hold
  Absent,     \* no name, no town, no record
  Dumps,      \* dumps the command cuts: sequences of documents
  Limits,     \* limits it is given
  Sizes       \* batch sizes it is given

\* [subject |-> "org", "ip" or "neither", short, full |-> its names, mentions |->
\* the abbreviations of forms that occur in the full name, activities |-> the main
\* OKVED code and the additional ones, region, town, inn]
DocumentFields == {"subject", "short", "full", "mentions", "activities", "region",
                   "town", "inn"}
ASSUME DocumentsAssumption ==
  /\ \A d \in Documents :
       DOMAIN d = DocumentFields /\ d.activities \in Seq(Seq(Nat))
  /\ Dumps \subseteq Seq(Documents)
  /\ Limits \cup Sizes \subseteq Nat \ {0}

VARIABLE cut  \* the command at work

-----------------------------------------------------------------------------
(* map_okved_to_categories.                                                *)

Under(prefixes, categories) ==
  [at |-> prefixes, exact |-> FALSE, categories |-> categories]
Exactly(code, categories) == [at |-> {code}, exact |-> TRUE, categories |-> categories]

ItRules == <<
  Under({<<62>>}, {"it", "software-development"}),
  Under({<<63, 1>>}, {"it", "data-analytics"}),
  Under({<<58, 2>>}, {"it", "software-development"}),
  Exactly(<<74, 1, 0>>, {"it", "ui-ux-design"})>>

OfficeRules == <<
  Under({<<69, 2, 0>>}, {"accounting", "bookkeeping", "tax-advisory"}),
  Under({<<69, 1, 0>>}, {"legal", "corporate-law", "contracts"})>>

\* Variant: the whole class before two of its groups.
MarketingRulesWideFirst == <<
  Under({<<73>>}, {"marketing"}),
  Under({<<73, 1, 1>>, <<73, 1, 2>>}, {"marketing", "paid-media"}),
  Under({<<70, 2, 1>>}, {"marketing", "pr"})>>

MarketingRules == <<
  Under({<<73, 1, 1>>, <<73, 1, 2>>}, {"marketing", "paid-media"}),
  Under({<<73>>}, {"marketing"}),
  Under({<<70, 2, 1>>}, {"marketing", "pr"})>>

HrRules == <<
  Under({<<78, 1, 0>>}, {"hr", "recruiting"}),
  Under({<<78, 2, 0>>, <<78, 3, 0>>}, {"hr", "staffing"}),
  Under({<<85, 4, 2>>}, {"hr", "training"})>>

Rules == ItRules \o OfficeRules \o MarketingRules \o HrRules

\* "62." asks for a digit after the dot.
Applies(rule, code) ==
  IF rule.exact THEN code \in rule.at
  ELSE Len(code) > 1 /\ \E prefix \in rule.at : IsPrefix(prefix, code)

\* The first rule that applies; none: no categories.
MapOkved(code) ==
  LET S == {n \in DOMAIN Rules : Applies(Rules[n], code)}
  IN  IF S = {} THEN {} ELSE Rules[Min(S)].categories

-----------------------------------------------------------------------------
(* parse_document.                                                         *)

RegionToCity == [
  r77 |-> "Moscow", r78 |-> SaintPetersburg, r54 |-> "Novosibirsk",
  r66 |-> "Yekaterinburg", r16 |-> "Kazan", r52 |-> NizhnyNovgorod,
  r63 |-> "Samara", r73 |-> "Ulyanovsk", r36 |-> "Voronezh", r55 |-> "Omsk",
  r43 |-> "Kirov", r59 |-> "Perm", r61 |-> "Rostov-on-Don", r23 |-> "Krasnodar"]

CityFromLocation(doc) ==
  IF doc.town # Absent THEN doc.town
  ELSE IF doc.region \in DOMAIN RegionToCity THEN RegionToCity[doc.region]
  ELSE Absent

\* The abbreviations are looked for anywhere in the name, and that of a public
\* company contains that of a joint-stock company.
InferLegalForm(doc) ==
  IF doc.subject = "ip" THEN "IP"
  ELSE IF "PAO" \in doc.mentions THEN "PAO"
  ELSE IF "AO" \in doc.mentions THEN "AO"
  ELSE IF "OOO" \in doc.mentions THEN "OOO"
  ELSE "UNK"

Mapped(doc) == {n \in DOMAIN doc.activities : MapOkved(doc.activities[n]) # {}}

\* A document without a subject, a name or an activity of interest is passed over.
ParseDocument(doc) ==
  IF doc.subject = "neither" \/ doc.full = Absent \/ Mapped(doc) = {} THEN Absent
  ELSE [id |-> doc.inn,
        name |-> IF doc.subject = "org" /\ doc.short # Absent THEN doc.short ELSE doc.full,
        form |-> InferLegalForm(doc),
        city |-> CityFromLocation(doc),
        categories |-> MapOkved(doc.activities[Min(Mapped(doc))])]

\* iter_records, of a dump as of a batch: the places of the records among the
\* first n documents.
Imported(dump, n) == {k \in 1 .. n : ParseDocument(dump[k]) # Absent}

-----------------------------------------------------------------------------
(* prepare-fns-sme.                                                        *)

\* Variant: a batch is opened a record too late.
OpensAfter(written, size) == written % size = 1

OpensBatch(written, size) == written % size = 0

\* --input, --limit and --batch-size of the command.
Cutting(dump, limit, size) ==
  [pc |-> "cutting", dump |-> dump, at |-> 0, limit |-> limit, size |-> size,
   written |-> 0, files |-> <<>>]

CutInit == cut = [Cutting(<<>>, 1, 1) EXCEPT !.pc = "idle"]

StartCut ==
  /\ cut.pc = "idle"
  /\ \E dump \in Dumps, limit \in Limits, size \in Sizes : cut' = Cutting(dump, limit, size)

\* A record in a file of its own; as the last line of the last file.
WithFile(files, record) == Append(files, <<record>>)
WithLine(files, record) == [files EXCEPT ![Len(files)] = Append(@, record)]

\* A record is written.  Without an open file that is a RuntimeError.
Written(record) ==
  IF OpensBatch(cut.written, cut.size)
  THEN [cut EXCEPT !.at = @ + 1, !.written = @ + 1, !.files = WithFile(@, record)]
  ELSE IF cut.files = <<>> THEN [cut EXCEPT !.pc = "no file"]
  ELSE [cut EXCEPT !.at = @ + 1, !.written = @ + 1, !.files = WithLine(@, record)]

\* The next document.  The limit is noticed with the first record beyond it.
ReadDocument ==
  /\ cut.pc = "cutting" /\ cut.at < Len(cut.dump)
  /\ LET record == ParseDocument(cut.dump[cut.at + 1])
     IN  cut' = IF record = Absent THEN [cut EXCEPT !.at = @ + 1]
                ELSE IF cut.written >= cut.limit THEN [cut EXCEPT !.pc = "done"]
                ELSE Written(record)

\* The dump is read; or its rest cannot be, and what was written stays.
EndCut ==
  /\ cut.pc = "cutting"
  /\ cut' = [cut EXCEPT !.pc = IF cut.at = Len(cut.dump) THEN "done" ELSE "failed"]

CutNext == StartCut \/ ReadDocument \/ EndCut

CutSpec == CutInit /\ [][CutNext]_cut

-----------------------------------------------------------------------------
\* The lines of the files, numbered through, and the records read.
Number(b, i, size) == (b - 1) * size + i
LinesOf(files, size) ==
  UNION {{<<Number(b, i, size), files[b][i]>> : i \in DOMAIN files[b]} : b \in DOMAIN files}
RecordsOf(dump, n) ==
  {<<Cardinality(Imported(dump, k)), ParseDocument(dump[k])>> : k \in Imported(dump, n)}

(* Wherever the command stops, its files hold the records read so far,     *)
(* each once and in the dump's order, and at its end all up to the limit;  *)
(* only the last file may be short and none is empty (cli.py 102-132).     *)
BatchesAreTheDump ==
  /\ cut.pc # "no file"
  /\ LinesOf(cut.files, cut.size) = RecordsOf(cut.dump, cut.at)
  /\ cut.pc = "done" => cut.written = cut.limit \/ cut.at = Len(cut.dump)
  /\ \A b \in DOMAIN cut.files :
       /\ Len(cut.files[b]) \in 1 .. cut.size
       /\ b < Len(cut.files) => Len(cut.files[b]) = cut.size

CutTypeOK ==
  cut \in [pc : {"idle", "cutting", "done", "failed", "no file"}, dump : Seq(Documents),
           at : Nat, limit : Nat, size : Nat \ {0}, written : Nat,
           files : Seq(Seq({ParseDocument(d) : d \in Documents}))]

\* How far the last file has come, and what is read and written of the dump.
CutInv ==
  /\ CutTypeOK /\ BatchesAreTheDump
  /\ cut.at <= Len(cut.dump) /\ cut.written <= cut.limit
  /\ cut.written = Cardinality(Imported(cut.dump, cut.at))
  /\ LET last == Len(cut.files)
     IN  IF cut.files = <<>> THEN cut.written = 0
         ELSE cut.written = Number(last, Len(cut.files[last]), cut.size)

=============================================================================
