--------------------------- MODULE CatalogueData ---------------------------
(***************************************************************************)
(* The reference data and the demo providers that the API's seed command   *)
(* writes (db/seed.py), and how a row finds the reference it names by a    *)
(* slug or a code.  Display names, texts and phones are left out; the slug *)
(* of a city or a country is a function of its name.                       *)
(***************************************************************************)

ItCategories == {"software-development", "devops-cloud", "quality-assurance",
                 "data-analytics", "ai-ml", "cybersecurity", "ui-ux-design"}

\* Variant: the tree from before the first niche.
AccountingBeforeNiche == {"bookkeeping", "tax-advisory", "payroll", "audit-assurance",
                          "financial-reporting"}

AccountingCategories == {"bookkeeping", "tax-advisory", "payroll", "audit-assurance",
                         "financial-reporting", "marketplace-accounting"}

LegalCategories == {"corporate-law", "contracts", "intellectual-property",
                    "compliance-regulatory", "dispute-resolution", "labor-law"}

MarketingCategories == {"seo", "content", "paid-media", "branding", "pr"}

HrCategories == {"recruiting", "staffing", "eor-peo", "training"}

\* _upsert_categories: a root and its children.
Tree == [it |-> ItCategories, accounting |-> AccountingCategories,
         legal |-> LegalCategories, marketing |-> MarketingCategories,
         hr |-> HrCategories]

\* The order in which the roots are written.
TreeOrder == <<"it", "accounting", "legal", "marketing", "hr">>

Categories == DOMAIN Tree \cup UNION {Tree[root] : root \in DOMAIN Tree}

Countries == {"RU", "PL", "DE", "UA", "US", "GB", "NL", "EE", "CZ", "RO", "LT"}

\* A form without a country is good for all of them.
Anywhere == "any"
LegalForms ==
  ({Anywhere} \X {"UNK", "SELF_EMPLOYED"}) \cup ({"RU"} \X {"OOO", "AO", "PAO", "IP"})
  \cup ({"PL"} \X {"SP_Z_O_O", "SA", "JDG"}) \cup ({"DE"} \X {"GMBH", "UG", "AG"})
  \cup ({"UA"} \X {"TOV", "FOP"}) \cup ({"US"} \X {"LLC", "INC", "CORP"})
  \cup ({"GB"} \X {"LTD", "PLC", "LLP"})

\* Cities by name; the names of two words by a name of their own.
SaintPetersburg == "Saint Petersburg"
NizhnyNovgorod == "Nizhny Novgorod"
NewYork == "New York"
SanFrancisco == "San Francisco"
Cities == [
  RU |-> {"Moscow", SaintPetersburg, "Novosibirsk", "Yekaterinburg", "Kazan",
          NizhnyNovgorod, "Samara", "Ulyanovsk", "Voronezh", "Omsk", "Kirov",
          "Perm", "Rostov-on-Don", "Krasnodar"},
  PL |-> {"Warsaw", "Krakow", "Wroclaw", "Gdansk"},
  DE |-> {"Berlin", "Munich", "Hamburg"},
  UA |-> {"Kyiv", "Lviv", "Kharkiv"},
  US |-> {NewYork, SanFrancisco, "Austin"},
  GB |-> {"London", "Manchester"},
  NL |-> {"Amsterdam"}, EE |-> {"Tallinn"}, CZ |-> {"Prague"},
  RO |-> {"Bucharest"}, LT |-> {"Vilnius"}]

Listing(slug, country, city, form, categories) ==
  [slug |-> slug, country |-> country, city |-> city, form |-> form,
   categories |-> categories]

\* Variant: the country of another city.
BalticAbroad == {
  Listing("tallinn-staffing-ou", "LT", "Tallinn", "UNK", {"hr", "recruiting", "eor-peo"})}

BalticProviders == {
  Listing("tallinn-staffing-ou", "EE", "Tallinn", "UNK", {"hr", "recruiting", "eor-peo"})}

SeedProviders == BalticProviders \cup {
  Listing("northwind-software-labs", "PL", "Warsaw", "SP_Z_O_O",
          {"it", "software-development", "devops-cloud"}),
  Listing("lindgren-data", "DE", "Berlin", "GMBH", {"it", "data-analytics", "ai-ml"}),
  Listing("kalynivka-legal-tov", "UA", "Lviv", "TOV",
          {"legal", "contracts", "corporate-law", "intellectual-property"}),
  Listing("aurora-bookkeeping", "GB", "London", "LTD",
          {"accounting", "bookkeeping", "payroll"}),
  Listing("paloma-growth", "US", "Austin", "LLC", {"marketing", "paid-media", "seo"})}

-----------------------------------------------------------------------------
\* The legal form a code stands for: the country's own before the universal one.
NoForm == <<>>
LegalFormOf(country, code) ==
  IF <<country, code>> \in LegalForms THEN <<country, code>>
  ELSE IF <<Anywhere, code>> \in LegalForms THEN <<Anywhere, code>>
  ELSE NoForm

=============================================================================
