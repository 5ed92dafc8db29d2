---------------------------- MODULE SpiderLists ----------------------------
(***************************************************************************)
(* The hand-made lists of companies that an operator's run-all crawls      *)
(* (apps/scraper: spiders/), as far as they decide which references a row  *)
(* gets and which rows become one: an entry's id, the host of its homepage *)
(* without www., its city, its legal form and its categories.              *)
(***************************************************************************)
EXTENDS CatalogueData

Company(id, host, city, form, categories) ==
  [id |-> id, host |-> host, city |-> city, form |-> form, categories |-> categories]
Software(id, host, city, form, more) ==
  Company(id, host, city, form, {"it", "software-development"} \cup more)

-----------------------------------------------------------------------------
(* ru_outsourcing_seed.py.                                                 *)

OutsourcingFirst == {
  Software("reksoft", "reksoft.ru", SaintPetersburg, "OOO",
    {"data-analytics", "ai-ml"}),
  Software("auriga", "auriga.com", "Moscow", "OOO", {"quality-assurance"}),
  Software("first-line-software", "firstlinesoftware.com", SaintPetersburg, "OOO",
    {"devops-cloud", "data-analytics"}),
  Software("digital-design", "digdes.com", SaintPetersburg, "AO", {}),
  Software("cinimex", "cinimex.ru", "Moscow", "OOO", {"devops-cloud"}),
  Software("lanit", "lanit.ru", "Moscow", "AO", {"cybersecurity"}),
  Software("ibs", "ibs.ru", "Moscow", "AO", {"data-analytics"}),
  Company("croc", "croc.ru", "Moscow", "AO",
    {"it", "devops-cloud", "cybersecurity"}),
  Software("softline", "softline.ru", "Moscow", "OOO",
    {"cybersecurity", "devops-cloud"}),
  Software("simbirsoft", "simbirsoft.com", "Ulyanovsk", "OOO",
    {"quality-assurance"})}

OutsourcingSecond == {
  Software("agima", "agima.ru", "Moscow", "OOO", {"ui-ux-design"}),
  Software("redmadrobot", "redmadrobot.ru", "Moscow", "OOO", {"ui-ux-design"}),
  Software("red-collar", "redcollar.studio", "Voronezh", "OOO", {"ui-ux-design"}),
  Software("mobileup", "mobileup.ru", "Moscow", "OOO", {"ui-ux-design"}),
  Software("live-typing", "livetyping.com", "Omsk", "OOO", {"ui-ux-design"}),
  Software("surf", "surf.dev", "Kirov", "OOO", {}),
  Software("naumen", "naumen.ru", "Yekaterinburg", "OOO", {}),
  Software("otr", "otr.ru", "Moscow", "AO", {}),
  Software("t1", "t1.ru", "Moscow", "OOO", {"cybersecurity", "devops-cloud"}),
  Software("arcadia", "arcadia.spb.ru", SaintPetersburg, "OOO",
    {"quality-assurance"})}

-----------------------------------------------------------------------------
(* ru_business_services_seed.py.                                           *)

ConsultingEntries == {
  Company("b1-consulting", "b1.ru", "Moscow", "OOO",
    {"accounting", "audit-assurance", "tax-advisory", "financial-reporting"}),
  Company("kept", "kept.ru", "Moscow", "AO",
    {"accounting", "audit-assurance", "tax-advisory", "legal"}),
  Company("delovoy-profil", "delprof.ru", "Moscow", "AO",
    {"accounting", "audit-assurance", "tax-advisory"}),
  Company("fbk", "fbk.ru", "Moscow", "AO",
    {"accounting", "audit-assurance", "tax-advisory"}),
  Company("nalog-expert", "glavbuh-assistent.ru", "Moscow", "OOO",
    {"accounting", "bookkeeping", "payroll", "tax-advisory"}),
  Company("pepeliaev", "pgplaw.ru", "Moscow", "OOO",
    {"legal", "tax-advisory", "corporate-law", "dispute-resolution", "intellectual-property"}),
  Company("egorov-puginsky", "epam.ru", "Moscow", "UNK",
    {"legal", "corporate-law", "dispute-resolution", "compliance-regulatory"}),
  Company("gorodissky", "gorodissky.ru", "Moscow", "OOO",
    {"legal", "intellectual-property", "dispute-resolution"})}

MarketingEntries == {
  Company("ashmanov", "ashmanov.com", "Moscow", "OOO",
    {"marketing", "seo", "paid-media", "content"}),
  Company("inagency", "ikra.agency", "Moscow", "OOO",
    {"marketing", "branding", "pr", "content"})}

\* Variant: an entry copied with its website.
HrEntriesCopied == {
  Company("ancor", "ancor.ru", "Moscow", "AO", {"hr", "recruiting", "staffing"}),
  Company("kelly-services-ru", "ancor.ru", SaintPetersburg, "OOO",
    {"hr", "recruiting", "staffing", "payroll"})}

HrEntries == {
  Company("ancor", "ancor.ru", "Moscow", "AO", {"hr", "recruiting", "staffing"}),
  Company("kelly-services-ru", "colemanservices.ru", SaintPetersburg, "OOO",
    {"hr", "recruiting", "staffing", "payroll"})}

-----------------------------------------------------------------------------
(* ru_regional_it_seed.py.                                                 *)

RegionalEntries == {
  Software("effective-technologies-kazan", "effective.tech", "Kazan", "OOO",
    {"quality-assurance", "devops-cloud"}),
  Software("axbit-novosibirsk", "axbit.ru", "Novosibirsk", "OOO", {"ui-ux-design"}),
  Software("krista-samara", "krista.ru", "Samara", "OOO", {"data-analytics"}),
  Company("itrium-perm", "itrium.ru", "Perm", "OOO",
    {"it", "cybersecurity", "data-analytics"}),
  Software("itconstruct-yekaterinburg", "itconstruct.ru", "Yekaterinburg", "OOO",
    {"ui-ux-design"}),
  Software("deiteriy-omsk", "deiteriylab.ru", "Omsk", "OOO",
    {"ui-ux-design", "data-analytics"}),
  Software("uspek-voronezh", "uspek.com", "Voronezh", "OOO", {"quality-assurance"}),
  Software("south-it-krasnodar", "southitpark.ru", "Krasnodar", "OOO",
    {"devops-cloud"})}

-----------------------------------------------------------------------------
(* ru_marketplace_accounting.py: candidates with the hint of their city;   *)
(* the host is the id.                                                     *)

Nowhere == "no hint"
Near(city, hosts) == {[host |-> h, city |-> city] : h \in hosts}

NicheAnywhere == UNION {
  Near(Nowhere, {"glavbuhok.ru", "fintehplus.ru", "proffresh.ru",
    "xn--80aabihevw3acrwef4a1of.xn--p1ai", "pbuexpert.ru", "knopka.com",
    "xn----etbfcngff4ei8b.xn--p1ai", "1cbo.eosfine.ru", "buhinfo.pro",
    "dbuh.online", "pbu.ru", "chur-buh.ru", "binergy.ru", "cfunalog.ru",
    "lad-salon.ru", "xn--80abgj3a5ames.xn--p1ai", "getbuh.com", "buhcontact.ru",
    "tax-smart.pro", "buh.reg-express.ru", "finabi.ru", "azbuka-ucheta.ru",
    "consultexpert.ru", "megaconsult.ru", "finprofcenter.ru", "marketcount.ru",
    "consult-gp.ru"}),
  Near("Moscow", {"buhclear.ru", "audston.ru", "i-ias.ru", "qb2b.ru",
    "efsol.ru", "fingu.ru", "finexpertgroup.ru", "rarus.ru", "uksor.ru",
    "buhtime.pro"})}

NicheInCities == UNION {
  Near(SaintPetersburg, {"oburo.ru", "sellers.spb.ru", "finkit.pro",
    "saldoria.ru", "buhinfospb.ru", "poseidon-finance.ru"}),
  Near("Kazan", {"buhmmaksimich.ru", "buhautsors-kzn.ru"}),
  Near("Yekaterinburg", {"finexpert-e.ru", "bdb-ek.ru", "atika-grup.ru"}),
  Near("Novosibirsk", {"sib-bb.ru", "buhberry.ru"}),
  Near("Krasnodar", {"polza-buhgalter.ru", "buhkrd.ru"}),
  Near(NizhnyNovgorod, {"expert-buhuchet.ru"}),
  Near("Samara", {"op-c.ru", "iqora.ru"}),
  Near("Rostov-on-Don", {"rokass.ru"}),
  Near("Perm", {"centrpmb.ru", "xn--90aad1cjhkq6f.xn--p1ai"}),
  Near("Chelyabinsk", {"buhkonsalt174.com"}),
  Near("Tyumen", {"agency3.ru", "tym.my-buhgalter.ru"})}

NicheCategories == {"accounting", "bookkeeping", "marketplace-accounting"}

\* _legal_form: an INN of 12 digits, of 10, or none.
NicheForm(digits) ==
  IF digits = 12 THEN "IP" ELSE IF digits = 10 THEN "OOO" ELSE "UNK"

-----------------------------------------------------------------------------
\* demo_directory.py; left out by run-all.
DemoItems == {
  Listing("nimbus-cloud-systems", "PL", "Krakow", "SP_Z_O_O",
          {"it", "devops-cloud", "cybersecurity"}),
  Listing("medusa-design-studio", "DE", "Munich", "GMBH", {"it", "ui-ux-design"}),
  Listing("prague-tax-advisors", "CZ", "Prague", "UNK",
          {"accounting", "tax-advisory", "financial-reporting"})}

\* The lists of the curated spiders, by source.
Curated == [
  ru_outsourcing |-> OutsourcingFirst \cup OutsourcingSecond,
  ru_business_services |-> ConsultingEntries \cup MarketingEntries \cup HrEntries,
  ru_regional_it |-> RegionalEntries]
Niche == NicheAnywhere \cup NicheInCities

=============================================================================
