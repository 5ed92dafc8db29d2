------------------------------- MODULE Spiders -------------------------------
(***************************************************************************)
(* What the scraper's spiders make of the entries of their lists: one      *)
(* polite fetch (http.py, robots.py) and the item a spider yields for an   *)
(* entry from the pages it got (spiders/).  A page is the facts that the   *)
(* extractors find on it; wording, phones and descriptions are left out.   *)
(***************************************************************************)
EXTENDS Naturals

CONSTANTS
  Entries,       \* everything the spiders' lists and the registry dump hold
  Kind,          \* [Entries -> "demo", "seed", "registry" or "market"]
  Card,          \* [Entries -> Facts]: what the list or the dump itself says
  HostOf,        \* [Entries -> the host of the homepage, or None]
  Landing,       \* [Entries -> Facts]: the niche landing page
  Home,          \* [Entries -> Facts]: the homepage
  Contact,       \* [Entries -> Facts]: the contacts page
  OnTopic,       \* entries whose landing page mentions marketplaces
  AtRoot,        \* entries whose landing page is the homepage
  RobotsStrict,  \* settings.robots_strict
  Texts,         \* names, addresses, tax ids, cities and hosts
  None           \* nothing found

Fields == {"name", "mail", "tax", "city"}
Facts == [Fields -> Texts \cup {None}]

\* A ScrapedProvider; its entry stands for (source, source_id).
Items == [entry : Entries, name : Texts, host : Texts \cup {None},
          mail : Texts \cup {None}, tax : Texts \cup {None},
          city : Texts \cup {None}]

ASSUME NoneAssumption == None \notin Texts \cup Items
ASSUME KindAssumption == Kind \in [Entries -> {"demo", "seed", "registry", "market"}]
ASSUME FactsAssumption ==
  /\ Card \in [Entries -> Facts] /\ Landing \in [Entries -> Facts]
  /\ Home \in [Entries -> Facts] /\ Contact \in [Entries -> Facts]
  /\ HostOf \in [Entries -> Texts \cup {None}]
  /\ \A e \in Entries : IF Kind[e] = "market" THEN HostOf[e] # None
                          ELSE Card[e]["name"] # None
ASSUME SitesAssumption == OnTopic \subseteq Entries /\ AtRoot \subseteq Entries
ASSUME StrictAssumption == RobotsStrict \in BOOLEAN

-----------------------------------------------------------------------------
(* PoliteFetcher.get.                                                      *)

\* The rules say yes or no, or there are none to read.
RobotsAnswers == {"allow", "deny", "unreadable"}

RobotsAllow(answer) ==
  \/ answer = "allow"
  \/ answer = "unreadable" /\ ~RobotsStrict

MaxAttempts == 3
Attempts == {"transport", "status", "too_large", "challenge", "page"}

\* The first answer that is not a transport error counts; a spider takes a
\* challenge for no page.
Got(answer, attempts) ==
  /\ RobotsAllow(answer)
  /\ \E n \in 1 .. MaxAttempts :
       /\ attempts[n] = "page"
       /\ \A m \in 1 .. (n - 1) : attempts[m] = "transport"

\* Whether a page of a host that answers so about robots.txt may be had or not.
Outcomes(answer) == {Got(answer, a) : a \in [1 .. MaxAttempts -> Attempts]}

-----------------------------------------------------------------------------
(* Facts.                                                                  *)

Nothing == [f \in Fields |-> None]
Or(v, w) == IF v # None THEN v ELSE w
Merge(first, second) == [f \in Fields |-> Or(first[f], second[f])]
If(got, facts) == IF got THEN facts ELSE Nothing

Item(e, name, facts) ==
  [entry |-> e, name |-> name, host |-> HostOf[e], mail |-> facts["mail"],
   tax |-> facts["tax"], city |-> facts["city"]]

-----------------------------------------------------------------------------
(* The spiders.                                                            *)

\* The demo directory and the FNS registry are read from memory and from a file.
ListedItem(e) == Item(e, Card[e]["name"], Card[e])

\* A curated company: from its homepage, when there is one to read, only the
\* address (and the description) is taken.
SeedItem(e, home) ==
  Item(e, Card[e]["name"],
       [Card[e] EXCEPT !["mail"] = If(home, Home[e])["mail"], !["tax"] = None])

\* The contacts of a niche candidate: the landing page's, completed by the
\* homepage's, overruled by the contacts page's where they are incomplete.
MarketContacts(e, home, contact) ==
  LET found == IF e \in AtRoot THEN Landing[e]
               ELSE Merge(Landing[e], If(home, Home[e]))
      missing == \E f \in {"mail", "tax", "city"} : found[f] = None
  IN  IF missing THEN Merge(If(contact, Contact[e]), found) ELSE found

\* The candidate's own name, the homepage's brand, the landing page's, or its
\* host.
MarketName(e, home) ==
  LET site == IF e \notin AtRoot /\ home THEN Home[e] ELSE Landing[e]
  IN  Or(Card[e]["name"], Or(site["name"], Or(Landing[e]["name"], HostOf[e])))

MarketItem(e, home, contact) ==
  LET facts == MarketContacts(e, home, contact)
  IN  Item(e, MarketName(e, home),
           [facts EXCEPT !["city"] = Or(facts["city"], Card[e]["city"])])

\* A candidate without a landing page on the niche is dropped.
Candidate(e, landing, home, contact) ==
  IF landing /\ e \in OnTopic THEN MarketItem(e, home, contact) ELSE None

\* What the spider may yield for the entry; None: it drops it.
Yields(e) ==
  IF Kind[e] = "seed"
  THEN UNION {{SeedItem(e, home) : home \in Outcomes(a)} : a \in RobotsAnswers}
  ELSE IF Kind[e] = "market"
  THEN UNION {{Candidate(e, landing, home, contact) :
                 landing, home, contact \in Outcomes(a)} : a \in RobotsAnswers}
  ELSE {ListedItem(e)}

=============================================================================
