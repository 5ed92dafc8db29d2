-------------------------- MODULE CatalogIngestion --------------------------
(***************************************************************************)
(* How the catalogue is filled: Celery executions and operators' commands  *)
(* run spiders and upsert what they yield (apps/scraper: tasks.py, cli.py, *)
(* pipeline.py), next to the API's seed command (db/seed.py).              *)
(*                                                                         *)
(* A run has a connection of its own and no transaction: every statement   *)
(* commits by itself, and a run that dies leaves what it wrote.  A message *)
(* is acknowledged at the end of its execution: the broker gives it to     *)
(* another worker when its worker is lost, and, when it is held for longer *)
(* than the visibility timeout, while its worker still runs.               *)
(*                                                                         *)
(* The rows of providers are named by the entry they were inserted for,    *)
(* which is their (source, source_id).  Names, hosts and tax ids are       *)
(* opaque; the INN stands for both public identifiers of a company.        *)
(***************************************************************************)
EXTENDS Spiders, Sequences

CONSTANTS
  Sources,     \* the spiders
  Feed,        \* [Sources -> Seq(Entries)]: the list a spider goes through
  Tasks,       \* crawls asked for by beat, administrators and operators
  Plan,        \* [Tasks -> Seq(Sources)]: what crawl_source, crawl_all run
  Limit,       \* [Tasks -> Nat]: the limit on a spider's items
  RunAll,      \* tasks that are an operator's run-all, without --fail-fast
  Workers,     \* processes that execute tasks
  Similar,     \* pairs of names of one country whose similarity is >= 0.85
  SlugOf,      \* [Texts -> Texts]: slugify
  Demo,        \* the providers of the API's seed
  MaxRetries,  \* max_retries, 3 in the code
  MaxSlugs,    \* bound: numbered variants of a slug
  MaxFaults    \* bound: workers and connections lost, messages held too long

ASSUME FeedAssumption ==
  /\ Feed \in [Sources -> Seq(Entries)] /\ Plan \in [Tasks -> Seq(Sources)]
  /\ Limit \in [Tasks -> Nat] /\ RunAll \subseteq Tasks
ASSUME NamesAssumption ==
  /\ SlugOf \in [Texts -> Texts] /\ Similar \subseteq Texts \X Texts
  /\ Demo \subseteq {e \in Entries : Kind[e] = "demo"}
ASSUME BoundsAssumption ==
  MaxRetries \in Nat /\ MaxSlugs \in Nat \ {0} /\ MaxFaults \in Nat
ASSUME DemoAssumption ==
  \A d, e \in Demo : SlugOf[Card[d]["name"]] = SlugOf[Card[e]["name"]] => d = e

Slugs == Texts \X (1 .. MaxSlugs)

VARIABLES
  providers,   \* [Entries -> the row with that source key, or None]
  cities,      \* names in the cities table
  queue,       \* messages waiting in the broker
  tries,       \* [Tasks -> retries so far]
  worker,      \* [Workers -> its execution]
  seeder,      \* the seed command
  faults,      \* how often that has happened
  absorbed,    \* history: [Entries -> the row its last upsert returned, or None]
  overlapped   \* history: workers not alone during their present execution

tables == <<providers, cities>>
broker == <<queue, tries>>
history == <<absorbed, overlapped>>
vars == <<tables, broker, worker, seeder, faults, history>>

Rows == [slug : Slugs, name : Texts, host : Texts \cup {None},
         mail : Texts \cup {None}, tax : Texts \cup {None},
         city : Texts \cup {None}, linked : SUBSET Entries]

ASSUME NoneOutside == None \notin Tasks \cup Entries \cup Slugs \cup Rows

InUpsert == {"city", "source", "id", "host", "name", "slug", "insert", "update",
             "link"}
PCs == {"idle", "connect", "crawl", "ok", "conflict", "failed"} \cup InUpsert

Idle == [pc |-> "idle", task |-> None, src |-> 0, pos |-> 0, yielded |-> 0,
         item |-> None, row |-> None, slug |-> None, dropped |-> {}]

TypeOK ==
  /\ providers \in [Entries -> Rows \cup {None}]
  /\ cities \in SUBSET Texts
  /\ queue \in SUBSET Tasks
  /\ tries \in [Tasks -> 0 .. MaxRetries]
  /\ worker \in [Workers ->
       [pc : PCs, task : Tasks \cup {None}, src : Nat, pos : Nat,
        yielded : Nat, item : Items \cup {None}, row : Entries \cup {None},
        slug : Slugs \cup {None}, dropped : SUBSET Entries]]
  /\ seeder \in [pc : {"idle", "write", "done"}, rows : SUBSET Demo,
                 cities : SUBSET Texts]
  /\ faults \in 0 .. MaxFaults
  /\ absorbed \in [Entries -> Entries \cup {None}]
  /\ overlapped \in SUBSET Workers

Init ==
  /\ providers = [e \in Entries |-> None]
  /\ cities = {}
  /\ queue = Tasks
  /\ tries = [t \in Tasks |-> 0]
  /\ worker = [w \in Workers |-> Idle]
  /\ seeder = [pc |-> "idle", rows |-> {}, cities |-> {}]
  /\ faults = 0
  /\ absorbed = [e \in Entries |-> None]
  /\ overlapped = {}

-----------------------------------------------------------------------------
Present == {e \in Entries : providers[e] # None}
Absorbed == {e \in Entries : absorbed[e] # None}
SlugTaken(s) == \E e \in Present : providers[e].slug = s

Busy(w) == worker[w].pc # "idle"
Source(w) == Plan[worker[w].task][worker[w].src]
SourcesLeft(w) == worker[w].src <= Len(Plan[worker[w].task])
Entry(w) == Feed[Source(w)][worker[w].pos]
Item_(w) == worker[w].item

Go(w, pc) == worker' = [worker EXCEPT ![w].pc = pc]
Find(w, e) == worker' = [worker EXCEPT ![w].pc = "update", ![w].row = e]

\* Nothing but the worker's own place changes.
Reads == UNCHANGED <<tables, broker, seeder, faults, history>>

\* The exception leaves run_spider: run-all prints it and goes on with the next
\* source, a task and a single run end.
Raise(w, pc) ==
  worker' = [worker EXCEPT ![w] =
    IF worker[w].task \in RunAll
    THEN [Idle EXCEPT !.pc = "connect", !.task = worker[w].task,
                      !.src = worker[w].src + 1, !.dropped = worker[w].dropped]
    ELSE [worker[w] EXCEPT !.pc = pc]]

-----------------------------------------------------------------------------
(* Executions.                                                             *)

Take(w, t) ==
  /\ ~Busy(w)
  /\ t \in queue
  /\ queue' = queue \ {t}
  /\ worker' = [worker EXCEPT ![w] = [Idle EXCEPT !.pc = "connect", !.task = t,
                                                  !.src = 1]]
  /\ LET others == {v \in Workers \ {w} : Busy(v)}
     IN  overlapped' = IF others # {} \/ seeder.pc = "write"
                       THEN overlapped \cup others \cup {w}
                       ELSE overlapped
  /\ UNCHANGED <<tables, tries, seeder, faults, absorbed>>

\* run_spider opens a connection for every source of the plan.
Connect(w) ==
  /\ worker[w].pc = "connect"
  /\ IF SourcesLeft(w) THEN worker' = [worker EXCEPT ![w].pc = "crawl", ![w].pos = 1]
     ELSE Go(w, "ok")
  /\ Reads

\* The worker is free again.
Free(w) ==
  /\ worker' = [worker EXCEPT ![w] = Idle]
  /\ overlapped' = overlapped \ {w}

\* autoretry_for: the message goes back to the queue, max_retries times.
Retry(w) ==
  LET t == worker[w].task
  IN  IF tries[t] < MaxRetries
      THEN /\ tries' = [tries EXCEPT ![t] = @ + 1]
           /\ queue' = queue \cup {t}
           /\ Free(w)
      ELSE UNCHANGED <<tries, queue, overlapped>> /\ Go(w, "failed")

\* The database cannot be reached (retried), or refuses the connection (not).
ConnectFails(w) ==
  /\ worker[w].pc = "connect"
  /\ SourcesLeft(w)
  /\ \/ Raise(w, "failed") /\ UNCHANGED <<queue, tries, overlapped>>
     \/ worker[w].task \notin RunAll /\ Retry(w)
  /\ UNCHANGED <<tables, seeder, faults, absorbed>>

\* The connection is lost, or the registry's file cannot be read: no error that
\* is retried.
RunFails(w) ==
  /\ worker[w].pc \notin {"idle", "connect", "ok", "conflict", "failed"}
  /\ faults < MaxFaults
  /\ faults' = faults + 1
  /\ Raise(w, "failed")
  /\ UNCHANGED <<tables, broker, seeder, history>>

\* The task ends, with a result or an exception, and is acknowledged.
Acknowledge(w) ==
  /\ worker[w].pc \in {"ok", "conflict", "failed"}
  /\ Free(w)
  /\ UNCHANGED <<tables, broker, seeder, faults, absorbed>>

\* task_reject_on_worker_lost: the message of a lost worker returns; a command
\* is not repeated.
Crash(w) ==
  /\ Busy(w)
  /\ faults < MaxFaults
  /\ faults' = faults + 1
  /\ queue' = IF worker[w].task \in RunAll THEN queue ELSE queue \cup {worker[w].task}
  /\ Free(w)
  /\ UNCHANGED <<tables, tries, seeder, absorbed>>

\* The broker takes a message that is not acknowledged in time for lost.
VisibilityTimeout(w) ==
  LET t == worker[w].task
  IN  /\ Busy(w)
      /\ faults < MaxFaults
      /\ t \notin RunAll \cup queue
      /\ queue' = queue \cup {t}
      /\ faults' = faults + 1
      /\ UNCHANGED <<tables, tries, worker, seeder, history>>

-----------------------------------------------------------------------------
(* One item.                                                               *)

\* Variant: the loop ends one entry early.
OneEarly(w) ==
  \/ worker[w].pos + 1 > Len(Feed[Source(w)])
  \/ worker[w].yielded >= Limit[worker[w].task]

\* The end of the spider's list, or the limit on what it yields.
Exhausted(w) ==
  \/ worker[w].pos > Len(Feed[Source(w)])
  \/ worker[w].yielded >= Limit[worker[w].task]

Drop(rec, e) == [rec EXCEPT !.pos = @ + 1, !.dropped = @ \cup {e}]

\* The item's city is looked up first.
Hold(rec, item) ==
  [rec EXCEPT !.item = item, !.yielded = @ + 1,
              !.pc = IF item.city \in cities \cup {None} THEN "source" ELSE "city"]

\* The spider's loop: it ends, drops an entry, or yields an item.
Crawl(w) ==
  /\ worker[w].pc = "crawl"
  /\ IF Exhausted(w)
     THEN worker' = [worker EXCEPT ![w].pc = "connect", ![w].src = @ + 1,
                                   ![w].pos = 0, ![w].yielded = 0]
     ELSE \E item \in Yields(Entry(w)) :
            worker' = [worker EXCEPT ![w] =
                         IF item = None THEN Drop(worker[w], Entry(w))
                         ELSE Hold(worker[w], item)]
  /\ Reads

\* _ensure_reference: uq_cities_country_id_slug refuses a second one.
InsertCity(w) ==
  /\ worker[w].pc = "city"
  /\ IF Item_(w).city \in cities
     THEN Raise(w, "conflict") /\ UNCHANGED cities
     ELSE Go(w, "source") /\ cities' = cities \cup {Item_(w).city}
  /\ UNCHANGED <<providers, broker, seeder, faults, history>>

FindBySource(w) ==
  LET e == Item_(w).entry
  IN  /\ worker[w].pc = "source"
      /\ IF e \in Present THEN Find(w, e) ELSE Go(w, "id")
      /\ Reads

\* The row a SELECT ... LIMIT 1 returns is any of those that satisfy it.
OneOf(w, S, next) ==
  IF S = {} THEN Go(w, next) ELSE \E e \in S : Find(w, e)

FindByPublicId(w) ==
  LET S == {e \in Present : Item_(w).tax \notin {None} /\ providers[e].tax = Item_(w).tax}
  IN  worker[w].pc = "id" /\ OneOf(w, S, "host") /\ Reads

\* The most recently scraped row comes first; time is abstracted to a choice.  The
\* pattern asks for a slash after the host: every homepage of the lists and of the
\* seed has one.
FindByDomain(w) ==
  LET S == {e \in Present : Item_(w).host # None /\ providers[e].host = Item_(w).host}
  IN  worker[w].pc = "host" /\ OneOf(w, S, "name") /\ Reads

\* The best score comes first; an item with a public identifier is not compared.
FindByName(w) ==
  LET same == {e \in Present : providers[e].name = Item_(w).name}
      near == {e \in Present : <<providers[e].name, Item_(w).name>> \in Similar}
      S == IF Item_(w).tax # None THEN {} ELSE IF same # {} THEN same ELSE near
  IN  worker[w].pc = "name" /\ OneOf(w, S, "slug") /\ Reads

\* Variant: the first slug is taken without a look at the table.
FirstSlug(base, n) == n = 1

FreeSlug(base, n) ==
  /\ ~SlugTaken(<<base, n>>)
  /\ \A m \in 1 .. (n - 1) : SlugTaken(<<base, m>>)

\* _make_unique_slug: rows are never deleted, so the answer is that of its last
\* SELECT.
MakeSlug(w) ==
  /\ worker[w].pc = "slug"
  /\ \E n \in 1 .. MaxSlugs :
       /\ FreeSlug(SlugOf[Item_(w).name], n)
       /\ worker' = [worker EXCEPT ![w].pc = "insert",
                                   ![w].slug = <<SlugOf[Item_(w).name], n>>]
  /\ Reads

NewRow(item, slug) ==
  [slug |-> slug, name |-> item.name, host |-> item.host, mail |-> item.mail,
   tax |-> item.tax, city |-> item.city, linked |-> {}]

\* uq_providers_slug and uq_providers_source_source_id.
Insert(w) ==
  LET e == Item_(w).entry
  IN  /\ worker[w].pc = "insert"
      /\ IF e \in Present \/ SlugTaken(worker[w].slug)
         THEN Raise(w, "conflict") /\ UNCHANGED providers
         ELSE /\ worker' = [worker EXCEPT ![w].pc = "link", ![w].row = e]
              /\ providers' = [providers EXCEPT ![e] = NewRow(Item_(w), worker[w].slug)]
      /\ UNCHANGED <<cities, broker, seeder, faults, history>>

\* Variant: COALESCE without NULLIF takes the empty string for a value.
Overwritten(row, item) ==
  [row EXCEPT !.name = item.name, !.host = item.host, !.mail = item.mail,
              !.tax = item.tax, !.city = item.city]

\* COALESCE(NULLIF(new, ''), old); slug, source and source_id stay.
Updated(row, item) ==
  [row EXCEPT !.name = item.name, !.host = Or(item.host, @),
              !.mail = Or(item.mail, @), !.tax = Or(item.tax, @),
              !.city = Or(item.city, @)]

Update(w) ==
  /\ worker[w].pc = "update"
  /\ Go(w, "link")
  /\ providers' = [providers EXCEPT ![worker[w].row] = Updated(@, Item_(w))]
  /\ UNCHANGED <<cities, broker, seeder, faults, history>>

\* Variant: only an inserted row gets the item's categories.
LinkOnInsert(row, item) ==
  [row EXCEPT !.linked = IF @ = {} THEN {item.entry} ELSE @]

\* ON CONFLICT DO NOTHING: the item's categories join the row's.
WithCategories(row, item) == [row EXCEPT !.linked = @ \cup {item.entry}]

\* _link_categories, the last statement; the loop goes on.
Link(w) ==
  /\ worker[w].pc = "link"
  /\ providers' = [providers EXCEPT ![worker[w].row] = WithCategories(@, Item_(w))]
  /\ absorbed' = [absorbed EXCEPT ![Item_(w).entry] = worker[w].row]
  /\ worker' = [worker EXCEPT ![w].pc = "crawl", ![w].pos = @ + 1, ![w].item = None,
                              ![w].row = None, ![w].slug = None]
  /\ UNCHANGED <<cities, broker, seeder, faults, overlapped>>

-----------------------------------------------------------------------------
(* The seed command of the API: one transaction, committed at its end.     *)
(* It looks for a row and inserts it before it looks for the next.  What   *)
(* it has inserted nobody else can insert until it ends, so it is as if    *)
(* all the looks were taken together at the time of the last.              *)

SeedSlug(e) == <<SlugOf[Card[e]["name"]], 1>>
SeedCities == {Card[e]["city"] : e \in Demo} \ {None}

SeedRead ==
  /\ seeder.pc = "idle"
  /\ seeder' = [pc |-> "write", rows |-> {e \in Demo : ~SlugTaken(SeedSlug(e))},
                cities |-> SeedCities \ cities]
  /\ overlapped' = overlapped \cup {w \in Workers : Busy(w)}
  /\ UNCHANGED <<tables, broker, worker, faults, absorbed>>

\* What it found missing is inserted; the categories of every row with a demo
\* provider's slug, whoever inserted it, are set to the demo provider's.  A row
\* or city inserted meanwhile fails the command, which writes nothing then.
SeedWrite ==
  LET clash == \/ \E e \in seeder.rows : SlugTaken(SeedSlug(e)) \/ e \in Present
               \/ seeder.cities \cap cities # {}
      seeded(e) == IF e \in seeder.rows THEN NewRow(ListedItem(e), SeedSlug(e))
                   ELSE providers[e]
      owner(row) == {e \in Demo : SeedSlug(e) = row.slug}
  IN  /\ seeder.pc = "write"
      /\ seeder' = [pc |-> "done", rows |-> {}, cities |-> {}]
      /\ IF clash
         THEN UNCHANGED tables
         ELSE /\ cities' = cities \cup seeder.cities
              /\ providers' = [e \in Entries |->
                   IF seeded(e) = None \/ owner(seeded(e)) = {} THEN seeded(e)
                   ELSE [seeded(e) EXCEPT !.linked = owner(seeded(e))]]
      /\ UNCHANGED <<broker, worker, faults, history>>

-----------------------------------------------------------------------------
Upsert(w) ==
  \/ Crawl(w) \/ InsertCity(w) \/ FindBySource(w) \/ FindByPublicId(w)
  \/ FindByDomain(w) \/ FindByName(w) \/ MakeSlug(w) \/ Insert(w) \/ Update(w)
  \/ Link(w)

Run(w) == Connect(w) \/ Upsert(w) \/ Acknowledge(w) \/ \E t \in Tasks : Take(w, t)

Fault(w) == ConnectFails(w) \/ RunFails(w) \/ Crash(w) \/ VisibilityTimeout(w)

Next == (\E w \in Workers : Run(w) \/ Fault(w)) \/ SeedRead \/ SeedWrite

Spec == Init /\ [][Next]_vars

-----------------------------------------------------------------------------
(* A run that nothing else runs next to never fails on a unique            *)
(* constraint: what it selected before an INSERT, of a city, a slug or a   *)
(* source key, is still so (pipeline.py 61-93, 169-178, 196-268), also     *)
(* after earlier runs that died anywhere in the upsert.                    *)
LonelyRunNeverConflicts ==
  \A w \in Workers : worker[w].pc = "conflict" => w \in overlapped

\* Rows whose categories the seed command resets.
SeedOwned(row) == \E e \in Demo : SeedSlug(e) = row.slug

(* An item whose upsert has returned stays in the catalogue under its      *)
(* categories, in its own row or the one it was merged into, whatever      *)
(* other runs, crashes and redeliveries do; but for rows of the seed       *)
(* (pipeline.py 181-193, seed.py 445-495).                                 *)
AbsorbedStays ==
  \A e \in Absorbed :
    /\ absorbed[e] \in Present
    /\ e \in providers[absorbed[e]].linked \/ SeedOwned(providers[absorbed[e]])

(* A task that answers "ok" without a limit has brought in every entry of  *)
(* its sources but those a spider dropped in this execution, even when it  *)
(* repeats an execution that died half way (tasks.py 99-143).              *)
OkMeansAll ==
  \A w \in Workers :
    worker[w].pc = "ok" /\ worker[w].task \notin RunAll =>
      \A s \in DOMAIN Plan[worker[w].task] :
        LET list == Feed[Plan[worker[w].task][s]]
        IN  Len(list) <= Limit[worker[w].task] =>
              \A n \in DOMAIN list : list[n] \in Absorbed \cup worker[w].dropped

(* A row once published keeps its slug, and what is known of the company   *)
(* is never lost again: a crawl that could read less than an earlier one   *)
(* clears no host, address, tax id, city or category, but for categories   *)
(* of the seed's rows (pipeline.py 270-319).                               *)
Forgets(r) ==
  \/ providers'[r] = None
  \/ providers'[r].slug # providers[r].slug
  \/ \E f \in {"host", "mail", "tax", "city"} :
       providers[r][f] # None /\ providers'[r][f] = None
  \/ ~SeedOwned(providers[r]) /\ ~(providers[r].linked \subseteq providers'[r].linked)
NothingForgotten == [][\A r \in Present : ~Forgets(r)]_vars

(* The inductive invariant: unique keys, a busy worker's place in its plan *)
(* and list, what it has behind it, and, for a worker that is alone, that  *)
(* what it selected before an INSERT is still so.                          *)
KeysUnique == \A d, e \in Present : providers[d].slug = providers[e].slug => d = e

\* What is behind a worker in its list and in its plan.
Covered(w, list, n) ==
  \A k \in 1 .. n : k \in DOMAIN list => list[k] \in Absorbed \cup worker[w].dropped
SourceDone(w, s) ==
  LET list == Feed[Plan[worker[w].task][s]]
  IN  Len(list) <= Limit[worker[w].task] => Covered(w, list, Len(list))

InList == {"crawl"} \cup InUpsert
PlaceOK(w) ==
  LET rec == worker[w]
  IN  /\ Busy(w) => rec.task \in Tasks
      /\ rec.pc \in InList =>
           rec.src \in DOMAIN Plan[rec.task] /\ rec.pos \in Nat \ {0}
      /\ rec.pc \in InUpsert =>
           /\ rec.pos \in DOMAIN Feed[Source(w)]
           /\ rec.item \in Items /\ rec.item.entry = Entry(w)
      /\ rec.pc = "city" => rec.item.city # None
      /\ rec.pc = "insert" => rec.slug \in Slugs
      /\ rec.pc \in {"update", "link"} => rec.row \in Present
      /\ rec.pc = "connect" => rec.src \in Nat \ {0} /\ rec.yielded = 0
      /\ rec.pc = "ok" => ~SourcesLeft(w)
      /\ rec.pc = "crawl" => rec.yielded < rec.pos
      /\ rec.pc \in InUpsert => rec.yielded <= rec.pos

ProgressOK(w) ==
  LET rec == worker[w]
  IN  Busy(w) /\ rec.task \notin RunAll =>
        /\ rec.pc \in {"connect", "ok"} \cup InList =>
             \A s \in DOMAIN Plan[rec.task] : s < rec.src => SourceDone(w, s)
        /\ rec.pc \in InList => Covered(w, Feed[Source(w)], rec.pos - 1)

AloneOK(w) ==
  LET rec == worker[w]
  IN  Busy(w) /\ w \notin overlapped =>
        /\ \A v \in Workers \ {w} : ~Busy(v)
        /\ seeder.pc # "write"
        /\ rec.pc = "city" => rec.item.city \notin cities
        /\ rec.pc \in {"id", "host", "name", "slug", "insert"} =>
             rec.item.entry \notin Present
        /\ rec.pc = "insert" => ~SlugTaken(rec.slug)
        /\ rec.pc # "conflict"

IngestionInv ==
  /\ TypeOK
  /\ KeysUnique
  /\ AbsorbedStays
  /\ \A w \in Workers : PlaceOK(w) /\ ProgressOK(w) /\ AloneOK(w)

=============================================================================
