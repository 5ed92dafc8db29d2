# ozzb2b: TLA+ models, model checking and proofs

This directory models the stateful core of ozzb2b (a B2B provider marketplace:
FastAPI, Go and Rust services over PostgreSQL, Redis, ClickHouse and
Meilisearch). Every module is translated from the code; `PROJECT.json` maps each
definition to the lines it stands for, and lists the runs, the mutants that show
that a property can fail, the findings, the hazards and the theorems.

Short paths below: `api` is `src/apps/api/src/ozzb2b_api`, `events` is
`src/apps/events`, `chat` is `src/apps/chat`, `matcher` is
`src/apps/matcher/src`, `scraper` is `src/apps/scraper/src/ozzb2b_scraper`,
`web` is `src/apps/web`.

## 1. Inventory

| component | state | operations | what is hard | correct means |
|---|---|---|---|---|
| claim flow (`api/services/claims.py`, `routes/claims.py`, `routes/admin.py`) | `provider_claims` rows, `providers.is_claimed`, `claimed_by_user_id`, `users.role` | initiate, verify (fetches the provider's homepage), admin approve and reject, edit | rows read before a fetch of seconds and written after it; row locks taken in opposite orders; one partial unique index | one verified claim; owner columns, role and claims agree; who verifies by tag controls the site |
| operator commands (`api/db/cli.py`) | the same columns | claim-provider, unclaim-provider, set-role, seed, reindex | bypass the claim flow while it runs | leave states in which the claim flow still works |
| event emitter (`api/clients/events.py`) | Redis stream, trimmed | emit with three attempts | lost answers, trimming of unread entries | an event is appended or was tried three times |
| ingestion worker (`events/main.go`, `internal/pipeline`, `internal/stream`, `internal/clickhouse`) | consumer group, pending lists, batch in memory, ClickHouse table | connect, read, claim idle entries, insert, acknowledge | crashes, insert timeouts after success, two workers with one entry | at-least-once: nothing is settled before it is stored, everything accepted is stored in the end |
| outreach (`api/services/leads.py`, `routes/leads.py`, `services/mailer.py`) | `leads`, `outreach_messages`, `email_suppressions` | create lead with drafts, add, edit, skip, send, delete, bulk, unsubscribe | mail goes out before the row is written and committed; bulk keeps locks to its end | what is "sent" was mailed; nobody who unsubscribed is mailed; one message per provider; requests end |
| sessions (`api/services/auth.py`, `routes/auth.py`) | `refresh_tokens`, the browser's cookie | register, login, refresh, logout | tabs refresh with one token; the answer leaves before the commit; an error undoes what it reports | replaced tokens are not live; an undisturbed browser keeps its session |
| request transaction (`api/db/session.py`) | one session per request | commit after the endpoint, rollback on any exception | applies to `HTTPException` and `DomainError` too; the answer is sent first | part of each API module |
| chat API (`api/services/chat.py`, `routes/chat.py`) | `conversations`, `messages` | start, list, send (publishes to Redis) | publishes and answers before the commit; two first messages at once | one conversation per pair; what is out ahead of its commit is one message at a time |
| chat gateway (`chat`) | a Redis subscription per WebSocket | upgrade, subscribe, forward, deadline | lost sockets, subscriptions that start after the socket is accepted | forwards in order, per conversation |
| web chat client (`web/src/components/chat`) | message list, socket | load history, merge pushes and own answers, reconnect | pushes during loading or reconnection, duplicates | every message once, in order; nothing missing but what was lost on the way |
| rate limiter (`api/security/rate_limit.py`) | Redis counters with a time to live | hit | INCR, EXPIRE and TTL are three commands | at most the limit per window; a window ends |
| reference cache (`api/clients/cache.py`) | Redis values, a lock per key and process | get_or_set | slow loaders, failures between the steps, many readers of a cold key | one load per cold key; rows never go back |
| search and index (`api/services/search.py`, `indexer.py`, `clients/matcher.py`, `routes/search.py`) | Meilisearch index and its queue of tasks | reindex, search, suggest, re-rank | fallbacks between engines, rows that change under a request, incomplete batches | the index catches up; a page fits its total; re-ranking permutes the hits |
| catalogue (`api/services/catalog.py`) | none of its own | list, count facets, list reference data | several statements at READ COMMITTED | a facet's count is what choosing it shows |
| matcher (`matcher`) | none | rank | pure arithmetic | order and bounds of scores |
| scraper (`scraper`: `tasks.py`, `pipeline.py`, `cli.py`, `spiders`) | `providers`, `cities`, the broker's queue | crawl one source or all, run-all, upsert, prepare a dump | no transaction around a run; redelivery, retries, runs in parallel; pages that cannot be read | what was absorbed stays, "ok" means everything, nothing known is forgotten |
| seed and reference data (`api/db/seed.py`, migrations) | the reference tables, demo providers | seed | runs next to spiders; slugs that resolve to nothing are dropped | every reference resolves |
| analytics, web pages, metrics, generated code, deployment | none of their own | read-only, or run once by an operator | | |

The API processes share nothing but PostgreSQL and Redis. Claims, outreach and
sessions meet only in the request transaction (each request touches the tables of
one of them), so each is a module of its own; `users.role` is the one column the
claim flow shares with others, and the operator's commands are composed with the
claim flow for that reason. The emitter and the workers meet in the Redis stream and
are one module. Events are emitted by API requests, whose only effect on the
stream is the emit call. The scraper and the seed command meet in `providers` and
`cities`; the search reads `providers` and what the reindex made of it; the chat API,
the gateway and the page meet in one conversation's channel. The limiter's counters and
the cache's keys are nobody else's. Who owns a provider is an input of the chat
(`owner`, changed at any time), as the version of its row is of the search.

## 2. Plan

| # | module | state |
|---|---|---|
| 1 | `ClaimOwnership`, its abstract specification `ProviderOwnership`, `ClaimOwnershipCli` | modelled, checked, proved |
| 2 | `EventPipeline`, its abstract specification `AtLeastOnce` | modelled, checked, proved |
| 3 | `OutreachDelivery` | modelled, checked, proved |
| 4 | `RefreshSessions` | modelled, checked, proved |
| 5 | `CatalogIngestion` with `Spiders`; `CatalogueContents` over the lists `SpiderLists`, `CatalogueData` and `FnsRegistry` | modelled, checked, proved |
| 6 | `ChatFanout`: API, gateway and page; `ConversationStart` | modelled, checked, proved |
| 7 | `RateLimit`, `ReferenceCache` | modelled, checked, proved |
| 8 | `CatalogQueries`, `CatalogIndex`, `CatalogSearch` | modelled, checked, proved |
| 9 | theorems about `ClaimOwnershipCli`, the claim flow under the operator's commands | proved |
| 10 | fairness for the chat's reconnections and the broker's redeliveries | open |

All modules avoid RECURSIVE operators, take their bounds as CONSTANTS with named
assumptions, and state the type invariant and the inductive invariant of each proof in
the module itself. Those invariants (`TypeOK` and `IInv`, `PipelineInv`, `OutreachInv`,
`CliInv`, `SessionInv`, `SurvivalInv`, `IngestionInv`, `ChatInv`, `StartInv`, `IndexInv`, `SearchInv`,
`LimitInv`, `CacheInv`, `CutInv`, `ContentInv`) are proved for every value of the
constants, so no run spends time on them.

## 3. How the API modules see the code

A request is a slot `r` in `Requests` with a record `req[r]`: where it is (`pc`), what
it was asked (`op`) and what it has read. `get_db` gives a request one session at
READ COMMITTED and commits after the endpoint returned, or rolls back on any
exception. So

  - each SELECT is a step that copies what it read into `req[r]`; later steps use the
    copy, which may be stale, and the ORM writes only the columns that differ from it;
  - an UPDATE or DELETE that is flushed early takes a row lock (`lock`) until the end of
    the transaction, and a step that needs a locked row is not enabled;
  - rows change at `Commit`; `RequestFails` may end a request at any step before that,
    because the process dies, the client goes away, or the database does;
  - a cycle of waiting transactions is broken by `DeadlockAbort`, PostgreSQL's own
    detection; a waiting UPDATE evaluates its condition again when it gets the row.

PostgreSQL's locks and deadlock detection, the SMTP server, the network and time are
external; their definitions are marked so in `PROJECT.json`.

## 4. The modules

**`ClaimOwnership`** One provider, any users. Begin* actions are the endpoints;
`LoadProvider`, `LoadUser`, `LoadPending` the SELECTs; `FetchHomepage` the check of the
meta tag, seconds long in reality; `RejectOthers` and `LockOther` the UPDATE of the other
pending claims, which finds its rows first and locks them one at a time; `LockUser` and
`LockProvider` the flush's UPDATEs of the user's and the provider's row, `CommitVerified`
the claim's and the COMMIT; `CommitInitiate`, `CommitReject`, `CommitEdit` the other
flushes and commits; `VerifiedConflict` the unique index of the
migration refusing a second verified row; `PublishTag` the site's controllers.
Tokens are numbered by initiation, hashes abstracted. `ProviderOwnership` says what
the flow promises: an unowned provider is awarded, an owned one changes hands only
while a verified claim stands overturned. `Blocks` says who holds the row a request is
about to lock; `GetsItsRow` and `WaitsInCycle` are the guards by which it goes on or its
transaction is broken off as one of a cycle of waiting requests, of any length.
`MCClaimOwnership` runs the whole flow with two requests at once, and three approvals at once. `ClaimOwnershipCli` adds the operator's
commands as single steps; they write one column each and know nothing of the flow.

**`EventPipeline`** Stream entries are numbered; `pending`, `delivered` and `group` are the
consumer group, `pc` and `batch` a worker's loop (`Pipeline.Run`: `Reader.Read`,
`convert`, `InsertRows`, `Ack`). Every command to Redis or ClickHouse has an action that
succeeds and one that fails, before or after it took effect. `Append` may trim what
exceeds MaxLen. `AtLeastOnce` is the promise: entries are settled only when durable or
excused (trimmed, or not an event).

**`OutreachDelivery`** One lead; a message is the n-th created for a provider, so a row
deleted and created again is told apart. `Read` is `_get_outreach` with
`_ensure_editable`; `CheckSuppression`, `Deliver` and `DeliveryFails` are `send_outreach`;
`Flush` is `_flush_outreach`, which locks the row; `StaleRow` the ORM's error for a row
that is gone; a bulk request repeats this for its list, in any order, and commits at
the end. Subjects and bodies are left out; mail is enabled.

**`RefreshSessions`** `Select`, `Update`, `Insert` are the statements of `rotate_refresh`
and `issue_tokens`; `Respond` or `AnswerLost` the answer, which precedes `Commit`; `Reuse`
a request that finds its token revoked: its UPDATE of the family is undone by the
exception it raises, so the step changes nothing but the request. `parent` and `upset`
are history; `upset` is every browser that lost an answer, whose request failed, or that
presented a revoked token. `SessionSurvives` promises nothing to those, so it does not rest
on that rollback: it holds as well when the family's revocation is committed, as
`auth.py:152` means it to be. One user is modelled. The UPDATE of `users.last_login_at` is left out: it
would only make concurrent logins of a user wait for each other, fewer behaviours than
the model has.

**`CatalogIngestion`** A worker goes through its task's plan (`Connect`, `Crawl`) and
takes each item through the statements of `upsert_provider`: `InsertCity`,
`FindBySource`, `FindByPublicId`, `FindByDomain`, `FindByName`, `MakeSlug`, `Insert` or
`Update`, `Link`. Each is a step that commits by itself. `Raise` is an exception on its
way out, which only run-all survives; `Crash`, `VisibilityTimeout`, `ConnectFails` and
`Retry` are Celery's and the broker's side (which exceptions of a connection are retried
depends on their type, so `ConnectFails` retries or fails). `SeedRead` and `SeedWrite` are the
one transaction of the API's seed, which looks for each slug and inserts it in turn. Reading
all of them at the time of the last look is the same: a slug found earlier stays, for nothing
deletes rows, and one the command has inserted nobody else can insert before it commits.
`FindByDomain` compares hosts: the code's pattern wants a slash after the host, and every
homepage of the lists and the seed has one. `Spiders` says what each kind of spider makes of the pages
it could read: `Polite` fetches may fail for any page at any time. Rows are named by the
entry they were inserted for; of a company's texts the model keeps name, host, mail,
tax id and city, and of its categories the entries whose categories the row has.

**`CatalogueData`, `SpiderLists`, `FnsRegistry`** The seed's tables, the curated lists and
the registry importer's OKVED rules, as sets and pure operators; `StartCut`,
`ReadDocument` and `EndCut` are `prepare-fns-sme`, which reads its dump a document at a
time and may stop at any of them.

**`CatalogueContents`** What these make of the catalogue: `SowRoot` a turn of
`_upsert_categories`, `SeedRows` `_upsert_providers`, which fails as a whole when a country
or city is missing, and `Import` the upsert of any item, reduced to the lookups by source
key and homepage and to the references it finds (lookups by name and tax id are
`CatalogIngestion`'s). `SeedAgain` is a later run of the seed command over rows that spiders
may have changed meanwhile. A row keeps the items it absorbed (`of`) and the categories they
asked for (`asked`), both history.

**`ChatFanout`** `OpenSend` to `CommitSend` are the steps of the send endpoint (the
conversation's row stays locked from `BumpConversation` to the end of the transaction);
`Publish` hands a message to the sockets subscribed at that moment, but for those whose
subscription is lost behind an open socket (the gateway's client reconnects to Redis silently,
and drops what a full channel does not take). `ReadHistory`,
`ShowHistory`, `Receive`, `ShowReply` are the page, `Connect`, `Accept`, `Subscribe`,
`SocketLost` its socket with the gateway's end. `created_at` is the start of the
transaction (PostgreSQL's now()), counted by `clock`; the page compares these times as ISO
strings, the model as numbers. `missed` and `during` are history.

**`ConversationStart`** Select, insert, answer, commit; the unique index makes a second
insert wait for the first transaction (`UniqueIndex`).

**`CatalogQueries`** Filters, joins, totals, pages and facets as operators on a catalogue. An
ORDER BY is the set of the sequences it allows: rows created at one time come in any order.
**`CatalogIndex`** `Edit` is any write of a provider's next row, `Select`, `SendBatch`,
`ReindexFails` are `reindex_all`, `ApplyBatch` is Meilisearch taking up a task, which does not
fail. A document's categories come from a further SELECT of the same transaction and may be
newer than its row; the model reads both at once.
**`CatalogSearch`** one request over it: `AskMeilisearch` for each variant of the query,
`MeilisearchFails`, `CountRows` and `FetchRows` for the fallback and for listings,
`CountFacets` per axis, `Hydrate`, `Rerank` or `MatcherUnavailable`; what a step keeps of a
sequence, in its order, is `Kept`. The matcher scores each candidate once, or leaves it out.
Choosing a value asks for its slug alone (`Asking`), of a root too, and finds what is linked to
the root itself; the root's count includes what is linked below it, and `OnlyBelow` is the
difference. `facet_counts` is
modelled as its sequential branch: the engine it asks the session for is a synchronous
one, never an AsyncEngine. Meilisearch's estimated total is taken as exact; the
fifty-city limit of a facet and the suggestions' blank input are left out.

**`ReferenceCache`** One key. A read takes its process's lock (`Lock`), looks again
(`Look`), loads and stores; `GetFails`, `LookFails`, `LoadFails`, `StoreFails` are the
failures. Rows are known by their version. `loads` and `newest` are history.

**`RateLimit`** `Incr`, `SetExpiry`, `Decide` are the three calls of a hit, `WindowEnds`
Redis dropping a counter, `FailOpen`, `IncrUnanswered` and `Vanish` the failures. A
request hits the counters of its scopes one after the other. `granted` are the values a
counter's window let through, history; `BudgetHolds` says that they are within the budget and
that no hit still to be decided has one of them again.

Definitions called "Variant" are small plausible mistakes (a missing condition, a
skipped reset). Nothing uses them: `PROJECT.json`'s mutants put each in the
place of a definition, and the property named there then fails.

## 5. Runs

Passing runs, with the bounds that matter:

| run | what it shows | bounds |
|---|---|---|
| claim_safety | one verified claim; owner columns, role and claims agree; the tag proves control; an edit is of somebody entitled; requests that lock each other's rows never all stop; `ProviderOwnership` is implemented | 2 users (one controls the site, the other is an admin, both edit), 2 concurrent requests, 2 initiations; 3 approvals at once of 3 pending claims of the 2 users, any number of times |
| event_safety | nothing is settled before it is stored; emitting ends in an entry or three attempts; `AtLeastOnce` is implemented | 2 workers, 2 entries, batches of 2, trimming from length 1, 1 crash |
| event_liveness | crashed workers, failing commands and trimmed entries that stay in pending lists leave nothing unsettled for ever | 1 worker, 2 entries, batches of 1, trimming from length 1, 1 crash |
| outreach_safety | "sent" was mailed, unsubscribed addresses are not mailed, one message per provider | 2 requests (single or bulk) on 2 successive messages of a provider, 2 addresses, 1 mail |
| outreach_liveness | bulk requests in opposite orders end | 2 requests, 2 messages, skips and deletions |
| catalogue_safety | a run that is alone never hits a unique constraint; what was absorbed stays, "ok" means everything, nothing known is forgotten; the seed's data, the curated lists and the registry's rules resolve and do not collide; the index catches up, answers keep their hits, pages fit their totals, facets predict | 2 workers, a run-all and a crawl-all over three kinds of spiders, the seed command, 4 entries of which any two may be one company, 1 fault, 1 retry; 2 imports of any items of the real lists; dumps of at most 4 documents, limits to 4, batches to 3; index: 3 providers in batches of 2, 2 reindexes, 2 tasks waiting; search: 6 queries, one reindex beside them |
| api_safety | sessions, chat, conversation start, cache and limiter, one at a time: 11 properties named in `PROJECT.json`, of sessions that replaced tokens are not live and an undisturbed browser keeps its session | sessions: 1 browser, 2 requests at once, 3 tokens; chat: 3 sends, 1 page, a history of 1 message, 1 lost socket or push; start: 3 requests; cache: 3 reads, 2 processes, 2 changes; limiter: 2 requests, 2 counters, a budget of 1 |

Two requests reach every race in these modules, because each hazard is a pair: one
transaction's read, another's commit. The exception are waits for row locks, which can be
chains and longer cycles: claim_safety has a part with three requests, from the states three
initiations lead to. Two initiations give two claims, of one user or
of two, and an overturned claim with its successor; two entries give a batch and an
order; two versions of a message a deletion and a new draft; three tokens a login
and two rotations of it, or two logins. One mail is enough for outreach_safety, whose properties
are about single mails; v_onemailpermessage has two. The proofs lift the safety
properties of section 7 to any number of everything.

In catalogue_safety the entries are a curated company, a registry record, a niche firm
whose name resembles it and which has its tax id when the contacts page can be read, and a
demo provider with the curated company's slug: every way in which the upsert finds a row,
and every unique constraint, is reached. One fault is enough for a half-done run, its
repetition and an overlap of two. The contents of the catalogue, the dump's command, the index
and the search are parts of the run that share no variable with it: a state variable `part`
chooses one and the others stay where they are, so the run has the sum of their states and
not the product. Two imports are
enough for the contents because a collision is between two entries; their documents are one
for each OKVED prefix of the rules, alone and with a further digit, and one for each
region. In the dumps a document that is passed over comes between two that are not, and a
limit falls within, at and behind a batch's end. Each of the search's queries meets a row of
every kind: in two categories of one root, withdrawn, inserted later, with words that only the
first spelling finds.

In api_safety a page of messages is one page because
the chat's properties are about one page each; a history limit of 1 makes the
limit matter with two messages; a lost socket and its reconnection need one loss, and so does
a push lost behind an open socket. The
three messages are one sent from the open page and two from elsewhere. A budget of 1 is
exceeded by the second request. The five parts share no variable, and `part` chooses among them.

CHECK_DEADLOCK is off where the system may stop, in the runs of the claim flow and of
the event pipeline, in outreach_liveness, catalogue_safety and api_safety: when the bounds
on initiations, entries, mails or messages are used up, or every task is done, nothing is
left to do.

Runs that find a violation, each of one statement of the repository that the code
does not keep (quoted in the findings of `PROJECT.json`):

| run | what happens |
|---|---|
| v_rejectionstands | an admin's rejection is overwritten by a verification that was fetching the homepage |
| v_neverdemoteadmin | a verification writes back provider_owner over a role the operator set to admin meanwhile (`ClaimOwnershipCli`, the only run with the operator's commands; section 7 has theorems about it) |
| v_onemailpermessage | two sends, or a send after a failed commit, mail twice |
| v_reuserevokesfamily | the revocation of a token family is rolled back with the request that found the reuse |
| v_outageblocksnobody | Redis fails between INCR and EXPIRE, and the counter, which nothing ends any more, refuses every later request |

The models also contain, without a run of their own, what the hazards of
`PROJECT.json` note: two initiations at once insert two pending rows; the operator's
commands write one of the two owner columns; once an admin has rejected a verified claim, a later one need not be the
owner's; a failed batch waits for the claim interval; one stale message rolls
a whole bulk request back, mails included; a deletion or an edit that read a draft
changes a message sent meanwhile; two refreshes of one token can both succeed; a page that reconnects lacks the
messages pushed meanwhile until it is opened again, and one whose subscription lost a push
lacks it too (`missed`); a root's facet counts more than asking for the root shows
(`OnlyBelow`); two overlapping reindexes
put older documents over newer ones (`jobsOverlapped`); a search without words that falls
back is refused by PostgreSQL (`SearchRefused`); last_message_at may move back between
overlapping sends (`during`); a redelivered crawl and its first execution may fail each
other. Where a property excuses such a case, the variable in brackets is the excuse.

## 6. Fairness

Safety is checked without fairness. The liveness runs assume:

  - outreach: a request that can take a step takes one (the event loop runs
    it), PostgreSQL looks for deadlocks, and a request waiting for a row gets it in the
    end (its lock queue is in order of arrival). Clients are not assumed to send
    anything;
    That claim requests never all wait for each other is a safety property of the run
    claim_safety (`SomeRequestMoves`): some request that is not idle has a step. Its
    guards' form, `NoUnbrokenWait`, is proved for any number of requests (section 7);
  - events: a worker's loop runs, containers restart (`restart: unless-stopped`), time passes
    (idle times, the claim interval), and a command tried over and over again gets
    through. Crashes and single failures are never excluded, only failure for ever.
    Emitters are not assumed to emit.

## 7. Proofs

TLAPS checks, for every value of the constants:

| module | theorems |
|---|---|
| `ClaimOwnershipProofs` | `Invariant`, `TypeCorrect`, `OneVerifiedClaimHolds`, `OwnerHasVerifiedClaimHolds`, `VerifiedClaimOwnsProviderHolds`, `OwnerIsPromotedHolds`, `MetaTagProofHolds`, `EditorWasEntitledHolds`, `ImplementsOwnership`; `NoUnbrokenWaitHolds`; `CliInvariant`, `CliKeepsClaimFlow`, `OnlyUnclaimDropsOwnerHolds` |
| `EventPipelineProofs` | `Invariant`, `TypeCorrect`, `SettledIsStoredHolds`, `EmittedOrExhaustedHolds`, `ImplementsDelivery` |
| `OutreachDeliveryProofs` | `Invariant`, `OneMessagePerProviderHolds`, `SentWasMailedHolds`, `NoUnwantedMailHolds` |
| `RefreshSessionsProofs` | `Invariant`, `ReplacedIsRevokedHolds`, `SessionSurvivesHolds` |
| `CatalogIngestionProofs` | `Invariant`, `LonelyRunNeverConflictsHolds`, `AbsorbedStaysHolds`, `OkMeansAllHolds`, `NothingForgottenHolds`; `CutIsSound`, `BatchesAreTheDumpHolds`; `ContentIsSound`, `SeedIsWholeHolds`, `ListsResolveHolds`, `RegistryResolvesHolds`, `CompaniesApartHolds` |
| `ChatProofs` | `ChatIsSound`, `PagesStayInOrder`, `OneMessageAheadOfCommit`, `LastActivityHolds`, `PagesStayComplete`; `StartIsSound`, `PairHasOneConversation` |
| `CatalogProofs` | `IndexIsSound`, `IndexCatchesUpHolds`; `SearchIsSound`, `AnswerKeepsHitsHolds`, `PageFilledHolds`, `FacetsPredictHolds` |
| `RedisProofs` | `LimiterIsSound`, `WindowsEnd`, `BudgetIsKept`; `CacheIsSound`, `OneReaderLoads`, `StoresNeverGoBack` |

The assumptions are the named ASSUMEs of the modules: None is none of the other
values, bounds are naturals, batches are not empty. For the search: categories have at
most two levels, as the seed makes them, a provider has finitely many versions of its
row and each is a row of the schema (`RowOK`), and the limits and offsets of queries are
naturals, which `Query(ge=...)` enforces. For the registry: a document's activities are a
sequence of codes, of whatever digits; an item without a homepage is not one of the demo's
host.

  - Claims. The properties say nothing of requests in flight, and a request writes what
    it read long ago. `IInv` adds what a stale copy still guarantees at each place of a
    request (`RequestOK`): the claim it works on is its user's, the provider it read was
free or its user's, the role it read was not above the present one. The part that
    speaks of rows, tags and locks only is an invariant by itself, `FlowInv`; `IInv` adds
    owners, roles and editors. One lemma per action for each of the two.
  - Waits. A verification locks rows of claims, of a user and of the provider, one after
    the other, and holds some while it waits for the next. `LocksInv`: locked claims are
    pending, and their holders are verifying another claim and past their first lock; so whoever waits
    waits for a request in its write phase (`BlockerWrites`). If none of those got its row,
    each would wait for another of them, and as they are finitely many
    (`RequestsAssumption`: the pool of connections is), a smallest set of requests that each
    wait for one of the set is a cycle (`SomeCycle`). Hence somebody gets its row (then its
    step, or `VerifiedConflict`, can be taken) or some wait in a cycle, however long, which
    PostgreSQL finds (then `DeadlockAbort` can). The run claim_safety reaches chains, and
    cycles of two and of three.
  - Commands. The operator writes owners and roles in the middle of requests that have
    read them. What rests on these columns is gone: under `CliSpec` each of
    `OwnerHasVerifiedClaim`, `VerifiedClaimOwnsProvider`, `EditorWasEntitled`,
    `OwnerIsPromoted` and `OwnershipSpec` has a counterexample, mostly a
    single command. `FlowInv` does not mention these columns (but for their types) and
    survives, and with it the statements about verified claims, tags and waits. `CliInv` adds
    that a request which read the provider as claimed is right about it, since nothing
    clears is_claimed, and so a profile is claimed exactly when a claim was verified: a
    user linked by claim-provider to a profile nobody verified still needs a verification
    before he may edit it (unless he is an admin), and a verified profile refuses every
    new claim after unclaim-provider, until an owner is linked again.
  - Events. The batch in a worker's memory may have been claimed by another worker and
    acknowledged meanwhile. `BatchInv` says that a worker about to acknowledge has stored
    what its batch carries, `GroupInv` that only delivered entries are pending. Claims take
    the oldest entries of a set by counting, which needs lemmas on finite sets. Each
    step maps to a step of `AtLeastOnce` or to a stutter.
  - Outreach. A transaction's writes are invisible until it commits, so `RequestInv`
    says what they rest on: what it will record as sent has been mailed, and a row it
    has changed is locked by it or gone (`WriteOK`); only rows that exist are locked
    (`LockInv`). So a commit neither revives a deleted row nor touches another's.
    `VersionsInv`: all but the newest message of a provider are deleted. For
    unsubscribed addresses, a request that is about to mail checked the list after it
    began. `EndStep` collects what every end of a request needs.
  - Sessions. `LockInv`: a refresh past its UPDATE holds the row it replaces, so at its
    commit the parent becomes revoked with the child's insertion; `IssueInv`: a token being
    issued is nobody else's and has no row yet. That a browser keeps its session speaks of
    answers under way: `OwnerInv` says that a token is known to one browser and its
    requests only, `JarInv` that the cookie of an undisturbed browser is live or is about
    to be committed, and that whoever is about to revoke it has yet to answer. Between
    `Respond` and `Commit` the cookie names a token without a row, which is why the
    invariant cannot say "live".
  - Ingestion. `IngestionInv` keeps, for every worker, its place in its plan
    (`PlaceOK`), that all behind it was absorbed or dropped (`ProgressOK`), and, for a
    worker that nothing ran next to, that what it selected is still so (`AloneOK`); slugs
    are unique (`KeysUnique`), and an absorbed item's row exists under its categories.
    Workers' records change in one field at a time: `GoStep`, `MoveStep`, `FindStep`,
    `RaiseStep`, `FreeStep` are shared by the actions.
  - Batches. That the files joined again are the dump is stated over sets of numbered
    lines, so that no induction over sequences is needed: a record is written as the line
    after the last (`FileOpened`, `FileGrows`), and a document read adds the next record
    or none (`RecordsGrow`). `CutInv` ties the two counts together: what is written is the
    number of documents imported so far, and says how full the last file is, which is why
    a new one is opened exactly when that is full (`OpensWhenFull`).
  - Contents. The lists and the tables are the code's own; what they meet is any documents
    and any number of imports in any order. `ContentInv`: the tree is as far as the seed
    has come (no later root moves a category because the roots' children are disjoint,
    `TreeApart`), a later run of the seed gives a demo row the seed's categories and changes
    nothing else (`SeedAgainKeeps`), and
    every row found all that its items name, for every item of every
    list names what is seeded (`OfferFacts`). For a record, that the first rule of the
    if-chain that applies has the longest prefix (`FirstIsLongest`): a rule tells a code's
    first digits (`KnownBy`), and of two that know one code the longer comes first
    (`LongerFirst`). The first of a set of rules is its least number, which is there
    because the naturals are well-founded (`MinFacts`). That no two entries become one row
    needs what a row is merged by: `RowApart` says that a row outside the demo's host holds
    items of one source key and one homepage, and on the lists either of these decides the
    other and the company (`KeysAndHosts`).
  - Conversations. At most one insert is in flight, and only while the pair has none, so
    two live answers name one id (`StartInv`).
  - Chat. `SendInv`: only the send that holds the conversation's row may be published and
    not committed, so one message at most is out ahead of its commit. `ActivityInv`: a send
    that began earlier and is still under way was so at the commit it will overwrite.
    `OrderInv` and `CompleteInv` follow a message from its publication: it is on its way to
    the page, missed, loaded, or older than a full page. That a page sorted anew shows the
    same messages needs that a finite set can be put in order (`SortedExists`), and that
    the history's LIMIT leaves a page's worth of newer ones (`LatestSuffice`).
  - Index. Meilisearch applies its tasks later, so the index says little about itself;
    `Settles` reads the queue as what the index will be, and `SettlesAppend` and
    `SettlesApply` say what adding and applying a task do to that. `AloneInv`: of a reindex
    that overlaps none, what is no longer to be sent is settled.
  - Search. `AnswerInv`: hits are distinct rows, and the items are the hits in some order,
    through hydration and re-ranking. `TotalInv`: total and page are of one state of the
    catalogue; rows that the join multiplies are counted once because the count is of
    distinct ids (`TotalCounts`). `FacetsInv`: the axes counted so far agree with asking for
    each value; `FacetIsTotal` is the lemma about one value: a leaf's count is its total, a
    root's is its total and the providers linked below it only.
  - Limiter. `HitsInv`: hits of one window that are in flight have different values, none
    above the counter and none granted before, and `GrantedInv` that the granted values are within
    the budget and behind the counter; `over` marks the hits whose window is gone.
    The creator of a counter owes its expiry until it is set or the hit is lost.
  - Cache. `MutexInv` ties the lock to the one read at work in a process; `ColdInv` says that
    a process that has loaded has stored or is about to; `ForwardInv` that rows about to be
    stored are not older than those stored. `LeavingKeeps`, `WorkingKeeps` and
    `OutsideKeeps` each cover several actions.

Only model-checked: `SomeRequestMoves` as it stands, which says ENABLED (what is proved,
`NoUnbrokenWait`, names the guards of the same actions instead), and all liveness, which
needs ENABLED and fairness that the prover does not handle.

## 8. Not modelled

See the components marked so in `PROJECT.json`. The matcher's scores are sums and products
of floats, which TLA+ has not; its callers depend on nothing but its returning some order
of some of the candidates, and that is modelled. Left out for good: analytics (pure
reads), user interface other than the chat page, metrics, generated code and deployment
scripts. Within modelled parts: registration's unique e-mail, access tokens (signed, no
state), the lead's own status and its notification mails, contents of mails, events and
messages, password checks, the wording and the regular expressions of scraped pages,
pauses between fetches, relevance and spelling correction
of the engines, tasks that Meilisearch fails, its estimate of totals (taken as exact), the fifty
cities a facet shows, ISO strings of one moment written in two ways (the page compares them as
strings), ties of created_at, the cities' cache key (a search for "*" shares the key of no search), and
database failures other than lost transactions.
