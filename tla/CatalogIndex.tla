---------------------------- MODULE CatalogIndex ----------------------------
(***************************************************************************)
(* Providers that change, and their documents in Meilisearch               *)
(* (services/indexer.py).                                                  *)
(*                                                                         *)
(* A provider's row and its document are known by their version.  A        *)
(* reindex selects the published rows once and sends them in batches,      *)
(* which Meilisearch applies later, in the order in which it took them.    *)
(***************************************************************************)
EXTENDS CatalogQueries

CONSTANTS
  Providers,     \* ids of providers
  RowAt,         \* [Providers -> the sequence of a provider's rows]
  CreatedAt,     \* [Providers -> when a provider was created]
  Reindexers,    \* cron's reindex and operators'
  BatchSize,     \* documents per add_documents, 200 in the code
  MaxTasks       \* bound: tasks Meilisearch has not yet applied

ASSUME RowsAssumption ==
  /\ IsFiniteSet(Providers)
  /\ CreatedAt \in [Providers -> Nat]
  /\ \A p \in Providers :
       /\ Len(RowAt[p]) \in Nat \ {0}
       /\ \A i \in 1 .. Len(RowAt[p]) : RowOK(RowAt[p][i])
ASSUME BatchAssumption == BatchSize \in Nat \ {0} /\ MaxTasks \in Nat

VARIABLES
  version,    \* [Providers -> version of the row, 0 before it is inserted]
  docs,       \* [Providers -> version of the document, 0 when there is none]
  tasks,      \* tasks Meilisearch has accepted and not yet applied
  indexed,    \* the index exists with its settings
  job,        \* [Reindexers -> what a reindex has selected and not yet sent]
  covered,    \* [Providers -> version the last finished reindex selected]: history
  jobsOverlapped \* two reindexes ran at once: history

indexVars == <<version, docs, tasks, indexed, job, covered, jobsOverlapped>>

\* Rows, or documents, at the versions of a function.
At(versions) == [p \in {x \in Providers : versions[x] > 0} |-> RowAt[p][versions[p]]]
Catalogue == At(version)
Index == At(docs)

PublishedAt(p, v) == v > 0 /\ RowAt[p][v].published

\* ORDER BY created_at; providers of one moment come in any order.
ByCreation(S) ==
  {s \in Orders(S) : \A i, j \in DOMAIN s : i < j => CreatedAt[s[i]] <= CreatedAt[s[j]]}

NoJob == [pc |-> "idle", snapshot |-> [p \in Providers |-> 0], left |-> <<>>]

IndexInit ==
  /\ version \in [Providers -> {0, 1}]
  /\ docs = [p \in Providers |-> 0]
  /\ tasks = <<>>
  /\ indexed = FALSE
  /\ job = [j \in Reindexers |-> NoJob]
  /\ covered = [p \in Providers |-> 0]
  /\ jobsOverlapped = FALSE

-----------------------------------------------------------------------------
\* A spider, the seed or an owner's edit writes a provider's next row.
Edit(p) ==
  /\ version[p] < Len(RowAt[p])
  /\ version' = [version EXCEPT ![p] = @ + 1]
  /\ UNCHANGED <<docs, tasks, indexed, job, covered, jobsOverlapped>>

\* reindex_all: the index and its settings, which are a task without documents
\* here, and one SELECT of what is published.  selectinload reads the categories
\* right after it: they may be newer than the version that a document is known by.
Select(j) ==
  /\ job[j].pc = "idle"
  /\ Len(tasks) < MaxTasks
  /\ tasks' = Append(tasks, <<>>)
  /\ \E left \in ByCreation({p \in Providers : PublishedAt(p, version[p])}) :
       job' = [job EXCEPT ![j] = [pc |-> "sending", snapshot |-> version, left |-> left]]
  /\ jobsOverlapped' = (jobsOverlapped \/ \E k \in Reindexers \ {j} : job[k].pc # "idle")
  /\ UNCHANGED <<version, docs, indexed, covered>>

\* Variant: the last, incomplete batch is not sent.
FullBatch(left) == IF Len(left) < BatchSize THEN <<>> ELSE SubSeq(left, 1, BatchSize)

NextBatch(left) == PageOf(left, BatchSize, 0)

SendBatch(j) ==
  LET batch == NextBatch(job[j].left)
      rest == PageOf(job[j].left, Len(job[j].left), BatchSize)
      seen == job[j].snapshot
  IN  /\ job[j].pc = "sending"
      /\ Len(tasks) < MaxTasks
      /\ tasks' = IF batch = <<>> THEN tasks
                  ELSE Append(tasks, [i \in DOMAIN batch |-> <<batch[i], seen[batch[i]]>>])
      /\ IF rest = <<>>
         THEN job' = [job EXCEPT ![j] = NoJob] /\ covered' = seen
         ELSE job' = [job EXCEPT ![j].left = rest] /\ UNCHANGED covered
      /\ UNCHANGED <<version, docs, indexed, jobsOverlapped>>

\* add_documents raises: what was sent stays, the rest waits for the next night.
ReindexFails(j) ==
  /\ job[j].pc = "sending"
  /\ job' = [job EXCEPT ![j] = NoJob]
  /\ UNCHANGED <<version, docs, tasks, indexed, covered, jobsOverlapped>>

\* A document replaces the one with its id, whatever their versions.
Applied(index, batch) ==
  [p \in Providers |->
     IF \E i \in DOMAIN batch : batch[i][1] = p
     THEN (CHOOSE d \in Elements(batch) : d[1] = p)[2]
     ELSE index[p]]

\* Meilisearch takes up its oldest task.  That one fails after it was accepted is
\* left out: the code never asks what became of a task.
ApplyBatch ==
  /\ tasks # <<>>
  /\ indexed' = TRUE
  /\ docs' = Applied(docs, Head(tasks))
  /\ tasks' = Tail(tasks)
  /\ UNCHANGED <<version, job, covered, jobsOverlapped>>

IndexNext ==
  \/ \E p \in Providers : Edit(p)
  \/ \E j \in Reindexers : Select(j) \/ SendBatch(j) \/ ReindexFails(j)
  \/ ApplyBatch

IndexSpec == IndexInit /\ [][IndexNext]_indexVars

-----------------------------------------------------------------------------
\* When Meilisearch has applied all it was sent, the index is not behind what
\* the last reindex that came to its end has selected, in the last batch either,
\* whatever failed before or after it; unless two reindexes ran at once.
IndexCatchesUp ==
  tasks = <<>> /\ ~jobsOverlapped =>
    \A p \in Providers :
      PublishedAt(p, covered[p]) => docs[p] >= covered[p]
-----------------------------------------------------------------------------
(* The inductive invariant of IndexCatchesUp.                              *)

DocBatches == Seq(Providers \X Nat)

IndexTypeOK ==
  /\ version \in [Providers -> Nat] /\ docs \in [Providers -> Nat]
  /\ covered \in [Providers -> Nat]
  /\ tasks \in Seq(DocBatches)
  /\ indexed \in BOOLEAN /\ jobsOverlapped \in BOOLEAN
  /\ job \in [Reindexers -> [pc : {"idle", "sending"}, snapshot : [Providers -> Nat],
                              left : Seq(Providers)]]

\* Nothing is known of a provider that its row has not said yet.
FromRowsInv ==
  \A p \in Providers :
    /\ version[p] <= Len(RowAt[p])
    /\ docs[p] <= version[p] /\ covered[p] <= version[p]
    /\ \A j \in Reindexers : job[j].snapshot[p] <= version[p]
    /\ \A i \in DOMAIN tasks : \A d \in Elements(tasks[i]) : d[1] = p => d[2] <= version[p]

\* When a queue of tasks has been applied to an index, the document of p will be
\* of version v or later: the index has it, or a task does, and no later task
\* goes back behind v.
Settles(index, queue, p, v) ==
  \E from \in 0 .. Len(queue) :
    /\ IF from = 0 THEN index[p] >= v ELSE \E d \in Elements(queue[from]) : d[1] = p
    /\ \A i \in DOMAIN queue : i >= from =>
         \A d \in Elements(queue[i]) : d[1] = p => d[2] >= v

\* Reindexes that never overlap: each begins after what the last one covered,
\* what a reindex no longer has to send is on its way, and so is all that the
\* last one covered.
AloneInv ==
  ~jobsOverlapped =>
    /\ \A j, k \in Reindexers : job[j].pc = "sending" /\ job[k].pc = "sending" => j = k
    /\ \A p \in Providers :
         /\ PublishedAt(p, covered[p]) => Settles(docs, tasks, p, covered[p])
         /\ \A j \in Reindexers : job[j].pc = "sending" =>
              /\ covered[p] <= job[j].snapshot[p]
              /\ PublishedAt(p, job[j].snapshot[p]) /\ p \notin Elements(job[j].left) =>
                   Settles(docs, tasks, p, job[j].snapshot[p])

IndexInv == IndexTypeOK /\ FromRowsInv /\ AloneInv

=============================================================================
