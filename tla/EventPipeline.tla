--------------------------- MODULE EventPipeline ---------------------------
(***************************************************************************)
(* Product events on their way to ClickHouse: the API's emitter            *)
(* (clients/events.py) appends to a Redis stream, and the workers of the   *)
(* events service (apps/events) read it through one consumer group, insert *)
(* the rows and acknowledge the entries.                                   *)
(*                                                                         *)
(* Entries are numbered in stream order.  Each command to Redis and        *)
(* ClickHouse is a step, which may fail before it took effect, or take     *)
(* effect while its answer is lost.  Idle times and the claim interval are *)
(* abstracted to flags that time may raise at any moment.                  *)
(***************************************************************************)
EXTENDS Integers, FiniteSets

CONSTANTS
  Events,      \* event ids
  Malformed,   \* a payload that is not a valid envelope
  Workers,     \* consumers of the group, one per events process
  None,        \* no consumer
  BatchSize,   \* cfg.BatchSize: entries per read
  MaxLen,      \* stream length below which XADD never trims
  MaxEntries,  \* bound: entries ever appended
  MaxCrashes   \* bound: processes that exit or are killed

ASSUME PayloadAssumption == Malformed \notin Events
ASSUME WorkersAssumption == None \notin Workers
ASSUME SizesAssumption ==
  /\ BatchSize \in Nat \ {0} /\ MaxLen \in Nat \ {0}
  /\ MaxEntries \in Nat /\ MaxCrashes \in Nat

Ids == 1 .. MaxEntries

\* Variant: the loop ends one attempt early.
OneAttemptLess == 2
Attempts == 3           \* EventEmitter.emit: for attempt in range(3)

PCs == {"down", "bootstrap", "connect", "read", "fetch", "insert", "ack"}

VARIABLES
  tries,       \* [Events -> failed XADDs of its emit call]
  emitted,     \* the events whose emit call has returned
  payload,     \* [Ids -> what the entry carries]
  last,        \* the id of the last entry
  first,       \* the oldest entry not trimmed
  group,       \* where the group was created; -1: no group yet
  delivered,   \* the group's last-delivered id
  pending,     \* [Ids -> the consumer in whose pending list it is]
  idle,        \* the pending entries not touched for ClaimIdle
  stored,      \* the events ClickHouse has
  pc, batch,   \* [Workers -> ...]: where the loop is, the entries it works on
  claimDue,    \* the workers whose claim interval has passed
  crashes      \* how many processes have died

emitVars   == <<tries, emitted>>
streamVars == <<payload, last, first>>
groupVars  == <<group, delivered, pending, idle>>
workerVars == <<pc, batch, claimDue>>
vars == <<emitVars, streamVars, groupVars, stored, workerVars, crashes>>

TypeOK ==
  /\ tries \in [Events -> 0 .. Attempts]
  /\ emitted \in SUBSET Events
  /\ payload \in [Ids -> Events \cup {Malformed}]
  /\ last \in 0 .. MaxEntries
  /\ first \in 1 .. MaxEntries + 1
  /\ group \in -1 .. MaxEntries
  /\ delivered \in 0 .. MaxEntries
  /\ pending \in [Ids -> Workers \cup {None}]
  /\ idle \in SUBSET Ids
  /\ stored \in SUBSET Events
  /\ pc \in [Workers -> PCs]
  /\ batch \in [Workers -> SUBSET Ids]
  /\ claimDue \in SUBSET Workers
  /\ crashes \in 0 .. MaxCrashes

Init ==
  /\ tries = [e \in Events |-> 0]
  /\ emitted = {}
  /\ payload = [i \in Ids |-> Malformed]
  /\ last = 0
  /\ first = 1
  /\ group = -1
  /\ delivered = 0
  /\ pending = [i \in Ids |-> None]
  /\ idle = {}
  /\ stored = {}
  /\ pc = [w \in Workers |-> "bootstrap"]
  /\ batch = [w \in Workers |-> {}]
  /\ claimDue = Workers          \* lastClaim is zero
  /\ crashes = 0

-----------------------------------------------------------------------------
(* The emitter.                                                            *)

\* XADD ... MAXLEN ~: appends, and may trim what exceeds MaxLen.
Append(p) ==
  /\ last < MaxEntries
  /\ last' = last + 1
  /\ payload' = [payload EXCEPT ![last + 1] = p]
  /\ \E f \in first .. last + 1 :
       /\ f = first \/ last + 2 - f >= MaxLen
       /\ first' = f

EmitOk(e) ==
  /\ e \notin emitted
  /\ Append(e)
  /\ emitted' = emitted \cup {e}
  /\ UNCHANGED <<tries, groupVars, stored, workerVars, crashes>>

\* XADD raises, with or without having appended; after the third failure the
\* event is dropped.
EmitFails(e) ==
  /\ e \notin emitted
  /\ Append(e) \/ UNCHANGED streamVars
  /\ tries' = [tries EXCEPT ![e] = @ + 1]
  /\ emitted' = IF tries'[e] = Attempts THEN emitted \cup {e} ELSE emitted
  /\ UNCHANGED <<groupVars, stored, workerVars, crashes>>

\* Some other producer's entry that does not decode.
AppendMalformed ==
  /\ Append(Malformed)
  /\ UNCHANGED <<emitVars, groupVars, stored, workerVars, crashes>>

-----------------------------------------------------------------------------
(* A worker's life.                                                        *)

Goto(w, l) == pc' = [pc EXCEPT ![w] = l]

\* The container restarts.
Restart(w) ==
  /\ pc[w] = "down"
  /\ Goto(w, "bootstrap")
  /\ claimDue' = claimDue \cup {w}
  /\ UNCHANGED <<emitVars, streamVars, groupVars, stored, batch, crashes>>

\* waitForBootstrap: blocks until ClickHouse has the table.
Bootstrap(w) ==
  /\ pc[w] = "bootstrap"
  /\ Goto(w, "connect")
  /\ UNCHANGED <<emitVars, streamVars, groupVars, stored, batch, claimDue, crashes>>

\* stream.Connect: XGROUP CREATE <stream> <group> $, from the entry that is the
\* last one now, unless the group exists (BUSYGROUP).
Connect(w) ==
  /\ pc[w] = "connect"
  /\ IF group = -1
     THEN group' = last /\ delivered' = last
     ELSE UNCHANGED <<group, delivered>>
  /\ Goto(w, "read")
  /\ UNCHANGED <<emitVars, streamVars, pending, idle, stored, batch, claimDue,
                 crashes>>

\* Any error Connect returns, a signal or a kill ends the process.
Crash(w) ==
  /\ pc[w] # "down"
  /\ crashes < MaxCrashes
  /\ crashes' = crashes + 1
  /\ Goto(w, "down")
  /\ batch' = [batch EXCEPT ![w] = {}]
  /\ UNCHANGED <<emitVars, streamVars, groupVars, stored, claimDue>>

-----------------------------------------------------------------------------
(* The pipeline's loop: Reader.Read, convert, InsertRows, Ack.             *)

IsEvent(i) == payload[i] \in Events

\* The first BatchSize members of a set of entries.
Oldest(S) == {i \in S : Cardinality({j \in S : j <= i}) <= BatchSize}

\* Variant: one malformed entry makes its whole batch a poison pill.
ReceiveAllOrNothing(w, S) ==
  /\ batch' = [batch EXCEPT ![w] = S]
  /\ Goto(w, IF \A i \in S : IsEvent(i) THEN "insert" ELSE "ack")

\* A read hands over entries: rows to insert, or only ids to acknowledge.
Receive(w, S) ==
  /\ batch' = [batch EXCEPT ![w] = S]
  /\ Goto(w, IF \E i \in S : IsEvent(i) THEN "insert" ELSE "ack")

NoAnswer(w) == UNCHANGED batch /\ Goto(w, "fetch")

\* XAUTOCLAIM from 0-0 looks at the pending entries in order: it takes over the
\* idle ones, and drops those that were trimmed.
Claimable == Oldest({i \in Ids : pending[i] # None /\ (i \in idle \/ i < first)})
Taken     == {i \in Claimable : first <= i}

TakeOver(w) ==
  /\ pending' = [i \in Ids |-> IF i \in Taken THEN w
                               ELSE IF i \in Claimable THEN None
                               ELSE pending[i]]
  /\ idle' = idle \ Claimable

\* maybeClaim, first thing in a read once the claim interval has passed.
Claim(w) ==
  /\ pc[w] = "read"
  /\ w \in claimDue
  /\ claimDue' = claimDue \ {w}
  /\ TakeOver(w)
  /\ IF Taken = {} THEN NoAnswer(w) ELSE Receive(w, Taken)
  /\ UNCHANGED <<emitVars, streamVars, group, delivered, stored, crashes>>

\* On an error the loop goes on to fetch; entries taken over stay pending.
ClaimFails(w) ==
  /\ pc[w] = "read"
  /\ w \in claimDue
  /\ claimDue' = claimDue \ {w}
  /\ TakeOver(w) \/ UNCHANGED <<pending, idle>>
  /\ NoAnswer(w)
  /\ UNCHANGED <<emitVars, streamVars, group, delivered, stored, crashes>>

\* XREADGROUP ... >: entries never delivered to the group, skipping what has
\* been trimmed.  Entries whose answer is lost stay pending.
Fetch(w) ==
  LET new == Oldest({i \in Ids : delivered < i /\ first <= i /\ i <= last})
  IN  /\ pc[w] \in {"fetch", "read"}
      /\ pc[w] = "read" => w \notin claimDue
      /\ IF new = {}
         THEN /\ Goto(w, "read")
              /\ UNCHANGED <<delivered, pending, batch>>
         ELSE /\ delivered' \in new
              /\ \A i \in new : i <= delivered'
              /\ pending' = [i \in Ids |-> IF i \in new THEN w ELSE pending[i]]
              /\ \/ Receive(w, new)
                 \/ Goto(w, "read") /\ UNCHANGED batch
      /\ UNCHANGED <<emitVars, streamVars, group, idle, stored, claimDue, crashes>>

FetchFails(w) ==
  /\ pc[w] = "fetch"
  /\ Goto(w, "read")
  /\ UNCHANGED <<emitVars, streamVars, groupVars, stored, batch, claimDue, crashes>>

Done(w) == Goto(w, "read") /\ batch' = [batch EXCEPT ![w] = {}]

\* The rows convert makes of a batch: those entries that decode.
Rows(w) == {payload[i] : i \in {j \in batch[w] : IsEvent(j)}}

\* InsertRows: one INSERT for the rows.
Insert(w) ==
  /\ pc[w] = "insert"
  /\ stored' = stored \cup Rows(w)
  /\ Goto(w, "ack")
  /\ UNCHANGED <<emitVars, streamVars, groupVars, batch, claimDue, crashes>>

\* Variant: the entries are acknowledged although the insert failed.
AcksFailedInsert(w) ==
  /\ pc[w] = "insert"
  /\ Goto(w, "ack")
  /\ UNCHANGED <<emitVars, streamVars, groupVars, stored, batch, claimDue, crashes>>

\* The insert fails, or times out after ClickHouse took the rows: no ACK.
InsertFails(w) ==
  /\ pc[w] = "insert"
  /\ \/ UNCHANGED stored
     \/ stored' = stored \cup Rows(w)
  /\ Done(w)
  /\ UNCHANGED <<emitVars, streamVars, groupVars, claimDue, crashes>>

\* XACK, whoever owns the entries by now.
Ack(w) ==
  /\ pc[w] = "ack"
  /\ pending' = [i \in Ids |-> IF i \in batch[w] THEN None ELSE pending[i]]
  /\ idle' = idle \ batch[w]
  /\ Done(w)
  /\ UNCHANGED <<emitVars, streamVars, group, delivered, stored, claimDue, crashes>>

AckFails(w) ==
  /\ pc[w] = "ack"
  /\ Done(w)
  /\ UNCHANGED <<emitVars, streamVars, groupVars, stored, claimDue, crashes>>

-----------------------------------------------------------------------------
(* Time.                                                                   *)

BecomesIdle(i) ==
  /\ pending[i] # None
  /\ i \notin idle
  /\ idle' = idle \cup {i}
  /\ UNCHANGED <<emitVars, streamVars, group, delivered, pending, stored,
                 workerVars, crashes>>

\* Variant: pending entries are claimed at startup only.
ClaimOnce(w) == FALSE /\ UNCHANGED vars

ClaimIntervalPasses(w) ==
  /\ pc[w] # "down"
  /\ w \notin claimDue
  /\ claimDue' = claimDue \cup {w}
  /\ UNCHANGED <<emitVars, streamVars, groupVars, stored, pc, batch, crashes>>

-----------------------------------------------------------------------------
Emit == \/ \E e \in Events : EmitOk(e) \/ EmitFails(e)
        \/ AppendMalformed

Start(w) == Restart(w) \/ Bootstrap(w) \/ Connect(w)

Loop(w) ==
  \/ Claim(w) \/ ClaimFails(w) \/ Fetch(w) \/ FetchFails(w)
  \/ Insert(w) \/ InsertFails(w) \/ Ack(w) \/ AckFails(w)

Next ==
  \/ Emit
  \/ \E w \in Workers : Start(w) \/ Loop(w) \/ Crash(w) \/ ClaimIntervalPasses(w)
  \/ \E i \in Ids : BecomesIdle(i)

Spec == Init /\ [][Next]_vars

\* Network, Redis and ClickHouse errors do not last for ever: a command that
\* is tried again and again gets through, and so does one that has something
\* to claim.  Time passes, containers restart.
Fairness ==
  /\ \A w \in Workers :
       /\ WF_vars(Start(w)) /\ WF_vars(Loop(w))
       /\ WF_vars(ClaimIntervalPasses(w))
       /\ SF_vars(Claim(w) /\ Taken # {})
       /\ SF_vars(Claim(w) /\ Taken = {} /\ Claimable # {})
       /\ SF_vars(Fetch(w)) /\ SF_vars(Insert(w)) /\ SF_vars(Ack(w))
  /\ \A i \in Ids : WF_vars(BecomesIdle(i))

FairSpec == Spec /\ Fairness

-----------------------------------------------------------------------------
(* What the pipeline guarantees.                                           *)

\* The entries the group accepts, and those it will not deliver any more.
Accepted == IF group = -1 THEN {} ELSE {i \in Ids : group < i /\ i <= last}
Settled  == {i \in Accepted : i <= delivered /\ pending[i] = None}
Excused  == {i \in Ids : i < first \/ (i <= last /\ ~IsEvent(i))}
Durable  == {i \in 1 .. last : IsEvent(i) /\ payload[i] \in stored}

\* "On any writer failure we never ACK": an entry that left the pending list is
\* in ClickHouse, unless it was trimmed first or carries no event, whatever
\* the interleaving of claims, crashes, timeouts and acknowledgements.
SettledIsStored == Settled \subseteq Durable \cup Excused

\* An emit call that has returned has appended the event, or has failed three
\* times.
EmittedOrExhausted ==
  \A e \in emitted : tries[e] >= 3 \/ \E i \in 1 .. last : payload[i] = e

\* Every event the group accepts is stored in the end, or trimmed: crashed
\* workers and failed inserts leave nothing pending for ever.
EveryEntryStored ==
  \A i \in Ids :
    i \in Accepted /\ IsEvent(i) ~> i \in Durable \cup Excused

\* The pipeline implements at-least-once delivery.
Delivery == INSTANCE AtLeastOnce
            WITH accepted <- Accepted, excused <- Excused,
                 durable <- Durable, settled <- Settled
DeliverySpec == Delivery!Spec

-----------------------------------------------------------------------------
(* The inductive invariant behind SettledIsStored and EmittedOrExhausted.   *)

\* An emit call that has failed as often as it tries has returned.
EmitInv == \A e \in Events : tries[e] = Attempts => e \in emitted

\* The group's position is between its start and the end of the stream, and
\* only entries it has delivered are pending; nobody reads before it exists.
GroupInv ==
  /\ first <= last + 1
  /\ group = -1 =>
       /\ delivered = 0
       /\ \A i \in Ids : pending[i] = None
       /\ \A w \in Workers : pc[w] \in {"down", "bootstrap", "connect"}
  /\ group # -1 => group <= delivered /\ delivered <= last
  /\ \A i \in Ids : pending[i] # None => group < i /\ i <= delivered

\* A worker that is about to acknowledge has stored what its batch carries.
BatchInv ==
  \A w \in Workers :
    /\ batch[w] # {} => pc[w] \in {"insert", "ack"}
    /\ \A i \in batch[w] :
         /\ group < i /\ i <= delivered
         /\ pc[w] = "ack" /\ IsEvent(i) => payload[i] \in stored

PipelineInv ==
  TypeOK /\ EmitInv /\ EmittedOrExhausted /\ GroupInv /\ BatchInv /\ SettledIsStored

=============================================================================
