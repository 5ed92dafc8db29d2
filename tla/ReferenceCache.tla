--------------------------- MODULE ReferenceCache ---------------------------
(***************************************************************************)
(* One key of the cache of reference data (clients/cache.py get_or_set,    *)
(* with the loaders of routes/catalog.py and services/catalog.py).         *)
(*                                                                         *)
(* A read looks into Redis, takes the key's lock of its process, looks     *)
(* again, loads the rows from PostgreSQL and stores them for the lifetime. *)
(* The rows are known by their version, and change under the loaders.  An  *)
(* entry written by another release cannot be decoded.                     *)
(***************************************************************************)
EXTENDS Naturals

CONSTANTS
  Reads,       \* slots for requests reading the key
  Servers,     \* processes of the API, each with locks of its own
  ServerOf,    \* [Reads -> Servers]
  Empty,       \* the key is not in Redis; nobody holds the lock
  Garbled,     \* an entry of another release
  MaxChanges   \* bound: changes of the rows

ASSUME ServerAssumption == ServerOf \in [Reads -> Servers]
ASSUME CacheAssumption ==
  /\ Empty # Garbled /\ Empty \notin Reads \cup Nat /\ Garbled \notin Nat
  /\ MaxChanges \in Nat

Versions == 0 .. MaxChanges

VARIABLES
  rows,     \* version of the rows in PostgreSQL
  entry,    \* what Redis has under the key
  mutex,    \* [Servers -> the read that holds the key's lock]
  read,     \* [Reads -> step and rows of a read]
  loads,    \* [Servers -> loads since the key was last cold]: history
  newest    \* [Servers -> version its last store put into Redis]: history

cacheVars == <<rows, entry, mutex, read, loads, newest>>

Resting == [pc |-> "idle", rows |-> 0]

CacheTypeOK ==
  /\ rows \in Versions
  /\ entry \in Versions \cup {Empty, Garbled}
  /\ mutex \in [Servers -> Reads \cup {Empty}]
  /\ read \in [Reads -> [pc : {"idle", "get", "lock", "look", "load", "store", "direct"},
                         rows : Versions]]
  /\ loads \in [Servers -> Nat]
  /\ newest \in [Servers -> Versions]

CacheInit ==
  /\ rows = 0
  /\ entry \in {Empty, Garbled}
  /\ mutex = [s \in Servers |-> Empty]
  /\ read = [r \in Reads |-> Resting]
  /\ loads = [s \in Servers |-> 0]
  /\ newest = [s \in Servers |-> 0]

-----------------------------------------------------------------------------
Moves(r, pc) == read' = [read EXCEPT ![r].pc = pc]
Ends(r)      == read' = [read EXCEPT ![r] = Resting]
Leaves(r)    == mutex' = [mutex EXCEPT ![ServerOf[r]] = Empty]

\* The rule of one load per cold key is about servers that Redis answers and
\* loads that succeed: a failure of a server's reader starts it anew.
Excuse(r) == loads' = [loads EXCEPT ![ServerOf[r]] = 0]

Ask(r) ==
  /\ read[r].pc = "idle"
  /\ Moves(r, "get")
  /\ UNCHANGED <<rows, entry, mutex, loads, newest>>

Decodable == entry \in Versions

Get(r) ==
  /\ read[r].pc = "get"
  /\ IF Decodable THEN Ends(r) ELSE Moves(r, "lock")
  /\ UNCHANGED <<rows, entry, mutex, loads, newest>>

\* The first look fails: load without the lock, and store nothing.
GetFails(r) ==
  /\ read[r].pc = "get"
  /\ Moves(r, "direct")
  /\ UNCHANGED <<rows, entry, mutex, loads, newest>>

LoadDirectly(r) ==
  /\ read[r].pc = "direct"
  /\ Ends(r)
  /\ UNCHANGED <<rows, entry, mutex, loads, newest>>

\* Variant: nobody waits for the lock.
AlwaysFree(s) == TRUE

Free(s) == mutex[s] = Empty

Lock(r) ==
  /\ read[r].pc = "lock"
  /\ Free(ServerOf[r])
  /\ mutex' = [mutex EXCEPT ![ServerOf[r]] = r]
  /\ Moves(r, "look")
  /\ UNCHANGED <<rows, entry, loads, newest>>

\* Variant: those who waited for the lock do not look again.
NoSecondLook == FALSE

\* The double check: what somebody stored while this read was waiting.
FoundMeanwhile == Decodable

Look(r) ==
  /\ read[r].pc = "look"
  /\ IF FoundMeanwhile THEN Ends(r) /\ Leaves(r)
     ELSE Moves(r, "load") /\ UNCHANGED mutex
  /\ UNCHANGED <<rows, entry, loads, newest>>

LookFails(r) ==
  /\ read[r].pc = "look"
  /\ Moves(r, "load")
  /\ Excuse(r)
  /\ UNCHANGED <<rows, entry, mutex, newest>>

Load(r) ==
  /\ read[r].pc = "load"
  /\ read' = [read EXCEPT ![r] = [pc |-> "store", rows |-> rows]]
  /\ loads' = [loads EXCEPT ![ServerOf[r]] = @ + 1]
  /\ UNCHANGED <<rows, entry, mutex, newest>>

\* The loader raises, in the lock or without it: the lock is left all the same.
LoadFails(r) ==
  /\ read[r].pc \in {"load", "direct"}
  /\ Ends(r)
  /\ IF read[r].pc = "load" THEN Leaves(r) ELSE UNCHANGED mutex
  /\ UNCHANGED <<rows, entry, loads, newest>>

Store(r) ==
  /\ read[r].pc = "store"
  /\ entry' = read[r].rows
  /\ newest' = [newest EXCEPT ![ServerOf[r]] = read[r].rows]
  /\ Ends(r)
  /\ Leaves(r)
  /\ UNCHANGED <<rows, loads>>

\* Redis does not take the rows: they are served, and the key stays as it is.
StoreFails(r) ==
  /\ read[r].pc = "store"
  /\ Ends(r)
  /\ Leaves(r)
  /\ Excuse(r)
  /\ UNCHANGED <<rows, entry, newest>>

\* The lifetime is over: the key is cold for everybody.
Expire ==
  /\ entry # Empty
  /\ entry' = Empty
  /\ loads' = [s \in Servers |-> 0]
  /\ UNCHANGED <<rows, mutex, read, newest>>

\* A seed, a spider or an operator changes the reference tables.
Change ==
  /\ rows < MaxChanges
  /\ rows' = rows + 1
  /\ UNCHANGED <<entry, mutex, read, loads, newest>>

CacheNext ==
  \/ \E r \in Reads :
       \/ Ask(r) \/ Get(r) \/ GetFails(r) \/ LoadDirectly(r) \/ Lock(r) \/ Look(r)
       \/ LookFails(r) \/ Load(r) \/ LoadFails(r) \/ Store(r) \/ StoreFails(r)
  \/ Expire \/ Change

CacheSpec == CacheInit /\ [][CacheNext]_cacheVars

-----------------------------------------------------------------------------
(* What the cache guarantees.                                              *)

\* cache.py:23-27: of the readers of a cold key only the first of a process
\* opens the query, and the rest get what it stored, as long as Redis answers
\* and the query succeeds.
OneLoadPerColdKey == \A s \in Servers : loads[s] <= 1

\* A process never puts back rows older than those it has stored itself: its
\* readers load one after the other, however slow a load or its store
\* (cache.py:77-79) is, and the loads without the lock store nothing.
StoresMoveForward ==
  [][\A s \in Servers : newest'[s] >= newest[s]]_newest

\* The holder of the lock is at work, and nobody else in its process is.
MutexInv ==
  \A r \in Reads :
    read[r].pc \in {"look", "load", "store"} <=> mutex[ServerOf[r]] = r

\* A process whose load is done has stored the rows or is about to.
ColdInv ==
  \A s \in Servers : loads[s] = 1 =>
    \/ entry \in Versions
    \/ \E r \in Reads : mutex[s] = r /\ ServerOf[r] = s /\ read[r].pc = "store"

NobodyLoadsTwice ==
  \A r \in Reads : read[r].pc = "load" => loads[ServerOf[r]] = 0

\* Rows about to be stored are at least as new as those stored before.
ForwardInv ==
  /\ \A s \in Servers : newest[s] <= rows
  /\ \A r \in Reads : read[r].pc = "store" =>
       newest[ServerOf[r]] <= read[r].rows /\ read[r].rows <= rows

CacheInv ==
  CacheTypeOK /\ MutexInv /\ OneLoadPerColdKey /\ ColdInv /\ NobodyLoadsTwice
  /\ ForwardInv

=============================================================================
