------------------------ MODULE EventPipelineProofs ------------------------
(***************************************************************************)
(* The event pipeline's safety for any events, any number of workers and   *)
(* crashes, any batch size and any stream length.                          *)
(***************************************************************************)
EXTENDS EventPipeline, FiniteSetTheorems, TLAPS

USE PayloadAssumption, WorkersAssumption, SizesAssumption

-----------------------------------------------------------------------------
(* What a read of a bounded number of entries picks.                       *)

\* A read picks some of the entries it looks at.
LEMMA OldestSubset ==
  ASSUME NEW S PROVE Oldest(S) \subseteq S
  BY DEF Oldest

\* A read leaves no entry behind that is older than one it picks.
LEMMA OldestDownward ==
  ASSUME NEW S \in SUBSET Ids, NEW i \in Oldest(S), NEW j \in S, j <= i
  PROVE  j \in Oldest(S)
<1> DEFINE Upto(k) == {l \in S : l <= k}
<1>1. i \in Ids /\ j \in Ids /\ S \subseteq Nat
  BY DEF Oldest, Ids
<1>2. IsFiniteSet(S)
  <2>1. IsFiniteSet(1 .. MaxEntries)
    BY FS_Interval
  <2>2. QED
    BY <2>1, FS_Subset DEF Ids
<1>3. IsFiniteSet(Upto(i)) /\ Upto(j) \in SUBSET Upto(i)
  <2>1. Upto(i) \in SUBSET S
    OBVIOUS
  <2>2. IsFiniteSet(Upto(i))
    BY <1>2, <2>1, FS_Subset
  <2>3. ASSUME NEW l \in Upto(j) PROVE l \in Upto(i)
    BY <1>1, <2>3 DEF Ids
  <2>4. QED
    BY <2>2, <2>3
<1>4. /\ Cardinality(Upto(j)) <= Cardinality(Upto(i))
      /\ Cardinality(Upto(i)) \in Nat /\ Cardinality(Upto(j)) \in Nat
  BY <1>3, FS_Subset, FS_CardinalityType
<1>5. Cardinality(Upto(i)) <= BatchSize
  BY DEF Oldest
<1>6. Cardinality(Upto(j)) <= BatchSize
  BY <1>4, <1>5
<1>7. QED
  BY <1>6 DEF Oldest

-----------------------------------------------------------------------------
(* Types.                                                                  *)

USE DEF emitVars, streamVars, groupVars, workerVars

\* Appending keeps the stream's variables in their domains.
LEMMA AppendTyped ==
  ASSUME TypeOK, NEW p \in Events \cup {Malformed}, Append(p)
  PROVE  /\ payload' \in [Ids -> Events \cup {Malformed}]
         /\ last' \in 0 .. MaxEntries
         /\ first' \in 1 .. MaxEntries + 1
  BY DEF Append, TypeOK, Ids

\* What a worker is given keeps its loop in its domains.
LEMMA ReceiveTyped ==
  ASSUME TypeOK, NEW w \in Workers, NEW S \in SUBSET Ids, Receive(w, S)
  PROVE  pc' \in [Workers -> PCs] /\ batch' \in [Workers -> SUBSET Ids]
  BY DEF Receive, Goto, TypeOK, PCs

\* What a claim looks at are entries.
LEMMA ClaimableTyped == Claimable \in SUBSET Ids /\ Taken \in SUBSET Claimable
  BY OldestSubset DEF Claimable, Taken

\* A claim, complete or not, keeps the group's pending lists in their domains.
LEMMA TakeOverTyped ==
  ASSUME TypeOK, NEW w \in Workers, TakeOver(w)
  PROVE  pending' \in [Ids -> Workers \cup {None}] /\ idle' \in SUBSET Ids
  BY DEF TakeOver, TypeOK

\* Every step keeps every variable in its domain.
LEMMA TypeStep == TypeOK /\ EmitInv /\ [Next]_vars => TypeOK'
<1> SUFFICES ASSUME TypeOK, EmitInv, [Next]_vars PROVE TypeOK'
  OBVIOUS
<1> USE DEF TypeOK
<1>1. ASSUME NEW e \in Events, EmitOk(e) PROVE TypeOK'
  BY <1>1, AppendTyped DEF EmitOk
<1>2. ASSUME NEW e \in Events, EmitFails(e) PROVE TypeOK'
  <2>1. /\ payload' \in [Ids -> Events \cup {Malformed}]
        /\ last' \in 0 .. MaxEntries
        /\ first' \in 1 .. MaxEntries + 1
    BY <1>2, AppendTyped DEF EmitFails
  <2>2. tries[e] \in 0 .. Attempts - 1
    BY <1>2 DEF EmitFails, EmitInv, Attempts
  <2>3. tries' \in [Events -> 0 .. Attempts]
    BY <1>2, <2>2 DEF EmitFails, Attempts
  <2>4. QED
    BY <1>2, <2>1, <2>3 DEF EmitFails
<1>3. CASE AppendMalformed
  BY <1>3, AppendTyped DEF AppendMalformed
<1>4. ASSUME NEW w \in Workers,
             Start(w) \/ Crash(w) \/ ClaimIntervalPasses(w)
      PROVE  TypeOK'
  BY <1>4 DEF Start, Restart, Bootstrap, Connect, Crash, ClaimIntervalPasses,
              Goto, PCs
<1>5. ASSUME NEW w \in Workers, Claim(w) PROVE TypeOK'
  <2>1. pending' \in [Ids -> Workers \cup {None}] /\ idle' \in SUBSET Ids
    BY <1>5, TakeOverTyped DEF Claim
  <2>2. pc' \in [Workers -> PCs] /\ batch' \in [Workers -> SUBSET Ids]
    BY <1>5, ClaimableTyped, ReceiveTyped DEF Claim, NoAnswer, Goto, PCs
  <2>3. QED
    BY <1>5, <2>1, <2>2 DEF Claim
<1>6. ASSUME NEW w \in Workers, ClaimFails(w) PROVE TypeOK'
  <2>1. pending' \in [Ids -> Workers \cup {None}] /\ idle' \in SUBSET Ids
    BY <1>6, TakeOverTyped DEF ClaimFails
  <2>2. QED
    BY <1>6, <2>1 DEF ClaimFails, NoAnswer, Goto, PCs
<1>7. ASSUME NEW w \in Workers, Fetch(w) PROVE TypeOK'
  <2> DEFINE new == Oldest({i \in Ids : delivered < i /\ first <= i /\ i <= last})
  <2>1. new \in SUBSET Ids
    BY OldestSubset
  <2>2. CASE new = {}
    BY <1>7, <2>2 DEF Fetch, Goto, PCs
  <2>3. CASE new # {}
    <3>1. /\ delivered' \in new
          /\ pending' = [i \in Ids |-> IF i \in new THEN w ELSE pending[i]]
          /\ Receive(w, new) \/ (Goto(w, "read") /\ UNCHANGED batch)
      BY <1>7, <2>3 DEF Fetch
    <3> HIDE DEF new
    <3>2. delivered' \in 0 .. MaxEntries
      BY <2>1, <3>1 DEF Ids
    <3>3. pc' \in [Workers -> PCs] /\ batch' \in [Workers -> SUBSET Ids]
      BY <2>1, <3>1, ReceiveTyped DEF Goto, PCs
    <3>4. QED
      BY <1>7, <2>1, <3>1, <3>2, <3>3 DEF Fetch
  <2>4. QED
    BY <2>2, <2>3
<1>8. ASSUME NEW w \in Workers,
             FetchFails(w) \/ Insert(w) \/ InsertFails(w) \/ Ack(w) \/ AckFails(w)
      PROVE  TypeOK'
  <2>1. CASE FetchFails(w)
    BY <2>1 DEF FetchFails, Goto, PCs
  <2>2. CASE Insert(w)
    BY <2>2 DEF Insert, Rows, Goto, PCs, IsEvent
  <2>3. CASE InsertFails(w)
    BY <2>3 DEF InsertFails, Rows, Done, Goto, PCs, IsEvent
  <2>4. CASE Ack(w)
    BY <2>4 DEF Ack, Done, Goto, PCs
  <2>5. CASE AckFails(w)
    BY <2>5 DEF AckFails, Done, Goto, PCs
  <2>6. QED
    BY <1>8, <2>1, <2>2, <2>3, <2>4, <2>5
<1>9. ASSUME NEW i \in Ids, BecomesIdle(i) PROVE TypeOK'
  BY <1>9 DEF BecomesIdle
<1>10. CASE UNCHANGED vars
  BY <1>10 DEF vars
<1>11. QED
  BY <1>1, <1>2, <1>3, <1>4, <1>5, <1>6, <1>7, <1>8, <1>9, <1>10
     DEF Next, Emit, Loop

-----------------------------------------------------------------------------
(* What the steps do to the entries.                                       *)

\* The emitter's steps append nothing, or one entry behind all others.
LEMMA EmitEffect ==
  ASSUME TypeOK, Emit
  PROVE  /\ UNCHANGED <<groupVars, stored, workerVars>>
         /\ \/ UNCHANGED streamVars
            \/ /\ last' = last + 1 /\ first <= first' /\ first' <= last'
               /\ last' \in Ids
               /\ \A i \in Ids : i # last' => payload'[i] = payload[i]
<1>1. ASSUME NEW p, Append(p)
      PROVE  /\ last' = last + 1 /\ first <= first' /\ first' <= last'
             /\ last' \in Ids
             /\ \A i \in Ids : i # last' => payload'[i] = payload[i]
  BY <1>1 DEF Append, TypeOK, Ids
<1>2. QED
  BY <1>1 DEF Emit, EmitOk, EmitFails, AppendMalformed

\* A claim only takes over or drops entries that are pending, and it drops
\* only entries that were trimmed.
LEMMA ClaimEffect ==
  ASSUME TypeOK, NEW w \in Workers, Claim(w) \/ ClaimFails(w)
  PROVE  /\ UNCHANGED <<streamVars, group, delivered, stored>>
         /\ \A i \in Ids : pending[i] = None => pending'[i] = None
         /\ \A i \in Ids :
              pending[i] # None /\ pending'[i] = None => i < first
         /\ \A i \in Taken : pending[i] # None
<1>1. \A i \in Claimable : pending[i] # None
  BY OldestSubset DEF Claimable
<1>2. \A i \in Claimable : i \notin Taken => i < first
  BY ClaimableTyped DEF Taken, TypeOK, Ids
<1>3. TakeOver(w) \/ UNCHANGED pending
  BY DEF Claim, ClaimFails
<1>4. QED
  BY <1>1, <1>2, <1>3, ClaimableTyped DEF Claim, ClaimFails, TakeOver, TypeOK

\* A fetch hands all entries up to the last one it delivers to the worker,
\* except those that were trimmed.
LEMMA FetchEffect ==
  ASSUME TypeOK, GroupInv, NEW w \in Workers, Fetch(w)
  PROVE  /\ UNCHANGED <<streamVars, group, stored>>
         /\ group # -1
         /\ delivered <= delivered' /\ delivered' <= last
         /\ \A i \in Ids :
              \/ pending'[i] = pending[i]
              \/ delivered < i /\ i <= delivered' /\ pending'[i] = w
         /\ \A i \in Ids :
              delivered < i /\ i <= delivered' => pending'[i] = w \/ i < first
         /\ \/ batch' = batch /\ pc' = [pc EXCEPT ![w] = "read"]
            \/ \E S \in SUBSET {i \in Ids : delivered < i /\ i <= delivered'} :
                  Receive(w, S)
<1> DEFINE unread == {i \in Ids : delivered < i /\ first <= i /\ i <= last}
           new == Oldest(unread)
<1>1. /\ UNCHANGED <<streamVars, group, stored>>
      /\ group # -1
  BY DEF Fetch, GroupInv
<1>2. CASE new = {}
  <2>1. UNCHANGED <<delivered, pending, batch>> /\ Goto(w, "read")
    BY <1>2 DEF Fetch
  <2> HIDE DEF new
  <2>2. delivered <= delivered' /\ delivered' <= last
    BY <1>1, <2>1 DEF GroupInv, TypeOK
  <2>3. \A i \in Ids : ~(delivered < i /\ i <= delivered')
    BY <2>1 DEF TypeOK, Ids
  <2>4. QED
    BY <1>1, <2>1, <2>2, <2>3 DEF Goto
<1>3. CASE new # {}
  <2>1. /\ delivered' \in new
        /\ \A i \in new : i <= delivered'
        /\ pending' = [i \in Ids |-> IF i \in new THEN w ELSE pending[i]]
        /\ Receive(w, new) \/ (Goto(w, "read") /\ UNCHANGED batch)
    BY <1>3 DEF Fetch
  <2>2. new \subseteq unread
    BY OldestSubset
  <2>3. ASSUME NEW i \in Ids, delivered < i, i <= delivered', first <= i
        PROVE  i \in new
    <3>1. i \in unread /\ unread \in SUBSET Ids
      BY <2>1, <2>2, <2>3 DEF TypeOK, Ids
    <3> HIDE DEF unread
    <3>2. QED
      BY <2>1, <2>3, <3>1, OldestDownward
  <2> HIDE DEF new
  <2>4. delivered < delivered' /\ delivered' <= last
    BY <2>1, <2>2
  <2>5. new \in SUBSET {i \in Ids : delivered < i /\ i <= delivered'}
    BY <2>1, <2>2
  <2>6. \A i \in Ids : delivered < i /\ i <= delivered' =>
          pending'[i] = w \/ i < first
    BY <2>1, <2>3 DEF TypeOK, Ids
  <2>7. QED
    BY <1>1, <2>1, <2>4, <2>5, <2>6 DEF TypeOK, Goto, Ids
<1>4. QED
  BY <1>2, <1>3

\* The remaining steps of a worker's loop, and time, leave the stream and the
\* group's position alone; only an acknowledgement changes the pending lists.
LEMMA OtherEffect ==
  ASSUME TypeOK, NEW w \in Workers,
         \/ Restart(w) \/ Bootstrap(w) \/ Crash(w) \/ ClaimIntervalPasses(w)
         \/ FetchFails(w) \/ Insert(w) \/ InsertFails(w) \/ AckFails(w)
  PROVE  UNCHANGED <<streamVars, group, delivered, pending>>
  BY DEF Restart, Bootstrap, Crash, ClaimIntervalPasses, FetchFails, Insert,
         InsertFails, AckFails

-----------------------------------------------------------------------------
(* The inductive invariant, conjunct by conjunct.                          *)

\* No step breaks what is known of the group's position and pending lists.
LEMMA GroupStep ==
  TypeOK /\ EmitInv /\ GroupInv /\ [Next]_vars => GroupInv'
<1> SUFFICES ASSUME TypeOK, EmitInv, GroupInv, [Next]_vars PROVE GroupInv'
  OBVIOUS
<1>0. TypeOK'
  BY TypeStep
<1>1. CASE Emit
  <2>1. UNCHANGED <<group, delivered, pending, pc>>
    BY <1>1, EmitEffect
  <2>2. first' \in Int /\ last' \in Int
    BY <1>0 DEF TypeOK
  <2>3. first' <= last' + 1 /\ last <= last'
    <3>1. \/ last' = last /\ first' = first
          \/ last' = last + 1 /\ first' <= last'
      BY <1>1, EmitEffect
    <3>2. last \in Int /\ first \in Int /\ first <= last + 1
      BY DEF TypeOK, GroupInv
    <3>3. CASE last' = last /\ first' = first
      BY <3>2, <3>3
    <3>4. CASE last' = last + 1 /\ first' <= last'
      BY <2>2, <3>2, <3>4
    <3>5. QED
      BY <3>1, <3>3, <3>4
  <2>4. delivered <= last /\ last \in Int /\ delivered \in Int
    BY DEF TypeOK, GroupInv
  <2>5. delivered' <= last'
    BY <2>1, <2>2, <2>3, <2>4
  <2>6. QED
    BY <2>1, <2>3, <2>5 DEF GroupInv
<1>2. ASSUME NEW w \in Workers, Connect(w) PROVE GroupInv'
  BY <1>2 DEF Connect, Goto, GroupInv, TypeOK, Ids
<1>3. ASSUME NEW w \in Workers,
             Restart(w) \/ Bootstrap(w) \/ Crash(w) \/ ClaimIntervalPasses(w)
      PROVE  GroupInv'
  <2>1. UNCHANGED <<streamVars, group, delivered, pending>>
    BY <1>3, OtherEffect
  <2>2. \A v \in Workers :
          pc'[v] \in {pc[v], "down", "bootstrap", "connect"}
    BY <1>3 DEF Restart, Bootstrap, Crash, ClaimIntervalPasses, Goto, TypeOK
  <2>3. QED
    BY <2>1, <2>2 DEF GroupInv
<1>4. ASSUME NEW w \in Workers,
             FetchFails(w) \/ Insert(w) \/ InsertFails(w) \/ AckFails(w)
      PROVE  GroupInv'
  <2>1. UNCHANGED <<streamVars, group, delivered, pending>>
    BY <1>4, OtherEffect
  <2>2. group # -1
    BY <1>4 DEF FetchFails, Insert, InsertFails, AckFails, GroupInv
  <2>3. QED
    BY <2>1, <2>2 DEF GroupInv
<1>5. ASSUME NEW w \in Workers, Claim(w) \/ ClaimFails(w) PROVE GroupInv'
  <2>1. group # -1
    BY <1>5 DEF Claim, ClaimFails, GroupInv
  <2>2. QED
    BY <1>5, <2>1, ClaimEffect DEF GroupInv
<1>6. ASSUME NEW w \in Workers, Fetch(w) PROVE GroupInv'
  <2>1. /\ UNCHANGED <<streamVars, group, stored>>
        /\ group # -1 /\ delivered <= delivered' /\ delivered' <= last
        /\ \A i \in Ids : \/ pending'[i] = pending[i]
                          \/ delivered < i /\ i <= delivered'
    BY <1>6, FetchEffect
  <2>2. delivered' \in Int
    BY <1>0 DEF TypeOK
  <2>3. QED
    BY <2>1, <2>2 DEF GroupInv, TypeOK, Ids
<1>7. ASSUME NEW w \in Workers, Ack(w) PROVE GroupInv'
  BY <1>7 DEF Ack, Done, Goto, GroupInv, TypeOK
<1>8. ASSUME NEW i \in Ids, BecomesIdle(i) PROVE GroupInv'
  BY <1>8 DEF BecomesIdle, GroupInv
<1>9. CASE UNCHANGED vars
  BY <1>9 DEF vars, GroupInv
<1>10. QED
  BY <1>1, <1>2, <1>3, <1>4, <1>5, <1>6, <1>7, <1>8, <1>9
     DEF Next, Start, Loop

\* What a batch needs of its worker: the entries are delivered ones, and once
\* the worker is about to acknowledge them their events are stored.
BatchOK(w) ==
  /\ batch[w] # {} => pc[w] \in {"insert", "ack"}
  /\ \A i \in batch[w] :
       /\ group < i /\ i <= delivered
       /\ pc[w] = "ack" /\ IsEvent(i) => payload[i] \in stored

\* A batch stays in order while its worker does nothing: entries keep their
\* payload, the group's position only advances, nothing stored is taken back.
LEMMA BatchKept ==
  ASSUME TypeOK, GroupInv, BatchInv, NEW w \in Workers,
         batch'[w] = batch[w], pc'[w] = pc[w], group' = group,
         delivered <= delivered', delivered' \in Int, stored \subseteq stored',
         \A i \in Ids : i <= last => payload'[i] = payload[i]
  PROVE  BatchOK(w)'
<1>1. \A i \in batch[w] : i \in Ids /\ group < i /\ i <= delivered /\ i <= last
  BY DEF BatchInv, GroupInv, TypeOK, Ids
<1>2. \A i \in batch[w] : payload'[i] = payload[i] /\ i <= delivered'
  BY <1>1 DEF TypeOK, Ids
<1>3. QED
  BY <1>1, <1>2 DEF BatchOK, BatchInv, IsEvent

\* A worker that reads is given entries that the group has delivered.
LEMMA BatchReceived ==
  ASSUME TypeOK, NEW w \in Workers, NEW S, Receive(w, S), S # {},
         S \subseteq {i \in Ids : group' < i /\ i <= delivered'},
         payload' = payload
  PROVE  BatchOK(w)'
<1>1. batch'[w] = S /\ pc'[w] = (IF \E i \in S : IsEvent(i) THEN "insert" ELSE "ack")
  BY DEF Receive, Goto, TypeOK
<1>2. pc'[w] = "ack" => \A i \in S : ~IsEvent(i)'
  BY <1>1 DEF IsEvent
<1>3. QED
  BY <1>1, <1>2 DEF BatchOK

\* A worker without a batch is in order.
LEMMA BatchEmpty ==
  ASSUME NEW w \in Workers, batch'[w] = {} PROVE BatchOK(w)'
  BY DEF BatchOK

\* No step puts a batch out of order.
LEMMA BatchStep ==
  TypeOK /\ EmitInv /\ GroupInv /\ BatchInv /\ [Next]_vars => BatchInv'
<1> SUFFICES ASSUME TypeOK, EmitInv, GroupInv, BatchInv, [Next]_vars,
                    NEW v \in Workers
             PROVE  BatchOK(v)'
  BY DEF BatchInv, BatchOK
<1>0. /\ TypeOK' /\ BatchOK(v)
      /\ delivered' \in Int /\ delivered \in Int
      /\ delivered <= delivered
  BY TypeStep DEF TypeOK, BatchInv, BatchOK
<1>1. CASE Emit
  <2>1. UNCHANGED <<group, delivered, stored, pc, batch>>
    BY <1>1, EmitEffect
  <2>2. \A i \in Ids : i <= last => payload'[i] = payload[i]
    BY <1>1, EmitEffect DEF TypeOK, Ids
  <2>3. QED
    BY <1>0, <2>1, <2>2, BatchKept
<1>2. ASSUME NEW w \in Workers, Connect(w) PROVE BatchOK(v)'
  <2>1. batch' = batch /\ pc[w] = "connect" /\ UNCHANGED <<payload, stored>>
    BY <1>2 DEF Connect
  <2>2. CASE group = -1
    BY <1>0, <2>1, <2>2, BatchEmpty DEF BatchOK, GroupInv
  <2>3. CASE group # -1
    BY <1>0, <1>2, <2>1, <2>3, BatchKept, BatchEmpty
       DEF Connect, Goto, BatchOK, TypeOK
  <2>4. QED
    BY <2>2, <2>3
<1>3. ASSUME NEW w \in Workers,
             \/ Restart(w) \/ Bootstrap(w) \/ Crash(w) \/ ClaimIntervalPasses(w)
             \/ FetchFails(w) \/ InsertFails(w) \/ AckFails(w)
      PROVE  BatchOK(v)'
  <2>1. UNCHANGED <<streamVars, group, delivered, pending>>
    BY <1>3, OtherEffect
  <2>2. stored \subseteq stored'
    BY <1>3 DEF Restart, Bootstrap, Crash, ClaimIntervalPasses, FetchFails,
                InsertFails, AckFails
  <2>3. batch'[v] = {} \/ (batch'[v] = batch[v] /\ pc'[v] = pc[v])
    <3>1. CASE Restart(w) \/ Bootstrap(w) \/ FetchFails(w)
      <4>1. batch' = batch /\ pc[w] \in {"down", "bootstrap", "fetch"}
        BY <3>1 DEF Restart, Bootstrap, FetchFails
      <4>2. v = w => batch[v] = {}
        BY <1>0, <4>1 DEF BatchOK
      <4>3. v # w => pc'[v] = pc[v]
        BY <3>1 DEF Restart, Bootstrap, FetchFails, Goto, TypeOK
      <4>4. QED
        BY <4>1, <4>2, <4>3
    <3>2. CASE Crash(w) \/ InsertFails(w) \/ AckFails(w)
      BY <3>2 DEF Crash, InsertFails, AckFails, Done, Goto, TypeOK
    <3>3. CASE ClaimIntervalPasses(w)
      BY <3>3 DEF ClaimIntervalPasses
    <3>4. QED
      BY <1>3, <3>1, <3>2, <3>3
  <2>4. QED
    BY <1>0, <2>1, <2>2, <2>3, BatchKept, BatchEmpty
<1>4. ASSUME NEW w \in Workers, Insert(w) PROVE BatchOK(v)'
  <2>1. /\ UNCHANGED <<streamVars, group, delivered, batch>>
        /\ stored \subseteq stored'
    BY <1>4 DEF Insert
  <2>2. CASE v = w
    <3>1. \A i \in batch[v] : IsEvent(i) => payload[i] \in stored'
      BY <1>4, <2>2 DEF Insert, Rows
    <3>2. pc'[v] = "ack"
      BY <1>4, <2>2 DEF Insert, Goto, TypeOK
    <3>3. QED
      BY <1>0, <2>1, <3>1, <3>2 DEF BatchOK, IsEvent
  <2>3. CASE v # w
    <3>1. pc'[v] = pc[v] /\ batch'[v] = batch[v]
      BY <1>4, <2>3 DEF Insert, Goto, TypeOK
    <3>2. QED
      BY <1>0, <2>1, <3>1, BatchKept
  <2>4. QED
    BY <2>2, <2>3
<1>5. ASSUME NEW w \in Workers, Claim(w) \/ ClaimFails(w) PROVE BatchOK(v)'
  <2>1. /\ UNCHANGED <<streamVars, group, delivered, stored>>
        /\ \A i \in Taken : pending[i] # None
    BY <1>5, ClaimEffect
  <2>2. CASE v = w /\ Taken # {} /\ Claim(w)
    <3>1. Receive(v, Taken)
      BY <2>2 DEF Claim
    <3>2. Taken \subseteq {i \in Ids : group' < i /\ i <= delivered'}
      BY <2>1, ClaimableTyped DEF GroupInv
    <3> HIDE DEF Taken
    <3>3. QED
      BY <2>1, <2>2, <3>1, <3>2, BatchReceived
  <2>3. CASE ~(v = w /\ Taken # {} /\ Claim(w))
    <3>1. pc[w] = "read"
      BY <1>5 DEF Claim, ClaimFails
    <3>2. CASE v = w
      <4>1. batch'[v] = batch[v]
        BY <1>5, <2>3, <3>2 DEF Claim, ClaimFails, NoAnswer
      <4>2. QED
        BY <1>0, <3>1, <3>2, <4>1, BatchEmpty DEF BatchOK
    <3>3. CASE v # w
      <4>1. batch'[v] = batch[v] /\ pc'[v] = pc[v]
        BY <1>5, <3>3 DEF Claim, ClaimFails, NoAnswer, Receive, Goto, TypeOK
      <4>2. QED
        BY <1>0, <2>1, <4>1, BatchKept
    <3>4. QED
      BY <3>2, <3>3
  <2>4. QED
    BY <2>2, <2>3
<1>6. ASSUME NEW w \in Workers, Fetch(w) PROVE BatchOK(v)'
  <2>1. /\ UNCHANGED <<streamVars, group, stored>>
        /\ group # -1 /\ delivered <= delivered'
        /\ \/ batch' = batch /\ pc' = [pc EXCEPT ![w] = "read"]
           \/ \E S \in SUBSET {i \in Ids : delivered < i /\ i <= delivered'} :
                 Receive(w, S)
    BY <1>6, FetchEffect
  <2>2. pc[w] \in {"fetch", "read"}
    BY <1>6 DEF Fetch
  <2>3. CASE v # w
    <3>1. batch'[v] = batch[v] /\ pc'[v] = pc[v]
      BY <2>1, <2>3 DEF Receive, Goto, TypeOK
    <3>2. QED
      BY <1>0, <2>1, <3>1, BatchKept
  <2>4. CASE v = w /\ batch' = batch
    BY <1>0, <2>2, <2>4, BatchEmpty DEF BatchOK
  <2>5. ASSUME v = w,
               NEW S \in SUBSET {i \in Ids : delivered < i /\ i <= delivered'},
               Receive(w, S)
        PROVE  BatchOK(v)'
    <3>1. CASE S = {}
      BY <2>5, <3>1, BatchEmpty DEF Receive, TypeOK
    <3>2. CASE S # {}
      <4>1. group \in Int /\ group <= delivered
        BY <2>1 DEF GroupInv, TypeOK
      <4>2. S \subseteq {i \in Ids : group' < i /\ i <= delivered'}
        BY <1>0, <2>1, <2>5, <4>1 DEF Ids
      <4>3. QED
        BY <2>1, <2>5, <3>2, <4>2, BatchReceived
    <3>3. QED
      BY <3>1, <3>2
  <2>6. QED
    BY <2>1, <2>3, <2>4, <2>5
<1>7. ASSUME NEW w \in Workers, Ack(w) PROVE BatchOK(v)'
  <2>1. /\ UNCHANGED <<streamVars, group, delivered, stored>>
        /\ batch'[v] = {} \/ (batch'[v] = batch[v] /\ pc'[v] = pc[v])
    BY <1>7 DEF Ack, Done, Goto, TypeOK
  <2>2. QED
    BY <1>0, <2>1, BatchKept, BatchEmpty
<1>8. ASSUME NEW i \in Ids, BecomesIdle(i) PROVE BatchOK(v)'
  BY <1>0, <1>8, BatchKept DEF BecomesIdle
<1>9. CASE UNCHANGED vars
  BY <1>0, <1>9, BatchKept DEF vars
<1>10. QED
  BY <1>1, <1>2, <1>3, <1>4, <1>5, <1>6, <1>7, <1>8, <1>9
     DEF Next, Start, Loop

-----------------------------------------------------------------------------
(* The pipeline implements AtLeastOnce.                                    *)

\* An emitter's step publishes: entries appear behind those delivered, others
\* may be trimmed, and nothing is settled by it.
LEMMA EmitPublishes == TypeOK /\ EmitInv /\ GroupInv /\ Emit => Delivery!Publish
<1> SUFFICES ASSUME TypeOK, EmitInv, GroupInv, Emit PROVE Delivery!Publish
  OBVIOUS
<1>1. UNCHANGED <<groupVars, stored>>
  BY EmitEffect
<1>2. CASE UNCHANGED streamVars
  BY <1>1, <1>2
     DEF Delivery!Publish, Accepted, Excused, Durable, Settled, IsEvent
<1>3. CASE /\ last' = last + 1 /\ first <= first' /\ first' <= last'
           /\ last' \in Ids
           /\ \A i \in Ids : i # last' => payload'[i] = payload[i]
  <2>1. /\ last \in Int /\ first \in Int /\ first' \in Int /\ delivered \in Int
        /\ first <= last + 1 /\ Ids \subseteq Int /\ last' = last + 1
    <3>1. TypeOK'
      BY TypeStep DEF Next
    <3>2. QED
      BY <1>3, <3>1 DEF TypeOK, GroupInv, Ids
  <2>2. \A i \in Ids : i <= last => i <= last' /\ payload'[i] = payload[i]
    BY <1>3, <2>1
  <2>3. \A i \in Ids : i < first => i < first'
    BY <1>3, <2>1
  <2>4. Accepted \subseteq Accepted'
    BY <1>1, <2>2 DEF Accepted
  <2>5. Excused \subseteq Excused'
    BY <2>2, <2>3 DEF Excused, IsEvent
  <2>6. Durable \subseteq Durable'
    <3>1. \A i \in 1 .. last : i \in 1 .. last' /\ i \in Ids
      BY <1>3, <2>1 DEF Ids
    <3>2. QED
      BY <1>1, <2>1, <2>2, <3>1 DEF Durable, IsEvent
  <2>7. Settled' = Settled
    <3>1. CASE group = -1
      BY <1>1, <3>1 DEF Settled, Accepted
    <3>2. CASE group # -1
      <4>1. \A i \in Ids : i <= delivered => i <= last /\ i <= last'
        BY <2>1, <3>2 DEF GroupInv
      <4>2. QED
        BY <1>1, <3>2, <4>1 DEF Settled, Accepted
    <3>3. QED
      BY <3>1, <3>2
  <2>8. QED
    BY <2>4, <2>5, <2>6, <2>7 DEF Delivery!Publish
<1>4. QED
  BY <1>2, <1>3, EmitEffect

\* A step that leaves the stream and the store alone settles what it takes from
\* the pending lists, provided that is stored or excused.
LEMMA Settles ==
  ASSUME UNCHANGED <<streamVars, group, stored>>,
         \A i \in Accepted :
            i <= delivered /\ pending[i] = None =>
              i <= delivered' /\ pending'[i] = None,
         \A i \in Accepted :
            /\ i <= delivered' /\ pending'[i] = None
            /\ ~(i <= delivered /\ pending[i] = None)
            => i \in Durable \cup Excused
  PROVE  Delivery!Settle
<1>1. Accepted' = Accepted /\ Excused' = Excused /\ Durable' = Durable
  BY DEF Accepted, Excused, Durable, IsEvent
<1>2. Settled \subseteq Settled'
  BY <1>1 DEF Settled
<1>3. Settled' \ Settled \subseteq Accepted \cap (Durable \cup Excused)
  BY <1>1 DEF Settled
<1>4. QED
  BY <1>1, <1>2, <1>3 DEF Delivery!Settle

\* Every step of the pipeline publishes, persists, settles or does nothing.
LEMMA RefinementStep ==
  TypeOK /\ EmitInv /\ GroupInv /\ BatchInv /\ [Next]_vars
    => [Delivery!Next]_(Delivery!avars)
<1> SUFFICES ASSUME TypeOK, EmitInv, GroupInv, BatchInv, [Next]_vars
             PROVE  Delivery!Next \/ UNCHANGED Delivery!avars
  OBVIOUS
<1>0. /\ TypeOK' /\ delivered \in Int /\ delivered' \in Int /\ last \in Int
      /\ first \in Int /\ Ids \subseteq Int
  BY TypeStep DEF TypeOK, Ids
<1>1. CASE Emit
  BY <1>1, EmitPublishes DEF Delivery!Next
<1>2. ASSUME NEW w \in Workers, Connect(w) PROVE UNCHANGED Delivery!avars
  <2>1. UNCHANGED <<streamVars, stored, pending>>
    BY <1>2 DEF Connect
  <2>2. Excused' = Excused /\ Durable' = Durable
    BY <2>1 DEF Excused, Durable, IsEvent
  <2>3. Accepted' = Accepted /\ Settled' = Settled
    <3>1. CASE group = -1
      <4>1. group' = last
        BY <1>2, <3>1 DEF Connect
      <4>2. \A i \in Ids : ~(group' < i /\ i <= last')
        BY <1>0, <2>1, <4>1
      <4>3. Accepted = {} /\ Accepted' = {}
        BY <3>1, <4>2 DEF Accepted
      <4>4. QED
        BY <4>3 DEF Settled
    <3>2. CASE group # -1
      BY <1>2, <2>1, <3>2 DEF Connect, Accepted, Settled
    <3>3. QED
      BY <3>1, <3>2
  <2>4. QED
    BY <2>2, <2>3 DEF Delivery!avars
<1>3. ASSUME UNCHANGED <<streamVars, group, delivered, pending, stored>>
      PROVE  UNCHANGED Delivery!avars
  BY <1>3 DEF Delivery!avars, Accepted, Excused, Durable, Settled, IsEvent
<1>4. ASSUME NEW w \in Workers,
             \/ Restart(w) \/ Bootstrap(w) \/ Crash(w) \/ ClaimIntervalPasses(w)
             \/ FetchFails(w) \/ AckFails(w)
      PROVE  UNCHANGED Delivery!avars
  <2>1. UNCHANGED <<streamVars, group, delivered, pending, stored>>
    BY <1>4 DEF Restart, Bootstrap, Crash, ClaimIntervalPasses, FetchFails,
                AckFails
  <2>2. QED
    BY <1>3, <2>1
<1>5. ASSUME NEW w \in Workers, Insert(w) \/ InsertFails(w)
      PROVE  Delivery!Persist
  <2>1. UNCHANGED <<streamVars, group, delivered, pending>> /\ stored \subseteq stored'
    BY <1>5 DEF Insert, InsertFails
  <2>2. QED
    BY <2>1 DEF Delivery!Persist, Accepted, Excused, Durable, Settled, IsEvent
<1>6. ASSUME NEW w \in Workers, Claim(w) \/ ClaimFails(w)
      PROVE  Delivery!Settle
  <2>1. /\ UNCHANGED <<streamVars, group, delivered, stored>>
        /\ \A i \in Ids : pending[i] = None => pending'[i] = None
        /\ \A i \in Ids :
             pending[i] # None /\ pending'[i] = None => i \in Excused
    BY <1>6, ClaimEffect DEF Excused
  <2>2. Accepted \subseteq Ids
    BY DEF Accepted
  <2>3. QED
    BY <2>1, <2>2, Settles
<1>7. ASSUME NEW w \in Workers, Fetch(w) PROVE Delivery!Settle
  <2>1. /\ UNCHANGED <<streamVars, group, stored>>
        /\ delivered <= delivered'
        /\ \A i \in Ids :
             \/ pending'[i] = pending[i]
             \/ delivered < i /\ i <= delivered' /\ pending'[i] = w
        /\ \A i \in Ids :
             delivered < i /\ i <= delivered' => pending'[i] = w \/ i < first
    BY <1>7, FetchEffect
  <2>2. Accepted \subseteq Ids /\ w # None
    BY DEF Accepted
  <2>3. \A i \in Ids : i <= delivered =>
          i <= delivered' /\ pending'[i] = pending[i]
    BY <1>0, <2>1
  <2>4. \A i \in Ids :
          i <= delivered' /\ pending'[i] = None /\ ~(i <= delivered)
            => i \in Excused
    BY <1>0, <2>1, <2>2 DEF Excused
  <2>5. QED
    BY <2>1, <2>2, <2>3, <2>4, Settles
<1>8. ASSUME NEW w \in Workers, Ack(w) PROVE Delivery!Settle
  <2>1. /\ UNCHANGED <<streamVars, group, delivered, stored>>
        /\ \A i \in Ids : pending'[i] = IF i \in batch[w] THEN None ELSE pending[i]
    BY <1>8 DEF Ack
  <2>2. ASSUME NEW i \in batch[w], i \in Accepted
        PROVE  i \in Durable \cup Excused
    <3>1. i \in 1 .. last /\ i <= last /\ i \in Ids
      BY <1>0, <2>2 DEF Accepted, Ids
    <3>2. IsEvent(i) => payload[i] \in stored
      BY <1>8 DEF Ack, BatchInv
    <3>3. QED
      BY <3>1, <3>2 DEF Durable, Excused
  <2>3. Accepted \subseteq Ids
    BY DEF Accepted
  <2>4. QED
    BY <2>1, <2>2, <2>3, Settles
<1>9. ASSUME NEW i \in Ids, BecomesIdle(i) PROVE UNCHANGED Delivery!avars
  BY <1>3, <1>9 DEF BecomesIdle
<1>10. CASE UNCHANGED vars
  BY <1>3, <1>10 DEF vars
<1>11. QED
  BY <1>1, <1>2, <1>4, <1>5, <1>6, <1>7, <1>8, <1>9, <1>10
     DEF Next, Start, Loop, Delivery!Next

-----------------------------------------------------------------------------
(* The invariant and the theorems.                                         *)

\* What is settled stays stored or excused: a refinement step only settles what
\* is, and takes nothing back.
LEMMA SettledStep ==
  TypeOK /\ EmitInv /\ GroupInv /\ BatchInv /\ SettledIsStored /\ [Next]_vars
    => SettledIsStored'
<1> SUFFICES ASSUME TypeOK, EmitInv, GroupInv, BatchInv, SettledIsStored,
                    [Next]_vars
             PROVE  SettledIsStored'
  OBVIOUS
<1>1. Delivery!Next \/ UNCHANGED Delivery!avars
  BY RefinementStep
<1>2. CASE Delivery!Publish
  BY <1>2 DEF Delivery!Publish, SettledIsStored
<1>3. CASE Delivery!Persist
  BY <1>3 DEF Delivery!Persist, SettledIsStored
<1>4. CASE Delivery!Settle
  BY <1>4 DEF Delivery!Settle, SettledIsStored
<1>5. CASE UNCHANGED Delivery!avars
  BY <1>5 DEF Delivery!avars, SettledIsStored
<1>6. QED
  BY <1>1, <1>2, <1>3, <1>4, <1>5 DEF Delivery!Next

\* An emit call returns once it has appended its event or failed for the third
\* time, and neither is undone.
LEMMA EmitStep ==
  TypeOK /\ EmitInv /\ EmittedOrExhausted /\ [Next]_vars
    => EmitInv' /\ EmittedOrExhausted'
<1> SUFFICES ASSUME TypeOK, EmitInv, EmittedOrExhausted, [Next]_vars
             PROVE  EmitInv' /\ EmittedOrExhausted'
  OBVIOUS
<1>1. CASE Emit
  <2>1. \A i \in 1 .. last : i \in 1 .. last' /\ payload'[i] = payload[i]
    BY <1>1, EmitEffect DEF TypeOK, Ids
  <2>2. ASSUME NEW e \in Events, EmitOk(e)
        PROVE  EmitInv' /\ EmittedOrExhausted'
    <3>1. last' \in 1 .. last' /\ payload'[last'] = e
      BY <2>2 DEF EmitOk, Append, TypeOK, Ids
    <3>2. tries' = tries /\ emitted' = emitted \cup {e}
      BY <2>2 DEF EmitOk
    <3>3. EmittedOrExhausted'
      BY <2>1, <3>1, <3>2 DEF EmittedOrExhausted
    <3>4. QED
      BY <3>2, <3>3 DEF EmitInv
  <2>3. ASSUME NEW e \in Events, EmitFails(e)
        PROVE  EmitInv' /\ EmittedOrExhausted'
    <3>1. /\ e \notin emitted
          /\ tries' = [tries EXCEPT ![e] = @ + 1]
          /\ emitted' = IF tries'[e] = Attempts THEN emitted \cup {e} ELSE emitted
      BY <2>3 DEF EmitFails
    <3>2. EmitInv'
      BY <3>1 DEF EmitInv, TypeOK
    <3>3. \A f \in emitted' :
            tries'[f] >= 3 \/ (f \in emitted /\ tries'[f] = tries[f])
      BY <3>1 DEF TypeOK, Attempts
    <3>4. EmittedOrExhausted'
      BY <2>1, <3>3 DEF EmittedOrExhausted
    <3>5. QED
      BY <3>2, <3>4
  <2>4. CASE AppendMalformed
    BY <2>1, <2>4 DEF AppendMalformed, EmitInv, EmittedOrExhausted
  <2>5. QED
    BY <1>1, <2>2, <2>3, <2>4 DEF Emit
<1>2. CASE UNCHANGED <<emitVars, payload, last>>
  BY <1>2 DEF EmitInv, EmittedOrExhausted
<1>3. ASSUME NEW w \in Workers,
             Start(w) \/ Loop(w) \/ Crash(w) \/ ClaimIntervalPasses(w)
      PROVE  UNCHANGED <<emitVars, payload, last>>
  BY <1>3 DEF Start, Restart, Bootstrap, Connect, Crash, ClaimIntervalPasses,
              Loop, Claim, ClaimFails, Fetch, FetchFails, Insert, InsertFails,
              Ack, AckFails
<1>4. ASSUME NEW i \in Ids, BecomesIdle(i)
      PROVE  UNCHANGED <<emitVars, payload, last>>
  BY <1>4 DEF BecomesIdle
<1>5. CASE UNCHANGED vars
  BY <1>2, <1>5 DEF vars
<1>6. QED
  BY <1>1, <1>2, <1>3, <1>4, <1>5 DEF Next

\* The invariant holds before anything happens.
LEMMA InitInv == Init => PipelineInv
<1> SUFFICES ASSUME Init PROVE PipelineInv
  OBVIOUS
<1>1. TypeOK
  BY DEF Init, TypeOK, PCs, Attempts, Ids
<1>2. EmitInv /\ EmittedOrExhausted
  BY DEF Init, EmitInv, EmittedOrExhausted, Attempts
<1>3. GroupInv /\ BatchInv
  BY DEF Init, GroupInv, BatchInv
<1>4. SettledIsStored
  BY DEF Init, SettledIsStored, Settled, Accepted
<1>5. QED
  BY <1>1, <1>2, <1>3, <1>4 DEF PipelineInv

\* However workers claim from each other, crash and time out, the invariant
\* holds, for any number of workers and any batch size.
THEOREM Invariant == Spec => []PipelineInv
<1>1. PipelineInv /\ [Next]_vars => PipelineInv'
  BY TypeStep, EmitStep, GroupStep, BatchStep, SettledStep DEF PipelineInv
<1>2. QED
  BY InitInv, <1>1, PTL DEF Spec

\* The program's variables stay in their domains.
THEOREM TypeCorrect == Spec => []TypeOK
<1>1. PipelineInv => TypeOK
  BY DEF PipelineInv
<1>2. QED
  BY <1>1, Invariant, PTL

\* An entry that left the pending list is in ClickHouse, was trimmed first, or
\* carries no event.
THEOREM SettledIsStoredHolds == Spec => []SettledIsStored
<1>1. PipelineInv => SettledIsStored
  BY DEF PipelineInv
<1>2. QED
  BY <1>1, Invariant, PTL

\* An emit call that returned has appended its event or given up after three
\* failures.
THEOREM EmittedOrExhaustedHolds == Spec => []EmittedOrExhausted
<1>1. PipelineInv => EmittedOrExhausted
  BY DEF PipelineInv
<1>2. QED
  BY <1>1, Invariant, PTL

\* The pipeline implements at-least-once delivery.
THEOREM ImplementsDelivery == Spec => DeliverySpec
<1>1. Init => Delivery!Init
  BY DEF Init, Delivery!Init, Accepted, Excused, Durable, Settled, IsEvent, Ids
<1>2. PipelineInv /\ [Next]_vars => [Delivery!Next]_(Delivery!avars)
  BY RefinementStep DEF PipelineInv
<1>3. QED
  BY <1>1, <1>2, Invariant, PTL DEF Spec, DeliverySpec, Delivery!Spec

=============================================================================
