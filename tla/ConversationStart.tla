------------------------- MODULE ConversationStart -------------------------
(***************************************************************************)
(* Starting the conversation of one client with one provider               *)
(* (services/chat.py start_or_get_conversation and its route): select,     *)
(* insert when there is none, answer, commit.  The unique index on client  *)
(* and provider makes the second insert wait for the first transaction.    *)
(***************************************************************************)
CONSTANTS
  Starts,   \* requests of the client, known by the id each would insert
  NoId      \* no conversation

ASSUME NoIdAssumption == NoId \notin Starts

VARIABLES
  convs,   \* ids of the committed conversations of the pair
  start    \* [Starts -> step of the request and the id it has]

startVars == <<convs, start>>

NoStart == [pc |-> "idle", id |-> NoId]

StartTypeOK ==
  /\ convs \subseteq Starts
  /\ start \in [Starts -> [pc : {"idle", "found", "missing", "inserted", "answered",
                                 "stored", "served", "conflict", "lost"},
                           id : Starts \cup {NoId}]]

StartInit == convs = {} /\ start = [s \in Starts |-> NoStart]

-----------------------------------------------------------------------------
Steps(s, pc, id) == start' = [start EXCEPT ![s] = [pc |-> pc, id |-> id]]

Find(s) ==
  /\ start[s].pc = "idle"
  /\ IF convs = {} THEN Steps(s, "missing", NoId)
     ELSE \E c \in convs : Steps(s, "found", c)
  /\ UNCHANGED convs

InFlight(s) == start[s].pc \in {"inserted", "answered"}

\* Variant: the table without uq_conversations_user_provider.
NoIndex == [waits |-> FALSE, taken |-> FALSE]

UniqueIndex ==
  [waits |-> \E s \in Starts : InFlight(s), taken |-> convs # {}]

\* The index refuses a second row, with an IntegrityError that nobody handles.
InsertConversation(s) ==
  /\ start[s].pc = "missing"
  /\ ~UniqueIndex.waits
  /\ IF UniqueIndex.taken THEN Steps(s, "conflict", NoId) ELSE Steps(s, "inserted", s)
  /\ UNCHANGED convs

\* The answer leaves before the session's commit.
AnswerStart(s) ==
  /\ start[s].pc \in {"found", "inserted"}
  /\ Steps(s, IF start[s].pc = "found" THEN "served" ELSE "answered", start[s].id)
  /\ UNCHANGED convs

CommitStart(s) ==
  /\ start[s].pc = "answered"
  /\ Steps(s, "stored", s)
  /\ convs' = convs \cup {s}

\* The request or its commit fails: the row is rolled back.
StartFails(s) ==
  /\ start[s].pc \in {"missing", "inserted", "answered"}
  /\ Steps(s, "lost", start[s].id)
  /\ UNCHANGED convs

StartNext ==
  \E s \in Starts :
    \/ Find(s) \/ InsertConversation(s) \/ AnswerStart(s) \/ CommitStart(s)
    \/ StartFails(s)

StartSpec == StartInit /\ [][StartNext]_startVars

-----------------------------------------------------------------------------
\* chat.py:98-122: however many requests find no conversation at once, the pair
\* gets one: two answers that name different conversations are of requests of
\* which one was rolled back after it answered, and a request that is refused by
\* the index finds the conversation when it is made again.
OneConversation ==
  /\ \A s, t \in Starts :
       start[s].pc \in {"answered", "stored", "served"}
         /\ start[t].pc \in {"answered", "stored", "served"} =>
       start[s].id = start[t].id
  /\ \A s \in Starts : start[s].pc \in {"conflict", "found", "served"} => convs # {}

\* One insert is in flight, and only while nothing is stored.
StartInv ==
  /\ StartTypeOK
  /\ OneConversation
  /\ \A s, t \in Starts : InFlight(s) /\ InFlight(t) => s = t
  /\ \A s \in Starts : InFlight(s) => convs = {} /\ start[s].id = s
  /\ \A s \in Starts : start[s].pc \in {"found", "served"} => start[s].id \in convs
  /\ \A s \in Starts : start[s].pc = "stored" => start[s].id \in convs
  /\ \A c, d \in convs : c = d

=============================================================================
