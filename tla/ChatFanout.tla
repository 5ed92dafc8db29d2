----------------------------- MODULE ChatFanout -----------------------------
(***************************************************************************)
(* The messages of one conversation, from the API through Redis and the    *)
(* gateway to the open pages (services/chat.py, gateway/handler.go,        *)
(* pubsub/redis.go, useChatSocket.ts, ChatPageClient.tsx).                 *)
(*                                                                         *)
(* A send opens a transaction, inserts the message, locks and updates the  *)
(* conversation's row, publishes, answers and commits, in that order.  A   *)
(* page loads the history once and listens on a socket that may be lost    *)
(* and is opened again; it merges pushes and its own answers.              *)
(***************************************************************************)
EXTENDS Naturals, Sequences, FiniteSets

CONSTANTS
  Messages,      \* sends, known by the id of the message
  Pages,         \* openings of the conversation's page
  SentFrom,      \* [Messages -> the page it is sent from, Nobody for a closed one]
  SenderOf,      \* [Messages -> Users]
  UserOf,        \* [Pages -> Users]
  Users,
  Client,        \* the user who started the conversation
  Admins,        \* users with the admin role
  Claimants,     \* users who may come to own the provider
  HistoryLimit,  \* messages a page loads, 200 in the code
  Nobody,        \* no owner; no message holds the row
  MaxLosses      \* bound: sockets, or pushes behind an open one, lost by a page

ASSUME ChatAssumption ==
  /\ SentFrom \in [Messages -> Pages \cup {Nobody}]
  /\ SenderOf \in [Messages -> Users]
  /\ \A m \in Messages : SentFrom[m] \in Pages => UserOf[SentFrom[m]] = SenderOf[m]
  /\ UserOf \in [Pages -> Users]
  /\ Client \in Users /\ Admins \subseteq Users /\ Claimants \subseteq Users
  /\ Nobody \notin Users \cup Messages \cup Pages
  /\ IsFiniteSet(Messages)
  /\ HistoryLimit \in Nat \ {0} /\ MaxLosses \in Nat

VARIABLES
  owner,     \* who has claimed the provider
  clock,     \* transactions begun
  send,      \* [Messages -> [pc, at]]: step, and the start of its transaction
  replies,   \* answers on their way to the sending page
  rowLock,   \* the message whose transaction has updated the conversation's row
  lastAt,    \* last_message_at, 0 when it is NULL
  page,      \* [Pages -> [pc, items, history]]
  socket,    \* [Pages -> state of the page's socket]
  net,       \* [Pages -> pushes between Redis and the page]
  losses,    \* [Pages -> sockets, and pushes behind an open one, lost]
  missed,    \* [Pages -> messages whose push did not reach the page]: history
  during     \* [Messages -> sends under way when it was committed]: history

apiVars == <<owner, clock, send, rowLock, lastAt, during>>
pageVars == <<page, socket, net, losses, missed>>
chatVars == <<apiVars, replies, pageVars>>

SendSteps == {"new", "open", "inserted", "bumped", "published", "answered",
              "stored", "failed", "lost"}
SocketStates == {"idle", "token", "accepted", "subscribed", "closed", "error"}

ChatTypeOK ==
  /\ owner \in Claimants \cup {Nobody}
  /\ clock \in Nat
  /\ send \in [Messages -> [pc : SendSteps, at : Nat]]
  /\ replies \subseteq Messages
  /\ rowLock \in Messages \cup {Nobody}
  /\ lastAt \in Nat
  /\ page \in [Pages -> [pc : {"loading", "read", "ready", "error"},
                         items : Seq(Messages), history : Seq(Messages)]]
  /\ socket \in [Pages -> SocketStates]
  /\ net \in [Pages -> Seq(Messages)]
  /\ losses \in [Pages -> 0 .. MaxLosses]
  /\ missed \in [Pages -> SUBSET Messages]
  /\ during \in [Messages -> SUBSET Messages]

ChatInit ==
  /\ owner \in Claimants \cup {Nobody}
  /\ clock = 0
  /\ send = [m \in Messages |-> [pc |-> "new", at |-> 0]]
  /\ replies = {}
  /\ rowLock = Nobody
  /\ lastAt = 0
  /\ page = [p \in Pages |-> [pc |-> "loading", items |-> <<>>, history |-> <<>>]]
  /\ socket = [p \in Pages |-> "idle"]
  /\ net = [p \in Pages |-> <<>>]
  /\ losses = [p \in Pages |-> 0]
  /\ missed = [p \in Pages |-> {}]
  /\ during = [m \in Messages |-> {}]

-----------------------------------------------------------------------------
Shown(s) == {s[i] : i \in DOMAIN s}

CanAccess(u) == u \in Admins \cup {Client, owner}

Stored == {m \in Messages : send[m].pc = "stored"}
UnderWay == {m \in Messages :
              send[m].pc \in {"open", "inserted", "bumped", "published", "answered"}}

Reaches(m, pc) == send' = [send EXCEPT ![m].pc = pc]

\* The claim flow or an operator sets the provider's owner.
Claimed(u) ==
  /\ owner # u
  /\ owner' = u
  /\ UNCHANGED <<clock, send, rowLock, lastAt, during, replies, pageVars>>

-----------------------------------------------------------------------------
(* Sending (send_message_endpoint).                                        *)

\* The form is disabled until the page has the answer to its last send.
Sending(p) ==
  \E m \in Messages :
    /\ SentFrom[m] = p /\ p # Nobody
    /\ m \in replies \/ send[m].pc \in {"open", "inserted", "bumped", "published"}

\* The session's first statement, which authenticates the sender, begins the
\* transaction: created_at will be its time.
OpenSend(m) ==
  /\ send[m].pc = "new"
  /\ ~Sending(SentFrom[m])
  /\ clock' = clock + 1
  /\ send' = [send EXCEPT ![m] = [pc |-> "open", at |-> clock + 1]]
  /\ UNCHANGED <<owner, rowLock, lastAt, during, replies, pageVars>>

InsertMessage(m) ==
  /\ send[m].pc = "open"
  /\ Reaches(m, IF CanAccess(SenderOf[m]) THEN "inserted" ELSE "failed")
  /\ UNCHANGED <<owner, clock, rowLock, lastAt, during, replies, pageVars>>

\* UPDATE conversations waits for another send's transaction to end.
BumpConversation(m) ==
  /\ send[m].pc = "inserted"
  /\ rowLock = Nobody
  /\ rowLock' = m
  /\ Reaches(m, "bumped")
  /\ UNCHANGED <<owner, clock, lastAt, during, replies, pageVars>>

\* Variant: the message is published as soon as it is inserted.
Inserted(m) == send[m].pc = "inserted"

MayPublish(m) == send[m].pc = "bumped"

\* Redis hands the event to the sockets that are subscribed, and to nobody else.  A
\* subscription whose connection to Redis is being made again, or whose buffer is full,
\* loses it behind an open socket.
Publish(m) ==
  \E deaf \in SUBSET {p \in Pages : socket[p] = "subscribed" /\ losses[p] < MaxLosses} :
    LET reached(p) == socket[p] = "subscribed" /\ p \notin deaf
    IN  /\ MayPublish(m)
        /\ Reaches(m, "published")
        /\ net' = [p \in Pages |-> IF reached(p) THEN Append(net[p], m) ELSE net[p]]
        /\ missed' = [p \in Pages |-> IF reached(p) THEN missed[p]
                                      ELSE missed[p] \cup {m}]
        /\ losses' = [p \in Pages |-> IF p \in deaf THEN losses[p] + 1 ELSE losses[p]]
        /\ UNCHANGED <<owner, clock, rowLock, lastAt, during, replies, page, socket>>

\* Redis does not answer: logged, and the send goes on.
PublishFails(m) ==
  /\ MayPublish(m)
  /\ Reaches(m, "published")
  /\ missed' = [p \in Pages |-> missed[p] \cup {m}]
  /\ UNCHANGED <<owner, clock, rowLock, lastAt, during, replies, page, socket, net,
                 losses>>

\* The answer leaves before the commit.
AnswerSend(m) ==
  /\ send[m].pc = "published"
  /\ Reaches(m, "answered")
  /\ replies' = IF SentFrom[m] \in Pages THEN replies \cup {m} ELSE replies
  /\ UNCHANGED <<owner, clock, rowLock, lastAt, during, pageVars>>

\* Variant: only the first message sets the time of the last one.
FirstMessageAt(m) == IF lastAt = 0 THEN send[m].at ELSE lastAt

LastMessageAt(m) == send[m].at

CommitSend(m) ==
  /\ send[m].pc = "answered"
  /\ Reaches(m, "stored")
  /\ lastAt' = LastMessageAt(m)
  /\ rowLock' = Nobody
  /\ during' = [during EXCEPT ![m] = UnderWay \ {m}]
  /\ UNCHANGED <<owner, clock, replies, pageVars>>

Unlocked(m) == IF rowLock = m THEN Nobody ELSE rowLock

\* The request fails, or its process dies, and the transaction is rolled back:
\* before the message was published, or after it.
SendFails(m) ==
  /\ m \in UnderWay
  /\ Reaches(m, IF send[m].pc \in {"published", "answered"} THEN "lost" ELSE "failed")
  /\ rowLock' = Unlocked(m)
  /\ UNCHANGED <<owner, clock, lastAt, during, replies, pageVars>>

-----------------------------------------------------------------------------
(* The page.                                                               *)

Ordered(s) == \A i, j \in DOMAIN s : i < j => send[s[i]].at < send[s[j]].at

InOrder(S) ==
  CHOOSE s \in [1 .. Cardinality(S) -> S] : Ordered(s) /\ Shown(s) = S

\* Variant: what arrives is put at the end.
Appended(items, m) == IF m \in Shown(items) THEN items ELSE Append(items, m)

\* Dropped when it is there already, and sorted by created_at.  The page compares
\* ISO strings: they are in the order of the times but for the "Z" or "+00:00" after
\* them and a fraction of zero that is left out.
mergeMessage(items, m) ==
  IF m \in Shown(items) THEN items ELSE InOrder(Shown(items) \cup {m})

Merges(p, m) ==
  page' = IF p \in Pages /\ page[p].pc = "ready"
          THEN [page EXCEPT ![p].items = mergeMessage(@, m)] ELSE page

ShowReply(m) ==
  /\ m \in replies
  /\ replies' = replies \ {m}
  /\ Merges(SentFrom[m], m)
  /\ UNCHANGED <<apiVars, socket, net, losses, missed>>

NewerIn(S, m) == {k \in S : send[k].at > send[m].at}
OlderIn(S, m) == {k \in S : send[k].at < send[m].at}

\* Variant: ordered by created_at before the limit, and not by its reverse.
Oldest(S) == InOrder({m \in S : Cardinality(OlderIn(S, m)) < HistoryLimit})

\* list_messages: the newest messages, oldest first.
History(S) == InOrder({m \in S : Cardinality(NewerIn(S, m)) < HistoryLimit})

ReadHistory(p) ==
  /\ page[p].pc = "loading"
  /\ IF CanAccess(UserOf[p])
     THEN /\ page' = [page EXCEPT ![p].pc = "read", ![p].history = History(Stored)]
          /\ missed' = [missed EXCEPT ![p] = @ \ Stored]
     ELSE /\ page' = [page EXCEPT ![p].pc = "error"]
          /\ UNCHANGED missed
  /\ UNCHANGED <<apiVars, replies, socket, net, losses>>

\* The answer arrives: it replaces whatever the page has.
ShowHistory(p) ==
  /\ page[p].pc = "read"
  /\ page' = [page EXCEPT ![p] = [pc |-> "ready", items |-> page[p].history,
                                  history |-> <<>>]]
  /\ UNCHANGED <<apiVars, replies, socket, net, losses, missed>>

\* An error stays on the page until it is opened again.
LoadingFails(p) ==
  /\ page[p].pc \in {"loading", "read"}
  /\ page' = [page EXCEPT ![p].pc = "error", ![p].history = <<>>]
  /\ UNCHANGED <<apiVars, replies, socket, net, losses, missed>>

-----------------------------------------------------------------------------
(* The socket (useChatSocket and the gateway).                             *)

Plugs(p, state) ==
  /\ socket' = [socket EXCEPT ![p] = state]
  /\ UNCHANGED <<apiVars, replies, page, net, losses, missed>>

\* issueWsToken: the hook also comes here after every loss, when its delay is over.
Connect(p) ==
  /\ socket[p] \in {"idle", "closed"}
  /\ Plugs(p, IF CanAccess(UserOf[p]) THEN "token" ELSE "error")

\* No token: the rate limit, the network.  The hook does not try again.
ConnectFails(p) == socket[p] \in {"idle", "closed"} /\ Plugs(p, "error")

\* The gateway accepts the socket before it subscribes to the channel.
Accept(p) == socket[p] = "token" /\ Plugs(p, "accepted")

Subscribe(p) == socket[p] = "accepted" /\ Plugs(p, "subscribed")

\* The network, a failed subscription or write, the end of the token's session:
\* the pushes on the way are gone.
SocketLost(p) ==
  /\ socket[p] \in {"token", "accepted", "subscribed"}
  /\ losses[p] < MaxLosses
  /\ losses' = [losses EXCEPT ![p] = @ + 1]
  /\ socket' = [socket EXCEPT ![p] = "closed"]
  /\ net' = [net EXCEPT ![p] = <<>>]
  /\ missed' = [missed EXCEPT ![p] = @ \cup Shown(net[p])]
  /\ UNCHANGED <<apiVars, replies, page>>

\* handleIncoming drops what comes while the history is loading.
Receive(p) ==
  /\ net[p] # <<>>
  /\ net' = [net EXCEPT ![p] = Tail(@)]
  /\ Merges(p, Head(net[p]))
  /\ missed' = IF page[p].pc = "ready" THEN missed
               ELSE [missed EXCEPT ![p] = @ \cup {Head(net[p])}]
  /\ UNCHANGED <<apiVars, replies, socket, losses>>

ChatNext ==
  \/ \E u \in Claimants \cup {Nobody} : Claimed(u)
  \/ \E m \in Messages :
       \/ OpenSend(m) \/ InsertMessage(m) \/ BumpConversation(m) \/ Publish(m)
       \/ PublishFails(m) \/ AnswerSend(m) \/ CommitSend(m) \/ SendFails(m)
       \/ ShowReply(m)
  \/ \E p \in Pages :
       \/ ReadHistory(p) \/ ShowHistory(p) \/ LoadingFails(p) \/ Connect(p)
       \/ ConnectFails(p) \/ Accept(p) \/ Subscribe(p) \/ SocketLost(p) \/ Receive(p)

ChatSpec == ChatInit /\ [][ChatNext]_chatVars

-----------------------------------------------------------------------------
(* What the chat guarantees.                                               *)

\* A page shows every message once, in the order of created_at, whatever comes
\* first of history, pushes and its own answers (ChatPageClient.tsx:40-43).
PagesInOrder == \A p \in Pages : Ordered(page[p].items)

\* The API publishes and answers before it commits (chat.py:224-227): a message
\* that is out and not stored was rolled back, or is the only one of its kind,
\* whose transaction holds the conversation's row and stops the next send.
OutAheadOfCommit ==
  \A m \in Messages :
    (m \in replies \/ \E p \in Pages : m \in Shown(page[p].items) \cup Shown(net[p])) =>
      send[m].pc \in {"stored", "lost"} \/ rowLock = m

\* list_conversations puts "newest activity first" (chat.py:128).  created_at is
\* the start of the transaction, so last_message_at may fall behind a message
\* only through one that began before it and was still under way when it ended.
LastActivity ==
  \A m \in Stored :
    lastAt >= send[m].at \/ \E k \in during[m] \cap Stored : send[k].at = lastAt

\* A page that shows the conversation lacks a stored message only when the page
\* is full with newer ones, or its push was lost: to Redis, to a subscription not yet
\* made, or made again, or gone, or to the loading of a history read before the
\* commit.  Nothing else, in any order of the steps, loses one.
PagesComplete ==
  \A p \in Pages : page[p].pc = "ready" =>
    \A m \in Stored \ (missed[p] \cup Shown(net[p]) \cup Shown(page[p].items)) :
      Cardinality(NewerIn(Shown(page[p].items), m)) >= HistoryLimit

-----------------------------------------------------------------------------
(* The inductive invariants behind them.                                   *)

Begun == {m \in Messages : send[m].pc # "new"}
Published == {m \in Messages : send[m].pc \in {"published", "answered", "stored"}}
Loaded(p) == Shown(page[p].items) \cup Shown(page[p].history)

\* What is out of the API: answered, on its way, or on a page.
Out == replies \cup UNION {Shown(net[p]) \cup Loaded(p) : p \in Pages}

\* No two transactions begin at once, the row is held from its UPDATE to the end,
\* and nothing is out that was not published under the lock.
SendInv ==
  /\ \A m \in Begun : send[m].at <= clock
  /\ \A m, k \in Begun : send[m].at = send[k].at => m = k
  /\ \A m \in Messages :
       rowLock = m <=> send[m].pc \in {"bumped", "published", "answered"}
  /\ \A m \in Out : send[m].pc \in {"published", "answered", "stored", "lost"}

\* A send under way that began before a stored one was under way when that one
\* was committed.
ActivityInv ==
  /\ \A m \in Stored, k \in UnderWay : send[k].at < send[m].at => k \in during[m]
  /\ LastActivity

\* A page has its history apart until it shows it, in order like its messages.
OrderInv ==
  \A p \in Pages :
    /\ Ordered(page[p].items) /\ Ordered(page[p].history)
    /\ page[p].pc \in {"loading", "read"} => page[p].items = <<>>
    /\ page[p].pc # "read" => page[p].history = <<>>

\* From its publication on a message is on its way to the page, missed, loaded or
\* older than a full page.
CompleteInv ==
  \A p \in Pages : page[p].pc # "error" =>
    \A m \in Published \ (missed[p] \cup Shown(net[p]) \cup Loaded(p)) :
      Cardinality(NewerIn(Loaded(p), m)) >= HistoryLimit

ChatInv ==
  ChatTypeOK /\ SendInv /\ ActivityInv /\ OrderInv /\ CompleteInv

=============================================================================
