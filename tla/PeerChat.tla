------------------------------ MODULE PeerChat ------------------------------
(* Messages from one user to another, through one message server or two:
   Server::doPeerMsg, the channels peerMsg:<server>, Server::SubscribePeerMsg,
   and the list unreadMsg:<user> with Server::onUnreadMsgRequest.

   The module extends Presence.  doPeerMsg and onUnreadMsgRequest run on the io
   thread, so they begin when no handler of Presence is under way and none of
   those begins before they end; they hold m_mutex, which SubscribePeerMsg,
   on the subscriber thread, takes as well.  onShakeHandleReq and
   Connection_Manager::stop do not take it.                                  *)
EXTENDS Presence, Naturals, Sequences, FiniteSets

CONSTANTS
  MaxMsg,   \* how many messages are sent in all: a bound of the model
  Keep      \* the length a list unreadMsg:<u> is cut at; 99 in the code

ASSUME PeerAssumption == MaxMsg \in Nat /\ Keep \in Nat

VARIABLES
  chat,     \* chat[s]: the chat handler the io thread of s is in, and how far
  subscribed, \* the servers whose subscriber thread has subscribed to peerMsg:<s>
  channel,  \* channel[s]: what is published on peerMsg:<s> and not consumed yet
  unread,   \* unread[u]: the list unreadMsg:<u>, its head first
  inbox,    \* inbox[c]: what was handed to the socket of c, oldest first
  asked,    \* the connections whose client has asked for its unread messages
  sent,     \* history: the addressees of the messages sent so far, in order
  doubled,  \* history: the users who ever had two clients at work at once
  ousted    \* history: the users whom a server being shut down took out of a group
            \* when they were online again

peerVars == <<chat, subscribed, channel, unread, inbox, asked, sent, doubled, ousted>>
allVars == <<vars, peerVars>>

-----------------------------------------------------------------------------
(* A message: its number in the order of sending, its sender's connection, its
   addressee and, as history, the session it was routed to: the one findUser or
   GET online led to, None if it goes to the unread list.                     *)
Message == [id : 1..MaxMsg, from : Conn, to : User, via : Conn \cup {None}]

(* The stages: "get", "publish", "push", "trim" are the commands of doPeerMsg
   still to come, "del" and "answer" those of onUnreadMsgRequest.            *)
NoChat == [op |-> "idle"]

PeerStage(stage, m, t) == [op |-> stage, msg |-> m, target |-> t]

UnreadStage(stage, c, ms) == [op |-> stage, conn |-> c, list |-> ms]

ChatState ==
  {NoChat}
  \cup [op : {"get", "publish", "push", "trim"}, msg : Message,
        target : Server \cup {None}]
  \cup [op : {"del", "answer"}, conn : Conn, list : Seq(Message)]

PeerTypeOK ==
  /\ TypeOK
  /\ chat \in [Server -> ChatState]
  /\ subscribed \subseteq running
  /\ channel \in [Server -> Seq(Message)]
  /\ unread \in [User -> Seq(Message)]
  /\ inbox \in [Conn -> Seq(Message)]
  /\ asked \subseteq Conn
  /\ sent \in Seq(User) /\ Len(sent) <= MaxMsg
  /\ doubled \subseteq User /\ ousted \subseteq User

PeerInit ==
  /\ Init
  /\ chat = [s \in Server |-> NoChat]
  /\ subscribed = {}
  /\ channel = [s \in Server |-> <<>>]
  /\ unread = [u \in User |-> <<>>]
  /\ inbox = [c \in Conn |-> <<>>]
  /\ asked = {}
  /\ sent = <<>>
  /\ doubled = {} /\ ousted = {}

-----------------------------------------------------------------------------
\* The io thread of s is free for another handler.
Free(s) == IoIdle(s) /\ chat[s] = NoChat

\* m_mutex is held by a chat handler of the io thread.
Locked(s) == chat[s] # NoChat

\* Mutant: lower_bound instead of find, so that another user's entry will do.
FindUser_LowerBound(s, u) ==
  LET entries == {c \in Conn : \E v \in User : m_SessionMap[s][v] = c}
  IN  IF m_SessionMap[s][u] = None /\ entries # {} THEN CHOOSE c \in entries : TRUE
      ELSE m_SessionMap[s][u]

\* Connection_Manager::findUser.
FindUser(s, u) == m_SessionMap[s][u]

\* Tcp_Session::Send: nothing is queued once the session is stopped.
Send(c, ms) ==
  inbox' = IF phase[c] # "closed" THEN [inbox EXCEPT ![c] = @ \o ms] ELSE inbox

\* CRedis::Publish: only a server that has subscribed gets it, and Redis keeps it
\* for nobody else.
Publish(s, m) ==
  channel' = IF s \in subscribed THEN [channel EXCEPT ![s] = Append(@, m)] ELSE channel

\* Mutant: the list is not cut.
Ltrim_Skipped(list) == list

\* LTRIM key 0 99 keeps the elements with index 0 to 99.
Ltrim(list) == SubSeq(list, 1, IF Len(list) <= Keep THEN Len(list) ELSE Keep + 1)

-----------------------------------------------------------------------------
(* Server::onMsgData and doPeerMsg.                                          *)

\* The message that connection c sends to u next, routed to session d.
NewMessage(c, u, d) == [id |-> Len(sent) + 1, from |-> c, to |-> u, via |-> d]

\* A client that got an answer to its handshake.
Answered(c) == phase[c] \in {"unknown", "ready"}

CanSend(s, c) == Free(s) /\ c \in m_sessionSet[s] /\ Answered(c) /\ Len(sent) < MaxMsg

\* The addressee is on this server: the message goes straight to her session.
SendLocal(s, c, u) ==
  /\ CanSend(s, c)
  /\ FindUser(s, u) # None
  /\ Send(FindUser(s, u), <<NewMessage(c, u, FindUser(s, u))>>)
  /\ sent' = Append(sent, u)
  /\ UNCHANGED <<vars, subscribed, chat, channel, unread, asked, doubled, ousted>>

\* Mutant: the addressee is always looked for through Redis as well.
SendRemote_Always(s, c, u) ==
  /\ CanSend(s, c)
  /\ chat' = [chat EXCEPT ![s] = PeerStage("get", NewMessage(c, u, None), None)]
  /\ sent' = Append(sent, u)
  /\ UNCHANGED <<vars, subscribed, channel, unread, inbox, asked, doubled, ousted>>

\* She is not: the handler goes on to ask for online:<u>.
SendRemote(s, c, u) ==
  /\ CanSend(s, c)
  /\ FindUser(s, u) = None
  /\ chat' = [chat EXCEPT ![s] = PeerStage("get", NewMessage(c, u, None), None)]
  /\ sent' = Append(sent, u)
  /\ UNCHANGED <<vars, subscribed, channel, unread, inbox, asked, doubled, ousted>>

\* The message m, now routed to session d.
Routed(m, d) == [id |-> m.id, from |-> m.from, to |-> m.to, via |-> d]

\* GET online:<u>.
GetOnline(s) ==
  /\ chat[s].op = "get"
  /\ LET m == chat[s].msg
         t == online[m.to]
     IN  chat' = [chat EXCEPT ![s] =
                    IF t = None THEN PeerStage("push", m, None)
                    ELSE PeerStage("publish", Routed(m, FindUser(t, m.to)), t)]
  /\ UNCHANGED <<vars, subscribed, channel, unread, inbox, asked, sent, doubled, ousted>>

\* Mutant: the channel of this server, not of the server that GET returned.
PublishPeerMsg_Own(s) ==
  /\ chat[s].op = "publish"
  /\ Publish(s, chat[s].msg)
  /\ chat' = [chat EXCEPT ![s] = NoChat]
  /\ UNCHANGED <<vars, subscribed, unread, inbox, asked, sent, doubled, ousted>>

\* Mutant: the message is kept as unread as well.
PublishPeerMsg_AndPush(s) ==
  /\ chat[s].op = "publish"
  /\ Publish(chat[s].target, chat[s].msg)
  /\ chat' = [chat EXCEPT ![s] = PeerStage("push", chat[s].msg, None)]
  /\ UNCHANGED <<vars, subscribed, unread, inbox, asked, sent, doubled, ousted>>

\* PUBLISH peerMsg:<t>, for the server t that GET returned.
PublishPeerMsg(s) ==
  /\ chat[s].op = "publish"
  /\ Publish(chat[s].target, chat[s].msg)
  /\ chat' = [chat EXCEPT ![s] = NoChat]
  /\ UNCHANGED <<vars, subscribed, unread, inbox, asked, sent, doubled, ousted>>

\* LPUSH unreadMsg:<u>; the reply is the new length.
PushUnread(s) ==
  /\ chat[s].op = "push"
  /\ LET m == chat[s].msg
         list == <<m>> \o unread[m.to]
     IN  /\ unread' = [unread EXCEPT ![m.to] = list]
         /\ chat' = [chat EXCEPT ![s] =
                       IF Len(list) > Keep THEN PeerStage("trim", m, None) ELSE NoChat]
  /\ UNCHANGED <<vars, subscribed, channel, inbox, asked, sent, doubled, ousted>>

\* LTRIM unreadMsg:<u> 0 99.
TrimUnread(s) ==
  /\ chat[s].op = "trim"
  /\ unread' = [unread EXCEPT ![chat[s].msg.to] = Ltrim(@)]
  /\ chat' = [chat EXCEPT ![s] = NoChat]
  /\ UNCHANGED <<vars, subscribed, channel, inbox, asked, sent, doubled, ousted>>

-----------------------------------------------------------------------------
(* CRedis::Subscribe and Server::SubscribePeerMsg, on the subscriber thread of s. *)

\* The constructor of Server detaches the thread, which connects to Redis, is
\* authenticated and SUBSCRIBEs, while the io thread serves.  Where one of these
\* fails it ends without a word, so that the server may never get here.
Subscribe(s) ==
  /\ s \in running \ subscribed
  /\ subscribed' = subscribed \cup {s}
  /\ UNCHANGED <<vars, chat, channel, unread, inbox, asked, sent, doubled, ousted>>

CanConsume(s) == s \in running /\ ~ Locked(s) /\ channel[s] # <<>>

\* The addressee's session is found and sent the message.
Deliver(s) ==
  /\ CanConsume(s)
  /\ FindUser(s, Head(channel[s]).to) # None
  /\ Send(FindUser(s, Head(channel[s]).to), <<Head(channel[s])>>)
  /\ channel' = [channel EXCEPT ![s] = Tail(@)]
  /\ UNCHANGED <<vars, subscribed, chat, unread, asked, sent, doubled, ousted>>

\* She is not here (any more): the message is dropped without a word.
Drop(s) ==
  /\ CanConsume(s)
  /\ FindUser(s, Head(channel[s]).to) = None
  /\ channel' = [channel EXCEPT ![s] = Tail(@)]
  /\ UNCHANGED <<vars, subscribed, chat, unread, inbox, asked, sent, doubled, ousted>>

-----------------------------------------------------------------------------
(* Server::onUnreadMsgRequest and appendPeerMsg.  The client asks once, when its
   handshake is answered, for the user it has logged in as.                  *)

\* LRANGE unreadMsg:<u> 0 -1.
AskUnread(s, c) ==
  /\ Free(s) /\ c \in m_sessionSet[s] /\ Answered(c) /\ c \notin asked
  /\ asked' = asked \cup {c}
  /\ chat' = [chat EXCEPT ![s] = UnreadStage("del", c, unread[ClientOf[c]])]
  /\ UNCHANGED <<vars, subscribed, channel, unread, inbox, sent, doubled, ousted>>

\* Mutant: the list is left in place.
DelUnread_Skipped(s) ==
  /\ chat[s].op = "del"
  /\ chat' = [chat EXCEPT ![s] = UnreadStage("answer", @.conn, @.list)]
  /\ UNCHANGED <<vars, subscribed, channel, unread, inbox, asked, sent, doubled, ousted>>

\* DEL unreadMsg:<u>.
DelUnread(s) ==
  /\ chat[s].op = "del"
  /\ unread' = [unread EXCEPT ![ClientOf[chat[s].conn]] = <<>>]
  /\ chat' = [chat EXCEPT ![s] = UnreadStage("answer", @.conn, @.list)]
  /\ UNCHANGED <<vars, subscribed, channel, inbox, asked, sent, doubled, ousted>>

\* Mutant: the count is compared with the wrong bound.
AnswerUnread_OffByOne(s) ==
  /\ chat[s].op = "answer"
  /\ Send(chat[s].conn, IF Len(chat[s].list) > 1 THEN chat[s].list ELSE <<>>)
  /\ chat' = [chat EXCEPT ![s] = NoChat]
  /\ UNCHANGED <<vars, subscribed, channel, unread, asked, sent, doubled, ousted>>

\* The answer carries what LRANGE returned (and none is sent for nothing).
AnswerUnread(s) ==
  /\ chat[s].op = "answer"
  /\ Send(chat[s].conn, chat[s].list)
  /\ chat' = [chat EXCEPT ![s] = NoChat]
  /\ UNCHANGED <<vars, subscribed, channel, unread, asked, sent, doubled, ousted>>

-----------------------------------------------------------------------------
\* The connections through which a client of u can be sent or ask for anything.
Clients(u) ==
  {c \in UNION {m_sessionSet[s] : s \in Server} :
     ClientOf[c] = u /\ (m_userId[c] = u \/ phase[c] = "unknown")}

\* The users who are taken out of a group while online:<u> is there: the server
\* that does so, in stop_all, has deleted it, and another has set it since.
Ousting ==
  {u \in User : online[u] # None /\ \E g \in Group : u \in onlineGroup[g] \ onlineGroup'[g]}

(* A step of Presence.  A process that ends loses its handler and its
   subscription.                                                             *)
PresenceStep ==
  /\ \/ Environment
     \/ \E s \in Server : chat[s] = NoChat /\ (Begin(s) \/ Continue(s))
  /\ chat' = [s \in Server |-> IF s \in running' THEN chat[s] ELSE NoChat]
  /\ subscribed' = subscribed \cap running'
  /\ channel' = [s \in Server |-> IF s \in running' THEN channel[s] ELSE <<>>]
  /\ doubled' = doubled \cup {u \in User : Cardinality(Clients(u)') > 1}
  /\ ousted' = ousted \cup Ousting
  /\ UNCHANGED <<unread, inbox, asked, sent>>

ChatContinue(s) ==
  \/ GetOnline(s) \/ PublishPeerMsg(s) \/ PushUnread(s) \/ TrimUnread(s)
  \/ DelUnread(s) \/ AnswerUnread(s)

Consume(s) == Deliver(s) \/ Drop(s)

\* A client writes to the contacts it is shown, its friends and the members of its
\* groups; Redis knows those by their ids, and none of them has the empty one.
Contacts == User \ {Nobody}

ChatStep ==
  \E s \in Server :
    \/ \E c \in Conn, u \in Contacts : SendLocal(s, c, u) \/ SendRemote(s, c, u)
    \/ \E c \in Conn : AskUnread(s, c)
    \/ ChatContinue(s)
    \/ Subscribe(s) \/ Consume(s)

PeerNext == PresenceStep \/ ChatStep

PeerSpec == PeerInit /\ [][PeerNext]_allVars

(* Fairness: an io thread inside a handler goes on, and the subscriber thread
   takes the next message when it gets m_mutex, which no handler keeps.      *)
PeerFairness ==
  \A s \in Server :
    /\ WF_allVars(ChatContinue(s))
    /\ SF_allVars(Consume(s))
    /\ WF_allVars(PresenceStep /\ Continue(s))

FairPeerSpec == PeerSpec /\ PeerFairness

-----------------------------------------------------------------------------
(* Safety.                                                                   *)

\* A message is handed to connections of its addressee only: neither the map of
\* the addressee's server nor online:<u> leads it astray, and an unread list is
\* given to its owner.
OnlyAddressee ==
  \A c \in Conn : \A i \in DOMAIN inbox[c] : inbox[c][i].to = ClientOf[c]

\* A message on its way over a channel finds the session GET online led to, or
\* that session has ended since: SubscribePeerMsg drops nothing else, but for a
\* user with two clients, or a server that died and left its keys behind.
RoutedToSession ==
  \A s \in Server \ crashed : \A i \in DOMAIN channel[s] :
    LET m == channel[s][i]
    IN  \/ m.to \in doubled
        \/ m.via # None /\ (FindUser(s, m.to) = m.via \/ phase[m.via] = "closed")

(* A user whose handshake was answered is in onlineGroup:<g> of every group of
   hers, so that SORT finds her there, unless she ever had two clients at work, or
   is among the ousted: stop_all of the server she was on (Connection_Manager.cpp
   :53-64) deletes the key first and takes her out of her groups one by one, when
   another server may have let her in already.  With the key away she is out.  *)
ReadyInGroups ==
  \A c \in Conn :
    phase[c] = "ready" /\ ClientOf[c] \notin doubled \cup ousted =>
      \A g \in GroupSet[ClientOf[c]] : ClientOf[c] \in onlineGroup[g]

\* An unread list is never longer than what LTRIM leaves, plus one message for
\* each handler that has pushed and not trimmed yet, unless a server died before
\* it did.
UnreadBound ==
  \A u \in User :
    \/ crashed # {}
    \/ Len(unread[u]) <=
         Keep + 1 + Cardinality({s \in Server : chat[s].op = "trim" /\ chat[s].msg.to = u})

\* What is sent live over one connection to one session arrives in the order
\* of sending, whether it goes straight or over a channel.
LiveOrder ==
  \A c \in Conn : \A i, j \in DOMAIN inbox[c] :
    /\ i < j
    /\ inbox[c][i].via # None /\ inbox[c][j].via # None
    /\ inbox[c][i].from = inbox[c][j].from
    => inbox[c][i].id < inbox[c][j].id

\* A message is delivered at most once, over all connections, to a user who
\* never has two clients at work at once.
DeliveredOnce ==
  \A c, d \in Conn : \A i \in DOMAIN inbox[c], j \in DOMAIN inbox[d] :
    inbox[c][i].id = inbox[d][j].id /\ inbox[c][i].to \notin doubled => c = d /\ i = j

\* The numbers of the messages in a sequence, and of all that are still in some
\* server, channel, list or socket.
Ids(ms) == {ms[i].id : i \in DOMAIN ms}

Held ==
  (UNION ({Ids(channel[s]) : s \in Server} \cup {Ids(unread[u]) : u \in User}
          \cup {Ids(inbox[c]) : c \in Conn}))
  \cup {chat[s].msg.id : s \in {t \in Server : chat[t].op \in {"get", "publish", "push"}}}
  \cup UNION {Ids(chat[s].list) : s \in {t \in Server : chat[t].op \in {"del", "answer"}}}

\* A connection of u has ended.
Ended(u) == \E c \in Conn : ClientOf[c] = u /\ phase[c] = "closed"

\* DEL takes message i, which LRANGE did not return, out of the list.
DeletedUnread(i) ==
  \E s \in Server :
    chat[s].op = "del" /\ chat'[s].op = "answer" /\ i \notin Ids(chat[s].list)

\* LTRIM takes message i, older than the Keep + 1 newest, off the list.
Trimmed(i) ==
  \E s \in Server :
    /\ chat[s].op = "trim" /\ chat'[s] = NoChat
    /\ i \notin Ids(Ltrim(unread[chat[s].msg.to]))

\* PUBLISH of message i to a server that serves but has not subscribed.
Unheard(i) ==
  \E s \in Server :
    /\ chat[s].op = "publish" /\ chat'[s] = NoChat
    /\ chat[s].msg.id = i /\ chat[s].target \in running \ subscribed

\* No step loses a message, but for one that is deleted unread or trimmed, one
\* published to a server that has not SUBSCRIBEd yet (Server.cpp:41-43), one whose
\* addressee had a connection that has ended or two clients at work, and what a
\* server that dies takes with it or left stale keys for.
LostKnownWays ==
  [][\/ crashed' # {}
     \/ \A i \in Held \ Held' :
          DeletedUnread(i) \/ Trimmed(i) \/ Unheard(i) \/ Ended(sent[i]) \/ sent[i] \in doubled]_allVars

\* README.md:47: unreadMsg:<u> stores the unread messages of u.  So a message to
\* a user who has not been disconnected is somewhere: on its way, stored or
\* handed over.
KeptUntilRead == \A i \in DOMAIN sent : i \in Held \/ Ended(sent[i])

-----------------------------------------------------------------------------
(* Liveness.                                                                 *)

\* Message i has been routed to another server, which listens.
OnTheWay(i) ==
  \E s \in Server :
    \/ i \in Ids(channel[s])
    \/ chat[s].op = "publish" /\ chat[s].msg.id = i /\ chat[s].target \in subscribed

\* A message routed to another server, which has subscribed, arrives, unless a
\* connection of its addressee ends, she has two clients at work or a server dies.
RoutedArrives ==
  \A i \in 1..MaxMsg :
    OnTheWay(i) ~>
      \/ \E c \in Conn : i \in Ids(inbox[c])
      \/ i \in DOMAIN sent /\ Ended(sent[i])
      \/ doubled # {} \/ crashed # {}

-----------------------------------------------------------------------------
(* The promise of the chat service, as in Delivery.                          *)

MovingIds ==
  (UNION {Ids(channel[s]) : s \in Server})
  \cup {chat[s].msg.id : s \in {t \in Server : chat[t].op \in {"get", "publish", "push"}}}

\* In a list, or read from it by a handler that has not answered yet.
KeptIds ==
  (UNION {Ids(unread[u]) : u \in User})
  \cup UNION {Ids(chat[s].list) : s \in {t \in Server : chat[t].op \in {"del", "answer"}}}

GivenIds(live) ==
  UNION {{inbox[c][i].id : i \in {j \in DOMAIN inbox[c] : (inbox[c][j].via # None) = live}} :
           c \in Conn}

(* Where message i is; "twice", which Delivery does not know, if it is in two
   places.  What was read may be read a second time, by a server that asked for
   the list before the DEL of the first.                                     *)
Fate ==
  LET live == GivenIds(TRUE)
      read == GivenIds(FALSE)
      kept == KeptIds
      moving == MovingIds
      twice == (live \cap kept) \cup (moving \cap (live \cup read \cup kept))
  IN  [i \in 1..MaxMsg |->
         IF i > Len(sent) THEN "unsent"
         ELSE IF i \in twice THEN "twice"
         ELSE IF i \in moving THEN "moving"
         ELSE IF i \in live \cup read THEN "given"
         ELSE IF i \in kept THEN "kept" ELSE "lost"]

Promise == INSTANCE Delivery WITH Msg <- 1..MaxMsg, fate <- Fate

\* The servers, with their lists, their channels and the keys they read earlier,
\* implement Delivery: a message is never in two places, and none comes back
\* once it was handed over, deleted or dropped (Server.cpp:261-296, 447-449).
ImplementsDelivery == Promise!Spec
=============================================================================
