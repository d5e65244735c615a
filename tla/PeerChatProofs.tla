--------------------------- MODULE PeerChatProofs ---------------------------
(* Theorems of PeerChat, for any users, connections, servers and groups, any
   number of messages and any length of the lists.                           *)
EXTENDS PeerChat, PresenceProofs, SequenceTheorems, FiniteSetTheorems

-----------------------------------------------------------------------------
(* Chat changes nothing of presence: what Presence promises holds with chat.  *)

\* A step of the servers with chat is a step of presence or leaves it alone.
LEMMA PresenceNext == [PeerNext]_allVars => [Next]_vars
<1>. SUFFICES ASSUME [PeerNext]_allVars PROVE [Next]_vars
  OBVIOUS
<1>1. CASE PresenceStep
  BY <1>1 DEF PresenceStep, Next
<1>2. CASE ChatStep
  BY <1>2
  DEF ChatStep, SendLocal, SendRemote, AskUnread, ChatContinue, GetOnline, PublishPeerMsg,
      PushUnread, TrimUnread, DelUnread, AnswerUnread, Subscribe, Consume, Deliver, Drop
<1>3. CASE UNCHANGED allVars
  BY <1>3 DEF allVars
<1>. QED
  BY <1>1, <1>2, <1>3 DEF PeerNext

\* The servers with chat implement the servers without: every step of a chat
\* handler or of the subscriber thread leaves presence as it is.
THEOREM PeerImplementsPresence == PeerSpec => Spec
<1>1. PeerInit => Init
  BY DEF PeerInit
<1>. QED
  BY <1>1, PresenceNext, PTL DEF PeerSpec, Spec

-----------------------------------------------------------------------------
(* Sequences of messages to one user.                                        *)

AllTo(ms, u) == \A i \in 1..Len(ms) : ms[i].to = u

\* Joining two lists of messages to one user.
LEMMA AllToConcat ==
  ASSUME NEW ms \in Seq(Message), NEW ns \in Seq(Message), NEW u,
         AllTo(ms, u), AllTo(ns, u)
  PROVE  ms \o ns \in Seq(Message) /\ AllTo(ms \o ns, u)
<1>1. /\ ms \o ns \in Seq(Message)
      /\ Len(ms \o ns) = Len(ms) + Len(ns)
      /\ \A i \in 1..Len(ms) + Len(ns) :
           (ms \o ns)[i] = IF i <= Len(ms) THEN ms[i] ELSE ns[i - Len(ms)]
  BY ConcatProperties
<1>2. ASSUME NEW i \in 1..Len(ms \o ns) PROVE (ms \o ns)[i].to = u
  <2>1. CASE i <= Len(ms)
    BY <1>1, <2>1 DEF AllTo
  <2>2. CASE ~ (i <= Len(ms))
    <3>1. i - Len(ms) \in 1..Len(ns)
      BY <1>1, <2>2
    <3>. QED
      BY <1>1, <2>2, <3>1 DEF AllTo
  <2>. QED
    BY <2>1, <2>2
<1>. QED
  BY <1>1, <1>2 DEF AllTo

\* LTRIM keeps the first elements of a list, at most Keep + 1 of them, and so their
\* addressees.
LEMMA LtrimOf ==
  ASSUME NEW B, NEW ms \in Seq(B)
  PROVE  /\ Ltrim(ms) \in Seq(B) /\ Len(Ltrim(ms)) <= Len(ms) /\ Len(Ltrim(ms)) <= Keep + 1
         /\ \A i \in 1..Len(Ltrim(ms)) : i \in 1..Len(ms) /\ Ltrim(ms)[i] = ms[i]
<1>. DEFINE n == IF Len(ms) <= Keep THEN Len(ms) ELSE Keep + 1
<1>1. n \in Nat /\ n <= Len(ms) /\ n <= Keep + 1
  BY PeerAssumption
<1>2. \A i \in 1..n : ms[i] \in B
  BY <1>1
<1>3. /\ SubSeq(ms, 1, n) \in Seq(B)
      /\ Len(SubSeq(ms, 1, n)) = IF 1 <= n THEN n - 1 + 1 ELSE 0
      /\ \A i \in 1..(n - 1 + 1) : SubSeq(ms, 1, n)[i] = ms[1 + i - 1]
  <2>. HIDE DEF n
  <2>. QED
    BY <1>1, <1>2, SubSeqProperties
<1>4. Ltrim(ms) = SubSeq(ms, 1, n)
  BY DEF Ltrim
<1>. QED
  BY <1>1, <1>3, <1>4

LEMMA LtrimKeeps ==
  ASSUME NEW ms \in Seq(Message)
  PROVE  /\ Ltrim(ms) \in Seq(Message)
         /\ Len(Ltrim(ms)) <= Keep + 1
         /\ \A u : AllTo(ms, u) => AllTo(Ltrim(ms), u)
BY LtrimOf DEF AllTo

-----------------------------------------------------------------------------
(* Types, and who a message is for wherever it is.                           *)

ChatTyped ==
  /\ chat \in [Server -> ChatState]
  /\ channel \in [Server -> Seq(Message)]
  /\ unread \in [User -> Seq(Message)]
  /\ inbox \in [Conn -> Seq(Message)]
  /\ asked \subseteq Conn
  /\ sent \in Seq(User) /\ Len(sent) <= MaxMsg
  /\ subscribed \subseteq Server /\ doubled \subseteq User /\ ousted \subseteq User

Addressed ==
  /\ \A u \in User : AllTo(unread[u], u)
  /\ \A c \in Conn : AllTo(inbox[c], ClientOf[c])
  /\ \A s \in Server :
       chat[s].op \in {"del", "answer"} => AllTo(chat[s].list, ClientOf[chat[s].conn])

ChatInv == ChatTyped /\ Addressed

\* What a stage of a chat handler carries.
LEMMA StageTyped ==
  ASSUME ChatTyped, NEW s \in Server
  PROVE  /\ chat[s].op \in {"get", "publish", "push", "trim"} =>
              chat[s].msg \in Message /\ chat[s].target \in Server \cup {None}
         /\ chat[s].op \in {"del", "answer"} =>
              chat[s].conn \in Conn /\ chat[s].list \in Seq(Message)
  BY DEF ChatTyped, ChatState, NoChat

\* A stage of doPeerMsg is a state of a handler.
LEMMA PeerStageTyped ==
  ASSUME NEW stage \in {"get", "publish", "push", "trim"}, NEW m \in Message,
         NEW t \in Server \cup {None}
  PROVE  PeerStage(stage, m, t) \in ChatState /\ PeerStage(stage, m, t).op = stage
  BY DEF PeerStage, ChatState

\* A stage of onUnreadMsgRequest is a state of a handler.
LEMMA UnreadStageTyped ==
  ASSUME NEW stage \in {"del", "answer"}, NEW c \in Conn, NEW ms \in Seq(Message)
  PROVE  /\ UnreadStage(stage, c, ms) \in ChatState
         /\ UnreadStage(stage, c, ms).op = stage
         /\ UnreadStage(stage, c, ms).conn = c
         /\ UnreadStage(stage, c, ms).list = ms
  BY DEF UnreadStage, ChatState

\* A server without a chat handler is idle.
LEMMA NoChatTyped == NoChat \in ChatState /\ NoChat.op = "idle"
  BY DEF NoChat, ChatState

\* Handing messages to a session of their addressee.
LEMMA SendTyped ==
  ASSUME ChatInv, NEW c \in Conn, NEW ms \in Seq(Message), AllTo(ms, ClientOf[c]),
         Send(c, ms)
  PROVE  /\ inbox' \in [Conn -> Seq(Message)]
         /\ \A d \in Conn : AllTo(inbox'[d], ClientOf[d])
<1>1. inbox[c] \o ms \in Seq(Message) /\ AllTo(inbox[c] \o ms, ClientOf[c])
  BY AllToConcat DEF ChatInv, ChatTyped, Addressed
<1>2. inbox' = inbox \/ inbox' = [inbox EXCEPT ![c] = inbox[c] \o ms]
  BY DEF Send
<1>. QED
  BY <1>1, <1>2 DEF ChatInv, ChatTyped, Addressed

\* A message of a client is numbered and recorded in sent.
LEMMA NewMessageTyped ==
  ASSUME ChatTyped, Len(sent) < MaxMsg, NEW c \in Conn, NEW u \in User,
         NEW d \in Conn \cup {None}
  PROVE  /\ NewMessage(c, u, d) \in Message /\ NewMessage(c, u, d).to = u
         /\ Append(sent, u) \in Seq(User) /\ Len(Append(sent, u)) <= MaxMsg
<1>1. Len(sent) \in Nat /\ Len(sent) + 1 \in 1..MaxMsg
  BY PeerAssumption DEF ChatTyped
<1>2. NewMessage(c, u, d) \in Message /\ NewMessage(c, u, d).to = u
  BY <1>1 DEF NewMessage, Message
<1>3. Append(sent, u) \in Seq(User) /\ Len(Append(sent, u)) = Len(sent) + 1
  BY AppendProperties DEF ChatTyped
<1>. QED
  BY <1>1, <1>2, <1>3, PeerAssumption

\* A list of one message.
LEMMA Singleton ==
  ASSUME NEW m \in Message
  PROVE  <<m>> \in Seq(Message) /\ AllTo(<<m>>, m.to)
  BY DEF AllTo

\* findUser leads to a session of the user it is asked for.
LEMMA FindUserFinds ==
  ASSUME TypeOK, MapNamesSession, NEW s \in Server, NEW u \in User
  PROVE  /\ FindUser(s, u) \in Conn \cup {None}
         /\ FindUser(s, u) # None => FindUser(s, u) \in Conn /\ ClientOf[FindUser(s, u)] = u
  BY PresenceAssumption DEF FindUser, TypeOK, MapNamesSession

\* Every handler of chat preserves ChatInv.
LEMMA ChatStepTyped ==
  ASSUME TypeOK, MapNamesSession, ChatInv, ChatStep
  PROVE  ChatInv'
<1>. USE PresenceAssumption, PeerAssumption, NoChatTyped
<1>1. ASSUME NEW s \in Server, NEW c \in Conn, NEW u \in User, SendLocal(s, c, u)
      PROVE  ChatInv'
  <2>. DEFINE d == FindUser(s, u)
              m == NewMessage(c, u, d)
  <2>1. d \in Conn /\ ClientOf[d] = u
    BY <1>1, FindUserFinds DEF SendLocal
  <2>2. /\ m \in Message /\ m.to = u
        /\ Append(sent, u) \in Seq(User) /\ Len(Append(sent, u)) <= MaxMsg
    BY <1>1, <2>1, NewMessageTyped DEF SendLocal, CanSend, ChatInv
  <2>3. <<m>> \in Seq(Message) /\ AllTo(<<m>>, ClientOf[d])
    BY <2>1, <2>2, Singleton
  <2>4. Send(d, <<m>>)
    BY <1>1 DEF SendLocal
  <2>5. /\ inbox' \in [Conn -> Seq(Message)]
        /\ \A e \in Conn : AllTo(inbox'[e], ClientOf[e])
    <3>. HIDE DEF d, m
    <3>. QED
      BY <2>1, <2>3, <2>4, SendTyped
  <2>. QED
    BY <1>1, <2>2, <2>5 DEF SendLocal, ChatInv, ChatTyped, Addressed
<1>2. ASSUME NEW s \in Server, NEW c \in Conn, NEW u \in User, SendRemote(s, c, u)
      PROVE  ChatInv'
  <2>1. /\ NewMessage(c, u, None) \in Message
        /\ Append(sent, u) \in Seq(User) /\ Len(Append(sent, u)) <= MaxMsg
    BY <1>2, NewMessageTyped DEF SendRemote, CanSend, ChatInv
  <2>2. /\ PeerStage("get", NewMessage(c, u, None), None) \in ChatState
        /\ PeerStage("get", NewMessage(c, u, None), None).op = "get"
    BY <2>1, PeerStageTyped
  <2>. QED
    BY <1>2, <2>1, <2>2 DEF SendRemote, ChatInv, ChatTyped, Addressed
<1>3. ASSUME NEW s \in Server, NEW c \in Conn, AskUnread(s, c) PROVE ChatInv'
  <2>1. unread[ClientOf[c]] \in Seq(Message) /\ AllTo(unread[ClientOf[c]], ClientOf[c])
    BY DEF ChatInv, ChatTyped, Addressed
  <2>2. /\ UnreadStage("del", c, unread[ClientOf[c]]) \in ChatState
        /\ UnreadStage("del", c, unread[ClientOf[c]]).conn = c
        /\ UnreadStage("del", c, unread[ClientOf[c]]).list = unread[ClientOf[c]]
    BY <2>1, UnreadStageTyped
  <2>. QED
    BY <1>3, <2>1, <2>2 DEF AskUnread, ChatInv, ChatTyped, Addressed
<1>4. ASSUME NEW s \in Server, GetOnline(s) PROVE ChatInv'
  <2>. DEFINE m == chat[s].msg
              t == online[m.to]
              r == Routed(m, FindUser(t, m.to))
  <2>1. m \in Message /\ m.to \in User
    BY <1>4, StageTyped DEF GetOnline, ChatInv, Message
  <2>2. CASE t = None
    <3>1. /\ PeerStage("push", m, None) \in ChatState
          /\ PeerStage("push", m, None).op = "push"
      BY <2>1, PeerStageTyped
    <3>2. chat' = [chat EXCEPT ![s] = PeerStage("push", m, None)]
      BY <1>4, <2>2 DEF GetOnline
    <3>. QED
      BY <1>4, <3>1, <3>2 DEF GetOnline, ChatInv, ChatTyped, Addressed
  <2>3. CASE t # None
    <3>1. t \in Server
      BY <2>1, <2>3 DEF TypeOK
    <3>2. r \in Message
      BY <2>1, <3>1, FindUserFinds DEF Routed, Message
    <3>3. PeerStage("publish", r, t) \in ChatState /\ PeerStage("publish", r, t).op = "publish"
      BY <3>1, <3>2, PeerStageTyped
    <3>4. chat' = [chat EXCEPT ![s] = PeerStage("publish", r, t)]
      BY <1>4, <2>3 DEF GetOnline
    <3>5. PICK st : st = PeerStage("publish", r, t)
      OBVIOUS
    <3>6. st \in ChatState /\ st.op = "publish" /\ chat' = [chat EXCEPT ![s] = st]
      BY <3>3, <3>4, <3>5
    <3>7. UNCHANGED <<subscribed, channel, unread, inbox, asked, sent, doubled, ousted>>
      BY <1>4 DEF GetOnline
    <3>. QED
      BY <3>6, <3>7 DEF ChatInv, ChatTyped, Addressed
  <2>. QED
    BY <2>2, <2>3
<1>5. ASSUME NEW s \in Server, PublishPeerMsg(s) PROVE ChatInv'
  <2>. DEFINE m == chat[s].msg
              t == chat[s].target
  <2>1. m \in Message
    BY <1>5, StageTyped DEF PublishPeerMsg, ChatInv
  <2>2. channel' \in [Server -> Seq(Message)]
    <3>1. \A r \in Server : Append(channel[r], m) \in Seq(Message)
      BY <2>1, AppendProperties DEF ChatInv, ChatTyped
    <3>2. \/ channel' = channel
          \/ t \in Server /\ channel' = [channel EXCEPT ![t] = Append(channel[t], m)]
      BY <1>5 DEF PublishPeerMsg, Publish, ChatInv, ChatTyped
    <3>. QED
      BY <3>1, <3>2 DEF ChatInv, ChatTyped
  <2>. QED
    BY <1>5, <2>2 DEF PublishPeerMsg, ChatInv, ChatTyped, Addressed
<1>6. ASSUME NEW s \in Server, PushUnread(s) PROVE ChatInv'
  <2>. DEFINE m == chat[s].msg
              list == <<m>> \o unread[m.to]
  <2>1. m \in Message /\ m.to \in User
    BY <1>6, StageTyped DEF PushUnread, ChatInv, Message
  <2>2. list \in Seq(Message) /\ AllTo(list, m.to)
    BY <2>1, Singleton, AllToConcat DEF ChatInv, ChatTyped, Addressed
  <2>3. /\ PeerStage("trim", m, None) \in ChatState
        /\ PeerStage("trim", m, None).op = "trim"
    BY <2>1, PeerStageTyped
  <2>4. unread' = [unread EXCEPT ![m.to] = list]
    BY <1>6 DEF PushUnread
  <2>5. \/ chat' = [chat EXCEPT ![s] = PeerStage("trim", m, None)]
        \/ chat' = [chat EXCEPT ![s] = NoChat]
    BY <1>6 DEF PushUnread
  <2>6. UNCHANGED <<subscribed, channel, inbox, asked, sent, doubled, ousted>>
    BY <1>6 DEF PushUnread
  <2>. HIDE DEF m, list
  <2>7. chat' \in [Server -> ChatState] /\ unread' \in [User -> Seq(Message)]
    BY <2>1, <2>2, <2>3, <2>4, <2>5 DEF ChatInv, ChatTyped
  <2>8. \A u \in User : AllTo(unread'[u], u)
    BY <2>1, <2>2, <2>4 DEF ChatInv, ChatTyped, Addressed
  <2>9. \A r \in Server : chat'[r] = chat[r] \/ chat'[r].op \in {"trim", "idle"}
    BY <2>3, <2>5 DEF ChatInv, ChatTyped
  <2>. QED
    BY ONLY <2>6, <2>7, <2>8, <2>9, ChatInv DEF ChatInv, ChatTyped, Addressed
<1>7. ASSUME NEW s \in Server, TrimUnread(s) PROVE ChatInv'
  <2>. DEFINE u == chat[s].msg.to
  <2>1. u \in User
    BY <1>7, StageTyped DEF TrimUnread, ChatInv, Message
  <2>2. Ltrim(unread[u]) \in Seq(Message) /\ AllTo(Ltrim(unread[u]), u)
    BY <2>1, LtrimKeeps DEF ChatInv, ChatTyped, Addressed
  <2>3. unread' = [unread EXCEPT ![u] = Ltrim(unread[u])]
    BY <1>7 DEF TrimUnread
  <2>4. /\ chat' = [chat EXCEPT ![s] = NoChat]
        /\ UNCHANGED <<subscribed, channel, inbox, asked, sent, doubled, ousted>>
    BY <1>7 DEF TrimUnread
  <2>. HIDE DEF u
  <2>5. chat' \in [Server -> ChatState] /\ unread' \in [User -> Seq(Message)]
    BY <2>1, <2>2, <2>3, <2>4 DEF ChatInv, ChatTyped
  <2>6. \A v \in User : AllTo(unread'[v], v)
    BY <2>1, <2>2, <2>3 DEF ChatInv, ChatTyped, Addressed
  <2>7. \A r \in Server : chat'[r] = chat[r] \/ chat'[r].op = "idle"
    BY <2>4 DEF ChatInv, ChatTyped
  <2>. QED
    BY ONLY <2>4, <2>5, <2>6, <2>7, ChatInv DEF ChatInv, ChatTyped, Addressed
<1>8. ASSUME NEW s \in Server, DelUnread(s) PROVE ChatInv'
  <2>1. chat[s].conn \in Conn /\ chat[s].list \in Seq(Message)
    BY <1>8, StageTyped DEF DelUnread, ChatInv
  <2>2. /\ UnreadStage("answer", chat[s].conn, chat[s].list) \in ChatState
        /\ UnreadStage("answer", chat[s].conn, chat[s].list).conn = chat[s].conn
        /\ UnreadStage("answer", chat[s].conn, chat[s].list).list = chat[s].list
    BY <2>1, UnreadStageTyped
  <2>3. <<>> \in Seq(Message) /\ \A u : AllTo(<<>>, u)
    BY DEF AllTo
  <2>. QED
    BY <1>8, <2>1, <2>2, <2>3 DEF DelUnread, ChatInv, ChatTyped, Addressed
<1>9. ASSUME NEW s \in Server, AnswerUnread(s) PROVE ChatInv'
  <2>1. chat[s].conn \in Conn /\ chat[s].list \in Seq(Message)
    BY <1>9, StageTyped DEF AnswerUnread, ChatInv
  <2>2. AllTo(chat[s].list, ClientOf[chat[s].conn])
    BY <1>9 DEF AnswerUnread, ChatInv, Addressed
  <2>3. /\ inbox' \in [Conn -> Seq(Message)]
        /\ \A e \in Conn : AllTo(inbox'[e], ClientOf[e])
    BY <1>9, <2>1, <2>2, SendTyped DEF AnswerUnread
  <2>. QED
    BY <1>9, <2>3 DEF AnswerUnread, ChatInv, ChatTyped, Addressed
<1>10. ASSUME NEW s \in Server, Consume(s) PROVE ChatInv'
  <2>. DEFINE m == Head(channel[s])
  <2>1. channel[s] \in Seq(Message) /\ channel[s] # <<>>
    BY <1>10 DEF Consume, Deliver, Drop, CanConsume, ChatInv, ChatTyped
  <2>2. m \in Message /\ Tail(channel[s]) \in Seq(Message)
    BY <2>1, HeadTailProperties
  <2>3. channel' \in [Server -> Seq(Message)]
    BY <1>10, <2>2 DEF Consume, Deliver, Drop, ChatInv, ChatTyped
  <2>4. CASE Deliver(s)
    <3>. DEFINE d == FindUser(s, m.to)
    <3>1. m.to \in User
      BY <2>2 DEF Message
    <3>2. d \in Conn /\ ClientOf[d] = m.to
      BY <2>4, <3>1, FindUserFinds DEF Deliver
    <3>3. <<m>> \in Seq(Message) /\ AllTo(<<m>>, ClientOf[d])
      BY <2>2, <3>2, Singleton
    <3>4. Send(d, <<m>>)
      BY <2>4 DEF Deliver
    <3>5. /\ inbox' \in [Conn -> Seq(Message)]
          /\ \A e \in Conn : AllTo(inbox'[e], ClientOf[e])
      <4>. HIDE DEF d, m
      <4>. QED
        BY <3>2, <3>3, <3>4, SendTyped
    <3>. QED
      BY <2>3, <2>4, <3>5 DEF Deliver, ChatInv, ChatTyped, Addressed
  <2>5. CASE Drop(s)
    BY <2>3, <2>5 DEF Drop, ChatInv, ChatTyped, Addressed
  <2>. QED
    BY <1>10, <2>4, <2>5 DEF Consume
<1>11. ASSUME NEW s \in Server, Subscribe(s) PROVE ChatInv'
  BY <1>11 DEF Subscribe, ChatInv, ChatTyped, Addressed
<1>. QED
  BY ONLY ChatStep, <1>1, <1>2, <1>3, <1>4, <1>5, <1>6, <1>7, <1>8, <1>9, <1>10, <1>11
  DEF ChatStep, ChatContinue, Contacts

\* So does every step: what a step of presence takes from chat is a server's
\* handler and channel, when it ends.
LEMMA ChatNextTyped ==
  ASSUME TypeOK, MapNamesSession, ChatInv, [PeerNext]_allVars
  PROVE  ChatInv'
<1>1. CASE PresenceStep
  <2>1. <<>> \in Seq(Message) /\ NoChat \in ChatState
    BY NoChatTyped
  <2>2. chat' \in [Server -> ChatState] /\ channel' \in [Server -> Seq(Message)]
    BY <1>1, <2>1 DEF PresenceStep, ChatInv, ChatTyped
  <2>3. subscribed' \subseteq Server /\ doubled' \subseteq User /\ ousted' \subseteq User
    BY <1>1 DEF PresenceStep, Ousting, ChatInv, ChatTyped
  <2>4. \A s \in Server : chat'[s] = chat[s] \/ chat'[s].op = "idle"
    BY <1>1, NoChatTyped DEF PresenceStep
  <2>. QED
    BY <1>1, <2>2, <2>3, <2>4 DEF PresenceStep, ChatInv, ChatTyped, Addressed
<1>2. CASE ChatStep
  BY <1>2, ChatStepTyped
<1>3. CASE UNCHANGED allVars
  BY <1>3 DEF allVars, peerVars, ChatInv, ChatTyped, Addressed
<1>. QED
  BY <1>1, <1>2, <1>3 DEF PeerNext

LEMMA ChatInit == PeerInit => ChatInv
<1>. SUFFICES ASSUME PeerInit PROVE ChatInv
  OBVIOUS
<1>1. <<>> \in Seq(Message) /\ <<>> \in Seq(User) /\ Len(<<>>) = 0 /\ \A u : AllTo(<<>>, u)
  BY DEF AllTo
<1>. QED
  BY <1>1, NoChatTyped, PeerAssumption DEF PeerInit, ChatInv, ChatTyped, Addressed

\* The inductive invariant of chat: its types, and that whatever a handler or a
\* list holds for a user is addressed to that user.
THEOREM ChatInvariance == PeerSpec => []ChatInv
<1>1. PeerInit => ChatInv
  BY ChatInit
<1>2. TypeOK /\ MapNamesSession /\ ChatInv /\ [PeerNext]_allVars => ChatInv'
  BY ChatNextTyped
<1>3. TypeInv => TypeOK
  BY DEF TypeInv
<1>. QED
  BY <1>1, <1>2, <1>3, PeerImplementsPresence, TypeCorrect, MapNamesSessionHolds, PTL DEF PeerSpec

\* Every variable of chat and presence keeps its type.
THEOREM PeerTypeCorrect == PeerSpec => []PeerTypeOK
<1>. DEFINE Serves == subscribed \subseteq running
<1>1. ChatInv /\ TypeInv /\ Serves => PeerTypeOK
  BY DEF ChatInv, ChatTyped, TypeInv, PeerTypeOK
<1>2. PeerInit => Serves
  BY DEF PeerInit
<1>3. Serves /\ [PeerNext]_allVars => Serves'
  <2>. SUFFICES ASSUME Serves, [PeerNext]_allVars PROVE Serves'
    OBVIOUS
  <2>1. CASE PresenceStep
    BY <2>1 DEF PresenceStep
  <2>2. CASE ChatStep
    BY <2>2
    DEF ChatStep, SendLocal, SendRemote, AskUnread, ChatContinue, GetOnline, PublishPeerMsg,
        PushUnread, TrimUnread, DelUnread, AnswerUnread, Subscribe, Consume, Deliver, Drop, vars
  <2>3. CASE UNCHANGED allVars
    BY <2>3 DEF allVars, peerVars, vars
  <2>. QED
    BY <2>1, <2>2, <2>3 DEF PeerNext
<1>. HIDE DEF Serves
<1>4. PeerSpec => []Serves
  BY <1>2, <1>3, PTL DEF PeerSpec
<1>. QED
  BY <1>1, <1>4, ChatInvariance, PeerImplementsPresence, TypeCorrect, PTL

\* A message is handed to connections of its addressee only, on whichever way it
\* comes: straight, over a channel that a stale key led to, or from the unread list.
THEOREM OnlyAddresseeHolds == PeerSpec => []OnlyAddressee
<1>1. ChatInv => OnlyAddressee
  <2>. SUFFICES ASSUME ChatInv, NEW c \in Conn, NEW i \in DOMAIN inbox[c]
                PROVE  inbox[c][i].to = ClientOf[c]
    BY DEF OnlyAddressee
  <2>1. inbox[c] \in Seq(Message)
    BY DEF ChatInv, ChatTyped
  <2>2. i \in 1..Len(inbox[c])
    BY <2>1
  <2>. QED
    BY <2>2 DEF ChatInv, Addressed, AllTo
<1>. QED
  BY <1>1, ChatInvariance, PTL

-----------------------------------------------------------------------------
(* The length of an unread list.  A handler that has pushed and not trimmed yet
   is counted, so it must not vanish: as long as no server dies, a process ends
   in a handler of presence, never in one of chat.                           *)

Trimming(u) == {s \in Server : chat[s].op = "trim" /\ chat[s].msg.to = u}

BusyRuns == \A s \in Server : chat[s] # NoChat => s \in running

BoundInv == UnreadBound /\ BusyRuns

\* As long as no server dies, a step of presence ends no server that is in a
\* handler of chat.
LEMMA PresenceStepExits ==
  ASSUME PresenceStep, BusyRuns, crashed' = {}
  PROVE  /\ crashed = {}
         /\ \A s \in Server : chat[s] # NoChat => s \in running'
<1>1. CASE Environment
  BY <1>1
  DEF Environment, LoginRecorded, LoginForgotten, HangUp, Crash, Die, Exit, Restart, BusyRuns
<1>2. ASSUME NEW t \in Server, Begin(t) PROVE UNCHANGED <<running, crashed>>
  BY <1>2
  DEF Begin, Accept, StopSession, ShakeUnknown, ShakeKnown, Shutdown, BeginStopAll
<1>3. ASSUME NEW t \in Server, Shake(t) PROVE UNCHANGED <<running, crashed>>
  BY <1>3
  DEF Shake, ShakeAlreadyOnline, ShakeRegister, ShakeSet, ShakeSadd, ShakeReply
<1>4. ASSUME NEW t \in Server, Stop(t)
      PROVE  crashed = {} /\ (running' = running \/ running' = running \ {t})
  BY <1>4
  DEF Stop, StopDel, StopErase, StopEraseEnd, StopEraseThrow, BeginStopAll, Srem, StopAllDel,
      StopAllDone, Die, Exit
<1>. QED
  BY <1>1, <1>2, <1>3, <1>4 DEF PresenceStep, Continue, BusyRuns

\* A chat handler that neither begins nor ends to trim.
LEMMA SameTrimming ==
  ASSUME chat \in [Server -> ChatState], NEW s \in Server, NEW st,
         chat' = [chat EXCEPT ![s] = st], chat[s].op # "trim", st.op # "trim"
  PROVE  \A u : Trimming(u)' = Trimming(u)
  BY DEF Trimming

\* With finitely many servers, those about to trim a list can be counted.
LEMMA TrimmingFinite ==
  ASSUME IsFiniteSet(Server), NEW u
  PROVE  IsFiniteSet(Trimming(u)) /\ Cardinality(Trimming(u)) \in Nat
<1>1. Trimming(u) \in SUBSET Server
  BY DEF Trimming
<1>. QED
  BY <1>1, FS_Subset, FS_CardinalityType

\* What BoundInv asks of a chat step.
LEMMA BoundSuffices ==
  ASSUME IsFiniteSet(Server), BoundInv, UNCHANGED vars,
         \A s \in Server : chat'[s] # NoChat => chat[s] # NoChat \/ s \in running,
         crashed = {} => \A u \in User :
           \/ unread'[u] = unread[u] /\ Trimming(u)' = Trimming(u)
           \/ Len(unread'[u]) <= Keep + 1 + Cardinality(Trimming(u)')
  PROVE  BoundInv'
  BY DEF BoundInv, UnreadBound, BusyRuns, Trimming, vars

\* Every handler of chat preserves BoundInv.
LEMMA BoundStep ==
  ASSUME IsFiniteSet(Server), ChatInv, BoundInv, ChatStep
  PROVE  BoundInv'
<1>. USE PeerAssumption, NoChatTyped DEF ChatInv
<1>0. UNCHANGED vars
  BY DEF ChatStep, SendLocal, SendRemote, AskUnread, ChatContinue, GetOnline, PublishPeerMsg,
      PushUnread, TrimUnread, DelUnread, AnswerUnread, Subscribe, Consume, Deliver, Drop
<1>. DEFINE Same == \A u \in User : unread'[u] = unread[u] /\ Trimming(u)' = Trimming(u)
            Runs == \A s \in Server : chat'[s] # NoChat => chat[s] # NoChat \/ s \in running
            Within(u) ==
              \/ unread'[u] = unread[u] /\ Trimming(u)' = Trimming(u)
              \/ Len(unread'[u]) <= Keep + 1 + Cardinality(Trimming(u)')
<1>11. Runs /\ (crashed = {} => \A u \in User : Within(u)) => BoundInv'
  BY <1>0, BoundSuffices
<1>12. Same => \A u \in User : Within(u)
  OBVIOUS
<1>1. ASSUME NEW s \in Server, NEW c \in Conn, NEW u \in User, SendLocal(s, c, u)
      PROVE  Same /\ Runs
  BY <1>1 DEF SendLocal, Trimming
<1>2. ASSUME NEW s \in Server, NEW c \in Conn, NEW u \in User, SendRemote(s, c, u)
      PROVE  Same /\ Runs
  <2>. DEFINE st == PeerStage("get", NewMessage(c, u, None), None)
  <2>1. /\ chat' = [chat EXCEPT ![s] = st] /\ st.op = "get" /\ unread' = unread
        /\ chat[s] = NoChat /\ s \in running
    BY <1>2 DEF SendRemote, CanSend, Free, IoIdle, PeerStage
  <2>. HIDE DEF st
  <2>. QED
    BY <2>1, SameTrimming DEF ChatTyped
<1>3. ASSUME NEW s \in Server, NEW c \in Conn, AskUnread(s, c) PROVE Same /\ Runs
  <2>. DEFINE st == UnreadStage("del", c, unread[ClientOf[c]])
  <2>1. /\ chat' = [chat EXCEPT ![s] = st] /\ st.op = "del" /\ unread' = unread
        /\ chat[s] = NoChat /\ s \in running
    BY <1>3 DEF AskUnread, Free, IoIdle, UnreadStage
  <2>. HIDE DEF st
  <2>. QED
    BY <2>1, SameTrimming DEF ChatTyped
<1>4. ASSUME NEW s \in Server, GetOnline(s) PROVE Same /\ Runs
  <2>1. PICK m, t : m = chat[s].msg /\ t = online[m.to]
    OBVIOUS
  <2>. DEFINE st == IF t = None THEN PeerStage("push", m, None)
                    ELSE PeerStage("publish", Routed(m, FindUser(t, m.to)), t)
  <2>2. /\ chat' = [chat EXCEPT ![s] = st] /\ chat[s].op = "get" /\ unread' = unread
    BY <1>4, <2>1 DEF GetOnline
  <2>3. st.op \in {"push", "publish"}
    BY DEF PeerStage
  <2>. HIDE DEF st
  <2>. QED
    BY <2>2, <2>3, SameTrimming DEF ChatTyped
<1>5. ASSUME NEW s \in Server, PublishPeerMsg(s) PROVE Same /\ Runs
  BY <1>5, SameTrimming DEF PublishPeerMsg, ChatTyped
<1>6. ASSUME NEW s \in Server, AnswerUnread(s) PROVE Same /\ Runs
  BY <1>6, SameTrimming DEF AnswerUnread, ChatTyped
<1>7. ASSUME NEW s \in Server, Consume(s) PROVE Same /\ Runs
  BY <1>7 DEF Consume, Deliver, Drop, Trimming
<1>8. ASSUME NEW s \in Server, PushUnread(s) PROVE BoundInv'
  <2>0. PICK m : m = chat[s].msg
    OBVIOUS
  <2>. DEFINE list == <<m>> \o unread[m.to]
  <2>1. m \in Message /\ m.to \in User /\ unread[m.to] \in Seq(Message)
    BY <1>8, <2>0, StageTyped DEF PushUnread, Message, ChatTyped
  <2>2. Len(list) = 1 + Len(unread[m.to]) /\ Len(unread[m.to]) \in Nat
    BY <2>1, Singleton, ConcatProperties
  <2>3. unread' = [unread EXCEPT ![m.to] = list] /\ unread \in [User -> Seq(Message)]
    BY <1>8, <2>0 DEF PushUnread, ChatTyped
  <2>4. chat[s].op = "push" /\ chat \in [Server -> ChatState]
    BY <1>8 DEF PushUnread, ChatTyped
  <2>5. CASE Len(list) > Keep
    <3>. DEFINE st == PeerStage("trim", m, None)
    <3>1. chat' = [chat EXCEPT ![s] = st] /\ st.op = "trim" /\ st.msg = m
      BY <1>8, <2>0, <2>5 DEF PushUnread, PeerStage
    <3>. HIDE DEF st, list
    <3>2. Trimming(m.to)' = Trimming(m.to) \cup {s} /\ s \notin Trimming(m.to)
      BY <2>4, <3>1 DEF Trimming
    <3>3. Cardinality(Trimming(m.to)') = Cardinality(Trimming(m.to)) + 1
      BY <3>2, TrimmingFinite, FS_AddElement
    <3>4. \A u \in User \ {m.to} : unread'[u] = unread[u] /\ Trimming(u)' = Trimming(u)
      BY <2>1, <2>3, <2>4, <3>1 DEF Trimming
    <3>5. crashed = {} => Len(unread'[m.to]) <= Keep + 1 + Cardinality(Trimming(m.to)')
      <4>1. Cardinality(Trimming(m.to)) \in Nat
        BY TrimmingFinite
      <4>2. crashed = {} => Len(unread[m.to]) <= Keep + 1 + Cardinality(Trimming(m.to))
        BY <2>1 DEF BoundInv, UnreadBound, Trimming
      <4>. QED
        BY <2>1, <2>2, <2>3, <3>3, <4>1, <4>2
    <3>6. Runs
      BY <2>4, <3>1
    <3>. HIDE DEF Runs
    <3>7. crashed = {} => \A u \in User : Within(u)
      BY ONLY <2>1, <3>4, <3>5
    <3>. QED
      BY <3>6, <3>7, <1>11
  <2>6. CASE ~ (Len(list) > Keep)
    <3>1. chat' = [chat EXCEPT ![s] = NoChat]
      BY <1>8, <2>0, <2>6 DEF PushUnread
    <3>. HIDE DEF list
    <3>2. \A u : Trimming(u)' = Trimming(u)
      BY <2>4, <3>1, SameTrimming
    <3>3. \A u \in User \ {m.to} : unread'[u] = unread[u]
      BY <2>1, <2>3
    <3>4. Len(unread'[m.to]) <= Keep + 1 + Cardinality(Trimming(m.to)')
      <4>1. Cardinality(Trimming(m.to)') \in Nat
        BY <3>2, TrimmingFinite
      <4>. QED
        BY <2>1, <2>2, <2>3, <2>6, <4>1
    <3>5. Runs
      BY <2>4, <3>1
    <3>6. \A u \in User : Within(u)
      BY ONLY <2>1, <3>2, <3>3, <3>4
    <3>. HIDE DEF Runs, Within
    <3>. QED
      BY <3>5, <3>6, <1>11
  <2>. QED
    BY <2>5, <2>6
<1>9. ASSUME NEW s \in Server, TrimUnread(s) PROVE BoundInv'
  <2>0. PICK v : v = chat[s].msg.to
    OBVIOUS
  <2>1. v \in User /\ unread[v] \in Seq(Message) /\ unread \in [User -> Seq(Message)]
    BY <1>9, <2>0, StageTyped DEF TrimUnread, Message, ChatTyped
  <2>2. /\ chat' = [chat EXCEPT ![s] = NoChat] /\ chat \in [Server -> ChatState]
        /\ unread' = [unread EXCEPT ![v] = Ltrim(unread[v])]
    BY <1>9, <2>0 DEF TrimUnread, ChatTyped
  <2>3. \A u \in User \ {v} : unread'[u] = unread[u] /\ Trimming(u)' = Trimming(u)
    BY <2>0, <2>1, <2>2, <1>9 DEF Trimming
  <2>4. Len(unread'[v]) <= Keep + 1 + Cardinality(Trimming(v)')
    <3>1. Len(unread'[v]) <= Keep + 1 /\ Len(unread'[v]) \in Nat
      <4>1. Ltrim(unread[v]) \in Seq(Message) /\ Len(Ltrim(unread[v])) <= Keep + 1
        BY <2>1, LtrimKeeps
      <4>. QED
        BY <2>1, <2>2, <4>1
    <3>2. Trimming(v)' \in SUBSET Trimming(v)
      BY <2>2 DEF Trimming
    <3>3. Cardinality(Trimming(v)') \in Nat
      BY <3>2, TrimmingFinite, FS_Subset, FS_CardinalityType
    <3>. QED
      BY <3>1, <3>3
  <2>5. Runs
    BY <2>2
  <2>6. \A u \in User : Within(u)
    BY ONLY <2>1, <2>3, <2>4
  <2>. HIDE DEF Runs, Within
  <2>. QED
    BY <2>5, <2>6, <1>11
<1>10. ASSUME NEW s \in Server, DelUnread(s) PROVE BoundInv'
  <2>1. PICK st : /\ chat' = [chat EXCEPT ![s] = st] /\ st.op = "answer"
                  /\ chat[s].op = "del" /\ chat \in [Server -> ChatState]
    BY <1>10 DEF DelUnread, UnreadStage, ChatTyped
  <2>2. \A u : Trimming(u)' = Trimming(u)
    BY <2>1, SameTrimming
  <2>3. \A u \in User : unread'[u] = unread[u] \/ unread'[u] = <<>>
    BY <1>10 DEF DelUnread, ChatTyped
  <2>4. \A u \in User : unread'[u] = <<>> => Len(unread'[u]) <= Keep + 1 + Cardinality(Trimming(u)')
    BY <2>2, TrimmingFinite
  <2>5. Runs
    BY <2>1
  <2>6. \A u \in User : Within(u)
    BY ONLY <2>2, <2>3, <2>4
  <2>. HIDE DEF Runs, Within
  <2>. QED
    BY <2>5, <2>6, <1>11
<1>13. ASSUME NEW s \in Server, Subscribe(s) PROVE Same /\ Runs
  BY <1>13 DEF Subscribe, Trimming
<1>. HIDE DEF Same, Runs, Within
<1>. QED
  BY ONLY ChatStep, <1>1, <1>2, <1>3, <1>4, <1>5, <1>6, <1>7, <1>8, <1>9, <1>10, <1>11, <1>12,
          <1>13
  DEF ChatStep, ChatContinue, Contacts

\* An unread list is never longer than Keep + 1 and one for each handler that has
\* pushed and not trimmed, for any finite number of servers of which none has died.
THEOREM UnreadBoundHolds == IsFiniteSet(Server) => (PeerSpec => []UnreadBound)
<1>. SUFFICES ASSUME IsFiniteSet(Server) PROVE PeerSpec => []UnreadBound
  OBVIOUS
<1>1. PeerInit => BoundInv
  <2>. SUFFICES ASSUME PeerInit PROVE BoundInv
    OBVIOUS
  <2>1. \A u \in User : unread[u] = <<>>
    BY DEF PeerInit
  <2>2. BusyRuns
    BY DEF PeerInit, BusyRuns
  <2>3. ASSUME NEW u \in User PROVE Len(unread[u]) <= Keep + 1 + Cardinality(Trimming(u))
    <3>1. Len(unread[u]) = 0
      BY <2>1
    <3>2. Cardinality(Trimming(u)) \in Nat
      BY TrimmingFinite
    <3>. QED
      BY <3>1, <3>2, PeerAssumption
  <2>. QED
    BY <2>2, <2>3 DEF BoundInv, UnreadBound, Trimming
<1>2. ChatInv /\ BoundInv /\ [PeerNext]_allVars => BoundInv'
  <2>. SUFFICES ASSUME ChatInv, BoundInv, [PeerNext]_allVars PROVE BoundInv'
    OBVIOUS
  <2>1. CASE PresenceStep
    <3>1. BusyRuns'
      BY <2>1 DEF PresenceStep, BusyRuns
    <3>2. ASSUME crashed' = {}, NEW u \in User
          PROVE  Len(unread'[u]) <= Keep + 1 + Cardinality(Trimming(u)')
      <4>1. crashed = {} /\ \A s \in Server : chat[s] # NoChat => s \in running'
        BY <2>1, <3>2, PresenceStepExits DEF BoundInv
      <4>2. \A s \in Server : chat'[s] = chat[s]
        BY <2>1, <4>1 DEF PresenceStep
      <4>3. Trimming(u)' = Trimming(u)
        BY <4>2 DEF Trimming
      <4>4. unread' = unread
        BY <2>1 DEF PresenceStep
      <4>. QED
        BY <4>1, <4>3, <4>4 DEF BoundInv, UnreadBound, Trimming
    <3>. QED
      BY <3>1, <3>2 DEF BoundInv, UnreadBound, Trimming
  <2>2. CASE ChatStep
    BY <2>2, BoundStep
  <2>3. CASE UNCHANGED allVars
    BY <2>3 DEF allVars, peerVars, vars, BoundInv, UnreadBound, BusyRuns
  <2>. QED
    BY <2>1, <2>2, <2>3 DEF PeerNext
<1>3. BoundInv => UnreadBound
  BY DEF BoundInv
<1>. QED
  BY <1>1, <1>2, <1>3, ChatInvariance, PTL DEF PeerSpec

-----------------------------------------------------------------------------
(* What a step of presence does to sessions, and what holds of them beyond IInv: a
   session is in the map of one server, and one that is there and not in m_sessionSet
   is closed.                                                                *)

SessionStep ==
  /\ \A c \in Conn :
       /\ phase[c] # "unused" => phase'[c] # "unused"
       /\ phase[c] \notin {"unused", "open"} => phase'[c] \notin {"unused", "open"}
       /\ phase[c] = "closed" => phase'[c] = "closed"
       /\ phase'[c] = "ready" => phase[c] = "ready" \/ m_userId[c] = ClientOf[c]
       /\ m_userId'[c] = m_userId[c] \/ (m_userId[c] = None /\ m_userId'[c] = ClientOf[c])
  /\ \A s \in Server, c \in Conn :
       /\ c \in m_sessionSet'[s] => c \in m_sessionSet[s] \/ phase[c] = "unused"
       /\ c \in m_sessionSet[s] => c \in m_sessionSet'[s] \/ phase'[c] = "closed"
  /\ \A s \in Server, u \in User :
       \/ m_SessionMap'[s][u] = m_SessionMap[s][u]
       \/ /\ m_SessionMap'[s][u] = None
          /\ \/ phase'[m_SessionMap[s][u]] = "closed"
             \/ io[s].op = "erase" /\ io[s].user = u
       \/ \E c \in m_sessionSet'[s] :
            /\ m_SessionMap'[s][u] = c /\ c \in Conn
            /\ m_userId[c] = None /\ m_userId'[c] = u /\ phase[c] = "open"
  /\ \A s \in Server : io'[s].op \in {"del", "erase"} =>
       /\ m_SessionMap'[s] = m_SessionMap[s]
       /\ \/ io[s].op \in {"del", "erase"} /\ io'[s].conn = io[s].conn /\ io'[s].user = io[s].user
          \/ /\ io[s].op = "idle" /\ io'[s].conn \in m_sessionSet[s]
             /\ io'[s].user = m_userId[io'[s].conn] /\ io'[s].user # Nobody
  /\ crashed \subseteq crashed'

Mapped ==
  /\ \A c \in Conn : /\ m_userId[c] # None => m_userId[c] = ClientOf[c]
                     /\ phase[c] = "ready" => m_userId[c] = ClientOf[c]
  /\ \A s \in Server, u \in User : m_SessionMap[s][u] # None =>
       m_SessionMap[s][u] \in m_sessionSet[s] \/ phase[m_SessionMap[s][u]] = "closed"
  /\ \A s, t \in Server, u, v \in User :
       m_SessionMap[s][u] # None /\ m_SessionMap[s][u] = m_SessionMap[t][v] => s = t

LEMMA SessionSteps == IInv /\ Mapped /\ [Next]_vars => SessionStep
<1>. SUFFICES ASSUME IInv, Mapped, [Next]_vars PROVE SessionStep
  OBVIOUS
<1>. USE PresenceAssumption
     DEF SessionStep, IInv, TypeInv, TypeOK, HandlerNamed, IoState, Idle, NoSessions, IoIdle,
         SessionsOK, HandlerOK, ShakeOK, StopOK, Handling, At, StoppingAll, Stage, Phase
<1>1. ASSUME NEW u \in User, LoginRecorded(u) \/ LoginForgotten(u) PROVE SessionStep
  BY <1>1 DEF LoginRecorded, LoginForgotten, sessionVars
<1>2. ASSUME NEW c \in Conn, HangUp(c) PROVE SessionStep
  BY <1>2 DEF HangUp, redisVars, sessionVars
<1>3. ASSUME NEW s \in Server, Die(s) PROVE SessionStep
  BY <1>3 DEF Die, Exit, Close, Served, redisVars, Mapped
<1>4. ASSUME NEW s \in Server, Restart(s) PROVE SessionStep
  BY <1>4 DEF Restart, redisVars, sessionVars
<1>5. ASSUME NEW s \in Server, NEW c \in Conn, Accept(s, c) PROVE SessionStep
  BY <1>5 DEF Accept, Start, redisVars
<1>6. ASSUME NEW s \in Server, NEW c \in Conn, ShakeUnknown(s, c) PROVE SessionStep
  BY <1>6 DEF ShakeUnknown, CanShake, redisVars
<1>7. ASSUME NEW s \in Server, NEW c \in Conn, ShakeKnown(s, c) PROVE SessionStep
  BY <1>7 DEF ShakeKnown, CanShake, redisVars, sessionVars
<1>8. ASSUME NEW s \in Server, ShakeAlreadyOnline(s) PROVE SessionStep
  BY <1>8 DEF ShakeAlreadyOnline, redisVars
<1>9. ASSUME NEW s \in Server, ShakeRegister(s) PROVE SessionStep
  BY <1>9 DEF ShakeRegister, UserIdMap, redisVars
<1>10. ASSUME NEW s \in Server, ShakeSet(s) PROVE SessionStep
  BY <1>10 DEF ShakeSet, SetOnline, sessionVars
<1>11. ASSUME NEW s \in Server, NEW g \in Group, ShakeSadd(s, g) PROVE SessionStep
  BY <1>11 DEF ShakeSadd, sessionVars
<1>12. ASSUME NEW s \in Server, ShakeReply(s) PROVE SessionStep
  BY <1>12 DEF ShakeReply, redisVars
<1>13. ASSUME NEW s \in Server, NEW c \in Conn, StopSession(s, c) PROVE SessionStep
  BY <1>13 DEF StopSession, ReadError, Close, redisVars
<1>14. ASSUME NEW s \in Server, StopDel(s) PROVE SessionStep
  BY <1>14 DEF StopDel, DelOnline, sessionVars
<1>15. ASSUME NEW s \in Server, StopErase(s) PROVE SessionStep
  BY <1>15 DEF StopErase, EraseEntry, redisVars
<1>16. ASSUME NEW s \in Server, BeginStopAll(s) PROVE SessionStep
  BY <1>16 DEF BeginStopAll, Close, redisVars
<1>17. ASSUME NEW s \in Server, NEW u \in User, StopAllDel(s, u) PROVE SessionStep
  BY <1>17 DEF StopAllDel, DelOnline, sessionVars
<1>18. ASSUME NEW s \in Server, NEW g \in Group, Srem(s, g) PROVE SessionStep
  BY <1>18 DEF Srem, sessionVars
<1>19. ASSUME NEW s \in Server, StopAllDone(s) PROVE SessionStep
  BY <1>19 DEF StopAllDone, Exit, redisVars, Mapped
<1>20. CASE UNCHANGED vars
  BY <1>20 DEF vars, redisVars, sessionVars
<1>21. ASSUME Environment PROVE SessionStep
  BY ONLY <1>1, <1>2, <1>3, <1>4, <1>21 DEF Environment, Crash
<1>22. ASSUME NEW s \in Server, Begin(s) PROVE SessionStep
  BY ONLY <1>5, <1>6, <1>7, <1>13, <1>16, <1>22 DEF Begin, Shutdown
<1>23. ASSUME NEW s \in Server, Shake(s) PROVE SessionStep
  BY ONLY <1>8, <1>9, <1>10, <1>11, <1>12, <1>23 DEF Shake
<1>24. ASSUME NEW s \in Server, Stop(s) PROVE SessionStep
  BY ONLY <1>3, <1>14, <1>15, <1>16, <1>17, <1>18, <1>19, <1>24
  DEF Stop, StopEraseEnd, StopEraseThrow
<1>. QED
  BY ONLY [Next]_vars, <1>20, <1>21, <1>22, <1>23, <1>24 DEF Next, Continue

LEMMA MappedInit == Init => Mapped
  BY PresenceAssumption DEF Init, Mapped, NoSessions

LEMMA MappedHolds == IInv /\ Mapped /\ [Next]_vars => Mapped'
<1>. SUFFICES ASSUME IInv, Mapped, [Next]_vars PROVE Mapped'
  OBVIOUS
<1>1. SessionStep /\ IInv'
  BY SessionSteps, NextIInv
<1>2. /\ m_SessionMap \in [Server -> [User -> Conn \cup {None}]] /\ None \notin Conn \cup User
      /\ \A c \in Conn : ClientOf[c] \in User /\ m_userId[c] \in User \cup {None}
      /\ \A s \in Server, u \in User :
           m_SessionMap[s][u] # None => m_userId[m_SessionMap[s][u]] # None
  BY PresenceAssumption DEF IInv, TypeInv, TypeOK, MapNamesSession
<1>3. \A c \in Conn : /\ m_userId'[c] # None => m_userId'[c] = ClientOf[c]
                      /\ phase'[c] = "ready" => m_userId'[c] = ClientOf[c]
  BY <1>1, <1>2 DEF SessionStep, Mapped
<1>4. ASSUME NEW s \in Server, NEW u \in User, m_SessionMap'[s][u] # None
      PROVE  m_SessionMap'[s][u] \in m_sessionSet'[s] \/ phase'[m_SessionMap'[s][u]] = "closed"
  <2>1. CASE m_SessionMap'[s][u] = m_SessionMap[s][u]
    <3>1. PICK c \in Conn : c = m_SessionMap[s][u]
      BY <1>2, <1>4, <2>1
    <3>2. c \in m_sessionSet[s] \/ phase[c] = "closed"
      BY <1>4, <2>1, <3>1 DEF Mapped
    <3>. QED
      BY <1>1, <2>1, <3>1, <3>2 DEF SessionStep
  <2>2. CASE m_SessionMap'[s][u] # m_SessionMap[s][u]
    BY <1>1, <1>4, <2>2 DEF SessionStep
  <2>. QED
    BY <2>1, <2>2
<1>5. ASSUME NEW s \in Server, NEW t \in Server, NEW u \in User, NEW v \in User,
             m_SessionMap'[s][u] # None, m_SessionMap'[s][u] = m_SessionMap'[t][v]
      PROVE  s = t
  <2>1. ASSUME NEW r \in Server, NEW w \in User, m_SessionMap'[r][w] # None
        PROVE  \/ m_SessionMap'[r][w] = m_SessionMap[r][w]
               \/ \E c \in m_sessionSet'[r] : /\ m_SessionMap'[r][w] = c /\ m_userId[c] = None
                                              /\ phase[c] = "open"
    BY <1>1, <2>1 DEF SessionStep
  <2>2. CASE m_SessionMap'[s][u] = m_SessionMap[s][u] /\ m_SessionMap'[t][v] = m_SessionMap[t][v]
    <3>1. m_SessionMap[s][u] # None /\ m_SessionMap[s][u] = m_SessionMap[t][v]
      BY <1>5, <2>2
    <3>. QED
      BY <3>1 DEF Mapped
  <2>3. CASE m_SessionMap'[s][u] \in m_sessionSet'[s] /\ m_SessionMap'[t][v] \in m_sessionSet'[t]
    BY <1>1, <1>5, <2>3 DEF IInv, SessionsOK
  <2>. QED
    BY <1>2, <1>5, <2>1, <2>2, <2>3
<1>. QED
  BY <1>3, <1>4, <1>5 DEF Mapped


-----------------------------------------------------------------------------
(* The steps of chat, one predicate for each, with what they act on as parameters. *)

\* A message of chat handler s that is on its way, and a list it has read.
Hand(s) == chat[s].op \in {"get", "publish", "push"}
Reads(s) == chat[s].op \in {"del", "answer"}

\* What is so while the io thread of s is in a chat handler: nothing of its sessions changes.
BusyOK ==
  \A s \in Server : chat[s] # NoChat =>
    /\ s \in running
    /\ Hand(s) => chat[s].msg.from \in m_sessionSet[s]
    /\ Reads(s) => chat[s].conn \in m_sessionSet[s] /\ Answered(chat[s].conn)
    /\ chat[s].op = "get" => m_SessionMap[s][chat[s].msg.to] = None
    /\ chat[s].op = "publish" /\ chat[s].msg.via # None => chat[s].target # s

Numbers(s, m) ==
  /\ chat[s] = NoChat /\ s \in running /\ m \in Message /\ m.id = Len(sent) + 1 /\ m.to \in User
  /\ m.from \in m_sessionSet[s] /\ sent' = Append(sent, m.to)

SendsHere(s, m, d) ==
  /\ Numbers(s, m) /\ d \in Conn /\ d = m_SessionMap[s][m.to] /\ m.via = d /\ d \in m_sessionSet[s]
  /\ inbox' = [inbox EXCEPT ![d] = @ \o <<m>>] /\ UNCHANGED <<chat, channel, unread>>

SendsAway(s, m) ==
  /\ Numbers(s, m) /\ m.via = None /\ m_SessionMap[s][m.to] = None
  /\ chat' = [chat EXCEPT ![s] = PeerStage("get", m, None)] /\ UNCHANGED <<channel, unread, inbox>>

Finds(s, m, n, t) ==
  /\ chat[s].op = "get" /\ chat[s].msg = m /\ t \in Server /\ online[m.to] = t
  /\ n \in Message /\ n.id = m.id /\ n.from = m.from /\ n.to = m.to /\ n.via = m_SessionMap[t][m.to]
  /\ chat' = [chat EXCEPT ![s] = PeerStage("publish", n, t)]
  /\ UNCHANGED <<channel, unread, inbox, sent>>

Misses(s, m) ==
  /\ chat[s].op = "get" /\ chat[s].msg = m
  /\ chat' = [chat EXCEPT ![s] = PeerStage("push", m, None)]
  /\ UNCHANGED <<channel, unread, inbox, sent>>

Publishes(s, m, t) ==
  /\ chat[s].op = "publish" /\ chat[s].msg = m /\ chat[s].target = t /\ t \in Server
  /\ chat' = [chat EXCEPT ![s] = NoChat] /\ channel' = [channel EXCEPT ![t] = Append(@, m)]
  /\ UNCHANGED <<unread, inbox, sent>>

Gives(s) ==
  /\ chat[s].op \in {"publish", "trim"} /\ chat' = [chat EXCEPT ![s] = NoChat]
  /\ chat[s].op = "publish" => chat[s].target \notin subscribed
  /\ \A u \in User : \/ unread'[u] = unread[u]
                     \/ /\ unread'[u] = Ltrim(unread[u])
                        /\ chat[s].op = "trim" /\ chat[s].msg.to = u
  /\ UNCHANGED <<channel, inbox, sent>>

Pushes(s, m) ==
  /\ chat[s].op = "push" /\ chat[s].msg = m
  /\ \E st \in {NoChat, PeerStage("trim", m, None)} : chat' = [chat EXCEPT ![s] = st]
  /\ unread' = [unread EXCEPT ![m.to] = <<m>> \o @]
  /\ UNCHANGED <<channel, inbox, sent>>

Asks(s, c) ==
  /\ chat[s] = NoChat /\ s \in running /\ c \in m_sessionSet[s] /\ Answered(c)
  /\ chat' = [chat EXCEPT ![s] = UnreadStage("del", c, unread[ClientOf[c]])]
  /\ UNCHANGED <<channel, unread, inbox, sent>>

Deletes(s, c, ms) ==
  /\ chat[s].op = "del" /\ chat[s].conn = c /\ chat[s].list = ms
  /\ chat' = [chat EXCEPT ![s] = UnreadStage("answer", c, ms)]
  /\ unread' = [unread EXCEPT ![ClientOf[c]] = <<>>]
  /\ UNCHANGED <<channel, inbox, sent>>

Answers(s, c, ms) ==
  /\ chat[s].op = "answer" /\ chat[s].conn = c /\ chat[s].list = ms
  /\ chat' = [chat EXCEPT ![s] = NoChat] /\ inbox' = [inbox EXCEPT ![c] = @ \o ms]
  /\ UNCHANGED <<channel, unread, sent>>

Takes(s, m, d) ==
  /\ channel[s] # <<>> /\ m = Head(channel[s]) /\ d = m_SessionMap[s][m.to]
  /\ channel' = [channel EXCEPT ![s] = Tail(@)] /\ inbox' = [inbox EXCEPT ![d] = @ \o <<m>>]
  /\ UNCHANGED <<chat, unread, sent>>

Drops(s) ==
  /\ channel[s] # <<>> /\ channel' = [channel EXCEPT ![s] = Tail(@)]
  /\ \E d \in Conn \cup {None} :
       d = m_SessionMap[s][Head(channel[s]).to] /\ (d # None => phase[d] = "closed")
  /\ UNCHANGED <<chat, unread, inbox, sent>>

ChatSteps ==
  \/ \E s \in Server, m \in Message, d \in Conn : SendsHere(s, m, d)
  \/ \E s \in Server, m \in Message : SendsAway(s, m)
  \/ \E s, t \in Server, m, n \in Message : Finds(s, m, n, t)
  \/ \E s \in Server, m \in Message : Misses(s, m)
  \/ \E s, t \in Server, m \in Message : Publishes(s, m, t)
  \/ \E s \in Server : Gives(s)
  \/ \E s \in Server, m \in Message : Pushes(s, m)
  \/ \E s \in Server, c \in Conn : Asks(s, c)
  \/ \E s \in Server, c \in Conn, ms \in Seq(Message) : Deletes(s, c, ms)
  \/ \E s \in Server, c \in Conn, ms \in Seq(Message) : Answers(s, c, ms)
  \/ \E s \in Server, m \in Message, d \in Conn : Takes(s, m, d)
  \/ \E s \in Server : Drops(s)

\* Nothing but who has subscribed, or asked, changes.
Still == UNCHANGED <<vars, chat, channel, unread, inbox, sent, doubled>>

LEMMA ChatStepsAre ==
  ASSUME IInv, ChatInv, BusyOK, ChatStep
  PROVE  (ChatSteps /\ UNCHANGED <<vars, doubled>>) \/ Still
<1>. USE NoChatTyped, PresenceAssumption DEF ChatSteps
<1>1. TypeOK /\ MapNamesSession /\ SessionsOK /\ ChatTyped
  BY DEF IInv, TypeInv, ChatInv
<1>0. UNCHANGED <<vars, doubled>>
  BY DEF ChatStep, SendLocal, SendRemote, AskUnread, ChatContinue, GetOnline, PublishPeerMsg,
      PushUnread, TrimUnread, DelUnread, AnswerUnread, Subscribe, Consume, Deliver, Drop
<1>2. ASSUME NEW s \in Server, NEW c \in Conn, NEW u \in User \ {Nobody}, SendLocal(s, c, u)
      PROVE  ChatSteps
  <2>1. PICK d, m : d = FindUser(s, u) /\ m = NewMessage(c, u, d)
    OBVIOUS
  <2>2. d \in Conn /\ ClientOf[d] = u
    BY <1>1, <1>2, <2>1, FindUserFinds DEF SendLocal
  <2>3. m \in Message /\ m.to = u /\ m.id = Len(sent) + 1 /\ m.from = c /\ m.via = d
    <3>1. m \in Message
      BY <1>1, <1>2, <2>1, <2>2, NewMessageTyped DEF SendLocal, CanSend
    <3>. QED
      BY <2>1, <3>1 DEF NewMessage
  <2>4. io[s] = Idle /\ s \in running /\ chat[s] = NoChat /\ c \in m_sessionSet[s]
    BY <1>2 DEF SendLocal, CanSend, Free, IoIdle
  <2>5. d \in m_sessionSet[s]
    BY <1>1, <2>1, <2>2, <2>4 DEF MapNamesSession, FindUser, Idle, Handling
  <2>6. phase[d] # "closed"
    BY <1>1, <2>5 DEF SessionsOK
  <2>7. inbox' = [inbox EXCEPT ![d] = @ \o <<m>>] /\ sent' = Append(sent, u) /\ UNCHANGED <<chat, channel, unread>>
    BY <1>2, <2>1, <2>6 DEF SendLocal, Send
  <2>8. SendsHere(s, m, d)
    BY <2>1, <2>2, <2>3, <2>4, <2>5, <2>7 DEF SendsHere, Numbers, FindUser
  <2>. QED
    BY <2>2, <2>3, <2>8
<1>3. ASSUME NEW s \in Server, NEW c \in Conn, NEW u \in User, SendRemote(s, c, u)
      PROVE  ChatSteps
  <2>1. PICK m : m = NewMessage(c, u, None)
    OBVIOUS
  <2>2. m \in Message /\ m.to = u /\ m.id = Len(sent) + 1 /\ m.from = c /\ m.via = None
    <3>1. m \in Message
      BY <1>1, <1>3, <2>1, NewMessageTyped DEF SendRemote, CanSend
    <3>. QED
      BY <2>1, <3>1 DEF NewMessage
  <2>3. SendsAway(s, m)
    BY <1>3, <2>1, <2>2 DEF SendRemote, CanSend, Free, IoIdle, SendsAway, Numbers, FindUser
  <2>. QED
    BY <2>2, <2>3
<1>4. ASSUME NEW s \in Server, NEW c \in Conn, AskUnread(s, c) PROVE ChatSteps
  <2>1. Asks(s, c)
    BY <1>4 DEF AskUnread, Asks, Free, IoIdle
  <2>. QED
    BY <2>1
<1>5. ASSUME NEW s \in Server, GetOnline(s) PROVE ChatSteps
  <2>1. PICK m, t : m = chat[s].msg /\ t = online[m.to]
    OBVIOUS
  <2>2. m \in Message /\ m.to \in User /\ chat[s].op = "get"
    BY <1>1, <1>5, <2>1, StageTyped DEF GetOnline, Message
  <2>3. CASE t = None
    <3>1. Misses(s, m)
      BY <1>5, <2>1, <2>2, <2>3 DEF GetOnline, Misses
    <3>. QED
      BY <2>2, <3>1
  <2>4. CASE t # None
    <3>1. t \in Server
      BY <1>1, <2>1, <2>2, <2>4 DEF TypeOK
    <3>2. PICK n : n = Routed(m, FindUser(t, m.to))
      OBVIOUS
    <3>3. FindUser(t, m.to) \in Conn \cup {None}
      BY <1>1, <2>2, <3>1, FindUserFinds
    <3>4. n \in Message /\ n.id = m.id /\ n.from = m.from /\ n.to = m.to /\ n.via = m_SessionMap[t][m.to]
      BY <2>2, <3>2, <3>3 DEF Routed, Message, FindUser
    <3>5. Finds(s, m, n, t)
      BY <1>5, <2>1, <2>2, <2>4, <3>1, <3>2, <3>4 DEF GetOnline, Finds
    <3>. QED
      BY <2>2, <3>1, <3>4, <3>5
  <2>. QED
    BY <2>3, <2>4
<1>6. ASSUME NEW s \in Server, PublishPeerMsg(s) PROVE ChatSteps
  <2>1. PICK m, t : m = chat[s].msg /\ t = chat[s].target
    OBVIOUS
  <2>2. m \in Message /\ chat[s].op = "publish" /\ subscribed \subseteq Server
    BY <1>1, <1>6, <2>1, StageTyped DEF PublishPeerMsg, ChatTyped
  <2>3. CASE t \in subscribed
    <3>1. Publishes(s, m, t) /\ t \in Server
      BY <1>6, <2>1, <2>2, <2>3 DEF PublishPeerMsg, Publish, Publishes
    <3>. QED
      BY <2>2, <3>1
  <2>4. CASE t \notin subscribed
    <3>1. Gives(s)
      BY <1>6, <2>1, <2>2, <2>4 DEF PublishPeerMsg, Publish, Gives
    <3>. QED
      BY <3>1
  <2>. QED
    BY <2>3, <2>4
<1>7. ASSUME NEW s \in Server, PushUnread(s) PROVE ChatSteps
  <2>1. PICK m : m = chat[s].msg
    OBVIOUS
  <2>2. m \in Message
    BY <1>1, <1>7, <2>1, StageTyped DEF PushUnread
  <2>3. Pushes(s, m)
    BY <1>7, <2>1 DEF PushUnread, Pushes
  <2>. QED
    BY <2>2, <2>3
<1>8. ASSUME NEW s \in Server, TrimUnread(s) PROVE ChatSteps
  <2>1. chat[s].msg.to \in User
    BY <1>1, <1>8, StageTyped DEF TrimUnread, Message
  <2>2. Gives(s)
    BY <1>1, <1>8, <2>1 DEF TrimUnread, Gives, ChatTyped
  <2>. QED
    BY <2>2
<1>9. ASSUME NEW s \in Server, DelUnread(s) PROVE ChatSteps
  <2>1. PICK c, ms : c = chat[s].conn /\ ms = chat[s].list
    OBVIOUS
  <2>2. c \in Conn /\ ms \in Seq(Message)
    BY <1>1, <1>9, <2>1, StageTyped DEF DelUnread
  <2>3. Deletes(s, c, ms)
    BY <1>1, <1>9, <2>1, <2>2 DEF DelUnread, Deletes, ChatTyped
  <2>. QED
    BY <2>2, <2>3
<1>10. ASSUME NEW s \in Server, AnswerUnread(s) PROVE ChatSteps
  <2>1. PICK c, ms : c = chat[s].conn /\ ms = chat[s].list
    OBVIOUS
  <2>2. c \in Conn /\ ms \in Seq(Message)
    BY <1>1, <1>10, <2>1, StageTyped DEF AnswerUnread
  <2>3. chat[s] # NoChat /\ Reads(s)
    BY <1>10 DEF AnswerUnread, Reads
  <2>4. phase[c] # "closed"
    BY <2>1, <2>3 DEF BusyOK, Answered
  <2>5. Answers(s, c, ms)
    BY <1>10, <2>1, <2>4 DEF AnswerUnread, Answers, Send
  <2>. QED
    BY <2>2, <2>5
<1>11. ASSUME NEW s \in Server, Consume(s) PROVE ChatSteps
  <2>1. channel[s] # <<>> /\ channel[s] \in Seq(Message)
    BY <1>1, <1>11 DEF Consume, Deliver, Drop, CanConsume, ChatTyped
  <2>2. PICK m : m = Head(channel[s])
    OBVIOUS
  <2>3. m \in Message /\ m.to \in User
    <3>1. m \in Message
      BY <2>1, <2>2, HeadTailProperties
    <3>. QED
      BY <3>1 DEF Message
  <2>4. PICK d : d = FindUser(s, m.to)
    OBVIOUS
  <2>5. CASE Deliver(s) /\ phase[d] # "closed"
    <3>1. d \in Conn
      BY <1>1, <2>2, <2>3, <2>4, <2>5, FindUserFinds DEF Deliver
    <3>2. Takes(s, m, d)
      BY <2>1, <2>2, <2>4, <2>5 DEF Deliver, Send, Takes, FindUser
    <3>. QED
      BY <2>3, <3>1, <3>2
  <2>6. CASE Drop(s) \/ (Deliver(s) /\ phase[d] = "closed")
    <3>1. d \in Conn \cup {None}
      BY <1>1, <2>3, <2>4, FindUserFinds
    <3>2. d # None => phase[d] = "closed"
      BY <2>2, <2>4, <2>6 DEF Drop
    <3>3. channel' = [channel EXCEPT ![s] = Tail(@)] /\ UNCHANGED <<chat, unread, inbox, sent>>
      BY <2>2, <2>4, <2>6 DEF Deliver, Drop, Send
    <3>4. Drops(s)
      BY <2>1, <2>2, <2>4, <3>1, <3>2, <3>3 DEF Drops, FindUser
    <3>. QED
      BY <3>4
  <2>. QED
    BY <1>11, <2>5, <2>6 DEF Consume
<1>12. ASSUME NEW s \in Server, Subscribe(s) PROVE Still
  BY <1>12 DEF Subscribe, Still
<1>. QED
  BY ONLY ChatStep, <1>0, <1>2, <1>3, <1>4, <1>5, <1>6, <1>7, <1>8, <1>9, <1>10, <1>11, <1>12
  DEF ChatStep, ChatContinue, Contacts

\* What a step of the servers may be.
LEMMA PeerStepsAre ==
  ASSUME IInv, ChatInv, BusyOK, [PeerNext]_allVars
  PROVE  PresenceStep \/ (ChatSteps /\ UNCHANGED <<vars, doubled>>) \/ Still
<1>1. CASE UNCHANGED allVars
  BY <1>1 DEF allVars, peerVars, Still
<1>. QED
  BY <1>1, ChatStepsAre DEF PeerNext

\* A step of presence leaves the sessions of a server in a chat handler alone, unless it dies.
LEMMA BusyServer ==
  ASSUME IInv, PresenceStep, NEW s \in Server, chat[s] # NoChat, s \in running'
  PROVE  /\ m_sessionSet'[s] = m_sessionSet[s] /\ m_SessionMap'[s] = m_SessionMap[s]
         /\ \A c \in m_sessionSet[s] : phase'[c] = phase[c] /\ m_userId'[c] = m_userId[c]
<1>. DEFINE Goal == /\ m_sessionSet'[s] = m_sessionSet[s] /\ m_SessionMap'[s] = m_SessionMap[s]
                    /\ \A c \in m_sessionSet[s] : phase'[c] = phase[c] /\ m_userId'[c] = m_userId[c]
<1>. USE PresenceAssumption
     DEF IInv, TypeInv, TypeOK, HandlerNamed, IoState, Idle, NoSessions, IoIdle,
         SessionsOK, HandlerOK, ShakeOK, StopOK, Handling, At, StoppingAll, Stage, Phase
<1>1. ASSUME NEW u \in User, LoginRecorded(u) \/ LoginForgotten(u) PROVE Goal
  BY <1>1 DEF LoginRecorded, LoginForgotten, sessionVars
<1>2. ASSUME NEW c \in Conn, HangUp(c) PROVE Goal
  BY <1>2 DEF HangUp, redisVars, sessionVars
<1>3. ASSUME NEW t \in Server, Die(t) PROVE Goal
  BY <1>3 DEF Die, Exit, Close, Served, redisVars
<1>4. ASSUME NEW t \in Server, Restart(t) PROVE Goal
  BY <1>4 DEF Restart, redisVars, sessionVars
<1>5. ASSUME NEW t \in Server \ {s}, NEW c \in Conn, Accept(t, c) PROVE Goal
  <2>1. c \notin m_sessionSet[s]
    BY <1>5 DEF Accept
  <2>2. /\ m_sessionSet' = [m_sessionSet EXCEPT ![t] = @ \cup {c}] /\ phase' = [phase EXCEPT ![c] = "open"]
        /\ m_SessionMap' = m_SessionMap /\ m_userId' = m_userId
    BY <1>5 DEF Accept, Start
  <2>. QED
    BY <1>5, <2>1, <2>2
<1>6. ASSUME NEW t \in Server \ {s}, NEW c \in Conn, ShakeUnknown(t, c) PROVE Goal
  BY <1>6 DEF ShakeUnknown, CanShake, redisVars
<1>7. ASSUME NEW t \in Server \ {s}, NEW c \in Conn, ShakeKnown(t, c) PROVE Goal
  BY <1>7 DEF ShakeKnown, CanShake, redisVars, sessionVars
<1>8. ASSUME NEW t \in Server \ {s}, ShakeAlreadyOnline(t) PROVE Goal
  BY <1>8 DEF ShakeAlreadyOnline, redisVars
<1>9. ASSUME NEW t \in Server \ {s}, ShakeRegister(t) PROVE Goal
  BY <1>9 DEF ShakeRegister, UserIdMap, redisVars
<1>10. ASSUME NEW t \in Server \ {s}, ShakeSet(t) PROVE Goal
  BY <1>10 DEF ShakeSet, SetOnline, sessionVars
<1>11. ASSUME NEW t \in Server \ {s}, NEW g \in Group, ShakeSadd(t, g) PROVE Goal
  BY <1>11 DEF ShakeSadd, sessionVars
<1>12. ASSUME NEW t \in Server \ {s}, ShakeReply(t) PROVE Goal
  BY <1>12 DEF ShakeReply, redisVars
<1>13. ASSUME NEW t \in Server \ {s}, NEW c \in Conn, StopSession(t, c) PROVE Goal
  BY <1>13 DEF StopSession, ReadError, Close, redisVars
<1>14. ASSUME NEW t \in Server \ {s}, StopDel(t) PROVE Goal
  BY <1>14 DEF StopDel, DelOnline, sessionVars
<1>15. ASSUME NEW t \in Server \ {s}, StopErase(t) PROVE Goal
  BY <1>15 DEF StopErase, EraseEntry, redisVars
<1>16. ASSUME NEW t \in Server \ {s}, BeginStopAll(t) PROVE Goal
  BY <1>16 DEF BeginStopAll, Close, redisVars
<1>17. ASSUME NEW t \in Server \ {s}, NEW u \in User, StopAllDel(t, u) PROVE Goal
  BY <1>17 DEF StopAllDel, DelOnline, sessionVars
<1>18. ASSUME NEW t \in Server \ {s}, NEW g \in Group, Srem(t, g) PROVE Goal
  BY <1>18 DEF Srem, sessionVars
<1>19. ASSUME NEW t \in Server \ {s}, StopAllDone(t) PROVE Goal
  BY <1>19 DEF StopAllDone, Exit, redisVars
<1>21. ASSUME Environment PROVE Goal
  BY ONLY <1>1, <1>2, <1>3, <1>4, <1>21 DEF Environment, Crash
<1>22. ASSUME NEW t \in Server \ {s}, Begin(t) PROVE Goal
  BY ONLY <1>5, <1>6, <1>7, <1>13, <1>16, <1>22 DEF Begin, Shutdown
<1>23. ASSUME NEW t \in Server \ {s}, Shake(t) PROVE Goal
  BY ONLY <1>8, <1>9, <1>10, <1>11, <1>12, <1>23 DEF Shake
<1>24. ASSUME NEW t \in Server \ {s}, Stop(t) PROVE Goal
  BY ONLY <1>3, <1>14, <1>15, <1>16, <1>17, <1>18, <1>19, <1>24
  DEF Stop, StopEraseEnd, StopEraseThrow
<1>. QED
  BY ONLY PresenceStep, chat[s] # NoChat, <1>21, <1>22, <1>23, <1>24 DEF PresenceStep, Continue

LEMMA BusyHolds ==
  ASSUME IInv, ChatInv, BusyOK, [PeerNext]_allVars
  PROVE  BusyOK'
<1>. USE NoChatTyped
<1>1. chat \in [Server -> ChatState]
  BY DEF ChatInv, ChatTyped
<1>2. CASE PresenceStep
  <2>1. ASSUME NEW s \in Server, chat'[s] # NoChat
        PROVE  chat'[s] = chat[s] /\ s \in running'
    BY <1>2, <2>1 DEF PresenceStep
  <2>2. ASSUME NEW s \in Server, chat'[s] # NoChat
        PROVE  /\ m_sessionSet'[s] = m_sessionSet[s] /\ m_SessionMap'[s] = m_SessionMap[s]
               /\ \A c \in m_sessionSet[s] : phase'[c] = phase[c]
    BY <1>2, <2>1, <2>2, BusyServer
  <2>. QED
    BY <2>1, <2>2 DEF BusyOK, Hand, Reads, Answered
<1>3. ASSUME ChatSteps, UNCHANGED <<vars, doubled>>
      PROVE  BusyOK'
  <2>0. UNCHANGED <<running, m_sessionSet, m_SessionMap, phase>>
    BY <1>3 DEF vars, sessionVars
  <2>1. ASSUME NEW s \in Server, NEW st, chat' = [chat EXCEPT ![s] = st],
               st # NoChat =>
                 /\ s \in running
                 /\ st.op \in {"get", "publish", "push"} => st.msg.from \in m_sessionSet[s]
                 /\ st.op \in {"del", "answer"} => st.conn \in m_sessionSet[s] /\ Answered(st.conn)
                 /\ st.op = "get" => m_SessionMap[s][st.msg.to] = None
                 /\ st.op = "publish" /\ st.msg.via # None => st.target # s
        PROVE  BusyOK'
    <3>1. \A r \in Server : chat'[r] = IF r = s THEN st ELSE chat[r]
      BY <1>1, <2>1
    <3>. QED
      BY <2>0, <2>1, <3>1 DEF BusyOK, Hand, Reads, Answered
  <2>2. ASSUME NEW s \in Server, NEW m \in Message, SendsAway(s, m) PROVE BusyOK'
    BY <2>1, <2>2 DEF SendsAway, Numbers, PeerStage
  <2>3. ASSUME NEW s \in Server, NEW t \in Server, NEW m \in Message, NEW n \in Message, Finds(s, m, n, t)
        PROVE  BusyOK'
    <3>1. PICK st : st = PeerStage("publish", n, t)
      OBVIOUS
    <3>2. st.op = "publish" /\ st.msg = n /\ st.target = t
      BY <3>1 DEF PeerStage
    <3>3. chat[s] # NoChat /\ chat' = [chat EXCEPT ![s] = st] /\ Hand(s)
      BY <2>3, <3>1 DEF Finds, Hand
    <3>4. s \in running /\ m.from \in m_sessionSet[s] /\ m_SessionMap[s][m.to] = None
      BY <2>3, <3>3 DEF BusyOK, Finds
    <3>5. n.from \in m_sessionSet[s] /\ (n.via # None => t # s)
      BY <2>3, <3>4 DEF Finds
    <3>. QED
      BY <2>1, <3>2, <3>3, <3>4, <3>5
  <2>4. ASSUME NEW s \in Server, NEW m \in Message, Misses(s, m) PROVE BusyOK'
    BY <2>1, <2>4 DEF Misses, PeerStage, BusyOK, Hand
  <2>5. ASSUME NEW s \in Server, chat' = [chat EXCEPT ![s] = NoChat] PROVE BusyOK'
    BY <2>1, <2>5
  <2>6. ASSUME NEW s \in Server, NEW m \in Message, Pushes(s, m) PROVE BusyOK'
    <3>1. PICK st \in {NoChat, PeerStage("trim", m, None)} : chat' = [chat EXCEPT ![s] = st]
      BY <2>6 DEF Pushes
    <3>2. st # NoChat => st.op = "trim"
      BY <3>1 DEF PeerStage
    <3>3. s \in running
      BY <2>6 DEF Pushes, BusyOK
    <3>. QED
      BY <2>1, <3>1, <3>2, <3>3
  <2>7. ASSUME NEW s \in Server, NEW c \in Conn, Asks(s, c) PROVE BusyOK'
    BY <2>1, <2>7 DEF Asks, UnreadStage
  <2>8. ASSUME NEW s \in Server, NEW c \in Conn, NEW ms \in Seq(Message), Deletes(s, c, ms) PROVE BusyOK'
    BY <2>1, <2>8 DEF Deletes, UnreadStage, BusyOK, Reads
  <2>9. CASE UNCHANGED chat
    BY <2>0, <2>9 DEF BusyOK, Hand, Reads, Answered
  <2>. QED
    BY <1>3, <2>2, <2>3, <2>4, <2>5, <2>6, <2>7, <2>8, <2>9
    DEF ChatSteps, SendsHere, Publishes, Gives, Answers, Takes, Drops
<1>4. CASE Still
  BY <1>4 DEF Still, vars, sessionVars, BusyOK, Hand, Reads, Answered
<1>. QED
  BY <1>2, <1>3, <1>4, PeerStepsAre


-----------------------------------------------------------------------------
(* A user with one client at a time.  Two sessions of hers at once are noted in
   doubled, and stop finds the session it is for in the map of any other.    *)

Twins == \A u \in User : \A c, d \in Clients(u) : c # d => u \in doubled

LEMMA TwoAreMore ==
  ASSUME NEW X, IsFiniteSet(X), NEW c \in X, NEW d \in X, c # d
  PROVE  Cardinality(X) > 1
<1>1. IsFiniteSet({c}) /\ Cardinality({c}) = 1
  BY FS_Singleton
<1>2. d \notin {c}
  OBVIOUS
<1>3. Cardinality({c} \cup {d}) = 2 /\ IsFiniteSet({c} \cup {d})
  BY <1>1, <1>2, FS_AddElement
<1>4. {c} \cup {d} \subseteq X
  OBVIOUS
<1>5. Cardinality({c} \cup {d}) <= Cardinality(X) /\ Cardinality(X) \in Nat
  BY <1>4, FS_Subset, FS_CardinalityType
<1>. QED
  BY <1>3, <1>5

LEMMA TwinsHold ==
  ASSUME IsFiniteSet(Conn), IInv', Twins, [PeerNext]_allVars
  PROVE  Twins'
<1>1. CASE PresenceStep
  <2>1. ASSUME NEW u \in User, NEW c \in Clients(u)', NEW d \in Clients(u)', c # d
        PROVE  u \in doubled'
    <3>1. Clients(u)' \subseteq Conn
      BY DEF Clients, IInv, TypeInv, TypeOK
    <3>2. IsFiniteSet(Clients(u)')
      BY <3>1, FS_Subset
    <3>3. Cardinality(Clients(u)') > 1
      BY <2>1, <3>2, TwoAreMore
    <3>. QED
      BY <1>1, <3>3 DEF PresenceStep
  <2>. QED
    BY <2>1 DEF Twins
<1>2. CASE UNCHANGED <<m_sessionSet, m_userId, phase, doubled>>
  BY <1>2 DEF Twins, Clients
<1>3. CASE ChatStep
  BY <1>2, <1>3
  DEF ChatStep, SendLocal, SendRemote, AskUnread, ChatContinue, GetOnline, PublishPeerMsg,
      PushUnread, TrimUnread, DelUnread, AnswerUnread, Subscribe, Consume, Deliver, Drop, vars, sessionVars
<1>. QED
  BY <1>1, <1>2, <1>3 DEF PeerNext, allVars, peerVars, vars, sessionVars

\* Two handlers that read the list of one user are for two clients of hers.
LEMMA ReadsAlone ==
  ASSUME IInv, Mapped, BusyOK, Twins, ChatInv, NEW s \in Server, NEW t \in Server, Reads(s), Reads(t),
         ClientOf[chat[s].conn] = ClientOf[chat[t].conn], ClientOf[chat[s].conn] \notin doubled
  PROVE  s = t
<1>1. chat[s].conn \in Conn /\ chat[t].conn \in Conn
  BY StageTyped DEF Reads, ChatInv
<1>2. chat[s] # NoChat /\ chat[t] # NoChat
  BY NoChatTyped DEF Reads
<1>3. /\ chat[s].conn \in m_sessionSet[s] /\ Answered(chat[s].conn)
      /\ chat[t].conn \in m_sessionSet[t] /\ Answered(chat[t].conn)
  BY <1>2 DEF BusyOK
<1>4. PICK u \in User : u = ClientOf[chat[s].conn] /\ u = ClientOf[chat[t].conn] /\ u \notin doubled
  BY <1>1, PresenceAssumption
<1>5. chat[s].conn \in Clients(u) /\ chat[t].conn \in Clients(u)
  BY <1>1, <1>3, <1>4 DEF Clients, Answered, Mapped
<1>6. chat[s].conn = chat[t].conn
  BY <1>4, <1>5 DEF Twins
<1>. QED
  BY <1>3, <1>6 DEF IInv, SessionsOK

-----------------------------------------------------------------------------
(* What is known of every message: it is numbered, its sender's connection was opened,
   and one that is, or may be, in an unread list was not routed to a session.  One that
   was routed to a session of another server comes from no session of that server. *)

Known == {m \in Message : /\ m.id \in 1..Len(sent) /\ sent[m.id] = m.to /\ phase[m.from] # "unused"
                          /\ m.via # None => ClientOf[m.via] = m.to}
Plain == {m \in Known : m.via = None}
Led(t) == {m \in Known : m.via # None => m.from \notin m_sessionSet[t]}

Contents ==
  /\ \A s \in Server : Hand(s) => chat[s].msg \in Known
  /\ \A s \in Server : chat[s].op \in {"get", "push"} => chat[s].msg \in Plain
  /\ \A s \in Server : Reads(s) => chat[s].list \in Seq(Plain)
  /\ \A s \in Server : channel[s] \in Seq(Led(s))
  /\ \A u \in User : unread[u] \in Seq(Plain)
  /\ \A c \in Conn : inbox[c] \in Seq(Known)

SentGrows == sent' = sent \/ \E u \in User : sent' = Append(sent, u)

LEMMA KnownGrows ==
  ASSUME IInv, Mapped, ChatTyped, SessionStep, SentGrows
  PROVE  Known \subseteq Known' /\ Plain \subseteq Plain' /\ \A t \in Server : Led(t) \subseteq Led(t)'
<1>1. \A i \in 1..Len(sent) : i \in 1..Len(sent') /\ sent'[i] = sent[i]
  BY AppendProperties DEF SentGrows, ChatTyped
<1>2. \A m \in Message : m.from \in Conn
  BY DEF Message
<1>3. Known \subseteq Known'
  BY <1>1, <1>2 DEF Known, SessionStep
<1>4. \A t \in Server : Led(t) \subseteq Led(t)'
  <2>1. ASSUME NEW t \in Server, NEW m \in Led(t), m.via # None PROVE m.from \notin m_sessionSet'[t]
    <3>1. m \in Message /\ phase[m.from] # "unused" /\ m.from \notin m_sessionSet[t]
      BY <2>1 DEF Led, Known
    <3>. QED
      BY <1>2, <3>1 DEF SessionStep
  <2>. QED
    BY <1>3, <2>1 DEF Led
<1>. QED
  BY <1>3, <1>4 DEF Plain

\* The message that is sent next.
LEMMA KnowsNew ==
  ASSUME IInv, ChatTyped, UNCHANGED phase, NEW s \in Server, NEW m \in Message, Numbers(s, m),
         m.via # None => ClientOf[m.via] = m.to
  PROVE  m \in Known' /\ m.id = Len(sent') /\ Len(sent') = Len(sent) + 1 /\ SentGrows
<1>1. /\ Len(sent') = Len(sent) + 1 /\ sent'[Len(sent) + 1] = m.to /\ Len(sent) \in Nat
  BY AppendProperties DEF Numbers, ChatTyped
<1>2. m.from \in m_sessionSet[s]
  BY DEF Numbers
<1>3. phase[m.from] # "unused"
  BY <1>2 DEF IInv, SessionsOK
<1>. QED
  BY <1>1, <1>3 DEF Known, Numbers, SentGrows

\* Sequences of messages of a set.
LEMMA SeqsOf ==
  ASSUME NEW B, NEW ms \in Seq(B), NEW ns \in Seq(B), NEW m \in B
  PROVE  /\ ms \o ns \in Seq(B) /\ Append(ms, m) \in Seq(B) /\ <<m>> \in Seq(B) /\ <<>> \in Seq(B)
         /\ ms # <<>> => Tail(ms) \in Seq(B) /\ Head(ms) \in B
  BY ConcatProperties, AppendProperties, HeadTailProperties

LEMMA ContentsHolds ==
  ASSUME IInv, Mapped, ChatInv, BusyOK, Contents, [PeerNext]_allVars
  PROVE  Contents'
<1>. USE NoChatTyped
<1>1. SessionStep /\ ChatTyped
  BY SessionSteps, PresenceNext DEF ChatInv
<1>2. ASSUME SentGrows
      PROVE  /\ Known \subseteq Known' /\ Plain \subseteq Plain' /\ Seq(Known) \subseteq Seq(Known')
             /\ Seq(Plain) \subseteq Seq(Plain') /\ \A t \in Server : Seq(Led(t)) \subseteq Seq(Led(t)')
  BY <1>1, <1>2, KnownGrows, SeqMonotonic
<1>3. CASE PresenceStep \/ Still
  <2>1. SentGrows /\ UNCHANGED <<unread, inbox>>
    BY <1>3 DEF PresenceStep, Still, SentGrows
  <2>2. \A s \in Server : chat'[s] = chat[s] \/ chat'[s].op = "idle"
    BY <1>3 DEF PresenceStep, Still
  <2>3. \A s \in Server : channel'[s] = channel[s] \/ channel'[s] = <<>>
    BY <1>3 DEF PresenceStep, Still
  <2>4. ASSUME NEW s \in Server PROVE channel'[s] \in Seq(Led(s)')
    <3>1. <<>> \in Seq(Led(s)')
      OBVIOUS
    <3>2. channel[s] \in Seq(Led(s)')
      BY <1>2, <2>1 DEF Contents
    <3>. QED
      BY ONLY <2>3, <3>1, <3>2, s \in Server
  <2>. QED
    BY <1>2, <2>1, <2>2, <2>4 DEF Contents, Hand, Reads
<1>4. ASSUME ChatSteps, UNCHANGED <<vars, doubled>>
      PROVE  Contents'
  <2>0. UNCHANGED <<m_sessionSet, phase>>
    BY <1>4 DEF vars, sessionVars
  <2>1. ASSUME NEW s \in Server, NEW st, chat' = [chat EXCEPT ![s] = st],
               st.op \in {"get", "publish", "push"} => st.msg \in Known',
               st.op \in {"get", "push"} => st.msg \in Plain',
               st.op \in {"del", "answer"} => st.list \in Seq(Plain'),
               SentGrows, UNCHANGED <<channel, unread, inbox>>
        PROVE  Contents'
    <3>1. \A r \in Server : chat'[r] = IF r = s THEN st ELSE chat[r]
      BY <1>1, <2>1 DEF ChatTyped
    <3>2. \A r \in Server : r # s => /\ Hand(r)' => chat'[r].msg \in Known'
                                     /\ chat'[r].op \in {"get", "push"} => chat'[r].msg \in Plain'
                                     /\ Reads(r)' => chat'[r].list \in Seq(Plain')
      BY <1>2, <2>1, <3>1 DEF Contents, Hand, Reads
    <3>3. \A r \in Server : r = s => /\ Hand(r)' => chat'[r].msg \in Known'
                                     /\ chat'[r].op \in {"get", "push"} => chat'[r].msg \in Plain'
                                     /\ Reads(r)' => chat'[r].list \in Seq(Plain')
      BY <2>1, <3>1 DEF Hand, Reads
    <3>. QED
      BY <1>2, <2>1, <3>2, <3>3 DEF Contents
  <2>2. ASSUME SentGrows, UNCHANGED unread \/ \A u \in User : unread'[u] \in Seq(Plain'),
               UNCHANGED inbox \/ \A c \in Conn : inbox'[c] \in Seq(Known'),
               UNCHANGED channel \/ \A s \in Server : channel'[s] \in Seq(Led(s)'),
               \A s \in Server : chat'[s] = chat[s] \/ chat'[s].op \in {"idle", "trim"}
        PROVE  Contents'
    BY <1>2, <2>2 DEF Contents, Hand, Reads
  <2>3. ASSUME NEW s \in Server, NEW m \in Message, NEW d \in Conn, SendsHere(s, m, d) PROVE Contents'
    <3>0. m.via # None => ClientOf[m.via] = m.to
      BY <2>3 DEF SendsHere, Numbers, IInv, MapNamesSession
    <3>1. m \in Known' /\ SentGrows
      BY <1>1, <2>0, <2>3, <3>0, KnowsNew DEF SendsHere
    <3>2. inbox[d] \in Seq(Known')
      BY <1>2, <3>1 DEF Contents
    <3>3. inbox[d] \o <<m>> \in Seq(Known')
      BY <3>1, <3>2, SeqsOf
    <3>4. \A c \in Conn : inbox'[c] \in Seq(Known')
      BY <1>1, <1>2, <2>3, <3>1, <3>3 DEF SendsHere, Contents, ChatTyped
    <3>. QED
      BY <2>2, <2>3, <3>1, <3>4 DEF SendsHere
  <2>4. ASSUME NEW s \in Server, NEW m \in Message, SendsAway(s, m) PROVE Contents'
    <3>1. m \in Known' /\ SentGrows
      BY <1>1, <2>0, <2>4, KnowsNew DEF SendsAway
    <3>2. m \in Plain'
      BY <2>4, <3>1 DEF SendsAway, Plain
    <3>. QED
      BY <2>1, <2>4, <3>1, <3>2 DEF SendsAway, PeerStage
  <2>5. ASSUME NEW s \in Server, NEW t \in Server, NEW m \in Message, NEW n \in Message, Finds(s, m, n, t)
        PROVE  Contents'
    <3>1. m \in Known /\ SentGrows
      BY <2>5 DEF Finds, Contents, Hand, SentGrows
    <3>2. n \in Known
      <4>1. n.via # None => ClientOf[n.via] = n.to
        BY <2>5 DEF Finds, Message, IInv, MapNamesSession
      <4>. QED
        BY <2>5, <3>1, <4>1 DEF Finds, Known
    <3>3. n \in Known'
      BY <1>2, <3>1, <3>2
    <3>4. PICK st : st = PeerStage("publish", n, t)
      OBVIOUS
    <3>5. chat' = [chat EXCEPT ![s] = st] /\ st.op = "publish" /\ st.msg = n /\ UNCHANGED <<channel, unread, inbox>>
      BY <2>5, <3>4 DEF Finds, PeerStage
    <3>. QED
      BY <2>1, <3>1, <3>3, <3>5
  <2>6. ASSUME NEW s \in Server, NEW m \in Message, Misses(s, m) PROVE Contents'
    <3>1. m \in Known /\ m \in Plain /\ SentGrows
      BY <2>6 DEF Misses, Contents, Hand, SentGrows
    <3>2. m \in Known' /\ m \in Plain'
      BY <1>2, <3>1
    <3>3. PICK st : st = PeerStage("push", m, None)
      OBVIOUS
    <3>4. chat' = [chat EXCEPT ![s] = st] /\ st.op = "push" /\ st.msg = m /\ UNCHANGED <<channel, unread, inbox>>
      BY <2>6, <3>3 DEF Misses, PeerStage
    <3>. QED
      BY <2>1, <3>1, <3>2, <3>4
  <2>7. ASSUME NEW s \in Server, NEW t \in Server, NEW m \in Message, Publishes(s, m, t) PROVE Contents'
    <3>1. m \in Known /\ SentGrows /\ chat[s] # NoChat
      BY <2>7 DEF Publishes, Contents, Hand, SentGrows
    <3>2. m.from \in m_sessionSet[s] /\ (m.via # None => t # s)
      BY <2>7, <3>1 DEF Publishes, BusyOK, Hand
    <3>3. m.via # None => m.from \notin m_sessionSet[t]
      BY <3>2 DEF IInv, SessionsOK
    <3>4. m \in Led(t)
      BY <3>1, <3>3 DEF Led
    <3>5. Append(channel[t], m) \in Seq(Led(t))
      BY <3>4, SeqsOf DEF Contents
    <3>6. \A r \in Server : channel'[r] \in Seq(Led(r))
      BY <1>1, <2>7, <3>5 DEF Publishes, Contents, ChatTyped
    <3>7. \A r \in Server : channel'[r] \in Seq(Led(r)')
      BY <1>2, <3>1, <3>6
    <3>. QED
      BY <2>2, <2>7, <3>1, <3>7, <1>1 DEF Publishes, ChatTyped
  <2>8. ASSUME NEW s \in Server, Gives(s) PROVE Contents'
    <3>1. SentGrows
      BY <2>8 DEF Gives, SentGrows
    <3>2. \A u \in User : unread'[u] \in Seq(Plain)
      BY <2>8, LtrimOf DEF Gives, Contents
    <3>3. \A u \in User : unread'[u] \in Seq(Plain')
      BY <1>2, <3>1, <3>2
    <3>. QED
      BY <1>1, <2>2, <2>8, <3>1, <3>3 DEF Gives, ChatTyped
  <2>9. ASSUME NEW s \in Server, NEW m \in Message, Pushes(s, m) PROVE Contents'
    <3>1. m \in Plain /\ SentGrows /\ m.to \in User
      BY <2>9 DEF Pushes, Contents, SentGrows, Message
    <3>2. unread[m.to] \in Seq(Plain) /\ <<m>> \in Seq(Plain)
      BY <3>1, SeqsOf DEF Contents
    <3>3. <<m>> \o unread[m.to] \in Seq(Plain)
      BY <3>1, <3>2, SeqsOf
    <3>4. \A u \in User : unread'[u] \in Seq(Plain)
      BY <1>1, <2>9, <3>3 DEF Pushes, Contents, ChatTyped
    <3>5. \A u \in User : unread'[u] \in Seq(Plain')
      BY <1>2, <3>1, <3>4
    <3>6. \A r \in Server : chat'[r] = chat[r] \/ chat'[r].op \in {"idle", "trim"}
      BY <1>1, <2>9 DEF Pushes, PeerStage, ChatTyped
    <3>. QED
      BY <2>2, <2>9, <3>1, <3>5, <3>6 DEF Pushes
  <2>10. ASSUME NEW s \in Server, NEW c \in Conn, Asks(s, c) PROVE Contents'
    <3>1. SentGrows
      BY <2>10 DEF Asks, SentGrows
    <3>2. unread[ClientOf[c]] \in Seq(Plain')
      BY <1>2, <3>1, PresenceAssumption DEF Contents
    <3>. QED
      BY <2>1, <2>10, <3>1, <3>2 DEF Asks, UnreadStage
  <2>11. ASSUME NEW s \in Server, NEW c \in Conn, NEW ms \in Seq(Message), Deletes(s, c, ms) PROVE Contents'
    <3>1. SentGrows
      BY <2>11 DEF Deletes, SentGrows
    <3>2. ms \in Seq(Plain')
      BY <1>2, <2>11, <3>1 DEF Deletes, Contents, Reads
    <3>3. PICK st : st = UnreadStage("answer", c, ms)
      OBVIOUS
    <3>4. chat' = [chat EXCEPT ![s] = st] /\ st.op = "answer" /\ st.list = ms
      BY <2>11, <3>3 DEF Deletes, UnreadStage
    <3>5. <<>> \in Seq(Plain')
      OBVIOUS
    <3>6. \A u \in User : unread'[u] \in Seq(Plain')
      BY <1>1, <1>2, <2>11, <3>1, <3>5 DEF Deletes, Contents, ChatTyped
    <3>7. \A r \in Server : chat'[r] = IF r = s THEN st ELSE chat[r]
      BY <1>1, <3>4 DEF ChatTyped
    <3>8. \A r \in Server : /\ Hand(r)' => Hand(r) /\ chat'[r].msg = chat[r].msg
                            /\ chat'[r].op \in {"get", "push"} => chat'[r] = chat[r]
                            /\ Reads(r)' => chat'[r] = chat[r] \/ chat'[r].list = ms
      BY <3>4, <3>7 DEF Hand, Reads
    <3>9. UNCHANGED <<channel, inbox>>
      BY <2>11 DEF Deletes
    <3>. QED
      BY <1>2, <3>1, <3>2, <3>6, <3>8, <3>9 DEF Contents, Reads
  <2>12. ASSUME NEW s \in Server, NEW c \in Conn, NEW ms \in Seq(Message), Answers(s, c, ms) PROVE Contents'
    <3>1. SentGrows
      BY <2>12 DEF Answers, SentGrows
    <3>2. ms \in Seq(Plain) /\ inbox[c] \in Seq(Known) /\ Plain \subseteq Known
      BY <2>12 DEF Answers, Contents, Reads, Plain
    <3>3. inbox[c] \o ms \in Seq(Known)
      <4>1. ms \in Seq(Known)
        BY <3>2, SeqMonotonic
      <4>. QED
        BY <3>2, <4>1, ConcatProperties
    <3>4. \A d \in Conn : inbox'[d] \in Seq(Known)
      BY <1>1, <2>12, <3>3 DEF Answers, Contents, ChatTyped
    <3>5. \A d \in Conn : inbox'[d] \in Seq(Known')
      BY <1>2, <3>1, <3>4
    <3>. QED
      BY <1>1, <2>2, <2>12, <3>1, <3>5 DEF Answers, ChatTyped
  <2>13. ASSUME NEW s \in Server, channel[s] # <<>>, channel' = [channel EXCEPT ![s] = Tail(@)]
        PROVE  /\ Head(channel[s]) \in Known
               /\ \A r \in Server : channel'[r] \in Seq(Led(r))
    <3>1. Tail(channel[s]) \in Seq(Led(s)) /\ Head(channel[s]) \in Led(s)
      BY <2>13, HeadTailProperties DEF Contents
    <3>. QED
      BY <1>1, <2>13, <3>1 DEF Contents, ChatTyped, Led
  <2>14. ASSUME NEW s \in Server, NEW m \in Message, NEW d \in Conn, Takes(s, m, d) PROVE Contents'
    <3>1. SentGrows
      BY <2>14 DEF Takes, SentGrows
    <3>2. m \in Known /\ \A r \in Server : channel'[r] \in Seq(Led(r))
      BY <2>13, <2>14 DEF Takes
    <3>3. inbox[d] \o <<m>> \in Seq(Known)
      BY <3>2, SeqsOf DEF Contents
    <3>4. \A c \in Conn : inbox'[c] \in Seq(Known)
      BY <1>1, <2>14, <3>3 DEF Takes, Contents, ChatTyped
    <3>5. /\ \A c \in Conn : inbox'[c] \in Seq(Known')
          /\ \A r \in Server : channel'[r] \in Seq(Led(r)')
      BY <1>2, <3>1, <3>2, <3>4
    <3>. QED
      BY <2>2, <2>14, <3>1, <3>5 DEF Takes
  <2>15. ASSUME NEW s \in Server, Drops(s) PROVE Contents'
    <3>1. SentGrows
      BY <2>15 DEF Drops, SentGrows
    <3>2. \A r \in Server : channel'[r] \in Seq(Led(r)')
      BY <1>2, <2>13, <2>15, <3>1 DEF Drops
    <3>. QED
      BY <2>2, <2>15, <3>1, <3>2 DEF Drops
  <2>. QED
    BY ONLY <1>4, <2>3, <2>4, <2>5, <2>6, <2>7, <2>8, <2>9, <2>10, <2>11, <2>12, <2>14, <2>15 DEF ChatSteps
<1>. QED
  BY <1>3, <1>4, PeerStepsAre

-----------------------------------------------------------------------------
(* Where a message that goes over a channel is led, and that stop erases the entry of
   its own session, but for a user with two clients.                         *)

Way(m, s) ==
  \/ m.to \in doubled
  \/ m.via # None /\ (m_SessionMap[s][m.to] = m.via \/ phase[m.via] = "closed")

StopsOwn ==
  \A s \in Server :
    io[s].op \in {"del", "erase"} /\ m_SessionMap[s][io[s].user] \notin {None, io[s].conn}
    => io[s].user \in doubled

RoutedInv ==
  /\ \A s \in Server \ crashed : \A i \in 1..Len(channel[s]) : Way(channel[s][i], s)
  /\ \A s \in Server : chat[s].op = "publish" =>
       /\ chat[s].target \in Server
       /\ chat[s].target \notin crashed => Way(chat[s].msg, chat[s].target)
  /\ StopsOwn

\* Two sessions of a user that are both at work.
LEMMA BothClients ==
  ASSUME Twins, NEW u \in User, NEW s \in Server, NEW c \in m_sessionSet[s], NEW d \in m_sessionSet[s],
         ClientOf[c] = u, ClientOf[d] = u, m_userId[c] = u, m_userId[d] = u, c # d
  PROVE  u \in doubled
<1>1. c \in Clients(u) /\ d \in Clients(u)
  BY DEF Clients
<1>. QED
  BY <1>1 DEF Twins

LEMMA WayLasts ==
  ASSUME IInv, IInv', Mapped, Twins', StopsOwn, SessionStep, doubled \subseteq doubled',
         NEW s \in Server, NEW m \in Message, Way(m, s)
  PROVE  Way(m, s)'
<1>1. PICK u \in User : u = m.to
  BY DEF Message
<1>2. CASE u \in doubled \/ m.via \notin Conn \/ phase[m.via] = "closed"
  BY <1>1, <1>2 DEF Way, SessionStep, Message
<1>3. ASSUME u \notin doubled', m.via \in Conn, phase'[m.via] # "closed", m_SessionMap[s][u] = m.via
      PROVE  m_SessionMap'[s][u] = m.via
  <2>. DEFINE d == m.via
  <2>1. /\ d # None /\ d \in Conn /\ m_userId[d] = u /\ ClientOf[d] = u
        /\ d \in m_sessionSet[s] \/ phase[d] = "closed"
    BY <1>3, PresenceAssumption DEF IInv, MapNamesSession, Mapped
  <2>2. phase[d] # "closed" /\ m_userId'[d] = u /\ d \in m_sessionSet'[s]
    BY <1>3, <2>1 DEF SessionStep
  <2>3. ~(io[s].op = "erase" /\ io[s].user = u)
    <3>1. SUFFICES ASSUME io[s].op = "erase", io[s].user = u PROVE FALSE
      OBVIOUS
    <3>2. d = io[s].conn
      BY <1>3, <2>1, <3>1 DEF StopsOwn
    <3>. QED
      BY <2>2, <3>1, <3>2 DEF IInv, HandlerOK, StopOK
  <2>4. CASE \E c \in m_sessionSet'[s] : /\ m_SessionMap'[s][u] = c /\ c \in Conn /\ m_userId[c] = None
                                         /\ m_userId'[c] = u
    <3>1. PICK c \in m_sessionSet'[s] : /\ m_SessionMap'[s][u] = c /\ c \in Conn /\ m_userId[c] = None
                                        /\ m_userId'[c] = u
      BY <2>4
    <3>2. c # d /\ c # None
      BY <2>1, <3>1, PresenceAssumption
    <3>3. ClientOf[c] = u
      BY <3>1, <3>2 DEF IInv, MapNamesSession
    <3>4. c \in Clients(u)' /\ d \in Clients(u)'
      BY <2>1, <2>2, <3>1, <3>3 DEF Clients
    <3>. QED
      BY <1>3, <3>2, <3>4 DEF Twins
  <2>5. \/ m_SessionMap'[s][u] = m_SessionMap[s][u]
        \/ phase'[m_SessionMap[s][u]] = "closed"
        \/ \E c \in m_sessionSet'[s] : /\ m_SessionMap'[s][u] = c /\ c \in Conn /\ m_userId[c] = None
                                       /\ m_userId'[c] = u
    BY <2>3 DEF SessionStep
  <2>. QED
    BY <1>3, <2>4, <2>5
<1>. QED
  BY <1>1, <1>2, <1>3, PresenceAssumption DEF Way, Message

LEMMA StopsOwnLasts ==
  ASSUME IInv, IInv', Mapped, Twins, StopsOwn, SessionStep, doubled \subseteq doubled'
  PROVE  StopsOwn'
<1>. SUFFICES ASSUME NEW s \in Server, io'[s].op \in {"del", "erase"},
                     m_SessionMap'[s][io'[s].user] \notin {None, io'[s].conn}
              PROVE  io'[s].user \in doubled
  BY DEF StopsOwn
<1>1. PICK u \in User, c \in Conn : u = io'[s].user /\ c = io'[s].conn
  BY DEF IInv, TypeInv, HandlerNamed
<1>2. m_SessionMap'[s] = m_SessionMap[s]
  BY DEF SessionStep
<1>3. \/ io[s].op \in {"del", "erase"} /\ c = io[s].conn /\ u = io[s].user
      \/ io[s].op = "idle" /\ c \in m_sessionSet[s] /\ u = m_userId[c] /\ u # Nobody
  BY <1>1 DEF SessionStep
<1>4. CASE io[s].op \in {"del", "erase"} /\ c = io[s].conn /\ u = io[s].user
  BY <1>1, <1>2, <1>4 DEF StopsOwn
<1>5. CASE io[s].op = "idle" /\ c \in m_sessionSet[s] /\ u = m_userId[c] /\ u # Nobody
  <2>1. PICK d : d = m_SessionMap[s][u] /\ d # None /\ d # c
    BY <1>1, <1>2
  <2>2. d \in m_sessionSet[s] /\ m_userId[d] = u /\ ClientOf[d] = u
    BY <1>5, <2>1 DEF IInv, MapNamesSession
  <2>3. ClientOf[c] = u
    BY <1>5, PresenceAssumption DEF Mapped
  <2>. QED
    BY <1>1, <1>5, <2>1, <2>2, <2>3, BothClients
<1>. QED
  BY <1>3, <1>4, <1>5

LEMMA RoutedHolds ==
  ASSUME IInv, IInv', Mapped, ChatInv, BusyOK, Twins, Twins', RoutedInv, [PeerNext]_allVars
  PROVE  RoutedInv'
<1>. USE NoChatTyped
<1>1. SessionStep /\ ChatTyped
  BY SessionSteps, PresenceNext DEF ChatInv
<1>2. ASSUME NEW s \in Server, NEW i \in 1..Len(channel[s]) PROVE channel[s][i] \in Message
  BY <1>1, ElementOfSeq DEF ChatTyped
<1>3. CASE PresenceStep
  <2>1. doubled \subseteq doubled' /\ crashed \subseteq crashed'
    BY <1>1, <1>3 DEF PresenceStep, SessionStep
  <2>2. StopsOwn'
    BY <1>1, <2>1, StopsOwnLasts DEF RoutedInv
  <2>3. ASSUME NEW s \in Server, NEW m \in Message, Way(m, s) PROVE Way(m, s)'
    BY <1>1, <2>1, <2>3, WayLasts DEF RoutedInv
  <2>4. ASSUME NEW s \in Server \ crashed', NEW i \in 1..Len(channel'[s]) PROVE Way(channel[s][i], s)' /\ channel'[s] = channel[s]
    <3>1. channel'[s] = channel[s]
      BY <1>3, <2>4 DEF PresenceStep
    <3>2. PICK m \in Message : m = channel[s][i]
      BY <1>2, <2>4, <3>1
    <3>3. Way(m, s)
      BY <2>1, <2>4, <3>1, <3>2 DEF RoutedInv
    <3>4. Way(m, s)'
      BY <2>3, <3>3
    <3>. QED
      BY <3>1, <3>2, <3>4
  <2>5. ASSUME NEW s \in Server, chat'[s].op = "publish"
        PROVE  /\ chat'[s].target \in Server
               /\ chat'[s].target \notin crashed' => Way(chat[s].msg, chat[s].target)'
    <3>1. chat'[s] = chat[s] /\ chat[s].op = "publish" /\ chat[s].target \in Server /\ chat[s].msg \in Message
      BY <1>1, <1>3, <2>5, StageTyped DEF PresenceStep, RoutedInv
    <3>2. PICK m \in Message, t \in Server : m = chat[s].msg /\ t = chat[s].target
      BY <3>1
    <3>3. t \notin crashed' => Way(m, t)
      BY <2>1, <3>1, <3>2 DEF RoutedInv
    <3>4. t \notin crashed' => Way(m, t)'
      BY <2>3, <3>3
    <3>5. m = chat'[s].msg /\ t = chat'[s].target
      BY <3>1, <3>2
    <3>. QED
      BY <3>4, <3>5
  <2>. QED
    BY <2>2, <2>4, <2>5 DEF RoutedInv
<1>4. ASSUME UNCHANGED <<vars, doubled>>
      PROVE  /\ \A s, m : Way(m, s)' <=> Way(m, s)
             /\ UNCHANGED crashed /\ StopsOwn' = StopsOwn
  BY <1>4 DEF Way, StopsOwn, vars, sessionVars
<1>5. ASSUME UNCHANGED <<vars, doubled>>,
             UNCHANGED channel \/ \A s \in Server \ crashed : \A i \in 1..Len(channel'[s]) : Way(channel'[s][i], s),
             \A s \in Server : chat'[s].op = "publish" => chat'[s] = chat[s]
      PROVE  RoutedInv'
  BY <1>4, <1>5 DEF RoutedInv
<1>6. ASSUME NEW s \in Server, channel[s] # <<>>, channel' = [channel EXCEPT ![s] = Tail(@)],
             NEW r \in Server \ crashed, NEW i \in 1..Len(channel'[r])
      PROVE  Way(channel'[r][i], r)
  <2>1. CASE r = s
    <3>1. channel'[s] = Tail(channel[s]) /\ channel[s] \in Seq(Message)
      BY <1>1, <1>6 DEF ChatTyped
    <3>2. PICK ms \in Seq(Message) : ms = channel[s] /\ ms # <<>> /\ Tail(ms) = channel'[s]
      BY <1>6, <3>1
    <3>4. Len(Tail(ms)) = Len(ms) - 1 /\ \A k \in 1..Len(Tail(ms)) : Tail(ms)[k] = ms[k + 1]
      BY <3>2, HeadTailProperties
    <3>5. i \in 1..Len(Tail(ms))
      BY <1>6, <2>1, <3>2
    <3>7. Len(ms) \in Nat
      BY <3>2
    <3>6. i + 1 \in 1..Len(ms) /\ Tail(ms)[i] = ms[i + 1]
      BY ONLY <3>4, <3>5, <3>7
    <3>3. i + 1 \in 1..Len(channel[s]) /\ channel'[s][i] = channel[s][i + 1]
      BY <3>2, <3>6
    <3>. QED
      BY <1>6, <2>1, <3>3 DEF RoutedInv
  <2>2. CASE r # s
    BY <1>1, <1>6, <2>2 DEF RoutedInv, ChatTyped
  <2>. QED
    BY <2>1, <2>2
<1>7. ASSUME ChatSteps, UNCHANGED <<vars, doubled>>
      PROVE  RoutedInv'
  <2>1. ASSUME NEW s \in Server, NEW st, chat' = [chat EXCEPT ![s] = st], st.op # "publish"
        PROVE  \A r \in Server : chat'[r].op = "publish" => chat'[r] = chat[r]
    BY <1>1, <2>1 DEF ChatTyped
  <2>2. ASSUME NEW s \in Server, NEW m \in Message, SendsAway(s, m) \/ Misses(s, m) PROVE RoutedInv'
    BY <1>5, <1>7, <2>1, <2>2 DEF SendsAway, Misses, PeerStage
  <2>3. ASSUME NEW s \in Server, NEW t \in Server, NEW m \in Message, NEW n \in Message, Finds(s, m, n, t)
        PROVE  RoutedInv'
    <3>1. t \notin crashed => Way(n, t)
      <4>1. m.to \in User /\ online[m.to] = t /\ n.via = m_SessionMap[t][m.to] /\ n.to = m.to
        BY <2>3 DEF Finds, Message
      <4>. QED
        BY <4>1 DEF IInv, OnlineNamesSession, Way
    <3>2. PICK st : st = PeerStage("publish", n, t)
      OBVIOUS
    <3>3. chat' = [chat EXCEPT ![s] = st] /\ st.op = "publish" /\ st.msg = n /\ st.target = t /\ UNCHANGED channel
      BY <2>3, <3>2 DEF Finds, PeerStage
    <3>4. \A r \in Server : chat'[r] = IF r = s THEN st ELSE chat[r]
      BY <1>1, <3>3 DEF ChatTyped
    <3>. QED
      BY <1>4, <1>7, <3>1, <3>3, <3>4 DEF RoutedInv
  <2>4. ASSUME NEW s \in Server, NEW t \in Server, NEW m \in Message, Publishes(s, m, t) PROVE RoutedInv'
    <3>1. t \notin crashed => Way(m, t)
      BY <2>4 DEF Publishes, RoutedInv
    <3>2. ASSUME NEW r \in Server \ crashed, NEW i \in 1..Len(channel'[r]) PROVE Way(channel'[r][i], r)
      <4>1. CASE r # t
        BY <1>1, <2>4, <3>2, <4>1 DEF Publishes, ChatTyped, RoutedInv
      <4>2. CASE r = t
        <5>1. channel'[t] = Append(channel[t], m) /\ channel[t] \in Seq(Message)
          BY <1>1, <2>4 DEF Publishes, ChatTyped
        <5>2. (i \in 1..Len(channel[t]) /\ channel'[t][i] = channel[t][i]) \/ channel'[t][i] = m
          BY <3>2, <4>2, <5>1, AppendProperties
        <5>. QED
          BY <3>1, <3>2, <4>2, <5>2 DEF RoutedInv
      <4>. QED
        BY <4>1, <4>2
    <3>. QED
      BY <1>5, <1>7, <2>1, <2>4, <3>2 DEF Publishes
  <2>5. ASSUME NEW s \in Server, Gives(s) PROVE RoutedInv'
    BY <1>5, <1>7, <2>1, <2>5 DEF Gives
  <2>6. ASSUME NEW s \in Server, NEW m \in Message, Pushes(s, m) PROVE RoutedInv'
    BY <1>5, <1>7, <2>1, <2>6 DEF Pushes, PeerStage
  <2>7. ASSUME NEW s \in Server, NEW c \in Conn, Asks(s, c) PROVE RoutedInv'
    BY <1>5, <1>7, <2>1, <2>7 DEF Asks, UnreadStage
  <2>8. ASSUME NEW s \in Server, NEW c \in Conn, NEW ms \in Seq(Message), Deletes(s, c, ms) \/ Answers(s, c, ms)
        PROVE  RoutedInv'
    BY <1>5, <1>7, <2>1, <2>8 DEF Deletes, Answers, UnreadStage
  <2>9. ASSUME NEW s \in Server, NEW m \in Message, NEW d \in Conn, SendsHere(s, m, d) PROVE RoutedInv'
    BY <1>5, <1>7, <2>9 DEF SendsHere
  <2>10. ASSUME NEW s \in Server, NEW m \in Message, NEW d \in Conn, Takes(s, m, d) PROVE RoutedInv'
    BY <1>5, <1>6, <1>7, <2>10 DEF Takes
  <2>11. ASSUME NEW s \in Server, Drops(s) PROVE RoutedInv'
    BY <1>5, <1>6, <1>7, <2>11 DEF Drops
  <2>. QED
    BY ONLY <1>7, <2>2, <2>3, <2>4, <2>5, <2>6, <2>7, <2>8, <2>9, <2>10, <2>11 DEF ChatSteps
<1>8. CASE Still
  BY <1>5, <1>8 DEF Still
<1>. QED
  BY <1>3, <1>7, <1>8, PeerStepsAre

LEMMA RoutedInit == PeerInit => BusyOK /\ Twins /\ RoutedInv
<1>. SUFFICES ASSUME PeerInit PROVE BusyOK /\ Twins /\ RoutedInv
  OBVIOUS
<1>1. BusyOK
  BY DEF PeerInit, BusyOK
<1>2. Twins
  BY DEF PeerInit, Init, Twins, Clients
<1>3. RoutedInv
  <2>1. \A s \in Server : Len(channel[s]) = 0 /\ chat[s].op = "idle"
    BY NoChatTyped DEF PeerInit
  <2>2. \A s \in Server : io[s].op = "idle"
    BY DEF PeerInit, Init, Idle, Handling
  <2>. QED
    BY <2>1, <2>2 DEF RoutedInv, StopsOwn
<1>. QED
  BY <1>1, <1>2, <1>3

\* A message that goes over a channel is led to the session that GET online:<u> stands
\* for, or to one that has ended since, for any number of servers and connections:
\* between GET and findUser the key may be deleted, set by another server and its
\* session stopped, and the entry of another session of hers erased only if she had two.
THEOREM RoutedToSessionHolds == IsFiniteSet(Conn) => (PeerSpec => []RoutedToSession)
<1>. SUFFICES ASSUME IsFiniteSet(Conn) PROVE PeerSpec => []RoutedToSession
  OBVIOUS
<1>. DEFINE J == IInv /\ Mapped /\ ChatInv /\ BusyOK /\ Twins /\ RoutedInv
<1>1. PeerInit => J
  <2>1. PeerInit => ChatInv
    BY ChatInit
  <2>. QED
    BY <2>1, RoutedInit, MappedInit, InitIInv DEF PeerInit
<1>2. J /\ [PeerNext]_allVars => J'
  <2>. SUFFICES ASSUME J, [PeerNext]_allVars PROVE J'
    OBVIOUS
  <2>1. IInv' /\ Mapped'
    BY PresenceNext, NextIInv, MappedHolds
  <2>2. ChatInv'
    BY ChatNextTyped DEF IInv, TypeInv
  <2>3. BusyOK'
    BY BusyHolds
  <2>4. Twins'
    BY <2>1, TwinsHold
  <2>5. RoutedInv'
    BY <2>1, <2>4, RoutedHolds
  <2>. QED
    BY <2>1, <2>2, <2>3, <2>4, <2>5
<1>3. J => RoutedToSession
  <2>. SUFFICES ASSUME J, NEW s \in Server \ crashed, NEW i \in DOMAIN channel[s]
                PROVE  Way(channel[s][i], s)
    BY DEF RoutedToSession, Way, FindUser
  <2>1. i \in 1..Len(channel[s])
    BY DEF ChatInv, ChatTyped
  <2>. QED
    BY <2>1 DEF RoutedInv
<1>. HIDE DEF J
<1>. QED
  BY <1>1, <1>2, <1>3, PTL DEF PeerSpec

-----------------------------------------------------------------------------
(* A user with one client at a time is online as long as she has a session: the key is
   hers from SET to the DEL of the server that holds the session, so that no other
   server can be taking her out of her groups meanwhile without being noted in ousted. *)

\* Server s holds an entry of u, and will delete online:<u> for it.
Owns(s, u) ==
  /\ m_SessionMap[s][u] # None
  /\ ~ (io[s].op \in {"set", "erase"} /\ io[s].user = u)
  /\ ~ (io[s].op = "stopAll" /\ u \notin io[s].users)

KeyOf(u) ==
  /\ \A s \in Server : \A c \in m_sessionSet[s] : m_userId[c] = u => m_SessionMap[s][u] = c
  /\ \A s \in Server : io[s].op \in {"del", "erase"} /\ io[s].user = u =>
       m_SessionMap[s][u] = io[s].conn
  /\ \A s \in Server : Owns(s, u) => online[u] = s
  /\ \A s \in Server : io[s].op = "set" /\ io[s].user = u => \A t \in Server : ~ Owns(t, u)

Stopping ==
  \A s \in Server : /\ io[s].op = "stopAll" => \A u \in io[s].users : m_SessionMap[s][u] # None
                    /\ io[s].op = "erase" => io[s].groups = {}

KeyInv == Stopping /\ \A u \in User \ doubled : KeyOf(u)

LEMMA StoppingHolds == IInv /\ Stopping /\ [Next]_vars => Stopping'
<1>. SUFFICES ASSUME IInv, Stopping, [Next]_vars PROVE Stopping'
  OBVIOUS
<1>0. io \in [Server -> IoState] /\ m_SessionMap \in [Server -> [User -> Conn \cup {None}]]
  BY DEF IInv, TypeInv, TypeOK
<1>. USE DEF Idle, Handling, At, StoppingAll, sessionVars, redisVars
<1>1. ASSUME NEW s \in Server,
             \A t \in Server \ {s} : io'[t] = io[t] /\ m_SessionMap'[t] = m_SessionMap[t],
             io'[s].op = "stopAll" => \A u \in io'[s].users : m_SessionMap'[s][u] # None,
             io'[s].op = "erase" => io'[s].groups = {}
      PROVE  Stopping'
  BY <1>1 DEF Stopping
<1>2. CASE UNCHANGED <<io, m_SessionMap>>
  BY <1>2 DEF Stopping
<1>3. ASSUME NEW s \in Server, Exit(s) PROVE Stopping'
  <2>1. /\ \A t \in Server \ {s} : io'[t] = io[t] /\ m_SessionMap'[t] = m_SessionMap[t]
        /\ io'[s].op = "idle"
    BY <1>0, <1>3 DEF Exit
  <2>. QED
    BY <1>1, <2>1
<1>5. ASSUME NEW s \in Server, NEW c \in Conn, ShakeKnown(s, c) PROVE Stopping'
  <2>1. /\ \A t \in Server \ {s} : io'[t] = io[t] /\ m_SessionMap'[t] = m_SessionMap[t]
        /\ io'[s].op = "exists"
    BY <1>0, <1>5 DEF ShakeKnown
  <2>. QED
    BY <1>1, <2>1
<1>4. ASSUME NEW s \in Server, NEW c \in Conn, StopSession(s, c) PROVE Stopping'
  <2>1. /\ \A t \in Server \ {s} : io'[t] = io[t] /\ m_SessionMap'[t] = m_SessionMap[t]
        /\ io'[s].op \in {"idle", "del"}
    BY <1>0, <1>4 DEF StopSession
  <2>. QED
    BY <1>1, <2>1
<1>6. ASSUME NEW s \in Server, Shake(s) PROVE Stopping'
  <2>1. \A t \in Server \ {s} : io'[t] = io[t] /\ m_SessionMap'[t] = m_SessionMap[t]
    BY <1>0, <1>6
    DEF Shake, ShakeAlreadyOnline, ShakeReply, ShakeRegister, UserIdMap, ShakeSet, ShakeSadd
  <2>2. io'[s].op \in {"idle", "set", "sadd"}
    BY <1>0, <1>6 DEF Shake, ShakeAlreadyOnline, ShakeReply, ShakeRegister, ShakeSet, ShakeSadd
  <2>. QED
    BY <1>1, <2>1, <2>2
<1>7. ASSUME NEW s \in Server, StopDel(s) \/ StopErase(s) PROVE Stopping'
  <2>1. \A t \in Server \ {s} : io'[t] = io[t] /\ m_SessionMap'[t] = m_SessionMap[t]
    BY <1>0, <1>7 DEF StopDel, StopErase, EraseEntry
  <2>2. io'[s].op = "idle" \/ (io'[s].op = "erase" /\ io'[s].groups = {})
    BY <1>0, <1>7 DEF StopDel, LrangeGroupSet, StopErase
  <2>. QED
    BY <1>1, <2>1, <2>2
<1>8. ASSUME NEW s \in Server, BeginStopAll(s) PROVE Stopping'
  <2>1. /\ \A t \in Server \ {s} : io'[t] = io[t]
        /\ io'[s].op = "stopAll" /\ io'[s].users = {u \in User : m_SessionMap[s][u] # None}
        /\ UNCHANGED m_SessionMap
    BY <1>0, <1>8 DEF BeginStopAll
  <2>. QED
    BY <1>1, <2>1
<1>10. ASSUME NEW s \in Server, NEW u \in User, StopAllDel(s, u) PROVE Stopping'
  <2>1. /\ \A t \in Server \ {s} : io'[t] = io[t]
        /\ io'[s].op = "stopAll" /\ io[s].op = "stopAll" /\ io'[s].users \subseteq io[s].users
        /\ UNCHANGED m_SessionMap
    BY <1>0, <1>10 DEF StopAllDel
  <2>. QED
    BY <1>1, <2>1 DEF Stopping
<1>11. ASSUME NEW s \in Server, NEW g \in Group, Srem(s, g) PROVE Stopping'
  <2>1. io[s].op = "stopAll"
    BY <1>11 DEF Srem, Stopping
  <2>2. /\ \A t \in Server \ {s} : io'[t] = io[t]
        /\ io'[s].op = "stopAll" /\ io'[s].users = io[s].users
        /\ UNCHANGED m_SessionMap
    BY <1>0, <1>11, <2>1 DEF Srem
  <2>. QED
    BY <1>1, <2>1, <2>2 DEF Stopping
<1>12. CASE Environment
  BY <1>2, <1>3, <1>12
  DEF Environment, LoginRecorded, LoginForgotten, HangUp, Crash, Die, Restart
<1>13. ASSUME NEW s \in Server, Begin(s) PROVE Stopping'
  BY <1>2, <1>4, <1>5, <1>8, <1>13 DEF Begin, Accept, ShakeUnknown, Shutdown
<1>14. ASSUME NEW s \in Server, Stop(s) PROVE Stopping'
  BY <1>3, <1>7, <1>8, <1>10, <1>11, <1>14
  DEF Stop, StopEraseEnd, Die, StopEraseThrow, StopAllDone
<1>15. CASE UNCHANGED vars
  BY <1>2, <1>15 DEF vars
<1>. QED
  BY <1>6, <1>12, <1>13, <1>14, <1>15 DEF Next, Continue

\* A user with one client at a time has one session.
LEMMA OneClient ==
  ASSUME IInv, Mapped, Twins, NEW u \in User \ doubled, NEW s \in Server, NEW t \in Server,
         NEW c \in m_sessionSet[s], NEW d \in m_sessionSet[t], m_userId[c] = u, m_userId[d] = u
  PROVE  c = d /\ s = t
<1>1. c \in Conn /\ d \in Conn
  BY DEF IInv, TypeInv, TypeOK
<1>2. ClientOf[c] = u /\ ClientOf[d] = u
  BY <1>1, PresenceAssumption DEF Mapped
<1>3. c = d
  BY <1>1, <1>2 DEF Twins, Clients
<1>. QED
  BY <1>3 DEF IInv, SessionsOK

LEMMA KeyHolds ==
  ASSUME IInv, Mapped, Mapped', IInv', Twins, Twins', Stopping, [Next]_vars,
         NEW u \in User \ (doubled \cup doubled'), KeyOf(u)
  PROVE  KeyOf(u)'
<1>. USE DEF Idle, Handling, At, StoppingAll, sessionVars, redisVars
<1>0. /\ io \in [Server -> IoState] /\ m_SessionMap \in [Server -> [User -> Conn \cup {None}]]
      /\ m_sessionSet \in [Server -> SUBSET Conn] /\ online \in [User -> Server \cup {None}]
      /\ m_userId \in [Conn -> User \cup {None}] /\ None \notin Server \cup Conn \cup User
  BY PresenceAssumption DEF IInv, TypeInv, TypeOK
<1>. DEFINE Sets(s) == io[s].op = "set" /\ io[s].user = u
            Here(s) == /\ \A c \in m_sessionSet[s] : m_userId[c] = u => m_SessionMap[s][u] = c
                       /\ io[s].op \in {"del", "erase"} /\ io[s].user = u =>
                            m_SessionMap[s][u] = io[s].conn
            Same(s) == /\ io'[s] = io[s] /\ m_SessionMap'[s] = m_SessionMap[s]
                       /\ \A c \in m_sessionSet'[s] : m_userId'[c] = u =>
                            c \in m_sessionSet[s] /\ m_userId[c] = u
<1>1. ASSUME NEW s \in Server, \A t \in Server \ {s} : Same(t), Here(s)',
             \A t \in Server : Owns(t, u)' => online'[u] = t,
             \A t \in Server : Sets(t)' => \A r \in Server : ~ Owns(r, u)'
      PROVE  KeyOf(u)'
  <2>1. \A t \in Server : Here(t)'
    BY <1>1 DEF KeyOf
  <2>. QED
    BY <1>1, <2>1 DEF KeyOf
<1>2. ASSUME NEW s \in Server, \A t \in Server \ {s} : Same(t), Here(s)', online'[u] = online[u],
             Owns(s, u)' => Owns(s, u), Sets(s)' => Sets(s)
      PROVE  KeyOf(u)'
  <2>1. \A t \in Server : (Owns(t, u)' => Owns(t, u)) /\ (Sets(t)' => Sets(t))
    BY <1>2 DEF Owns
  <2>2. /\ \A t \in Server : Owns(t, u) => online[u] = t
        /\ \A t \in Server : Sets(t) => \A r \in Server : ~ Owns(r, u)
    BY DEF KeyOf
  <2>3. /\ \A t \in Server : Owns(t, u)' => online'[u] = t
        /\ \A t \in Server : Sets(t)' => \A r \in Server : ~ Owns(r, u)'
    BY <1>2, <2>1, <2>2
  <2>. QED
    BY <1>1, <1>2, <2>3
<1>3. ASSUME UNCHANGED <<io, m_SessionMap, m_sessionSet, m_userId, online>> PROVE KeyOf(u)'
  BY <1>3 DEF KeyOf, Owns
<1>4. ASSUME NEW s \in Server, Exit(s), UNCHANGED <<online, m_userId>> PROVE KeyOf(u)'
  <2>1. /\ \A t \in Server \ {s} : Same(t)
        /\ m_sessionSet'[s] = {} /\ io'[s].op = "idle" /\ m_SessionMap'[s][u] = None
    BY <1>0, <1>4 DEF Exit, NoSessions
  <2>2. Here(s)' /\ ~ Owns(s, u)' /\ ~ Sets(s)'
    BY <2>1 DEF Owns
  <2>. QED
    BY <1>2, <1>4, <2>1, <2>2
<1>5. ASSUME NEW s \in Server, NEW c \in Conn, Accept(s, c) PROVE KeyOf(u)'
  <2>1. m_userId[c] # u
    BY <1>0, <1>5 DEF Accept, IInv, UnnamedBefore, HandlerOK, ShakeOK
  <2>2. /\ \A t \in Server \ {s} : Same(t)
        /\ m_sessionSet'[s] = m_sessionSet[s] \cup {c}
        /\ UNCHANGED <<io, m_SessionMap, m_userId, online>>
    BY <1>0, <1>5 DEF Accept, Start
  <2>3. Here(s)' /\ (Owns(s, u)' => Owns(s, u)) /\ (Sets(s)' => Sets(s))
    BY <2>1, <2>2 DEF KeyOf, Owns
  <2>. QED
    BY <1>2, <2>2, <2>3
<1>6. ASSUME NEW s \in Server, NEW c \in Conn, ShakeKnown(s, c) PROVE KeyOf(u)'
  <2>1. /\ \A t \in Server \ {s} : Same(t)
        /\ io[s].op = "idle" /\ io'[s].op = "exists"
        /\ UNCHANGED <<m_SessionMap, m_sessionSet, m_userId, online>>
    BY <1>0, <1>6 DEF ShakeKnown, CanShake, IoIdle
  <2>2. Here(s)' /\ (Owns(s, u)' => Owns(s, u)) /\ ~ Sets(s)'
    BY <2>1 DEF KeyOf, Owns
  <2>. QED
    BY <1>2, <2>1, <2>2
<1>7. ASSUME NEW s \in Server, ShakeAlreadyOnline(s) \/ ShakeReply(s) PROVE KeyOf(u)'
  <2>1. /\ \A t \in Server \ {s} : Same(t)
        /\ io[s].op \in {"exists", "sadd"} /\ io'[s].op = "idle"
        /\ UNCHANGED <<m_SessionMap, m_sessionSet, m_userId, online>>
    BY <1>0, <1>7 DEF ShakeAlreadyOnline, ShakeReply
  <2>2. Here(s)' /\ (Owns(s, u)' => Owns(s, u)) /\ ~ Sets(s)'
    BY <2>1 DEF KeyOf, Owns
  <2>. QED
    BY <1>2, <2>1, <2>2
<1>8. ASSUME NEW s \in Server, ShakeRegister(s) PROVE KeyOf(u)'
  <2>1. PICK c, v : c = io[s].conn /\ v = io[s].user
    OBVIOUS
  <2>2. /\ c \in Conn /\ v \in User /\ c \in m_sessionSet[s] /\ online[v] = None
        /\ io[s].op = "exists" /\ io'[s].op = "set" /\ io'[s].user = v
        /\ UNCHANGED <<m_sessionSet, online>>
    BY <1>0, <1>8, <2>1 DEF ShakeRegister, ExistsOnline, IInv, TypeInv, HandlerNamed, HandlerOK, ShakeOK
  <2>3. /\ m_userId' = [m_userId EXCEPT ![c] = v] /\ m_SessionMap' = [m_SessionMap EXCEPT ![s][v] = c]
        /\ \A t \in Server \ {s} : io'[t] = io[t]
    BY <1>0, <1>8, <2>1 DEF ShakeRegister, UserIdMap
  <2>4. \A t \in Server \ {s} : Same(t)
    BY <1>0, <2>2, <2>3 DEF IInv, SessionsOK
  <2>5. CASE v # u
    <3>1. /\ m_SessionMap'[s][u] = m_SessionMap[s][u] /\ ~ Sets(s)'
          /\ \A d \in m_sessionSet'[s] : m_userId'[d] = u => d \in m_sessionSet[s] /\ m_userId[d] = u
      BY <1>0, <2>2, <2>3, <2>5
    <3>2. Here(s)' /\ (Owns(s, u)' => Owns(s, u))
      BY <2>2, <3>1 DEF KeyOf, Owns
    <3>. QED
      BY <1>2, <2>2, <2>4, <3>1, <3>2
  <2>6. CASE v = u
    <3>1. m_SessionMap'[s][u] = c /\ m_userId'[c] = u
      BY <1>0, <2>2, <2>3, <2>6
    <3>2. \A d \in m_sessionSet'[s] : m_userId'[d] = u => d = c
      <4>1. ASSUME NEW d \in m_sessionSet'[s], m_userId'[d] = u PROVE d = c
        <5>1. c \in Conn /\ d \in Conn /\ c \in m_sessionSet'[s]
          BY <1>0, <2>2, <4>1
        <5>2. ClientOf[c] = u /\ ClientOf[d] = u
          BY <1>0, <3>1, <4>1, <5>1 DEF Mapped
        <5>3. c \in Clients(u)' /\ d \in Clients(u)'
          BY <3>1, <4>1, <5>1, <5>2 DEF Clients
        <5>. QED
          BY <5>3 DEF Twins
      <4>. QED
        BY <4>1
    <3>3. \A t \in Server : ~ Owns(t, u)
      BY <1>0, <2>2, <2>6 DEF KeyOf
    <3>4. \A t \in Server : ~ Owns(t, u)'
      BY <2>2, <2>4, <2>6, <3>3 DEF Owns
    <3>5. Here(s)'
      BY <2>2, <3>1, <3>2
    <3>. QED
      BY <1>1, <2>4, <3>4, <3>5
  <2>. QED
    BY <2>5, <2>6
<1>9. ASSUME NEW s \in Server, ShakeSet(s) PROVE KeyOf(u)'
  <2>1. PICK c, v : c = io[s].conn /\ v = io[s].user
    OBVIOUS
  <2>2. /\ v \in User /\ c \in m_sessionSet[s] /\ m_userId[c] = v
        /\ io[s].op = "set" /\ io'[s].op = "sadd" /\ online' = [online EXCEPT ![v] = s]
        /\ UNCHANGED <<m_SessionMap, m_sessionSet, m_userId>> /\ \A t \in Server \ {s} : io'[t] = io[t]
    BY <1>0, <1>9, <2>1 DEF ShakeSet, SetOnline, IInv, TypeInv, HandlerNamed, HandlerOK, ShakeOK
  <2>3. /\ \A t \in Server \ {s} : Same(t)
        /\ Here(s)' /\ ~ Sets(s)'
    BY <2>2 DEF KeyOf
  <2>4. CASE v # u
    <3>1. online'[u] = online[u] /\ (Owns(s, u)' => Owns(s, u))
      BY <1>0, <2>1, <2>2, <2>4 DEF Owns
    <3>. QED
      BY <1>2, <2>3, <3>1
  <2>5. CASE v = u
    <3>1. \A t \in Server : ~ Owns(t, u)
      BY <2>1, <2>2, <2>5 DEF KeyOf
    <3>2. \A t \in Server \ {s} : ~ Owns(t, u)'
      BY <2>2, <3>1 DEF Owns
    <3>3. online'[u] = s
      BY <1>0, <2>2, <2>5
    <3>4. \A t \in Server : Sets(t) => t = s
      <4>1. ASSUME NEW t \in Server, Sets(t) PROVE t = s
        <5>1. io[t].conn \in m_sessionSet[t] /\ m_userId[io[t].conn] = u
          BY <4>1 DEF IInv, HandlerOK, ShakeOK
        <5>2. c \in m_sessionSet[s] /\ m_userId[c] = u
          BY <2>2, <2>5
        <5>. QED
          BY <5>1, <5>2, OneClient
      <4>. QED
        BY <4>1
    <3>5. \A t \in Server : ~ Sets(t)'
      BY <2>2, <2>3, <3>4
    <3>. QED
      BY <1>1, <2>3, <3>2, <3>3, <3>5
  <2>. QED
    BY <2>4, <2>5
<1>10. ASSUME NEW s \in Server, NEW g \in Group, ShakeSadd(s, g) \/ Srem(s, g) PROVE KeyOf(u)'
  <2>1. /\ \A t \in Server \ {s} : Same(t)
        /\ io'[s].op = io[s].op /\ io'[s].conn = io[s].conn /\ io'[s].user = io[s].user
        /\ io'[s].users = io[s].users
        /\ UNCHANGED <<m_SessionMap, m_sessionSet, m_userId, online>>
    BY <1>0, <1>10 DEF ShakeSadd, Srem
  <2>2. Here(s)' /\ (Owns(s, u)' => Owns(s, u)) /\ (Sets(s)' => Sets(s))
    BY <2>1 DEF KeyOf, Owns
  <2>. QED
    BY <1>2, <2>1, <2>2
<1>11. ASSUME NEW s \in Server, NEW c \in Conn, StopSession(s, c) PROVE KeyOf(u)'
  <2>1. /\ \A t \in Server \ {s} : Same(t)
        /\ m_sessionSet'[s] = m_sessionSet[s] \ {c} /\ c \in m_sessionSet[s] /\ io[s].op = "idle"
        /\ \/ io'[s].op = "idle"
           \/ io'[s].op = "del" /\ io'[s].user = m_userId[c] /\ io'[s].conn = c
        /\ UNCHANGED <<m_SessionMap, m_userId, online>>
    BY <1>0, <1>11 DEF StopSession, ReadError, IoIdle
  <2>2. Here(s)' /\ (Owns(s, u)' => Owns(s, u)) /\ ~ Sets(s)'
    BY <2>1 DEF KeyOf, Owns
  <2>. QED
    BY <1>2, <2>1, <2>2
<1>12. ASSUME NEW s \in Server, Owns(s, u), online'[u] = None, ~ Owns(s, u)', Here(s)', ~ Sets(s)',
              \A t \in Server \ {s} : Same(t)
       PROVE  KeyOf(u)'
  <2>1. \A t \in Server : Owns(t, u) => t = s
    BY <1>12 DEF KeyOf
  <2>2. \A t \in Server : ~ Owns(t, u)'
    BY <1>12, <2>1 DEF Owns
  <2>. QED
    BY <1>1, <1>12, <2>2
<1>13. ASSUME NEW s \in Server, StopDel(s) PROVE KeyOf(u)'
  <2>1. PICK v : v = io[s].user
    OBVIOUS
  <2>2. /\ v \in User /\ io[s].conn \in Conn /\ io[s].op = "del" /\ online' = [online EXCEPT ![v] = None]
        /\ io'[s].op = "erase" /\ io'[s].user = v /\ io'[s].conn = io[s].conn
        /\ UNCHANGED <<m_SessionMap, m_sessionSet, m_userId>> /\ \A t \in Server \ {s} : io'[t] = io[t]
    BY <1>0, <1>13, <2>1 DEF StopDel, DelOnline, IInv, TypeInv, HandlerNamed
  <2>3. /\ \A t \in Server \ {s} : Same(t)
        /\ Here(s)' /\ ~ Sets(s)'
    BY <2>1, <2>2 DEF KeyOf
  <2>4. CASE v # u
    <3>1. online'[u] = online[u] /\ (Owns(s, u)' => Owns(s, u))
      BY <1>0, <2>1, <2>2, <2>4 DEF Owns
    <3>. QED
      BY <1>2, <2>3, <3>1
  <2>5. CASE v = u
    <3>1. Owns(s, u) /\ ~ Owns(s, u)'
      BY <1>0, <2>1, <2>2, <2>5 DEF KeyOf, Owns
    <3>2. online'[u] = None
      BY <1>0, <2>2, <2>5
    <3>. QED
      BY <1>12, <2>3, <3>1, <3>2
  <2>. QED
    BY <2>4, <2>5
<1>14. ASSUME NEW s \in Server, StopErase(s) PROVE KeyOf(u)'
  <2>1. PICK v : v = io[s].user
    OBVIOUS
  <2>2. /\ v \in User /\ io[s].op = "erase" /\ io'[s].op = "idle"
        /\ m_SessionMap' = [m_SessionMap EXCEPT ![s][v] = None]
        /\ UNCHANGED <<online, m_sessionSet, m_userId>> /\ \A t \in Server \ {s} : io'[t] = io[t]
    BY <1>0, <1>14, <2>1 DEF StopErase, EraseEntry, IInv, TypeInv, HandlerNamed
  <2>3. \A t \in Server \ {s} : Same(t)
    BY <1>0, <2>2
  <2>4. CASE v # u
    <3>1. m_SessionMap'[s][u] = m_SessionMap[s][u]
      BY <1>0, <2>2, <2>4
    <3>2. Here(s)' /\ (Owns(s, u)' => Owns(s, u)) /\ ~ Sets(s)'
      BY <2>1, <2>2, <2>4, <3>1 DEF KeyOf, Owns
    <3>. QED
      BY <1>2, <2>2, <2>3, <3>2
  <2>5. CASE v = u
    <3>1. m_SessionMap'[s][u] = None
      BY <1>0, <2>2, <2>5
    <3>2. \A c \in m_sessionSet[s] : m_userId[c] # u
      <4>1. m_SessionMap[s][u] = io[s].conn
        BY <2>1, <2>2, <2>5 DEF KeyOf
      <4>2. io[s].conn \notin m_sessionSet[s]
        BY <2>2 DEF IInv, SessionsOK, HandlerOK, StopOK
      <4>. QED
        BY <4>1, <4>2 DEF KeyOf
    <3>3. Here(s)' /\ ~ Owns(s, u)' /\ ~ Sets(s)'
      BY <2>2, <3>1, <3>2 DEF Owns
    <3>. QED
      BY <1>2, <2>2, <2>3, <3>3
  <2>. QED
    BY <2>4, <2>5
<1>15. ASSUME NEW s \in Server, BeginStopAll(s), IoIdle(s) \/ EraseEnd(s) PROVE KeyOf(u)'
  <2>1. /\ m_sessionSet' = [m_sessionSet EXCEPT ![s] = {}]
        /\ io'[s].op = "stopAll" /\ io'[s].users = {v \in User : m_SessionMap[s][v] # None}
        /\ UNCHANGED <<m_SessionMap, m_userId, online>> /\ \A t \in Server \ {s} : io'[t] = io[t]
    BY <1>0, <1>15 DEF BeginStopAll
  <2>2. \A t \in Server \ {s} : Same(t)
    BY <1>0, <2>1
  <2>3. Here(s)' /\ ~ Sets(s)'
    BY <1>0, <2>1
  <2>4. Owns(s, u)' => Owns(s, u)
    BY <1>15, <2>1 DEF Owns, IoIdle, EraseEnd
  <2>. QED
    BY <1>2, <2>1, <2>2, <2>3, <2>4
<1>16. ASSUME NEW s \in Server, NEW v \in User, StopAllDel(s, v) PROVE KeyOf(u)'
  <2>1. /\ online' = [online EXCEPT ![v] = None]
        /\ io[s].op = "stopAll" /\ v \in io[s].users
        /\ io'[s].op = "stopAll" /\ io'[s].users = io[s].users \ {v}
        /\ UNCHANGED <<m_SessionMap, m_sessionSet, m_userId>> /\ \A t \in Server \ {s} : io'[t] = io[t]
    BY <1>0, <1>16 DEF StopAllDel, DelOnline
  <2>2. /\ \A t \in Server \ {s} : Same(t)
        /\ Here(s)' /\ ~ Sets(s)'
    BY <2>1 DEF KeyOf
  <2>3. CASE v # u
    <3>1. online'[u] = online[u] /\ (Owns(s, u)' => Owns(s, u))
      BY <1>0, <2>1, <2>3 DEF Owns
    <3>. QED
      BY <1>2, <2>2, <3>1
  <2>4. CASE v = u
    <3>1. Owns(s, u) /\ ~ Owns(s, u)'
      BY <2>1, <2>4 DEF Owns, Stopping
    <3>2. online'[u] = None
      BY <1>0, <2>1, <2>4
    <3>. QED
      BY <1>12, <2>2, <3>1, <3>2
  <2>. QED
    BY <2>3, <2>4
<1>. HIDE DEF Same, Here, Sets
<1>17. CASE Environment
  BY <1>3, <1>4, <1>17
  DEF Environment, LoginRecorded, LoginForgotten, HangUp, Crash, Die, Restart
<1>18. ASSUME NEW s \in Server, Begin(s) PROVE KeyOf(u)'
  BY <1>3, <1>5, <1>6, <1>11, <1>15, <1>18 DEF Begin, ShakeUnknown, Shutdown
<1>19. ASSUME NEW s \in Server, Shake(s) PROVE KeyOf(u)'
  BY <1>7, <1>8, <1>9, <1>10, <1>19 DEF Shake
<1>20. ASSUME NEW s \in Server, Stop(s) PROVE KeyOf(u)'
  BY <1>4, <1>10, <1>13, <1>14, <1>15, <1>16, <1>20
  DEF Stop, StopEraseEnd, Die, StopEraseThrow, StopAllDone
<1>21. CASE UNCHANGED vars
  BY <1>3, <1>21 DEF vars
<1>. QED
  BY <1>17, <1>18, <1>19, <1>20, <1>21 DEF Next, Continue

\* A connection becomes ready when its handshake is answered.
LEMMA SessionsReady ==
  ASSUME IInv, [Next]_vars, NEW c \in Conn, phase'[c] = "ready", phase[c] # "ready"
  PROVE  \E s \in Server : ShakeReply(s) /\ c = io[s].conn
<1>0. phase \in [Conn -> Phase]
  BY DEF IInv, TypeInv, TypeOK
<1>1. ASSUME NEW C, Close(C) PROVE FALSE
  BY <1>1 DEF Close
<1>2. phase' # phase
  OBVIOUS
<1>3. ASSUME Environment PROVE FALSE
  BY <1>1, <1>2, <1>3
  DEF Environment, LoginRecorded, LoginForgotten, HangUp, Crash, Die, Restart, sessionVars
<1>4. ASSUME NEW s \in Server, Begin(s) PROVE FALSE
  BY <1>0, <1>1, <1>2, <1>4
  DEF Begin, Accept, Start, StopSession, ShakeUnknown, ShakeKnown, Shutdown, BeginStopAll, sessionVars
<1>5. ASSUME NEW s \in Server, Shake(s) PROVE ShakeReply(s) /\ c = io[s].conn
  BY <1>0, <1>2, <1>5
  DEF Shake, ShakeAlreadyOnline, ShakeRegister, ShakeSet, ShakeSadd, ShakeReply, sessionVars
<1>6. ASSUME NEW s \in Server, Stop(s) PROVE FALSE
  BY <1>1, <1>2, <1>6
  DEF Stop, StopDel, StopErase, StopEraseEnd, Die, StopEraseThrow, BeginStopAll, Srem, StopAllDel,
      StopAllDone, sessionVars
<1>. QED
  BY <1>2, <1>3, <1>4, <1>5, <1>6 DEF Next, Continue, vars, sessionVars

\* The histories doubled and ousted grow with the steps of Presence only.
LEMMA OustedSteps ==
  ASSUME [PeerNext]_allVars
  PROVE  \/ doubled \subseteq doubled' /\ ousted' = ousted \cup Ousting
         \/ UNCHANGED <<vars, doubled, ousted>>
<1>1. CASE PresenceStep
  BY <1>1 DEF PresenceStep
<1>2. CASE ChatStep
  BY <1>2
  DEF ChatStep, SendLocal, SendRemote, AskUnread, ChatContinue, GetOnline, PublishPeerMsg,
      PushUnread, TrimUnread, DelUnread, AnswerUnread, Subscribe, Consume, Deliver, Drop
<1>3. CASE UNCHANGED allVars
  BY <1>3 DEF allVars, peerVars
<1>. QED
  BY <1>1, <1>2, <1>3 DEF PeerNext

\* A connection with an answered handshake is held by its server.
Hosted == \A c \in Conn : phase[c] = "ready" => \E s \in Server : c \in m_sessionSet[s]

\* u is in her groups: all of them when her handshake is answered, and those added so
\* far while it is under way.
InGroups(u) ==
  /\ \A s \in Server : io[s].op = "sadd" /\ io[s].user = u =>
       \A g \in GroupSet[u] \ io[s].groups : u \in onlineGroup[g]
  /\ \A c \in Conn : phase[c] = "ready" /\ ClientOf[c] = u =>
       \A g \in GroupSet[u] : u \in onlineGroup[g]

GroupsInv == Hosted /\ \A u \in User \ (doubled \cup ousted) : InGroups(u)

LEMMA HostedHolds ==
  ASSUME IInv, Mapped, Hosted, [Next]_vars
  PROVE  Hosted'
<1>0. SessionStep /\ io \in [Server -> IoState]
  BY SessionSteps DEF IInv, TypeInv, TypeOK
<1>. SUFFICES ASSUME NEW c \in Conn, phase'[c] = "ready"
              PROVE  \E s \in Server : c \in m_sessionSet'[s]
  BY DEF Hosted
<1>1. \E s \in Server : c \in m_sessionSet[s]
  <2>1. CASE phase[c] = "ready"
    BY <2>1 DEF Hosted
  <2>2. CASE phase[c] # "ready"
    <3>1. PICK s \in Server : ShakeReply(s) /\ c = io[s].conn
      BY <2>2, SessionsReady
    <3>. QED
      BY <3>1 DEF ShakeReply, IInv, HandlerOK, ShakeOK
  <2>. QED
    BY <2>1, <2>2
<1>. QED
  BY <1>0, <1>1 DEF SessionStep

\* A user with one client at a time is online from SET on, as long as she has a session.
LEMMA SessionOnline ==
  ASSUME IInv, Mapped, Twins, Stopping, NEW u \in User \ doubled, KeyOf(u),
         NEW s \in Server, NEW c \in m_sessionSet[s], m_userId[c] = u,
         ~ (io[s].op = "set" /\ io[s].user = u)
  PROVE  online[u] # None
<1>1. c \in Conn /\ None \notin Conn \cup Server
  BY PresenceAssumption DEF IInv, TypeInv, TypeOK
<1>2. m_SessionMap[s][u] = c
  BY DEF KeyOf
<1>3. ~ (io[s].op = "erase" /\ io[s].user = u)
  <2>1. SUFFICES ASSUME io[s].op = "erase", io[s].user = u PROVE FALSE
    OBVIOUS
  <2>2. io[s].conn = c
    BY <1>2, <2>1 DEF KeyOf
  <2>. QED
    BY <2>1, <2>2 DEF IInv, SessionsOK, HandlerOK, StopOK
<1>4. io[s].op # "stopAll"
  BY DEF IInv, HandlerOK, StopOK
<1>5. Owns(s, u)
  BY <1>1, <1>2, <1>3, <1>4 DEF Owns
<1>. QED
  BY <1>1, <1>5 DEF KeyOf

\* So is one whose handshake was answered, or is past SET.
LEMMA ReadyOnline ==
  ASSUME IInv, Mapped, Twins, Stopping, Hosted, NEW u \in User \ doubled, KeyOf(u),
         NEW c \in Conn, phase[c] = "ready", ClientOf[c] = u
  PROVE  online[u] # None
<1>1. m_userId[c] = u
  BY DEF Mapped
<1>2. PICK s \in Server : c \in m_sessionSet[s]
  BY DEF Hosted
<1>3. ~ (io[s].op = "set" /\ io[s].user = u)
  <2>1. SUFFICES ASSUME io[s].op = "set", io[s].user = u PROVE FALSE
    OBVIOUS
  <2>2. PICK d : d = io[s].conn
    OBVIOUS
  <2>3. d \in m_sessionSet[s] /\ phase[d] = "open" /\ m_userId[d] = u
    BY <2>1, <2>2 DEF IInv, HandlerOK, ShakeOK
  <2>4. c = d
    BY <1>1, <1>2, <2>3, OneClient
  <2>. QED
    BY <2>3, <2>4
<1>. QED
  BY <1>1, <1>2, <1>3, SessionOnline

LEMMA SaddOnline ==
  ASSUME IInv, Mapped, Twins, Stopping, NEW u \in User \ doubled, KeyOf(u),
         NEW s \in Server, io[s].op = "sadd", io[s].user = u
  PROVE  online[u] # None
<1>1. PICK d : d = io[s].conn
  OBVIOUS
<1>2. d \in m_sessionSet[s] /\ m_userId[d] = u
  BY <1>1 DEF IInv, HandlerOK, ShakeOK
<1>. QED
  BY <1>2, SessionOnline

\* The handlers that leave a session in the state "sadd".
LEMMA SaddSteps ==
  ASSUME IInv, [Next]_vars, NEW s \in Server, io'[s].op = "sadd"
  PROVE  \/ io'[s].groups = GroupSet[io'[s].user]
         \/ /\ io[s].op = "sadd" /\ io'[s].user = io[s].user
            /\ \A g \in io[s].groups \ io'[s].groups : io[s].user \in onlineGroup'[g]
<1>0. /\ io \in [Server -> IoState] /\ onlineGroup \in [Group -> SUBSET User]
      /\ \A t \in Server : io[t].groups \subseteq Group
  BY DEF IInv, TypeInv, TypeOK, IoState
<1>. DEFINE Z == \/ io'[s].groups = GroupSet[io'[s].user]
                 \/ /\ io[s].op = "sadd" /\ io'[s].user = io[s].user
                    /\ \A g \in io[s].groups \ io'[s].groups : io[s].user \in onlineGroup'[g]
<1>. USE DEF Idle, Handling, At, StoppingAll
<1>1. io'[s] = io[s] => Z
  OBVIOUS
<1>2. CASE io' = io
  BY <1>1, <1>2
<1>3. ASSUME NEW t \in Server, NEW h, h.op # "sadd", io' = [io EXCEPT ![t] = h] PROVE Z
  BY <1>0, <1>1, <1>3
<1>4. ASSUME NEW t \in Server, ShakeSet(t) PROVE Z
  <2>1. CASE t = s
    BY <1>0, <1>4, <2>1 DEF ShakeSet, SmembersGroupSet
  <2>2. CASE t # s
    BY <1>0, <1>1, <1>4, <2>2 DEF ShakeSet
  <2>. QED
    BY <2>1, <2>2
<1>5. ASSUME NEW t \in Server, NEW g \in Group, ShakeSadd(t, g) PROVE Z
  <2>1. CASE t = s
    <3>1. /\ io'[s].user = io[s].user /\ io'[s].groups = io[s].groups \ {g} /\ io[s].op = "sadd"
          /\ io[s].user \in onlineGroup'[g]
      BY <1>0, <1>5, <2>1 DEF ShakeSadd, SaddOnlineGroup
    <3>. QED
      BY <3>1
  <2>2. CASE t # s
    BY <1>0, <1>1, <1>5, <2>2 DEF ShakeSadd
  <2>. QED
    BY <2>1, <2>2
<1>6. ASSUME NEW t \in Server, NEW g \in Group, Srem(t, g) PROVE Z
  <2>1. PICK h : h = At(io[t], io[t].op, io[t].groups \ {g})
    OBVIOUS
  <2>2. h.op # "sadd" /\ io' = [io EXCEPT ![t] = h]
    BY <1>0, <1>6, <2>1 DEF Srem
  <2>. QED
    BY <1>3, <2>2
<1>7. ASSUME NEW t \in Server, Exit(t) PROVE Z
  BY <1>3, <1>7 DEF Exit
<1>8. ASSUME NEW t \in Server, BeginStopAll(t) PROVE Z
  BY <1>3, <1>8 DEF BeginStopAll
<1>9. ASSUME NEW t \in Server, NEW c \in Conn, StopSession(t, c) PROVE Z
  BY <1>0, <1>1, <1>9 DEF StopSession
<1>10. ASSUME NEW t \in Server, NEW c \in Conn, ShakeKnown(t, c) PROVE Z
  BY <1>3, <1>10 DEF ShakeKnown
<1>11. ASSUME NEW t \in Server, ShakeAlreadyOnline(t) \/ ShakeReply(t) \/ StopErase(t) PROVE Z
  BY <1>3, <1>11 DEF ShakeAlreadyOnline, ShakeReply, StopErase
<1>12. ASSUME NEW t \in Server, ShakeRegister(t) \/ StopDel(t) PROVE Z
  BY <1>0, <1>1, <1>12 DEF ShakeRegister, StopDel
<1>13. ASSUME NEW t \in Server, NEW u \in User, StopAllDel(t, u) PROVE Z
  BY <1>0, <1>1, <1>13 DEF StopAllDel
<1>14. CASE Environment
  BY <1>2, <1>7, <1>14 DEF Environment, LoginRecorded, LoginForgotten, HangUp, Crash, Die, Restart
<1>15. ASSUME NEW t \in Server, Begin(t) PROVE Z
  BY <1>2, <1>8, <1>9, <1>10, <1>15 DEF Begin, Accept, ShakeUnknown, Shutdown
<1>16. ASSUME NEW t \in Server, Shake(t) PROVE Z
  BY <1>4, <1>5, <1>11, <1>12, <1>16 DEF Shake
<1>17. ASSUME NEW t \in Server, Stop(t) PROVE Z
  BY <1>6, <1>7, <1>8, <1>11, <1>12, <1>13, <1>17
  DEF Stop, StopEraseEnd, Die, StopEraseThrow, StopAllDone
<1>18. CASE UNCHANGED vars
  BY <1>2, <1>18 DEF vars
<1>. QED
  BY <1>14, <1>15, <1>16, <1>17, <1>18 DEF Next, Continue

LEMMA GroupsHold ==
  ASSUME IInv, Mapped, Twins, Stopping, KeyInv, GroupsInv, [Next]_vars,
         ousted' = ousted \cup Ousting, doubled \subseteq doubled'
  PROVE  GroupsInv'
<1>1. Hosted'
  BY HostedHolds DEF GroupsInv
<1>2. ASSUME NEW u \in User, u \notin doubled' \cup ousted' PROVE InGroups(u)'
  <2>1. u \notin doubled /\ u \notin ousted /\ u \notin Ousting /\ KeyOf(u) /\ InGroups(u) /\ Hosted
    BY <1>2 DEF KeyInv, GroupsInv
  <2>2. online[u] # None => \A g \in Group : u \in onlineGroup[g] => u \in onlineGroup'[g]
    BY <2>1 DEF Ousting
  <2>3. GroupSet[u] \subseteq Group
    BY PresenceAssumption
  <2>4. ASSUME NEW s \in Server, io'[s].op = "sadd", io'[s].user = u,
               NEW g \in GroupSet[u] \ io'[s].groups
        PROVE  u \in onlineGroup'[g]
    <3>1. /\ io[s].op = "sadd" /\ io[s].user = u
          /\ \A f \in io[s].groups \ io'[s].groups : io[s].user \in onlineGroup'[f]
      BY <2>4, SaddSteps
    <3>2. CASE g \in io[s].groups
      BY <2>4, <3>1, <3>2
    <3>3. CASE g \notin io[s].groups
      <4>1. online[u] # None
        BY <2>1, <3>1, SaddOnline
      <4>. QED
        BY <2>1, <2>2, <2>3, <2>4, <3>1, <3>3, <4>1 DEF InGroups
    <3>. QED
      BY <3>2, <3>3
  <2>5. ASSUME NEW c \in Conn, phase'[c] = "ready", ClientOf[c] = u, NEW g \in GroupSet[u]
        PROVE  u \in onlineGroup'[g]
    <3>1. CASE phase[c] = "ready"
      <4>1. online[u] # None
        BY <2>1, <2>5, <3>1, ReadyOnline
      <4>. QED
        BY <2>1, <2>2, <2>3, <2>5, <3>1, <4>1 DEF InGroups
    <3>2. CASE phase[c] # "ready"
      <4>1. PICK s \in Server : ShakeReply(s) /\ c = io[s].conn
        BY <2>5, <3>2, SessionsReady
      <4>2. io[s].op = "sadd" /\ io[s].groups = {} /\ io[s].user = u
        BY <2>5, <4>1 DEF ShakeReply, IInv, HandlerOK, ShakeOK
      <4>3. online[u] # None
        BY <2>1, <4>2, SaddOnline
      <4>. QED
        BY <2>1, <2>2, <2>3, <4>2, <4>3 DEF InGroups
    <3>. QED
      BY <3>1, <3>2
  <2>. QED
    BY <2>4, <2>5 DEF InGroups
<1>. QED
  BY <1>1, <1>2 DEF GroupsInv

\* A user whose handshake was answered is in onlineGroup:<g> of every group of hers while
\* her connection lasts, unless she ever had two clients at work or a server that is
\* shut down took her out of a group after another had let her in: nobody else can,
\* since the key and the map entry the shutdown goes by are hers alone.
THEOREM ReadyInGroupsHolds == IsFiniteSet(Conn) => (PeerSpec => []ReadyInGroups)
<1>. SUFFICES ASSUME IsFiniteSet(Conn) PROVE PeerSpec => []ReadyInGroups
  OBVIOUS
<1>. DEFINE J == IInv /\ Mapped /\ Twins /\ Stopping /\ KeyInv /\ GroupsInv
<1>1. PeerInit => J
  <2>. SUFFICES ASSUME PeerInit PROVE J
    OBVIOUS
  <2>1. IInv /\ Mapped /\ Init
    BY InitIInv, MappedInit DEF PeerInit
  <2>2. Twins
    BY <2>1 DEF Init, Twins, Clients
  <2>3. /\ \A s \in Server : io[s].op = "idle" /\ m_sessionSet[s] = {}
        /\ \A s \in Server, u \in User : m_SessionMap[s][u] = None
        /\ \A c \in Conn : phase[c] = "unused"
    BY <2>1 DEF Init, Idle, Handling, NoSessions
  <2>4. Stopping
    BY <2>3 DEF Stopping
  <2>5. KeyInv
    BY <2>3, <2>4 DEF KeyInv, KeyOf, Owns
  <2>6. GroupsInv
    BY <2>3 DEF GroupsInv, Hosted, InGroups
  <2>. QED
    BY <2>1, <2>2, <2>4, <2>5, <2>6
<1>2. J /\ [PeerNext]_allVars => J'
  <2>. SUFFICES ASSUME J, [PeerNext]_allVars PROVE J'
    OBVIOUS
  <2>1. [Next]_vars /\ IInv' /\ Mapped'
    BY PresenceNext, NextIInv, MappedHolds
  <2>2. Twins' /\ Stopping'
    BY <2>1, TwinsHold, StoppingHolds
  <2>3. \/ doubled \subseteq doubled' /\ ousted' = ousted \cup Ousting
        \/ UNCHANGED <<vars, doubled, ousted>>
    BY OustedSteps
  <2>4. doubled \subseteq doubled'
    BY <2>3
  <2>5. KeyInv'
    <3>1. ASSUME NEW u \in User \ doubled' PROVE KeyOf(u)'
      <4>1. u \in User \ (doubled \cup doubled') /\ KeyOf(u)
        BY <2>4, <3>1 DEF KeyInv
      <4>. QED
        BY <2>1, <2>2, <4>1, KeyHolds
    <3>. QED
      BY <2>2, <3>1 DEF KeyInv
  <2>6. GroupsInv'
    <3>1. CASE doubled \subseteq doubled' /\ ousted' = ousted \cup Ousting
      BY <2>1, <3>1, GroupsHold
    <3>2. CASE UNCHANGED <<vars, doubled, ousted>>
      BY <3>2 DEF GroupsInv, Hosted, InGroups, vars, redisVars, sessionVars
    <3>. QED
      BY <2>3, <3>1, <3>2
  <2>. QED
    BY <2>1, <2>2, <2>5, <2>6
<1>3. J => ReadyInGroups
  <2>. SUFFICES ASSUME J, NEW c \in Conn, phase[c] = "ready", ClientOf[c] \notin doubled \cup ousted,
                       NEW g \in GroupSet[ClientOf[c]]
                PROVE  ClientOf[c] \in onlineGroup[g]
    BY DEF ReadyInGroups
  <2>1. ClientOf[c] \in User
    BY PresenceAssumption
  <2>. QED
    BY <2>1 DEF GroupsInv, InGroups
<1>. HIDE DEF J
<1>. QED
  BY <1>1, <1>2, <1>3, PTL DEF PeerSpec

-----------------------------------------------------------------------------
(* Order.  The live messages of one connection, those routed to a session, are in the
   order of sending in every channel and inbox; those in the inbox of a mapped session
   come before those in the channel of its server, and those before the one in a hand. *)

LiveIds(ms, f) == {ms[i].id : i \in {j \in 1..Len(ms) : ms[j].via # None /\ ms[j].from = f}}

Below(S, T) == \A a \in S, b \in T : a < b

Rises(ms) ==
  \A i, j \in 1..Len(ms) :
    /\ i < j
    /\ ms[i].via # None /\ ms[j].via # None
    /\ ms[i].from = ms[j].from
    => ms[i].id < ms[j].id

\* The live messages of two lists joined.
LEMMA LiveJoined ==
  ASSUME NEW ms \in Seq(Message), NEW ns \in Seq(Message), NEW f
  PROVE  LiveIds(ms \o ns, f) = LiveIds(ms, f) \cup LiveIds(ns, f)
<1>. DEFINE q == ms \o ns
<1>1. /\ Len(q) = Len(ms) + Len(ns) /\ Len(ms) \in Nat /\ Len(ns) \in Nat
      /\ \A i \in 1..Len(ms) + Len(ns) : q[i] = IF i <= Len(ms) THEN ms[i] ELSE ns[i - Len(ms)]
  BY ConcatProperties
<1>. HIDE DEF q
<1>2. ASSUME NEW a \in LiveIds(q, f) PROVE a \in LiveIds(ms, f) \cup LiveIds(ns, f)
  <2>1. PICK i \in 1..Len(q) : q[i].via # None /\ q[i].from = f /\ a = q[i].id
    BY <1>2 DEF LiveIds
  <2>2. CASE i <= Len(ms)
    BY <1>1, <2>1, <2>2 DEF LiveIds
  <2>3. CASE ~(i <= Len(ms))
    <3>1. i - Len(ms) \in 1..Len(ns) /\ q[i] = ns[i - Len(ms)]
      BY <1>1, <2>3
    <3>. QED
      BY <2>1, <3>1 DEF LiveIds
  <2>. QED
    BY <2>2, <2>3
<1>3. ASSUME NEW a \in LiveIds(ms, f) PROVE a \in LiveIds(q, f)
  <2>1. PICK i \in 1..Len(ms) : ms[i].via # None /\ ms[i].from = f /\ a = ms[i].id
    BY <1>3 DEF LiveIds
  <2>2. i \in 1..Len(q) /\ q[i] = ms[i]
    BY <1>1, <2>1
  <2>. QED
    BY <2>1, <2>2 DEF LiveIds
<1>4. ASSUME NEW a \in LiveIds(ns, f) PROVE a \in LiveIds(q, f)
  <2>1. PICK i \in 1..Len(ns) : ns[i].via # None /\ ns[i].from = f /\ a = ns[i].id
    BY <1>4 DEF LiveIds
  <2>2. /\ i + Len(ms) \in 1..Len(q) /\ ~(i + Len(ms) <= Len(ms)) /\ (i + Len(ms)) - Len(ms) = i
    BY <1>1, <2>1
  <2>3. q[i + Len(ms)] = ns[i]
    BY <1>1, <2>2
  <2>. QED
    BY <2>1, <2>2, <2>3 DEF LiveIds
<1>5. LiveIds(q, f) = LiveIds(ms, f) \cup LiveIds(ns, f)
  BY <1>2, <1>3, <1>4
<1>. QED
  BY <1>5 DEF q

\* Two lists joined rise when each does and the second goes on above the first.
LEMMA RisesJoined ==
  ASSUME NEW ms \in Seq(Message), NEW ns \in Seq(Message)
  PROVE  Rises(ms \o ns) <=>
           Rises(ms) /\ Rises(ns) /\ \A f \in Conn : Below(LiveIds(ms, f), LiveIds(ns, f))
<1>. DEFINE q == ms \o ns
<1>1. /\ Len(q) = Len(ms) + Len(ns) /\ Len(ms) \in Nat /\ Len(ns) \in Nat
      /\ \A i \in 1..Len(ms) + Len(ns) : q[i] = IF i <= Len(ms) THEN ms[i] ELSE ns[i - Len(ms)]
  BY ConcatProperties
<1>. HIDE DEF q
<1>2. /\ \A i \in 1..Len(ms) : i \in 1..Len(q) /\ q[i] = ms[i] /\ ms[i] \in Message
      /\ \A i \in 1..Len(ns) : i + Len(ms) \in 1..Len(q) /\ q[i + Len(ms)] = ns[i] /\ ns[i] \in Message
  <2>1. \A i \in 1..Len(ms) : i \in 1..Len(q) /\ q[i] = ms[i] /\ ms[i] \in Message
    BY <1>1, ElementOfSeq
  <2>2. ASSUME NEW i \in 1..Len(ns) PROVE i + Len(ms) \in 1..Len(q) /\ q[i + Len(ms)] = ns[i]
    <3>1. i + Len(ms) \in 1..Len(q) /\ ~(i + Len(ms) <= Len(ms)) /\ (i + Len(ms)) - Len(ms) = i
      BY <1>1, <2>2
    <3>. QED
      BY <1>1, <3>1
  <2>3. \A i \in 1..Len(ns) : ns[i] \in Message
    BY ElementOfSeq
  <2>. QED
    BY <2>1, <2>2, <2>3
<1>3. ASSUME Rises(q)
      PROVE  Rises(ms) /\ Rises(ns) /\ \A f \in Conn : Below(LiveIds(ms, f), LiveIds(ns, f))
  <2>1. Rises(ms)
    BY <1>2, <1>3 DEF Rises
  <2>2. Rises(ns)
    <3>1. SUFFICES ASSUME NEW i \in 1..Len(ns), NEW j \in 1..Len(ns), i < j, ns[i].via # None,
                          ns[j].via # None, ns[i].from = ns[j].from
                   PROVE  ns[i].id < ns[j].id
      BY DEF Rises
    <3>2. i + Len(ms) < j + Len(ms)
      BY <1>1, <3>1
    <3>. QED
      BY <1>2, <1>3, <3>1, <3>2 DEF Rises
  <2>3. ASSUME NEW f \in Conn, NEW a \in LiveIds(ms, f), NEW b \in LiveIds(ns, f) PROVE a < b
    <3>1. PICK i \in 1..Len(ms) : ms[i].via # None /\ ms[i].from = f /\ a = ms[i].id
      BY <2>3 DEF LiveIds
    <3>2. PICK j \in 1..Len(ns) : ns[j].via # None /\ ns[j].from = f /\ b = ns[j].id
      BY <2>3 DEF LiveIds
    <3>3. i < j + Len(ms)
      BY <1>1, <3>1, <3>2
    <3>4. PICK k : k = j + Len(ms)
      OBVIOUS
    <3>5. i \in 1..Len(q) /\ k \in 1..Len(q) /\ q[i] = ms[i] /\ q[k] = ns[j] /\ i < k
      BY <1>2, <3>1, <3>2, <3>3, <3>4
    <3>6. ns[j].via # None /\ ms[i].from = ns[j].from
      BY <3>1, <3>2
    <3>7. q[i].id < q[k].id
      BY ONLY Rises(q), <3>1, <3>5, <3>6 DEF Rises
    <3>. QED
      BY <3>1, <3>2, <3>5, <3>7
  <2>. QED
    BY <2>1, <2>2, <2>3 DEF Below
<1>4. ASSUME Rises(ms), Rises(ns), \A f \in Conn : Below(LiveIds(ms, f), LiveIds(ns, f))
      PROVE  Rises(q)
  <2>1. SUFFICES ASSUME NEW i \in 1..Len(q), NEW j \in 1..Len(q), i < j, q[i].via # None,
                        q[j].via # None, q[i].from = q[j].from
                 PROVE  q[i].id < q[j].id
    BY DEF Rises
  <2>2. CASE i <= Len(ms) /\ j <= Len(ms)
    BY <1>1, <1>4, <2>1, <2>2 DEF Rises
  <2>3. CASE i <= Len(ms) /\ ~(j <= Len(ms))
    <3>1. /\ i \in 1..Len(ms) /\ q[i] = ms[i] /\ j - Len(ms) \in 1..Len(ns) /\ q[j] = ns[j - Len(ms)]
      BY <1>1, <2>3
    <3>2. PICK f : f = q[i].from
      OBVIOUS
    <3>3. f \in Conn
      <4>1. ms[i] \in Message
        BY <1>2, <3>1
      <4>. QED
        BY <3>1, <3>2, <4>1 DEF Message
    <3>4. q[i].id \in LiveIds(ms, f) /\ q[j].id \in LiveIds(ns, f)
      BY <2>1, <3>1, <3>2 DEF LiveIds
    <3>. QED
      BY <1>4, <3>3, <3>4 DEF Below
  <2>4. CASE ~(i <= Len(ms))
    <3>1. /\ i - Len(ms) \in 1..Len(ns) /\ q[i] = ns[i - Len(ms)]
          /\ j - Len(ms) \in 1..Len(ns) /\ q[j] = ns[j - Len(ms)]
          /\ i - Len(ms) < j - Len(ms)
      BY <1>1, <2>1, <2>4
    <3>. QED
      BY <1>4, <2>1, <3>1 DEF Rises
  <2>. QED
    BY <2>2, <2>3, <2>4
<1>. QED
  BY <1>3, <1>4 DEF q

\* The live messages of a list of one message, of an empty one and of one that was not
\* routed to a session.
LEMMA LiveOfOne ==
  ASSUME NEW m
  PROVE  /\ Rises(<<m>>) /\ Rises(<<>>)
         /\ \A f : LiveIds(<<m>>, f) = IF m.via # None /\ m.from = f THEN {m.id} ELSE {}
         /\ \A f : LiveIds(<<>>, f) = {}
<1>1. Len(<<m>>) = 1 /\ <<m>>[1] = m /\ Len(<<>>) = 0 /\ 1..0 = {}
  OBVIOUS
<1>2. 1..1 = {1}
  OBVIOUS
<1>. QED
  BY <1>1, <1>2 DEF Rises, LiveIds

LEMMA PlainDead ==
  ASSUME NEW ms \in Seq(Plain)
  PROVE  Rises(ms) /\ \A f : LiveIds(ms, f) = {}
<1>1. \A i \in 1..Len(ms) : ms[i].via = None
  BY ElementOfSeq DEF Plain
<1>. QED
  BY <1>1 DEF Rises, LiveIds

LiveInv ==
  /\ \A t \in Server : Rises(channel[t])
  /\ \A c \in Conn : Rises(inbox[c])
  /\ \A t \in Server, u \in User : m_SessionMap[t][u] # None =>
       \A f \in Conn : Below(LiveIds(inbox[m_SessionMap[t][u]], f), LiveIds(channel[t], f))
  /\ \A s \in Server : Hand(s) =>
       /\ \A t \in Server : Below(LiveIds(channel[t], chat[s].msg.from), {chat[s].msg.id})
       /\ \A c \in Conn : Below(LiveIds(inbox[c], chat[s].msg.from), {chat[s].msg.id})

InboxShut ==
  \A c \in Conn : inbox[c] # <<>> => phase[c] # "unused" /\ (phase[c] = "open" => m_userId[c] # None)

\* A message sent now has a greater number than all that are on their way or handed over.
LEMMA LiveSent ==
  ASSUME ChatTyped, Contents, NEW x, x = Len(sent) + 1, NEW f
  PROVE  /\ \A t \in Server : Below(LiveIds(channel[t], f), {x})
         /\ \A c \in Conn : Below(LiveIds(inbox[c], f), {x})
<1>1. Len(sent) \in Nat
  BY DEF ChatTyped
<1>2. ASSUME NEW ms \in Seq(Known) PROVE Below(LiveIds(ms, f), {x})
  <2>1. \A i \in 1..Len(ms) : ms[i].id \in 1..Len(sent)
    BY <1>2, ElementOfSeq DEF Known
  <2>. QED
    BY <1>1, <2>1 DEF Below, LiveIds
<1>3. \A t \in Server : channel[t] \in Seq(Known)
  <2>1. \A t \in Server : Led(t) \subseteq Known
    BY DEF Led
  <2>. QED
    BY <2>1, SeqMonotonic DEF Contents
<1>. QED
  BY <1>2, <1>3 DEF Contents

\* The subscriber thread takes the oldest message of a channel.
LEMMA LiveTaken ==
  ASSUME ChatTyped, LiveInv, NEW s \in Server, channel[s] # <<>>,
         channel' = [channel EXCEPT ![s] = Tail(@)], NEW m, m = Head(channel[s])
  PROVE  /\ m \in Message
         /\ \A t \in Server : /\ Rises(channel'[t])
                              /\ \A f : LiveIds(channel'[t], f) \subseteq LiveIds(channel[t], f)
         /\ \A f : LiveIds(<<m>>, f) \subseteq LiveIds(channel[s], f)
         /\ \A f \in Conn : Below(LiveIds(<<m>>, f), LiveIds(channel'[s], f))
<1>1. PICK ms \in Seq(Message) : ms = channel[s] /\ ms # <<>>
  BY DEF ChatTyped
<1>2. PICK ns : ns = Tail(ms)
  OBVIOUS
<1>3. m \in Message /\ ns \in Seq(Message) /\ <<m>> \in Seq(Message) /\ ms = <<m>> \o ns
  <2>1. Head(ms) \in Message /\ Tail(ms) \in Seq(Message) /\ ms = <<Head(ms)>> \o Tail(ms)
    BY <1>1, HeadTailProperties
  <2>. QED
    BY <1>1, <1>2, <2>1
<1>4. /\ Rises(ns) /\ \A f \in Conn : Below(LiveIds(<<m>>, f), LiveIds(ns, f))
      /\ \A f : LiveIds(ms, f) = LiveIds(<<m>>, f) \cup LiveIds(ns, f)
  <2>1. Rises(<<m>> \o ns)
    BY <1>1, <1>3 DEF LiveInv
  <2>2. Rises(ns) /\ \A f \in Conn : Below(LiveIds(<<m>>, f), LiveIds(ns, f))
    BY <1>3, <2>1, RisesJoined
  <2>3. \A f : LiveIds(<<m>> \o ns, f) = LiveIds(<<m>>, f) \cup LiveIds(ns, f)
    BY <1>3, LiveJoined
  <2>. QED
    BY <1>3, <2>2, <2>3
<1>5. \A t \in Server : channel'[t] = IF t = s THEN ns ELSE channel[t]
  BY <1>1, <1>2 DEF ChatTyped
<1>. QED
  BY <1>1, <1>3, <1>4, <1>5 DEF LiveInv

\* A step that hands nothing to a session.
LEMMA LiveKept ==
  ASSUME ChatTyped, LiveInv, InboxShut, UNCHANGED <<vars, inbox>>,
         \A t \in Server : /\ Rises(channel'[t])
                           /\ \A f \in Conn : LiveIds(channel'[t], f) \subseteq LiveIds(channel[t], f),
         \A s \in Server : Hand(s)' =>
           /\ chat'[s].msg.from \in Conn
           /\ \/ Hand(s) /\ chat'[s].msg.from = chat[s].msg.from /\ chat'[s].msg.id = chat[s].msg.id
              \/ /\ \A t \in Server : Below(LiveIds(channel[t], chat'[s].msg.from), {chat'[s].msg.id})
                 /\ \A c \in Conn : Below(LiveIds(inbox[c], chat'[s].msg.from), {chat'[s].msg.id})
  PROVE  LiveInv' /\ InboxShut'
<1>1. UNCHANGED <<m_SessionMap, phase, m_userId>>
  BY DEF vars, sessionVars
<1>2. InboxShut'
  BY <1>1 DEF InboxShut
<1>3. \A s \in Server : Hand(s)' =>
           /\ \A t \in Server : Below(LiveIds(channel[t], chat'[s].msg.from), {chat'[s].msg.id})
           /\ \A c \in Conn : Below(LiveIds(inbox[c], chat'[s].msg.from), {chat'[s].msg.id})
  BY DEF LiveInv
<1>4. \A s \in Server : Hand(s)' =>
           /\ \A t \in Server : Below(LiveIds(channel'[t], chat'[s].msg.from), {chat'[s].msg.id})
           /\ \A c \in Conn : Below(LiveIds(inbox'[c], chat'[s].msg.from), {chat'[s].msg.id})
  BY <1>3 DEF Below
<1>5. \A t \in Server, u \in User : m_SessionMap[t][u] # None =>
        \A f \in Conn : Below(LiveIds(inbox[m_SessionMap[t][u]], f), LiveIds(channel'[t], f))
  BY DEF LiveInv, Below
<1>. QED
  BY <1>1, <1>2, <1>4, <1>5 DEF LiveInv

\* A step that hands ns to the session d.
LEMMA LiveGiven ==
  ASSUME IInv, Mapped, ChatTyped, LiveInv, InboxShut, UNCHANGED vars, NEW d \in Conn, NEW ns \in Seq(Message),
         inbox' = [inbox EXCEPT ![d] = @ \o ns],
         phase[d] # "unused", phase[d] = "open" => m_userId[d] # None,
         \A t \in Server : /\ Rises(channel'[t])
                           /\ \A f \in Conn : LiveIds(channel'[t], f) \subseteq LiveIds(channel[t], f),
         Rises(ns), \A f \in Conn : Below(LiveIds(inbox[d], f), LiveIds(ns, f)),
         \A t \in Server, u \in User : m_SessionMap[t][u] = d =>
           \A f \in Conn : Below(LiveIds(ns, f), LiveIds(channel'[t], f)),
         \A s \in Server : Hand(s)' =>
           /\ chat'[s].msg.from \in Conn /\ chat'[s] = chat[s]
           /\ Below(LiveIds(ns, chat'[s].msg.from), {chat'[s].msg.id})
  PROVE  LiveInv' /\ InboxShut'
<1>1. UNCHANGED <<m_SessionMap, phase, m_userId>>
  BY DEF vars, sessionVars
<1>2. /\ inbox[d] \in Seq(Message)
      /\ \A c \in Conn : inbox'[c] = IF c = d THEN inbox[d] \o ns ELSE inbox[c]
  BY DEF ChatTyped
<1>3. InboxShut'
  BY <1>1, <1>2 DEF InboxShut
<1>4. Rises(inbox[d] \o ns) /\ \A f \in Conn : LiveIds(inbox[d] \o ns, f) = LiveIds(inbox[d], f) \cup LiveIds(ns, f)
  BY <1>2, RisesJoined, LiveJoined DEF LiveInv
<1>5. \A c \in Conn : Rises(inbox'[c])
  BY <1>2, <1>4 DEF LiveInv
<1>6. ASSUME NEW s \in Server, Hand(s)'
      PROVE  /\ \A t \in Server : Below(LiveIds(channel'[t], chat'[s].msg.from), {chat'[s].msg.id})
             /\ \A c \in Conn : Below(LiveIds(inbox'[c], chat'[s].msg.from), {chat'[s].msg.id})
  <2>0. PICK f, x : f = chat'[s].msg.from /\ x = chat'[s].msg.id
    OBVIOUS
  <2>1. f \in Conn /\ f = chat'[s].msg.from /\ x = chat'[s].msg.id
    BY <1>6, <2>0
  <2>2. Hand(s) /\ f = chat[s].msg.from /\ x = chat[s].msg.id
    BY <1>6, <2>1 DEF Hand
  <2>3. /\ \A t \in Server : Below(LiveIds(channel[t], f), {x})
        /\ \A c \in Conn : Below(LiveIds(inbox[c], f), {x})
    BY <2>2 DEF LiveInv
  <2>4. \A t \in Server : Below(LiveIds(channel'[t], f), {x})
    <3>1. \A t \in Server : LiveIds(channel'[t], f) \subseteq LiveIds(channel[t], f)
      BY <2>1
    <3>. QED
      BY <2>3, <3>1 DEF Below
  <2>5. Below(LiveIds(ns, f), {x})
    BY <1>6, <2>1
  <2>6. \A c \in Conn : Below(LiveIds(inbox'[c], f), {x})
    <3>1. Below(LiveIds(inbox[d] \o ns, f), {x})
      BY <1>4, <2>1, <2>3, <2>5 DEF Below
    <3>. QED
      BY <1>2, <2>3, <3>1
  <2>. QED
    BY <2>1, <2>4, <2>6
<1>7. ASSUME NEW t \in Server, NEW u \in User, m_SessionMap[t][u] # None, NEW f \in Conn
      PROVE  Below(LiveIds(inbox'[m_SessionMap[t][u]], f), LiveIds(channel'[t], f))
  <2>1. PICK c \in Conn : c = m_SessionMap[t][u]
    BY <1>7 DEF IInv, TypeInv, TypeOK
  <2>2. Below(LiveIds(inbox[c], f), LiveIds(channel'[t], f))
    BY <1>7, <2>1 DEF LiveInv, Below
  <2>3. CASE c = d
    <3>1. Below(LiveIds(ns, f), LiveIds(channel'[t], f))
      BY <2>1, <2>3
    <3>2. Below(LiveIds(inbox[d] \o ns, f), LiveIds(channel'[t], f))
      BY <1>4, <2>2, <2>3, <3>1 DEF Below
    <3>. QED
      BY <1>2, <2>1, <2>3, <3>2
  <2>4. CASE c # d
    BY <1>2, <2>1, <2>2, <2>4
  <2>. QED
    BY <2>3, <2>4
<1>. QED
  BY <1>1, <1>3, <1>5, <1>6, <1>7 DEF LiveInv

\* A step of presence: a session that is mapped anew has been handed nothing before.
LEMMA LivePresence ==
  ASSUME IInv, Mapped, ChatInv, LiveInv, InboxShut, SessionStep, UNCHANGED inbox,
         \A s \in Server : chat'[s] = chat[s] \/ chat'[s].op = "idle",
         \A s \in Server : channel'[s] = channel[s] \/ channel'[s] = <<>>
  PROVE  LiveInv' /\ InboxShut'
<1>1. \A t \in Server : Rises(channel'[t])
  BY LiveOfOne DEF LiveInv
<1>2. \A t \in Server, f \in Conn : LiveIds(channel'[t], f) \subseteq LiveIds(channel[t], f)
  BY LiveOfOne
<1>3. InboxShut'
  BY PresenceAssumption DEF InboxShut, SessionStep
<1>4. ASSUME NEW s \in Server, Hand(s)'
      PROVE  /\ \A t \in Server : Below(LiveIds(channel'[t], chat'[s].msg.from), {chat'[s].msg.id})
             /\ \A c \in Conn : Below(LiveIds(inbox'[c], chat'[s].msg.from), {chat'[s].msg.id})
  <2>1. Hand(s) /\ chat'[s] = chat[s]
    BY <1>4 DEF Hand
  <2>2. chat[s].msg \in Message
    BY <2>1, StageTyped DEF Hand, ChatInv
  <2>3. PICK f \in Conn : f = chat[s].msg.from
    BY <2>2 DEF Message
  <2>4. /\ \A t \in Server : Below(LiveIds(channel[t], f), {chat[s].msg.id})
        /\ \A c \in Conn : Below(LiveIds(inbox[c], f), {chat[s].msg.id})
    BY <2>1, <2>3 DEF LiveInv
  <2>5. \A t \in Server : Below(LiveIds(channel'[t], f), {chat[s].msg.id})
    <3>1. \A t \in Server : LiveIds(channel'[t], f) \subseteq LiveIds(channel[t], f)
      BY <1>2, <2>3
    <3>. QED
      BY <2>4, <3>1 DEF Below
  <2>. QED
    BY <2>1, <2>3, <2>4, <2>5
<1>5. ASSUME NEW t \in Server, NEW u \in User, m_SessionMap'[t][u] # None, NEW f \in Conn
      PROVE  Below(LiveIds(inbox[m_SessionMap'[t][u]], f), LiveIds(channel'[t], f))
  <2>1. CASE m_SessionMap'[t][u] = m_SessionMap[t][u]
    BY <1>2, <1>5, <2>1 DEF LiveInv, Below
  <2>2. CASE \E c \in Conn : m_SessionMap'[t][u] = c /\ m_userId[c] = None /\ phase[c] = "open"
    <3>1. inbox[m_SessionMap'[t][u]] = <<>>
      BY <2>2 DEF InboxShut
    <3>. QED
      BY <3>1, LiveOfOne DEF Below
  <2>. QED
    BY <1>5, <2>1, <2>2 DEF SessionStep
<1>. QED
  BY <1>1, <1>3, <1>4, <1>5 DEF LiveInv

\* A handler puts its message into the channel of a server.
LEMMA LivePublished ==
  ASSUME IInv, ChatTyped, BusyOK, LiveInv, InboxShut, UNCHANGED vars,
         NEW s \in Server, NEW t \in Server, NEW m \in Message, Publishes(s, m, t)
  PROVE  LiveInv' /\ InboxShut'
<1>1. UNCHANGED <<m_SessionMap, phase, m_userId, inbox>>
  BY DEF vars, sessionVars, Publishes
<1>2. InboxShut'
  BY <1>1 DEF InboxShut
<1>3. /\ Hand(s) /\ chat[s].msg = m /\ chat[s] # NoChat /\ m.from \in Conn /\ channel[t] \in Seq(Message)
      /\ \A r \in Server : channel'[r] = IF r = t THEN Append(channel[t], m) ELSE channel[r]
      /\ \A r \in Server : chat'[r] = IF r = s THEN NoChat ELSE chat[r]
  BY NoChatTyped DEF Publishes, Hand, Message, ChatTyped
<1>4. /\ \A r \in Server : Below(LiveIds(channel[r], m.from), {m.id})
      /\ \A c \in Conn : Below(LiveIds(inbox[c], m.from), {m.id})
  BY <1>3 DEF LiveInv
<1>5. <<m>> \in Seq(Message) /\ Append(channel[t], m) = channel[t] \o <<m>>
  BY <1>3, Singleton, AppendIsConcat
<1>6. \A f : LiveIds(channel[t] \o <<m>>, f) = LiveIds(channel[t], f) \cup LiveIds(<<m>>, f)
  BY <1>3, <1>5, LiveJoined
<1>7. \A f : LiveIds(<<m>>, f) \subseteq {m.id} /\ (f # m.from => LiveIds(<<m>>, f) = {})
  BY LiveOfOne
<1>8. Rises(channel[t] \o <<m>>)
  <2>1. Rises(channel[t]) /\ Rises(<<m>>)
    BY LiveOfOne DEF LiveInv
  <2>2. \A f \in Conn : Below(LiveIds(channel[t], f), LiveIds(<<m>>, f))
    BY <1>4, <1>7 DEF Below
  <2>. QED
    BY <1>3, <1>5, <2>1, <2>2, RisesJoined
<1>9. \A r \in Server : Rises(channel'[r])
  BY <1>3, <1>5, <1>8 DEF LiveInv
<1>10. ASSUME NEW r \in Server, NEW u \in User, m_SessionMap[r][u] # None, NEW f \in Conn
       PROVE  Below(LiveIds(inbox[m_SessionMap[r][u]], f), LiveIds(channel'[r], f))
  <2>1. m_SessionMap[r][u] \in Conn
    BY <1>10 DEF IInv, TypeInv, TypeOK
  <2>2. Below(LiveIds(inbox[m_SessionMap[r][u]], f), LiveIds(channel[r], f))
    BY <1>10 DEF LiveInv
  <2>3. Below(LiveIds(inbox[m_SessionMap[r][u]], f), LiveIds(<<m>>, f))
    BY <1>4, <1>7, <2>1 DEF Below
  <2>4. LiveIds(channel'[r], f) \subseteq LiveIds(channel[r], f) \cup LiveIds(<<m>>, f)
    BY <1>3, <1>5, <1>6
  <2>. QED
    BY <2>2, <2>3, <2>4 DEF Below
<1>11. ASSUME NEW r \in Server, Hand(r)'
       PROVE  /\ \A q \in Server : Below(LiveIds(channel'[q], chat'[r].msg.from), {chat'[r].msg.id})
              /\ \A c \in Conn : Below(LiveIds(inbox[c], chat'[r].msg.from), {chat'[r].msg.id})
  <2>1. r # s /\ Hand(r) /\ chat'[r] = chat[r] /\ chat[r] # NoChat
    BY <1>3, <1>11, NoChatTyped DEF Hand
  <2>2. chat[r].msg.from \in m_sessionSet[r] /\ m.from \in m_sessionSet[s]
    BY <1>3, <2>1 DEF BusyOK
  <2>3. chat[r].msg.from # m.from
    BY <2>1, <2>2 DEF IInv, SessionsOK
  <2>4. PICK f, x : f = chat[r].msg.from /\ x = chat[r].msg.id
    OBVIOUS
  <2>5. /\ \A q \in Server : Below(LiveIds(channel[q], f), {x})
        /\ \A c \in Conn : Below(LiveIds(inbox[c], f), {x})
    BY <2>1, <2>4 DEF LiveInv
  <2>6. \A q \in Server : LiveIds(channel'[q], f) \subseteq LiveIds(channel[q], f)
    BY <1>3, <1>5, <1>6, <1>7, <2>3, <2>4
  <2>7. \A q \in Server : Below(LiveIds(channel'[q], f), {x})
    BY <2>5, <2>6 DEF Below
  <2>. QED
    BY <2>1, <2>4, <2>5, <2>7
<1>. QED
  BY <1>1, <1>2, <1>9, <1>10, <1>11 DEF LiveInv

LEMMA LiveHolds ==
  ASSUME IInv, Mapped, ChatInv, BusyOK, Contents, LiveInv, InboxShut, [PeerNext]_allVars
  PROVE  LiveInv' /\ InboxShut'
<1>. USE NoChatTyped
<1>1. SessionStep /\ ChatTyped
  BY SessionSteps, PresenceNext DEF ChatInv
<1>2. CASE PresenceStep \/ Still
  <2>1. UNCHANGED inbox
    BY <1>2 DEF PresenceStep, Still
  <2>2. \A s \in Server : chat'[s] = chat[s] \/ chat'[s].op = "idle"
    BY <1>2 DEF PresenceStep, Still
  <2>3. \A s \in Server : channel'[s] = channel[s] \/ channel'[s] = <<>>
    BY <1>2 DEF PresenceStep, Still
  <2>. QED
    BY <1>1, <2>1, <2>2, <2>3, LivePresence
<1>3. ASSUME NEW s \in Server, Hand(s) PROVE chat[s].msg \in Message /\ chat[s].msg.from \in Conn
  <2>1. chat[s].msg \in Message
    BY <1>1, <1>3, StageTyped DEF Hand
  <2>. QED
    BY <2>1 DEF Message
<1>4. \A t \in Server : Rises(channel[t])
  BY DEF LiveInv
<1>5. ASSUME UNCHANGED <<vars, channel, inbox>>, NEW s \in Server, NEW st, chat' = [chat EXCEPT ![s] = st],
             st.op \in {"get", "publish", "push"} =>
               /\ st.msg \in Message
               /\ \/ st.msg.id = Len(sent) + 1
                  \/ Hand(s) /\ st.msg.from = chat[s].msg.from /\ st.msg.id = chat[s].msg.id
      PROVE  LiveInv' /\ InboxShut'
  <2>1. \A r \in Server : chat'[r] = IF r = s THEN st ELSE chat[r]
    BY <1>1, <1>5 DEF ChatTyped
  <2>2. ASSUME NEW r \in Server, Hand(r)'
        PROVE  /\ chat'[r].msg.from \in Conn
               /\ \/ Hand(r) /\ chat'[r].msg.from = chat[r].msg.from /\ chat'[r].msg.id = chat[r].msg.id
                  \/ chat'[r].msg.id = Len(sent) + 1
    BY <1>3, <1>5, <2>1, <2>2 DEF Hand, Message
  <2>3. ASSUME NEW r \in Server, Hand(r)'
        PROVE  /\ chat'[r].msg.from \in Conn
               /\ \/ Hand(r) /\ chat'[r].msg.from = chat[r].msg.from /\ chat'[r].msg.id = chat[r].msg.id
                  \/ /\ \A t \in Server : Below(LiveIds(channel[t], chat'[r].msg.from), {chat'[r].msg.id})
                     /\ \A c \in Conn : Below(LiveIds(inbox[c], chat'[r].msg.from), {chat'[r].msg.id})
    <3>1. PICK f, x : f = chat'[r].msg.from /\ x = chat'[r].msg.id
      OBVIOUS
    <3>2. x = Len(sent) + 1 => /\ \A t \in Server : Below(LiveIds(channel[t], f), {x})
                               /\ \A c \in Conn : Below(LiveIds(inbox[c], f), {x})
      BY <1>1, LiveSent
    <3>. QED
      BY <2>2, <2>3, <3>1, <3>2
  <2>4. \A t \in Server : /\ Rises(channel'[t])
                          /\ \A f \in Conn : LiveIds(channel'[t], f) \subseteq LiveIds(channel[t], f)
    BY <1>4, <1>5
  <2>. QED
    BY <1>1, <1>5, <2>3, <2>4, LiveKept
<1>6. ASSUME ChatSteps, UNCHANGED <<vars, doubled>>
      PROVE  LiveInv' /\ InboxShut'
  <2>0. UNCHANGED vars
    BY <1>6
  <2>1. ASSUME NEW s \in Server, NEW m \in Message, SendsAway(s, m) \/ Misses(s, m) PROVE LiveInv' /\ InboxShut'
    <3>1. m.id = Len(sent) + 1 \/ (Hand(s) /\ m = chat[s].msg)
      BY <2>1 DEF SendsAway, Numbers, Misses, Hand
    <3>2. PICK st \in {PeerStage("get", m, None), PeerStage("push", m, None)} : chat' = [chat EXCEPT ![s] = st]
      BY <2>1 DEF SendsAway, Misses
    <3>4. st.msg = m
      BY <3>2 DEF PeerStage
    <3>3. UNCHANGED <<channel, inbox>>
      BY <2>1 DEF SendsAway, Misses
    <3>. QED
      BY <1>5, <2>0, <2>1, <3>1, <3>2, <3>3, <3>4
  <2>2. ASSUME NEW s \in Server, NEW t \in Server, NEW m \in Message, NEW n \in Message, Finds(s, m, n, t)
        PROVE  LiveInv' /\ InboxShut'
    <3>1. Hand(s) /\ n.from = chat[s].msg.from /\ n.id = chat[s].msg.id
      BY <2>2 DEF Finds, Hand
    <3>2. PICK st : st = PeerStage("publish", n, t)
      OBVIOUS
    <3>4. chat' = [chat EXCEPT ![s] = st] /\ st.msg = n
      BY <2>2, <3>2 DEF Finds, PeerStage
    <3>3. UNCHANGED <<channel, inbox>>
      BY <2>2 DEF Finds
    <3>. QED
      BY <1>5, <2>0, <2>2, <3>1, <3>3, <3>4
  <2>3. ASSUME NEW s \in Server, Gives(s) PROVE LiveInv' /\ InboxShut'
    BY <1>5, <2>0, <2>3 DEF Gives
  <2>4. ASSUME NEW s \in Server, NEW m \in Message, Pushes(s, m) PROVE LiveInv' /\ InboxShut'
    <3>1. PICK st \in {NoChat, PeerStage("trim", m, None)} : chat' = [chat EXCEPT ![s] = st]
      BY <2>4 DEF Pushes
    <3>2. st.op \in {"idle", "trim"}
      BY <3>1 DEF PeerStage
    <3>. QED
      BY <1>5, <2>0, <2>4, <3>1, <3>2 DEF Pushes
  <2>5. ASSUME NEW s \in Server, NEW c \in Conn, Asks(s, c) PROVE LiveInv' /\ InboxShut'
    BY <1>5, <2>0, <2>5 DEF Asks, UnreadStage
  <2>6. ASSUME NEW s \in Server, NEW c \in Conn, NEW ms \in Seq(Message), Deletes(s, c, ms)
        PROVE  LiveInv' /\ InboxShut'
    BY <1>5, <2>0, <2>6 DEF Deletes, UnreadStage
  <2>7. ASSUME NEW s \in Server, NEW t \in Server, NEW m \in Message, Publishes(s, m, t)
        PROVE  LiveInv' /\ InboxShut'
    BY <1>1, <2>0, <2>7, LivePublished
  <2>8. ASSUME NEW s \in Server, NEW m \in Message, NEW d \in Conn, SendsHere(s, m, d)
        PROVE  LiveInv' /\ InboxShut'
    <3>1. <<m>> \in Seq(Message) /\ UNCHANGED <<chat, channel>> /\ inbox' = [inbox EXCEPT ![d] = @ \o <<m>>]
      BY <2>8, Singleton DEF SendsHere
    <3>2. m.from \in m_sessionSet[s] /\ m.to \in User /\ d = m_SessionMap[s][m.to] /\ d \in m_sessionSet[s]
      BY <2>8 DEF SendsHere, Numbers
    <3>3. d # None /\ phase[d] # "unused" /\ m_userId[d] # None
      BY <3>2, PresenceAssumption DEF IInv, MapNamesSession, SessionsOK
    <3>4. \A f \in Conn : Below(LiveIds(inbox[d], f), LiveIds(<<m>>, f))
      <4>1. PICK x : x = m.id
        OBVIOUS
      <4>2. x = Len(sent) + 1
        BY <2>8, <4>1 DEF SendsHere, Numbers
      <4>3. \A f : Below(LiveIds(inbox[d], f), {x})
        BY <1>1, <4>2, LiveSent
      <4>4. \A f : LiveIds(<<m>>, f) \subseteq {x}
        BY <4>1, LiveOfOne
      <4>. QED
        BY <4>3, <4>4 DEF Below
    <3>5. ASSUME NEW t \in Server, NEW u \in User, m_SessionMap[t][u] = d, NEW f \in Conn
          PROVE  Below(LiveIds(<<m>>, f), LiveIds(channel'[t], f))
      <4>1. t = s
        BY <3>2, <3>3, <3>5 DEF Mapped
      <4>2. LiveIds(channel[s], m.from) = {}
        <5>1. \A i \in 1..Len(channel[s]) : channel[s][i].via # None => channel[s][i].from # m.from
          <6>1. \A i \in 1..Len(channel[s]) : channel[s][i] \in Led(s)
            BY ElementOfSeq DEF Contents
          <6>. QED
            BY <3>2, <6>1 DEF Led
        <5>. QED
          BY <5>1 DEF LiveIds
      <4>. QED
        BY <3>1, <4>1, <4>2, LiveOfOne DEF Below
    <3>6. ASSUME NEW r \in Server, Hand(r)'
          PROVE  /\ chat'[r].msg.from \in Conn /\ chat'[r] = chat[r]
                 /\ Below(LiveIds(<<m>>, chat'[r].msg.from), {chat'[r].msg.id})
      <4>1. Hand(r) /\ chat'[r] = chat[r] /\ chat[r].msg.from \in Conn
        BY <1>3, <3>1, <3>6 DEF Hand
      <4>2. r # s
        BY <2>8, <4>1 DEF SendsHere, Numbers, Hand
      <4>3. chat[r].msg.from \in m_sessionSet[r]
        BY <4>1 DEF BusyOK, Hand
      <4>4. chat[r].msg.from # m.from
        BY <3>2, <4>2, <4>3 DEF IInv, SessionsOK
      <4>. QED
        BY <4>1, <4>4, LiveOfOne DEF Below
    <3>7. \A t \in Server : /\ Rises(channel'[t])
                            /\ \A f \in Conn : LiveIds(channel'[t], f) \subseteq LiveIds(channel[t], f)
      BY <1>4, <3>1
    <3>8. PICK ns \in Seq(Message) : ns = <<m>>
      BY <3>1
    <3>9. /\ inbox' = [inbox EXCEPT ![d] = @ \o ns] /\ Rises(ns)
          /\ \A f \in Conn : Below(LiveIds(inbox[d], f), LiveIds(ns, f))
          /\ \A t \in Server, u \in User : m_SessionMap[t][u] = d =>
               \A f \in Conn : Below(LiveIds(ns, f), LiveIds(channel'[t], f))
          /\ \A r \in Server : Hand(r)' =>
               /\ chat'[r].msg.from \in Conn /\ chat'[r] = chat[r]
               /\ Below(LiveIds(ns, chat'[r].msg.from), {chat'[r].msg.id})
      BY <3>1, <3>4, <3>5, <3>6, <3>8, LiveOfOne
    <3>. QED
      BY <1>1, <2>0, <3>3, <3>7, <3>9, LiveGiven
  <2>9. ASSUME NEW s \in Server, NEW c \in Conn, NEW ms \in Seq(Message), Answers(s, c, ms)
        PROVE  LiveInv' /\ InboxShut'
    <3>1. chat' = [chat EXCEPT ![s] = NoChat] /\ UNCHANGED channel /\ inbox' = [inbox EXCEPT ![c] = @ \o ms]
      BY <2>9 DEF Answers
    <3>2. Rises(ms) /\ \A f : LiveIds(ms, f) = {}
      BY <2>9, PlainDead DEF Answers, Contents, Reads
    <3>3. phase[c] \notin {"unused", "open"}
      BY <2>9 DEF Answers, BusyOK, Reads, Answered
    <3>4. \A r \in Server : Hand(r)' => chat'[r] = chat[r] /\ Hand(r)
      BY <1>1, <3>1 DEF Hand, ChatTyped
    <3>5. \A t \in Server : /\ Rises(channel'[t])
                            /\ \A f \in Conn : LiveIds(channel'[t], f) \subseteq LiveIds(channel[t], f)
      BY <1>4, <3>1
    <3>6. ASSUME NEW f \in Conn PROVE \A S : Below(LiveIds(ms, f), S) /\ Below(S, LiveIds(ms, f))
      BY <3>2 DEF Below
    <3>7. \A r \in Server : Hand(r)' => chat'[r].msg.from \in Conn
      BY <1>3, <3>4
    <3>. QED
      BY <1>1, <2>0, <2>9, <3>1, <3>2, <3>3, <3>4, <3>5, <3>6, <3>7, LiveGiven
  <2>10. ASSUME NEW s \in Server, NEW m \in Message, NEW d \in Conn, Takes(s, m, d)
         PROVE  LiveInv' /\ InboxShut'
    <3>1. /\ <<m>> \in Seq(Message) /\ UNCHANGED chat /\ inbox' = [inbox EXCEPT ![d] = @ \o <<m>>]
          /\ channel[s] # <<>> /\ m = Head(channel[s]) /\ channel' = [channel EXCEPT ![s] = Tail(@)]
          /\ d = m_SessionMap[s][m.to] /\ m.to \in User
      BY <2>10, Singleton DEF Takes, Message
    <3>2. d # None /\ phase[d] # "unused" /\ m_userId[d] # None
      <4>1. d # None /\ m_userId[d] # None
        BY <3>1, PresenceAssumption DEF IInv, MapNamesSession
      <4>2. d \in m_sessionSet[s] \/ phase[d] = "closed"
        BY <3>1, <4>1 DEF Mapped
      <4>. QED
        BY <4>1, <4>2 DEF IInv, SessionsOK
    <3>3. /\ \A t \in Server : /\ Rises(channel'[t])
                               /\ \A f : LiveIds(channel'[t], f) \subseteq LiveIds(channel[t], f)
          /\ \A f : LiveIds(<<m>>, f) \subseteq LiveIds(channel[s], f)
          /\ \A f \in Conn : Below(LiveIds(<<m>>, f), LiveIds(channel'[s], f))
      BY <1>1, <3>1, LiveTaken
    <3>4. \A f \in Conn : Below(LiveIds(inbox[d], f), LiveIds(<<m>>, f))
      <4>1. \A f \in Conn : Below(LiveIds(inbox[d], f), LiveIds(channel[s], f))
        BY <3>1, <3>2 DEF LiveInv
      <4>. QED
        BY <3>3, <4>1 DEF Below
    <3>5. ASSUME NEW t \in Server, NEW u \in User, m_SessionMap[t][u] = d, NEW f \in Conn
          PROVE  Below(LiveIds(<<m>>, f), LiveIds(channel'[t], f))
      <4>1. t = s
        <5>1. PICK v \in User : v = m.to
          BY <3>1
        <5>2. m_SessionMap[t][u] # None /\ m_SessionMap[t][u] = m_SessionMap[s][v]
          BY <3>1, <3>2, <3>5, <5>1
        <5>. QED
          BY ONLY Mapped, <5>2, t \in Server, s \in Server, u \in User, v \in User DEF Mapped
      <4>. QED
        BY <3>3, <4>1
    <3>6. ASSUME NEW r \in Server, Hand(r)'
          PROVE  /\ chat'[r].msg.from \in Conn /\ chat'[r] = chat[r]
                 /\ Below(LiveIds(<<m>>, chat'[r].msg.from), {chat'[r].msg.id})
      <4>1. Hand(r) /\ chat'[r] = chat[r] /\ chat[r].msg.from \in Conn
        BY <1>3, <3>1, <3>6 DEF Hand
      <4>2. PICK f, x : f = chat[r].msg.from /\ x = chat[r].msg.id
        OBVIOUS
      <4>3. Below(LiveIds(channel[s], f), {x})
        BY <4>1, <4>2 DEF LiveInv
      <4>4. Below(LiveIds(<<m>>, f), {x})
        BY <3>3, <4>3 DEF Below
      <4>. QED
        BY <4>1, <4>2, <4>4
    <3>8. PICK ns \in Seq(Message) : ns = <<m>>
      BY <3>1
    <3>9. /\ inbox' = [inbox EXCEPT ![d] = @ \o ns] /\ Rises(ns)
          /\ \A f \in Conn : Below(LiveIds(inbox[d], f), LiveIds(ns, f))
          /\ \A t \in Server, u \in User : m_SessionMap[t][u] = d =>
               \A f \in Conn : Below(LiveIds(ns, f), LiveIds(channel'[t], f))
          /\ \A r \in Server : Hand(r)' =>
               /\ chat'[r].msg.from \in Conn /\ chat'[r] = chat[r]
               /\ Below(LiveIds(ns, chat'[r].msg.from), {chat'[r].msg.id})
      BY <3>1, <3>4, <3>5, <3>6, <3>8, LiveOfOne
    <3>. QED
      BY <1>1, <2>0, <3>2, <3>3, <3>9, LiveGiven
  <2>11. ASSUME NEW s \in Server, Drops(s) PROVE LiveInv' /\ InboxShut'
    <3>1. \A t \in Server : /\ Rises(channel'[t])
                            /\ \A f \in Conn : LiveIds(channel'[t], f) \subseteq LiveIds(channel[t], f)
      BY <1>1, <2>11, LiveTaken DEF Drops
    <3>2. UNCHANGED <<chat, inbox>>
      BY <2>11 DEF Drops
    <3>. QED
      BY <1>1, <1>3, <2>0, <3>1, <3>2, LiveKept DEF Hand
  <2>. QED
    BY ONLY <1>6, <2>1, <2>2, <2>3, <2>4, <2>5, <2>6, <2>7, <2>8, <2>9, <2>10, <2>11 DEF ChatSteps
<1>. QED
  BY <1>2, <1>6, PeerStepsAre

LEMMA LiveInit == PeerInit => BusyOK /\ Contents /\ LiveInv /\ InboxShut
<1>. SUFFICES ASSUME PeerInit PROVE BusyOK /\ Contents /\ LiveInv /\ InboxShut
  OBVIOUS
<1>1. /\ \A s \in Server : chat[s] = NoChat /\ chat[s].op = "idle" /\ channel[s] = <<>>
      /\ \A u \in User : unread[u] = <<>>
      /\ \A c \in Conn : inbox[c] = <<>>
      /\ \A s \in Server, u \in User : m_SessionMap[s][u] = None
  BY NoChatTyped DEF PeerInit, Init, NoSessions
<1>2. \A B : <<>> \in Seq(B)
  OBVIOUS
<1>3. BusyOK /\ InboxShut
  BY <1>1 DEF BusyOK, InboxShut
<1>4. Contents
  BY <1>1, <1>2 DEF Contents, Hand, Reads
<1>5. LiveInv
  BY <1>1, LiveOfOne DEF LiveInv, Hand
<1>. QED
  BY <1>3, <1>4, <1>5

\* What is sent live over one connection to one session arrives in the order of sending,
\* whether it goes straight or over a channel and whichever way the session is found,
\* for any number of servers, connections and messages.
THEOREM LiveOrderHolds == PeerSpec => []LiveOrder
<1>. DEFINE J == IInv /\ Mapped /\ ChatInv /\ BusyOK /\ Contents /\ LiveInv /\ InboxShut
<1>1. PeerInit => J
  BY ChatInit, LiveInit, MappedInit, InitIInv DEF PeerInit
<1>2. J /\ [PeerNext]_allVars => J'
  <2>. SUFFICES ASSUME J, [PeerNext]_allVars PROVE J'
    OBVIOUS
  <2>1. IInv' /\ Mapped'
    BY PresenceNext, NextIInv, MappedHolds
  <2>2. ChatInv'
    BY ChatNextTyped DEF IInv, TypeInv
  <2>3. BusyOK' /\ Contents'
    BY BusyHolds, ContentsHolds
  <2>4. LiveInv' /\ InboxShut'
    BY LiveHolds
  <2>. QED
    BY <2>1, <2>2, <2>3, <2>4
<1>3. J => LiveOrder
  <2>. SUFFICES ASSUME J, NEW c \in Conn PROVE Rises(inbox[c]) /\ DOMAIN inbox[c] = 1..Len(inbox[c])
    BY DEF LiveOrder, Rises
  <2>. QED
    BY DEF LiveInv, ChatInv, ChatTyped
<1>. HIDE DEF J
<1>. QED
  BY <1>1, <1>2, <1>3, PTL DEF PeerSpec

-----------------------------------------------------------------------------
(* Places.  A message on its way is in one place, and not in a list or a socket as
   well; one that was handed over live is in no list; one for a user who never has two
   clients at work is handed over once.                                      *)

Distinct(ms) == \A i, j \in 1..Len(ms) : ms[i].id = ms[j].id => i = j

\* The numbers in two lists joined.
LEMMA IdsJoined ==
  ASSUME NEW ms \in Seq(Message), NEW ns \in Seq(Message)
  PROVE  /\ Ids(ms \o ns) = Ids(ms) \cup Ids(ns)
         /\ Distinct(ms \o ns) <=> Distinct(ms) /\ Distinct(ns) /\ Ids(ms) \cap Ids(ns) = {}
<1>. DEFINE q == ms \o ns
<1>1. /\ Len(q) = Len(ms) + Len(ns) /\ Len(ms) \in Nat /\ Len(ns) \in Nat /\ q \in Seq(Message)
      /\ \A i \in 1..Len(ms) + Len(ns) : q[i] = IF i <= Len(ms) THEN ms[i] ELSE ns[i - Len(ms)]
  BY ConcatProperties
<1>. HIDE DEF q
<1>2. /\ Ids(q) = {q[i].id : i \in 1..Len(q)}
      /\ Ids(ms) = {ms[i].id : i \in 1..Len(ms)}
      /\ Ids(ns) = {ns[i].id : i \in 1..Len(ns)}
  <2>1. DOMAIN q = 1..Len(q) /\ DOMAIN ms = 1..Len(ms) /\ DOMAIN ns = 1..Len(ns)
    BY <1>1
  <2>. QED
    BY <2>1 DEF Ids
<1>3. /\ \A i \in 1..Len(ms) : i \in 1..Len(q) /\ q[i] = ms[i]
      /\ \A i \in 1..Len(ns) : i + Len(ms) \in 1..Len(q) /\ q[i + Len(ms)] = ns[i]
  <2>1. \A i \in 1..Len(ms) : i \in 1..Len(q) /\ q[i] = ms[i]
    BY <1>1
  <2>2. ASSUME NEW i \in 1..Len(ns) PROVE i + Len(ms) \in 1..Len(q) /\ q[i + Len(ms)] = ns[i]
    <3>1. i + Len(ms) \in 1..Len(q) /\ ~(i + Len(ms) <= Len(ms)) /\ (i + Len(ms)) - Len(ms) = i
      BY <1>1, <2>2
    <3>. QED
      BY <1>1, <3>1
  <2>. QED
    BY <2>1, <2>2
<1>4. ASSUME NEW i \in 1..Len(q)
      PROVE  \/ i \in 1..Len(ms) /\ q[i] = ms[i]
             \/ \E j \in 1..Len(ns) : i = j + Len(ms) /\ q[i] = ns[j]
  <2>1. CASE i <= Len(ms)
    BY <1>1, <1>4, <2>1
  <2>2. CASE ~(i <= Len(ms))
    <3>1. i - Len(ms) \in 1..Len(ns) /\ q[i] = ns[i - Len(ms)] /\ i = (i - Len(ms)) + Len(ms)
      BY <1>1, <1>4, <2>2
    <3>. QED
      BY <3>1
  <2>. QED
    BY <2>1, <2>2
<1>5. Ids(q) = Ids(ms) \cup Ids(ns)
  <2>1. ASSUME NEW a \in Ids(q) PROVE a \in Ids(ms) \cup Ids(ns)
    <3>1. PICK i \in 1..Len(q) : a = q[i].id
      BY <1>2, <2>1
    <3>. QED
      BY <1>2, <1>4, <3>1
  <2>2. \A a \in Ids(ms) : a \in Ids(q)
    BY <1>1, <1>2, <1>3
  <2>3. \A a \in Ids(ns) : a \in Ids(q)
    BY <1>1, <1>2, <1>3
  <2>. QED
    BY <2>1, <2>2, <2>3
<1>6. ASSUME Distinct(q) PROVE Distinct(ms) /\ Distinct(ns) /\ Ids(ms) \cap Ids(ns) = {}
  <2>1. Distinct(ms)
    BY <1>3, <1>6 DEF Distinct
  <2>2. Distinct(ns)
    <3>1. ASSUME NEW i \in 1..Len(ns), NEW j \in 1..Len(ns), ns[i].id = ns[j].id PROVE i = j
      <4>1. i + Len(ms) = j + Len(ms)
        <5>1. PICK k, l : k = i + Len(ms) /\ l = j + Len(ms)
          OBVIOUS
        <5>2. k \in 1..Len(q) /\ l \in 1..Len(q) /\ q[k].id = q[l].id
          BY <1>3, <3>1, <5>1
        <5>. QED
          BY ONLY Distinct(q), <5>1, <5>2 DEF Distinct
      <4>. QED
        BY <1>1, <4>1
    <3>. QED
      BY <3>1 DEF Distinct
  <2>3. ASSUME NEW a \in Ids(ms), a \in Ids(ns) PROVE FALSE
    <3>1. PICK i \in 1..Len(ms) : ms[i].id = a
      BY <1>2, <2>3
    <3>2. PICK j \in 1..Len(ns) : ns[j].id = a
      BY <1>2, <2>3
    <3>3. i = j + Len(ms)
      BY <1>3, <1>6, <3>1, <3>2 DEF Distinct
    <3>. QED
      BY <1>1, <3>3
  <2>. QED
    BY <2>1, <2>2, <2>3
<1>7. ASSUME Distinct(ms), Distinct(ns), Ids(ms) \cap Ids(ns) = {} PROVE Distinct(q)
  <2>1. SUFFICES ASSUME NEW i \in 1..Len(q), NEW j \in 1..Len(q), q[i].id = q[j].id PROVE i = j
    BY DEF Distinct
  <2>2. \A k \in 1..Len(ms) : \A l \in 1..Len(ns) : ms[k].id # ns[l].id
    BY <1>2, <1>7
  <2>3. CASE i \in 1..Len(ms) /\ q[i] = ms[i]
    <3>1. j \in 1..Len(ms) /\ q[j] = ms[j]
      BY <1>4, <2>1, <2>2, <2>3
    <3>. QED
      BY ONLY Distinct(ms), q[i].id = q[j].id, <2>3, <3>1 DEF Distinct
  <2>4. CASE \E k \in 1..Len(ns) : i = k + Len(ms) /\ q[i] = ns[k]
    <3>1. PICK k \in 1..Len(ns) : i = k + Len(ms) /\ q[i] = ns[k]
      BY <2>4
    <3>2. PICK l \in 1..Len(ns) : j = l + Len(ms) /\ q[j] = ns[l]
      BY <1>4, <2>1, <2>2, <3>1
    <3>3. k = l
      BY ONLY Distinct(ns), q[i].id = q[j].id, <3>1, <3>2 DEF Distinct
    <3>. QED
      BY <3>1, <3>2, <3>3
  <2>. QED
    BY <1>4, <2>3, <2>4
<1>. QED
  BY <1>5, <1>6, <1>7 DEF q

\* The numbers in a list of one message, in an empty one and in one that is cut.
LEMMA IdsOfOne ==
  ASSUME NEW m
  PROVE  Ids(<<m>>) = {m.id} /\ Distinct(<<m>>) /\ Ids(<<>>) = {} /\ Distinct(<<>>)
<1>1. /\ Len(<<m>>) = 1 /\ <<m>>[1] = m /\ Len(<<>>) = 0 /\ 1..0 = {} /\ 1..1 = {1}
      /\ DOMAIN <<m>> = 1..1 /\ DOMAIN <<>> = {}
  OBVIOUS
<1>. QED
  BY <1>1 DEF Distinct, Ids

LEMMA IdsOfCut ==
  ASSUME NEW ms \in Seq(Message)
  PROVE  Ids(Ltrim(ms)) \subseteq Ids(ms) /\ (Distinct(ms) => Distinct(Ltrim(ms)))
<1>1. /\ Ltrim(ms) \in Seq(Message)
      /\ \A i \in 1..Len(Ltrim(ms)) : i \in 1..Len(ms) /\ Ltrim(ms)[i] = ms[i]
  BY LtrimOf
<1>2. DOMAIN ms = 1..Len(ms) /\ DOMAIN Ltrim(ms) = 1..Len(Ltrim(ms))
  BY <1>1
<1>. QED
  BY <1>1, <1>2 DEF Ids, Distinct

\* Live messages are messages.
LEMMA LiveAreIds ==
  ASSUME NEW ms \in Seq(Message)
  PROVE  \A f : LiveIds(ms, f) \subseteq Ids(ms)
BY DEF LiveIds, Ids

InHand(s, i) == Hand(s) /\ chat[s].msg.id = i
InLine(s, i) == i \in Ids(channel[s])
Stored(u, i) == i \in Ids(unread[u])
Read(s, i) == Reads(s) /\ i \in Ids(chat[s].list)
Given(c, i) == i \in Ids(inbox[c])
Live(c, i) == \E f \in Conn : i \in LiveIds(inbox[c], f)

Settled(i) ==
  \/ \E u \in User : Stored(u, i)
  \/ \E s \in Server : Read(s, i)
  \/ \E c \in Conn : Given(c, i)

\* Message i is on its way in one place at most, and then nowhere else; if it was handed
\* over live it is in no list.
MovesOnce(i) ==
  /\ \A s, t \in Server : /\ InHand(s, i) /\ InHand(t, i) => s = t
                          /\ InLine(s, i) /\ InLine(t, i) => s = t
                          /\ ~(InHand(s, i) /\ InLine(t, i))
  /\ (\E s \in Server : InHand(s, i) \/ InLine(s, i)) => ~Settled(i)
  /\ \A c \in Conn : Live(c, i) => /\ \A u \in User : ~Stored(u, i)
                                   /\ \A s \in Server : ~Read(s, i)

\* Message i was handed over once, and is in no list any more; if it is about to be
\* handed over from a list, that list is gone.
GivenOnce(i) ==
  /\ \A c, d \in Conn : Given(c, i) /\ Given(d, i) => c = d
  /\ \A c \in Conn : Given(c, i) => /\ \A u \in User : ~Stored(u, i)
                                    /\ \A s \in Server : ~Read(s, i)
  /\ \A s \in Server, u \in User : ~(chat[s].op = "answer" /\ Read(s, i) /\ Stored(u, i))

DistinctLists ==
  /\ \A s \in Server : Distinct(channel[s]) /\ (Reads(s) => Distinct(chat[s].list))
  /\ \A u \in User : Distinct(unread[u])

Placed == DistinctLists /\ \A i \in 1..MaxMsg : MovesOnce(i)

OnceInv ==
  /\ \A i \in 1..Len(sent) : sent[i] \notin doubled => GivenOnce(i)
  /\ \A c \in Conn : ClientOf[c] \notin doubled => Distinct(inbox[c])

\* The numbers in use, and the addressee of a message that is in a list or a socket.
LEMMA PlacesKnown ==
  ASSUME ChatInv, Contents, NEW i
  PROVE  /\ \A s \in Server : InHand(s, i) \/ InLine(s, i) => i \in 1..Len(sent)
         /\ \A u \in User : Stored(u, i) => i \in 1..Len(sent) /\ sent[i] = u
         /\ \A s \in Server : Read(s, i) => i \in 1..Len(sent) /\ sent[i] = ClientOf[chat[s].conn]
         /\ \A c \in Conn : Given(c, i) => i \in 1..Len(sent) /\ sent[i] = ClientOf[c]
         /\ \A c \in Conn : Live(c, i) => Given(c, i)
<1>1. ASSUME NEW ms \in Seq(Known), i \in Ids(ms), NEW u, AllTo(ms, u)
      PROVE  i \in 1..Len(sent) /\ sent[i] = u
  <2>1. PICK k \in 1..Len(ms) : ms[k].id = i
    BY <1>1 DEF Ids
  <2>2. ms[k] \in Known /\ ms[k].to = u
    BY <1>1, <2>1 DEF AllTo
  <2>. QED
    BY <2>1, <2>2 DEF Known
<1>2. /\ \A u \in User : unread[u] \in Seq(Known)
      /\ \A s \in Server : /\ channel[s] \in Seq(Known)
                           /\ Reads(s) => chat[s].list \in Seq(Known)
      /\ \A c \in Conn : inbox[c] \in Seq(Known)
  <2>1. Plain \subseteq Known /\ \A s \in Server : Led(s) \subseteq Known
    BY DEF Plain, Led
  <2>. QED
    BY <2>1, SeqMonotonic DEF Contents
<1>3. ASSUME NEW s \in Server, InHand(s, i) \/ InLine(s, i) PROVE i \in 1..Len(sent)
  <2>1. CASE InHand(s, i)
    BY <2>1 DEF InHand, Contents, Known
  <2>2. CASE InLine(s, i)
    <3>1. PICK k \in 1..Len(channel[s]) : channel[s][k].id = i
      BY <1>2, <2>2 DEF InLine, Ids
    <3>2. channel[s][k] \in Known
      BY <1>2, <3>1, ElementOfSeq
    <3>. QED
      BY <3>1, <3>2 DEF Known
  <2>. QED
    BY <1>3, <2>1, <2>2
<1>4. ASSUME NEW c \in Conn, Live(c, i) PROVE Given(c, i)
  BY <1>4, LiveAreIds DEF Live, Given, ChatInv, ChatTyped
<1>5. ASSUME NEW s \in Server, Read(s, i) PROVE i \in 1..Len(sent) /\ sent[i] = ClientOf[chat[s].conn]
  <2>1. chat[s].list \in Seq(Known) /\ AllTo(chat[s].list, ClientOf[chat[s].conn]) /\ i \in Ids(chat[s].list)
    BY <1>2, <1>5 DEF Read, Reads, ChatInv, Addressed
  <2>. QED
    BY <1>1, <2>1
<1>6. ASSUME NEW u \in User, Stored(u, i) PROVE i \in 1..Len(sent) /\ sent[i] = u
  BY <1>1, <1>2, <1>6 DEF Stored, ChatInv, Addressed
<1>7. ASSUME NEW c \in Conn, Given(c, i) PROVE i \in 1..Len(sent) /\ sent[i] = ClientOf[c]
  BY <1>1, <1>2, <1>7 DEF Given, ChatInv, Addressed
<1>. QED
  BY <1>3, <1>4, <1>5, <1>6, <1>7

(* What a step does to the place of message i.  Most leave it, or take it away.  *)

Moving(i) == \E s \in Server : InHand(s, i) \/ InLine(s, i)

Thinner(i) ==
  /\ \A s \in Server : /\ InHand(s, i)' => InHand(s, i)
                       /\ InLine(s, i)' => InLine(s, i)
                       /\ Read(s, i)' => Read(s, i) /\ (chat'[s].op = "answer" => chat[s].op = "answer")
  /\ \A u \in User : Stored(u, i)' => Stored(u, i)
  /\ \A c \in Conn : /\ Given(c, i)' <=> Given(c, i)
                     /\ Live(c, i)' => Live(c, i)

\* One message is sent, or moves on, and no other.
Goes(x) ==
  /\ \A i : i # x => Thinner(i)
  /\ MovesOnce(x)' /\ GivenOnce(x)'
  /\ \/ sent' = sent /\ Moving(x)
     \/ /\ x = Len(sent) + 1 /\ SentGrows /\ sent' # sent
        /\ Moving(x)' \/ \E c \in Conn : Given(c, x)'

\* The list of the user of c is read, deleted, handed over.
Lists(s, c, i) ==
  /\ \A t \in Server : /\ InHand(t, i)' <=> InHand(t, i)
                       /\ InLine(t, i)' <=> InLine(t, i)
                       /\ t # s => (Read(t, i)' <=> Read(t, i)) /\ chat'[t].op = chat[t].op
  /\ \A u \in User : u # ClientOf[c] => (Stored(u, i)' <=> Stored(u, i))
  /\ \A d \in Conn : /\ d # c => (Given(d, i)' <=> Given(d, i))
                     /\ Live(d, i)' <=> Live(d, i)

Listed(s, c) ==
  /\ chat'[s].op = "del"
  /\ \A i : /\ Lists(s, c, i)
            /\ Stored(ClientOf[c], i)' <=> Stored(ClientOf[c], i)
            /\ Given(c, i)' <=> Given(c, i)
            /\ Read(s, i)' <=> Stored(ClientOf[c], i)

Deleted(s, c) ==
  /\ Reads(s) /\ chat[s].conn = c
  /\ \A i : /\ Lists(s, c, i)
            /\ ~Stored(ClientOf[c], i)'
            /\ Given(c, i)' <=> Given(c, i)
            /\ Read(s, i)' <=> Read(s, i)

HandedOver(s, c) ==
  /\ chat[s].op = "answer" /\ chat[s].conn = c
  /\ \A i : /\ Lists(s, c, i)
            /\ Stored(ClientOf[c], i)' <=> Stored(ClientOf[c], i)
            /\ Given(c, i)' <=> Given(c, i) \/ Read(s, i)
            /\ ~Read(s, i)'

Shift ==
  \/ sent' = sent /\ \A i : Thinner(i)
  \/ \E x \in 1..MaxMsg : Goes(x)
  \/ sent' = sent /\ \E s \in Server, c \in Conn : Listed(s, c) \/ Deleted(s, c) \/ HandedOver(s, c)

LEMMA ThinnerKeeps ==
  ASSUME NEW i, Thinner(i)
  PROVE  (MovesOnce(i) => MovesOnce(i)') /\ (GivenOnce(i) => GivenOnce(i)')
<1>1. ASSUME MovesOnce(i) PROVE MovesOnce(i)'
  <2>1. Settled(i)' => Settled(i)
    BY DEF Thinner, Settled
  <2>. QED
    BY <1>1, <2>1 DEF Thinner, MovesOnce
<1>2. ASSUME GivenOnce(i) PROVE GivenOnce(i)'
  BY <1>2 DEF Thinner, GivenOnce
<1>. QED
  BY <1>1, <1>2

\* Messages keep being in one place on their way.
LEMMA ShiftMoves ==
  ASSUME ChatTyped, \A i \in 1..MaxMsg : MovesOnce(i), Shift
  PROVE  \A i \in 1..MaxMsg : MovesOnce(i)'
<1>1. CASE \A i : Thinner(i)
  BY <1>1, ThinnerKeeps
<1>2. ASSUME NEW x \in 1..MaxMsg, Goes(x) PROVE \A i \in 1..MaxMsg : MovesOnce(i)'
  BY <1>2, ThinnerKeeps DEF Goes
<1>3. ASSUME NEW s \in Server, NEW c \in Conn, Listed(s, c) \/ Deleted(s, c) \/ HandedOver(s, c),
             NEW i \in 1..MaxMsg
      PROVE  MovesOnce(i)'
  <2>0. MovesOnce(i) /\ ClientOf[c] \in User
    BY PresenceAssumption
  <2>1. CASE Listed(s, c)
    <3>1. Settled(i)' => Settled(i)
      BY <2>0, <2>1 DEF Listed, Lists, Settled
    <3>. QED
      BY <2>0, <2>1, <3>1 DEF Listed, Lists, MovesOnce
  <2>2. CASE Deleted(s, c)
    <3>1. Settled(i)' => Settled(i)
      BY <2>0, <2>2 DEF Deleted, Lists, Settled
    <3>. QED
      BY <2>0, <2>2, <3>1 DEF Deleted, Lists, MovesOnce
  <2>3. CASE HandedOver(s, c)
    <3>1. Settled(i)' => Settled(i)
      BY <2>0, <2>3 DEF HandedOver, Lists, Settled
    <3>. QED
      BY <2>0, <2>3, <3>1 DEF HandedOver, Lists, MovesOnce
  <2>. QED
    BY <1>3, <2>1, <2>2, <2>3
<1>. QED
  BY <1>1, <1>2, <1>3 DEF Shift

\* What stays where it is.
LEMMA Stays ==
  ASSUME TRUE
  PROVE  /\ channel' = channel => \A s \in Server : \A i : InLine(s, i)' <=> InLine(s, i)
         /\ unread' = unread => \A u \in User : \A i : Stored(u, i)' <=> Stored(u, i)
         /\ inbox' = inbox => \A c \in Conn : \A i : /\ Given(c, i)' <=> Given(c, i)
                                                     /\ Live(c, i)' <=> Live(c, i)
         /\ \A s \in Server : chat'[s] = chat[s] =>
              \A i : (InHand(s, i)' <=> InHand(s, i)) /\ (Read(s, i)' <=> Read(s, i))
<1>1. ASSUME channel' = channel, NEW s \in Server, NEW i PROVE InLine(s, i)' <=> InLine(s, i)
  BY <1>1 DEF InLine
<1>2. ASSUME unread' = unread, NEW u \in User, NEW i PROVE Stored(u, i)' <=> Stored(u, i)
  BY <1>2 DEF Stored
<1>3. ASSUME inbox' = inbox, NEW c \in Conn, NEW i
      PROVE  (Given(c, i)' <=> Given(c, i)) /\ (Live(c, i)' <=> Live(c, i))
  BY <1>3 DEF Given, Live
<1>4. ASSUME NEW s \in Server, chat'[s] = chat[s], NEW i
      PROVE  (InHand(s, i)' <=> InHand(s, i)) /\ (Read(s, i)' <=> Read(s, i))
  BY <1>4 DEF InHand, Read, Hand, Reads
<1>. QED
  BY <1>1, <1>2, <1>3, <1>4

\* The handler of s goes on to another stage.
LEMMA StageChanges ==
  ASSUME ChatTyped, NEW s \in Server, NEW st, chat' = [chat EXCEPT ![s] = st]
  PROVE  /\ \A r \in Server \ {s} : /\ chat'[r] = chat[r]
                                    /\ \A i : /\ InHand(r, i)' <=> InHand(r, i)
                                              /\ Read(r, i)' <=> Read(r, i)
         /\ chat'[s] = st
         /\ \A i : /\ InHand(s, i)' <=> st.op \in {"get", "publish", "push"} /\ st.msg.id = i
                   /\ Read(s, i)' <=> st.op \in {"del", "answer"} /\ i \in Ids(st.list)
<1>1. \A r \in Server : chat'[r] = IF r = s THEN st ELSE chat[r]
  BY DEF ChatTyped
<1>2. chat'[s] = st
  BY <1>1
<1>3. ASSUME NEW i
      PROVE  /\ InHand(s, i)' <=> st.op \in {"get", "publish", "push"} /\ st.msg.id = i
             /\ Read(s, i)' <=> st.op \in {"del", "answer"} /\ i \in Ids(st.list)
  BY <1>2 DEF InHand, Read, Hand, Reads
<1>. QED
  BY <1>1, <1>2, <1>3, Stays

\* ns is handed to the session d.
LEMMA GivenMore ==
  ASSUME ChatTyped, NEW d \in Conn, NEW ns \in Seq(Message), inbox' = [inbox EXCEPT ![d] = @ \o ns]
  PROVE  \A c \in Conn : \A i :
           /\ Given(c, i)' <=> Given(c, i) \/ (c = d /\ i \in Ids(ns))
           /\ Live(c, i)' <=> Live(c, i) \/ (c = d /\ \E f \in Conn : i \in LiveIds(ns, f))
<1>1. inbox[d] \in Seq(Message) /\ \A c \in Conn : inbox'[c] = IF c = d THEN inbox[d] \o ns ELSE inbox[c]
  BY DEF ChatTyped
<1>2. /\ Ids(inbox[d] \o ns) = Ids(inbox[d]) \cup Ids(ns)
      /\ \A f : LiveIds(inbox[d] \o ns, f) = LiveIds(inbox[d], f) \cup LiveIds(ns, f)
  BY <1>1, IdsJoined, LiveJoined
<1>3. ASSUME NEW c \in Conn, NEW i
      PROVE  /\ Given(c, i)' <=> Given(c, i) \/ (c = d /\ i \in Ids(ns))
             /\ Live(c, i)' <=> Live(c, i) \/ (c = d /\ \E f \in Conn : i \in LiveIds(ns, f))
  <2>1. CASE c = d
    <3>1. inbox'[c] = inbox[d] \o ns
      BY <1>1, <2>1
    <3>. QED
      BY <1>2, <2>1, <3>1 DEF Given, Live
  <2>2. CASE c # d
    <3>1. inbox'[c] = inbox[c]
      BY <1>1, <2>2
    <3>. QED
      BY <2>2, <3>1 DEF Given, Live
  <2>. QED
    BY <2>1, <2>2
<1>. QED
  BY <1>3

\* A message leaves the channel of s.
LEMMA LineTaken ==
  ASSUME ChatTyped, \A t \in Server : Distinct(channel[t]), NEW s \in Server, channel[s] # <<>>,
         channel' = [channel EXCEPT ![s] = Tail(@)], NEW m, m = Head(channel[s])
  PROVE  /\ m \in Message /\ InLine(s, m.id)
         /\ \A t \in Server : /\ Distinct(channel'[t])
                              /\ \A i : InLine(t, i)' <=> InLine(t, i) /\ ~(t = s /\ i = m.id)
<1>1. PICK ms \in Seq(Message) : ms = channel[s] /\ ms # <<>>
  BY DEF ChatTyped
<1>2. PICK ns : ns = Tail(ms)
  OBVIOUS
<1>3. m \in Message /\ ns \in Seq(Message) /\ <<m>> \in Seq(Message) /\ ms = <<m>> \o ns
  <2>1. Head(ms) \in Message /\ Tail(ms) \in Seq(Message) /\ ms = <<Head(ms)>> \o Tail(ms)
    BY <1>1, HeadTailProperties
  <2>. QED
    BY <1>1, <1>2, <2>1
<1>4. Ids(ms) = {m.id} \cup Ids(ns) /\ Distinct(ns) /\ m.id \notin Ids(ns)
  <2>1. Distinct(<<m>> \o ns)
    BY <1>1, <1>3
  <2>2. Ids(<<m>> \o ns) = Ids(<<m>>) \cup Ids(ns) /\ Distinct(ns) /\ Ids(<<m>>) \cap Ids(ns) = {}
    BY <1>3, <2>1, IdsJoined
  <2>. QED
    BY <1>3, <2>2, IdsOfOne
<1>5. \A t \in Server : channel'[t] = IF t = s THEN ns ELSE channel[t]
  BY <1>1, <1>2 DEF ChatTyped
<1>6. ASSUME NEW t \in Server, NEW i PROVE InLine(t, i)' <=> InLine(t, i) /\ ~(t = s /\ i = m.id)
  <2>1. CASE t = s
    <3>1. channel'[t] = ns
      BY <1>5, <2>1
    <3>. QED
      BY <1>1, <1>4, <2>1, <3>1 DEF InLine
  <2>2. CASE t # s
    <3>1. channel'[t] = channel[t]
      BY <1>5, <2>2
    <3>. QED
      BY <2>2, <3>1 DEF InLine
  <2>. QED
    BY <2>1, <2>2
<1>. QED
  BY <1>1, <1>3, <1>4, <1>5, <1>6 DEF InLine

\* The number of the message that is sent next is nowhere.
LEMMA Fresh ==
  ASSUME ChatInv, Contents, NEW x, x = Len(sent) + 1
  PROVE  /\ \A s \in Server : ~InHand(s, x) /\ ~InLine(s, x) /\ ~Read(s, x)
         /\ \A u \in User : ~Stored(u, x)
         /\ \A c \in Conn : ~Given(c, x) /\ ~Live(c, x)
<1>1. x \notin 1..Len(sent)
  BY DEF ChatInv, ChatTyped
<1>. QED
  BY <1>1, PlacesKnown

\* A message that has left the handler of s, or one that is sent, and is in one place now.
LEMMA NowOnWay ==
  ASSUME NEW x, NEW s \in Server,
         \/ \A t \in Server : ~InLine(t, x)' /\ (InHand(t, x)' => t = s)
         \/ \A t \in Server : ~InHand(t, x)' /\ (InLine(t, x)' => t = s),
         \A t \in Server : ~Read(t, x)', \A u \in User : ~Stored(u, x)', \A c \in Conn : ~Given(c, x)' /\ ~Live(c, x)'
  PROVE  MovesOnce(x)' /\ GivenOnce(x)'
<1>1. ~Settled(x)'
  BY DEF Settled
<1>2. MovesOnce(x)'
  BY <1>1 DEF MovesOnce
<1>. QED
  BY <1>2 DEF GivenOnce

LEMMA NowSettled ==
  ASSUME NEW x, \A t \in Server : ~InLine(t, x)' /\ ~InHand(t, x)' /\ ~Read(t, x)',
         \/ \A c \in Conn : ~Given(c, x)' /\ ~Live(c, x)'
         \/ (\A u \in User : ~Stored(u, x)') /\ (\A c, d \in Conn : Given(c, x)' /\ Given(d, x)' => c = d)
  PROVE  MovesOnce(x)' /\ GivenOnce(x)'
BY DEF MovesOnce, GivenOnce

LEMMA Shifts ==
  ASSUME ChatInv, Contents, Placed, ChatSteps
  PROVE  Shift /\ DistinctLists'
<1>. USE NoChatTyped
<1>1. ChatTyped /\ DistinctLists /\ \A t \in Server : Distinct(channel[t])
  BY DEF ChatInv, Placed, DistinctLists
<1>2. ASSUME NEW s \in Server, Hand(s)
      PROVE  /\ chat[s].msg.id \in 1..MaxMsg /\ InHand(s, chat[s].msg.id) /\ Moving(chat[s].msg.id)
             /\ MovesOnce(chat[s].msg.id)
  <2>1. chat[s].msg \in Message
    BY <1>1, <1>2, StageTyped DEF Hand
  <2>2. chat[s].msg.id \in 1..MaxMsg
    BY <2>1 DEF Message
  <2>. QED
    BY <1>2, <2>2 DEF InHand, Moving, Placed
<1>3. ASSUME NEW s \in Server, NEW m \in Message, NEW d \in Conn, SendsHere(s, m, d)
      PROVE  Shift /\ DistinctLists'
  <2>1. PICK x : x = m.id
    OBVIOUS
  <2>2. x = Len(sent) + 1 /\ x \in 1..MaxMsg /\ SentGrows /\ sent' # sent
    <3>1. Len(sent') = Len(sent) + 1 /\ Len(sent) \in Nat /\ m.to \in User
      BY <1>1, <1>3, AppendProperties DEF SendsHere, Numbers, ChatTyped
    <3>. QED
      BY <1>3, <2>1, <3>1 DEF SendsHere, Numbers, SentGrows, Message
  <2>3. /\ \A t \in Server : ~InHand(t, x) /\ ~InLine(t, x) /\ ~Read(t, x)
        /\ \A u \in User : ~Stored(u, x)
        /\ \A c \in Conn : ~Given(c, x) /\ ~Live(c, x)
    BY <2>2, Fresh
  <2>4. \A c \in Conn : \A i : /\ Given(c, i)' <=> Given(c, i) \/ (c = d /\ i = x)
                               /\ Live(c, i)' => Live(c, i) \/ (c = d /\ i = x)
    <3>1. PICK ns \in Seq(Message) : ns = <<m>>
      BY Singleton
    <3>2. inbox' = [inbox EXCEPT ![d] = @ \o ns]
      BY <1>3, <3>1 DEF SendsHere
    <3>3. Ids(ns) = {x} /\ \A f \in Conn : LiveIds(ns, f) \subseteq {x}
      BY <2>1, <3>1, IdsOfOne, LiveOfOne
    <3>. QED
      BY <1>1, <3>2, <3>3, GivenMore
  <2>5. UNCHANGED <<chat, channel, unread>>
    BY <1>3 DEF SendsHere
  <2>6. /\ \A i : \A t \in Server : /\ InHand(t, i)' <=> InHand(t, i)
                                    /\ InLine(t, i)' <=> InLine(t, i)
                                    /\ Read(t, i)' <=> Read(t, i)
        /\ \A i : \A u \in User : Stored(u, i)' <=> Stored(u, i)
    BY <2>5, Stays
  <2>7. \A i : i # x => Thinner(i)
    BY <2>4, <2>5, <2>6 DEF Thinner
  <2>8. MovesOnce(x)' /\ GivenOnce(x)'
    <3>1. /\ \A t \in Server : ~InLine(t, x)' /\ ~InHand(t, x)' /\ ~Read(t, x)'
          /\ (\A u \in User : ~Stored(u, x)') /\ (\A c, e \in Conn : Given(c, x)' /\ Given(e, x)' => c = e)
      BY <2>3, <2>4, <2>6
    <3>. QED
      BY <3>1, NowSettled
  <2>9. Goes(x)
    BY <2>2, <2>4, <2>7, <2>8 DEF Goes
  <2>10. DistinctLists'
    BY <1>1, <2>5 DEF DistinctLists, Reads
  <2>. QED
    BY <2>2, <2>9, <2>10 DEF Shift
<1>4. ASSUME NEW s \in Server, NEW m \in Message, SendsAway(s, m)
      PROVE  Shift /\ DistinctLists'
  <2>1. PICK x, st : x = m.id /\ st = PeerStage("get", m, None)
    OBVIOUS
  <2>2. x = Len(sent) + 1 /\ x \in 1..MaxMsg /\ SentGrows /\ sent' # sent
    <3>1. Len(sent') = Len(sent) + 1 /\ Len(sent) \in Nat /\ m.to \in User
      BY <1>1, <1>4, AppendProperties DEF SendsAway, Numbers, ChatTyped
    <3>. QED
      BY <1>4, <2>1, <3>1 DEF SendsAway, Numbers, SentGrows, Message
  <2>3. /\ \A t \in Server : ~InHand(t, x) /\ ~InLine(t, x) /\ ~Read(t, x)
        /\ \A u \in User : ~Stored(u, x)
        /\ \A c \in Conn : ~Given(c, x) /\ ~Live(c, x)
    BY <2>2, Fresh
  <2>4. /\ chat' = [chat EXCEPT ![s] = st] /\ st.op = "get" /\ st.msg.id = x
        /\ UNCHANGED <<channel, unread, inbox>>
    BY <1>4, <2>1 DEF SendsAway, PeerStage
  <2>5. /\ \A r \in Server \ {s} : /\ chat'[r] = chat[r]
                                   /\ \A i : /\ InHand(r, i)' <=> InHand(r, i)
                                             /\ Read(r, i)' <=> Read(r, i)
        /\ chat'[s] = st
        /\ \A i : /\ InHand(s, i)' <=> i = x
                  /\ ~Read(s, i)'
    <3>1. \A i : /\ InHand(s, i)' <=> st.op \in {"get", "publish", "push"} /\ st.msg.id = i
                 /\ Read(s, i)' <=> st.op \in {"del", "answer"} /\ i \in Ids(st.list)
      BY <1>1, <2>4, StageChanges
    <3>2. /\ chat'[s] = st
          /\ \A r \in Server \ {s} : /\ chat'[r] = chat[r]
                                     /\ \A i : /\ InHand(r, i)' <=> InHand(r, i)
                                               /\ Read(r, i)' <=> Read(r, i)
      BY <1>1, <2>4, StageChanges
    <3>. QED
      BY <2>4, <3>1, <3>2
  <2>6. /\ \A i : \A t \in Server : InLine(t, i)' <=> InLine(t, i)
        /\ \A i : \A u \in User : Stored(u, i)' <=> Stored(u, i)
        /\ \A i : \A c \in Conn : (Given(c, i)' <=> Given(c, i)) /\ (Live(c, i)' <=> Live(c, i))
    BY <2>4, Stays
  <2>7. \A i : i # x => Thinner(i)
    BY <2>4, <2>5, <2>6 DEF Thinner
  <2>8. MovesOnce(x)' /\ GivenOnce(x)'
    <3>1. /\ \A t \in Server : ~InLine(t, x)' /\ (InHand(t, x)' => t = s)
          /\ \A t \in Server : ~Read(t, x)'
          /\ \A u \in User : ~Stored(u, x)'
          /\ \A c \in Conn : ~Given(c, x)' /\ ~Live(c, x)'
      BY <2>3, <2>5, <2>6
    <3>. QED
      BY <3>1, NowOnWay
  <2>9. Goes(x)
    BY <2>2, <2>5, <2>7, <2>8 DEF Goes, Moving
  <2>10. DistinctLists'
    BY <1>1, <2>4, <2>5 DEF DistinctLists, Reads
  <2>. QED
    BY <2>2, <2>9, <2>10 DEF Shift
<1>5. ASSUME NEW s \in Server, NEW m \in Message, chat[s].op = "get", chat[s].msg.id = m.id,
             NEW st, chat' = [chat EXCEPT ![s] = st], st.op \in {"publish", "push"}, st.msg.id = m.id,
             UNCHANGED <<channel, unread, inbox, sent>>
      PROVE  Shift /\ DistinctLists'
  <2>1. /\ \A r \in Server \ {s} : /\ chat'[r] = chat[r]
                                   /\ \A i : /\ InHand(r, i)' <=> InHand(r, i)
                                             /\ Read(r, i)' <=> Read(r, i)
        /\ chat'[s] = st
        /\ \A i : /\ InHand(s, i)' <=> i = m.id
                  /\ ~Read(s, i)'
    BY <1>1, <1>5, StageChanges
  <2>2. InHand(s, m.id)
    BY <1>5 DEF InHand, Hand
  <2>3. /\ \A i : \A t \in Server : InLine(t, i)' <=> InLine(t, i)
        /\ \A i : \A u \in User : Stored(u, i)' <=> Stored(u, i)
        /\ \A i : \A c \in Conn : (Given(c, i)' <=> Given(c, i)) /\ (Live(c, i)' <=> Live(c, i))
    BY <1>5, Stays
  <2>4. \A i : Thinner(i)
    BY <2>1, <2>2, <2>3 DEF Thinner
  <2>5. DistinctLists'
    BY <1>1, <1>5, <2>1 DEF DistinctLists, Reads
  <2>. QED
    BY <1>5, <2>4, <2>5 DEF Shift
<1>6. ASSUME NEW s \in Server, NEW t \in Server, NEW m \in Message, Publishes(s, m, t)
      PROVE  Shift /\ DistinctLists'
  <2>1. PICK x : x = m.id
    OBVIOUS
  <2>2. /\ x \in 1..MaxMsg /\ InHand(s, x) /\ Moving(x) /\ MovesOnce(x)
        /\ chat' = [chat EXCEPT ![s] = NoChat] /\ UNCHANGED <<unread, inbox, sent>>
    BY <1>2, <1>6, <2>1 DEF Publishes, Hand
  <2>3. /\ \A r \in Server \ {s} : /\ chat'[r] = chat[r]
                                   /\ \A i : /\ InHand(r, i)' <=> InHand(r, i)
                                             /\ Read(r, i)' <=> Read(r, i)
        /\ chat'[s] = NoChat
        /\ \A i : ~InHand(s, i)' /\ ~Read(s, i)'
    BY <1>1, <2>2, StageChanges
  <2>4. /\ \A r \in Server : ~InLine(r, x) /\ ~Read(r, x) /\ (InHand(r, x) => r = s)
        /\ \A u \in User : ~Stored(u, x)
        /\ \A c \in Conn : ~Given(c, x) /\ ~Live(c, x)
    <3>1. ~Settled(x)
      BY <2>2 DEF MovesOnce
    <3>. QED
      BY <2>2, <3>1, PlacesKnown DEF Settled, MovesOnce
  <2>5. PICK ns \in Seq(Message) : ns = <<m>>
    BY Singleton
  <2>6. channel'[t] = channel[t] \o ns /\ channel[t] \in Seq(Message)
        /\ \A r \in Server : r # t => channel'[r] = channel[r]
    <3>1. channel[t] \in Seq(Message) /\ channel' = [channel EXCEPT ![t] = Append(@, m)]
      BY <1>1, <1>6 DEF Publishes, ChatTyped
    <3>2. PICK ms \in Seq(Message) : ms = channel[t]
      BY <3>1
    <3>3. Append(ms, m) = ms \o <<m>>
      BY AppendIsConcat
    <3>. QED
      BY <1>1, <2>5, <3>1, <3>2, <3>3 DEF ChatTyped
  <2>7. Ids(ns) = {x} /\ Distinct(ns)
    BY <2>1, <2>5, IdsOfOne
  <2>8. Ids(channel'[t]) = Ids(channel[t]) \cup {x} /\ Distinct(channel'[t])
    <3>1. /\ Ids(channel[t] \o ns) = Ids(channel[t]) \cup Ids(ns)
          /\ Distinct(channel[t] \o ns) <=>
               Distinct(channel[t]) /\ Distinct(ns) /\ Ids(channel[t]) \cap Ids(ns) = {}
      BY <2>6, IdsJoined
    <3>. QED
      BY <1>1, <2>4, <2>6, <2>7, <3>1 DEF InLine
  <2>9. \A i : \A r \in Server : InLine(r, i)' <=> InLine(r, i) \/ (r = t /\ i = x)
    BY <2>6, <2>8 DEF InLine
  <2>10. /\ \A i : \A u \in User : Stored(u, i)' <=> Stored(u, i)
         /\ \A i : \A c \in Conn : (Given(c, i)' <=> Given(c, i)) /\ (Live(c, i)' <=> Live(c, i))
    BY <2>2, Stays
  <2>11. \A i : i # x => Thinner(i)
    BY <2>3, <2>9, <2>10 DEF Thinner
  <2>12. MovesOnce(x)' /\ GivenOnce(x)'
    <3>1. /\ \A r \in Server : ~InHand(r, x)' /\ (InLine(r, x)' => r = t)
          /\ \A r \in Server : ~Read(r, x)'
          /\ \A u \in User : ~Stored(u, x)'
          /\ \A c \in Conn : ~Given(c, x)' /\ ~Live(c, x)'
      BY <2>3, <2>4, <2>9, <2>10
    <3>. QED
      BY <3>1, NowOnWay
  <2>13. Goes(x)
    BY <2>2, <2>11, <2>12 DEF Goes
  <2>14. DistinctLists'
    BY <1>1, <2>2, <2>3, <2>6, <2>8 DEF DistinctLists, Reads
  <2>. QED
    BY <2>2, <2>13, <2>14 DEF Shift
<1>7. ASSUME NEW s \in Server, Gives(s)
      PROVE  Shift /\ DistinctLists'
  <2>1. chat' = [chat EXCEPT ![s] = NoChat] /\ UNCHANGED <<channel, inbox, sent>>
    BY <1>7 DEF Gives
  <2>2. /\ \A r \in Server \ {s} : /\ chat'[r] = chat[r]
                                   /\ \A i : /\ InHand(r, i)' <=> InHand(r, i)
                                             /\ Read(r, i)' <=> Read(r, i)
        /\ chat'[s] = NoChat
        /\ \A i : ~InHand(s, i)' /\ ~Read(s, i)'
    BY <1>1, <2>1, StageChanges
  <2>3. \A u \in User : Ids(unread'[u]) \subseteq Ids(unread[u]) /\ Distinct(unread'[u])
    BY <1>1, <1>7, IdsOfCut DEF Gives, ChatTyped, DistinctLists
  <2>4. \A u \in User : \A i : Stored(u, i)' => Stored(u, i)
    BY <2>3 DEF Stored
  <2>5. /\ \A i : \A r \in Server : InLine(r, i)' <=> InLine(r, i)
        /\ \A i : \A c \in Conn : (Given(c, i)' <=> Given(c, i)) /\ (Live(c, i)' <=> Live(c, i))
    BY <2>1, Stays
  <2>6. \A i : Thinner(i)
    BY <2>2, <2>4, <2>5 DEF Thinner
  <2>7. DistinctLists'
    BY <1>1, <2>1, <2>2, <2>3 DEF DistinctLists, Reads
  <2>. QED
    BY <2>1, <2>6, <2>7 DEF Shift
<1>8. ASSUME NEW s \in Server, NEW m \in Message, Pushes(s, m)
      PROVE  Shift /\ DistinctLists'
  <2>1. PICK x : x = m.id
    OBVIOUS
  <2>2. PICK st \in {NoChat, PeerStage("trim", m, None)} : chat' = [chat EXCEPT ![s] = st]
    BY <1>8 DEF Pushes
  <2>3. st.op \in {"idle", "trim"}
    BY <2>2 DEF PeerStage
  <2>4. /\ x \in 1..MaxMsg /\ InHand(s, x) /\ Moving(x) /\ MovesOnce(x)
        /\ UNCHANGED <<channel, inbox, sent>>
    BY <1>2, <1>8, <2>1 DEF Pushes, Hand
  <2>5. /\ \A r \in Server \ {s} : /\ chat'[r] = chat[r]
                                   /\ \A i : /\ InHand(r, i)' <=> InHand(r, i)
                                             /\ Read(r, i)' <=> Read(r, i)
        /\ chat'[s] = st
        /\ \A i : ~InHand(s, i)' /\ ~Read(s, i)'
    BY <1>1, <2>2, <2>3, StageChanges
  <2>6. /\ \A r \in Server : ~InLine(r, x) /\ ~Read(r, x) /\ (InHand(r, x) => r = s)
        /\ \A u \in User : ~Stored(u, x)
        /\ \A c \in Conn : ~Given(c, x) /\ ~Live(c, x)
    <3>1. ~Settled(x)
      BY <2>4 DEF MovesOnce
    <3>. QED
      BY <2>4, <3>1, PlacesKnown DEF Settled, MovesOnce
  <2>7. PICK ns \in Seq(Message) : ns = <<m>>
    BY Singleton
  <2>8. m.to \in User /\ unread[m.to] \in Seq(Message) /\ Distinct(unread[m.to])
        /\ \A u \in User : unread'[u] = IF u = m.to THEN ns \o unread[m.to] ELSE unread[u]
    BY <1>1, <1>8, <2>7 DEF Pushes, ChatTyped, Message, DistinctLists
  <2>9. Ids(ns) = {x} /\ Distinct(ns)
    BY <2>1, <2>7, IdsOfOne
  <2>10. Ids(ns \o unread[m.to]) = Ids(unread[m.to]) \cup {x} /\ Distinct(ns \o unread[m.to])
    <3>1. /\ Ids(ns \o unread[m.to]) = Ids(ns) \cup Ids(unread[m.to])
          /\ Distinct(ns \o unread[m.to]) <=>
               Distinct(ns) /\ Distinct(unread[m.to]) /\ Ids(ns) \cap Ids(unread[m.to]) = {}
      BY <2>8, IdsJoined
    <3>. QED
      BY <2>6, <2>8, <2>9, <3>1 DEF Stored
  <2>11. \A i : \A u \in User : Stored(u, i)' <=> Stored(u, i) \/ (u = m.to /\ i = x)
    BY <2>8, <2>10 DEF Stored
  <2>12. /\ \A i : \A r \in Server : InLine(r, i)' <=> InLine(r, i)
         /\ \A i : \A c \in Conn : (Given(c, i)' <=> Given(c, i)) /\ (Live(c, i)' <=> Live(c, i))
    BY <2>4, Stays
  <2>13. \A i : i # x => Thinner(i)
    BY <2>5, <2>11, <2>12 DEF Thinner
  <2>14. MovesOnce(x)' /\ GivenOnce(x)'
    <3>1. /\ \A t \in Server : ~InLine(t, x)' /\ ~InHand(t, x)' /\ ~Read(t, x)'
          /\ \A c \in Conn : ~Given(c, x)' /\ ~Live(c, x)'
      BY <2>5, <2>6, <2>12
    <3>. QED
      BY <3>1, NowSettled
  <2>15. Goes(x)
    BY <2>4, <2>13, <2>14 DEF Goes
  <2>16. DistinctLists'
    BY <1>1, <2>3, <2>4, <2>5, <2>8, <2>10 DEF DistinctLists, Reads
  <2>. QED
    BY <2>4, <2>15, <2>16 DEF Shift
<1>9. ASSUME NEW s \in Server, NEW c \in Conn, Asks(s, c)
      PROVE  Shift /\ DistinctLists'
  <2>1. PICK st, u : u = ClientOf[c] /\ st = UnreadStage("del", c, unread[u])
    OBVIOUS
  <2>2. u \in User /\ st.op = "del" /\ st.list = unread[u]
    BY <2>1, PresenceAssumption DEF UnreadStage
  <2>3. chat' = [chat EXCEPT ![s] = st] /\ chat[s] = NoChat /\ UNCHANGED <<channel, unread, inbox, sent>>
    BY <1>9, <2>1 DEF Asks
  <2>4. /\ \A r \in Server \ {s} : /\ chat'[r] = chat[r]
                                   /\ \A i : /\ InHand(r, i)' <=> InHand(r, i)
                                             /\ Read(r, i)' <=> Read(r, i)
        /\ chat'[s] = st
        /\ \A i : ~InHand(s, i)' /\ (Read(s, i)' <=> i \in Ids(unread[u]))
    BY <1>1, <2>2, <2>3, StageChanges
  <2>5. \A i : ~InHand(s, i) /\ (i \in Ids(unread[u]) <=> Stored(u, i))
    BY <2>3 DEF InHand, Hand, Stored
  <2>6. /\ \A i : \A r \in Server : InLine(r, i)' <=> InLine(r, i)
        /\ \A i : \A v \in User : Stored(v, i)' <=> Stored(v, i)
        /\ \A i : \A d \in Conn : (Given(d, i)' <=> Given(d, i)) /\ (Live(d, i)' <=> Live(d, i))
    BY <2>3, Stays
  <2>7. Listed(s, c)
    <3>1. chat'[s].op = "del"
      BY <2>2, <2>4
    <3>2. ASSUME NEW i
          PROVE  /\ Lists(s, c, i)
                 /\ Stored(u, i)' <=> Stored(u, i)
                 /\ Given(c, i)' <=> Given(c, i)
                 /\ Read(s, i)' <=> Stored(u, i)
      BY <2>2, <2>4, <2>5, <2>6 DEF Lists
    <3>. QED
      BY <2>1, <3>1, <3>2 DEF Listed
  <2>8. DistinctLists'
    BY <1>1, <2>2, <2>3, <2>4 DEF DistinctLists, Reads
  <2>. QED
    BY <2>3, <2>7, <2>8 DEF Shift
<1>10. ASSUME NEW s \in Server, NEW c \in Conn, NEW ms \in Seq(Message), Deletes(s, c, ms)
       PROVE  Shift /\ DistinctLists'
  <2>1. PICK st, u : u = ClientOf[c] /\ st = UnreadStage("answer", c, ms)
    OBVIOUS
  <2>2. u \in User /\ st.op = "answer" /\ st.list = ms
    BY <2>1, PresenceAssumption DEF UnreadStage
  <2>3. /\ chat' = [chat EXCEPT ![s] = st] /\ UNCHANGED <<channel, inbox, sent>>
        /\ Reads(s) /\ chat[s].conn = c /\ chat[s].list = ms /\ chat[s].op = "del"
        /\ unread' = [unread EXCEPT ![u] = <<>>]
    BY <1>10, <2>1 DEF Deletes, Reads
  <2>4. /\ \A r \in Server \ {s} : /\ chat'[r] = chat[r]
                                   /\ \A i : /\ InHand(r, i)' <=> InHand(r, i)
                                             /\ Read(r, i)' <=> Read(r, i)
        /\ chat'[s] = st
        /\ \A i : ~InHand(s, i)' /\ (Read(s, i)' <=> i \in Ids(ms))
    BY <1>1, <2>2, <2>3, StageChanges
  <2>5. \A i : ~InHand(s, i) /\ (i \in Ids(ms) <=> Read(s, i))
    BY <2>3 DEF InHand, Hand, Read
  <2>6. \A v \in User : unread'[v] = IF v = u THEN <<>> ELSE unread[v]
    BY <1>1, <2>3 DEF ChatTyped
  <2>7. Ids(<<>>) = {} /\ Distinct(<<>>)
    BY IdsOfOne
  <2>8. \A i : ~Stored(u, i)' /\ \A v \in User : v # u => (Stored(v, i)' <=> Stored(v, i))
    BY <2>2, <2>6, <2>7 DEF Stored
  <2>9. /\ \A i : \A r \in Server : InLine(r, i)' <=> InLine(r, i)
        /\ \A i : \A d \in Conn : (Given(d, i)' <=> Given(d, i)) /\ (Live(d, i)' <=> Live(d, i))
    BY <2>3, Stays
  <2>10. Deleted(s, c)
    <3>1. ASSUME NEW i
          PROVE  /\ Lists(s, c, i)
                 /\ ~Stored(u, i)'
                 /\ Given(c, i)' <=> Given(c, i)
                 /\ Read(s, i)' <=> Read(s, i)
      BY <2>1, <2>4, <2>5, <2>8, <2>9 DEF Lists
    <3>. QED
      BY <2>1, <2>3, <3>1 DEF Deleted
  <2>11. DistinctLists'
    BY <1>1, <2>2, <2>3, <2>4, <2>6, <2>7 DEF DistinctLists, Reads
  <2>. QED
    BY <2>3, <2>10, <2>11 DEF Shift
<1>11. ASSUME NEW s \in Server, NEW c \in Conn, NEW ms \in Seq(Message), Answers(s, c, ms)
       PROVE  Shift /\ DistinctLists'
  <2>1. /\ chat' = [chat EXCEPT ![s] = NoChat] /\ UNCHANGED <<channel, unread, sent>>
        /\ Reads(s) /\ chat[s].conn = c /\ chat[s].list = ms /\ chat[s].op = "answer"
        /\ inbox' = [inbox EXCEPT ![c] = @ \o ms]
    BY <1>11 DEF Answers, Reads
  <2>2. /\ \A r \in Server \ {s} : /\ chat'[r] = chat[r]
                                   /\ \A i : /\ InHand(r, i)' <=> InHand(r, i)
                                             /\ Read(r, i)' <=> Read(r, i)
        /\ chat'[s] = NoChat
        /\ \A i : ~InHand(s, i)' /\ ~Read(s, i)'
    BY <1>1, <2>1, StageChanges
  <2>3. \A i : ~InHand(s, i) /\ (i \in Ids(ms) <=> Read(s, i))
    BY <2>1 DEF InHand, Hand, Read
  <2>4. \A f : LiveIds(ms, f) = {}
    BY <2>1, PlainDead DEF Contents
  <2>5. \A d \in Conn : \A i : /\ Given(d, i)' <=> Given(d, i) \/ (d = c /\ Read(s, i))
                               /\ Live(d, i)' <=> Live(d, i)
    BY <1>1, <2>1, <2>3, <2>4, GivenMore
  <2>6. /\ \A i : \A r \in Server : InLine(r, i)' <=> InLine(r, i)
        /\ \A i : \A v \in User : Stored(v, i)' <=> Stored(v, i)
    BY <2>1, Stays
  <2>7. HandedOver(s, c)
    <3>1. ASSUME NEW i
          PROVE  /\ Lists(s, c, i)
                 /\ Stored(ClientOf[c], i)' <=> Stored(ClientOf[c], i)
                 /\ Given(c, i)' <=> Given(c, i) \/ Read(s, i)
                 /\ ~Read(s, i)'
      BY <2>2, <2>3, <2>5, <2>6, PresenceAssumption DEF Lists
    <3>. QED
      BY <2>1, <3>1 DEF HandedOver
  <2>8. DistinctLists'
    BY <1>1, <2>1, <2>2 DEF DistinctLists, Reads
  <2>. QED
    BY <2>1, <2>7, <2>8 DEF Shift
<1>12. ASSUME NEW s \in Server, NEW m \in Message, NEW d \in Conn, Takes(s, m, d)
       PROVE  Shift /\ DistinctLists'
  <2>1. PICK x : x = m.id
    OBVIOUS
  <2>2. /\ channel[s] # <<>> /\ m = Head(channel[s]) /\ channel' = [channel EXCEPT ![s] = Tail(@)]
        /\ inbox' = [inbox EXCEPT ![d] = @ \o <<m>>] /\ UNCHANGED <<chat, unread, sent>>
    BY <1>12 DEF Takes
  <2>3. /\ InLine(s, x)
        /\ \A t \in Server : /\ Distinct(channel'[t])
                             /\ \A i : InLine(t, i)' <=> InLine(t, i) /\ ~(t = s /\ i = x)
    BY <1>1, <2>1, <2>2, LineTaken
  <2>4. x \in 1..MaxMsg /\ MovesOnce(x) /\ Moving(x)
    BY <2>1, <2>3 DEF Message, Placed, Moving
  <2>5. /\ \A r \in Server : ~InHand(r, x) /\ ~Read(r, x) /\ (InLine(r, x) => r = s)
        /\ \A u \in User : ~Stored(u, x)
        /\ \A c \in Conn : ~Given(c, x) /\ ~Live(c, x)
    <3>1. ~Settled(x)
      BY <2>3, <2>4 DEF MovesOnce
    <3>. QED
      BY <2>3, <2>4, <3>1, PlacesKnown DEF Settled, MovesOnce
  <2>6. \A c \in Conn : \A i : /\ Given(c, i)' <=> Given(c, i) \/ (c = d /\ i = x)
                               /\ Live(c, i)' => Live(c, i) \/ (c = d /\ i = x)
    <3>1. PICK ns \in Seq(Message) : ns = <<m>>
      BY Singleton
    <3>2. inbox' = [inbox EXCEPT ![d] = @ \o ns]
      BY <2>2, <3>1
    <3>3. Ids(ns) = {x} /\ \A f \in Conn : LiveIds(ns, f) \subseteq {x}
      BY <2>1, <3>1, IdsOfOne, LiveOfOne
    <3>. QED
      BY <1>1, <3>2, <3>3, GivenMore
  <2>7. /\ \A i : \A t \in Server : /\ InHand(t, i)' <=> InHand(t, i)
                                    /\ Read(t, i)' <=> Read(t, i)
        /\ \A i : \A u \in User : Stored(u, i)' <=> Stored(u, i)
    BY <2>2, Stays
  <2>8. \A i : i # x => Thinner(i)
    BY <2>2, <2>3, <2>6, <2>7 DEF Thinner
  <2>9. MovesOnce(x)' /\ GivenOnce(x)'
    <3>1. /\ \A t \in Server : ~InLine(t, x)' /\ ~InHand(t, x)' /\ ~Read(t, x)'
          /\ (\A u \in User : ~Stored(u, x)') /\ (\A c, e \in Conn : Given(c, x)' /\ Given(e, x)' => c = e)
      BY <2>3, <2>5, <2>6, <2>7
    <3>. QED
      BY <3>1, NowSettled
  <2>10. Goes(x)
    BY <2>2, <2>4, <2>8, <2>9 DEF Goes
  <2>11. DistinctLists'
    BY <1>1, <2>2, <2>3 DEF DistinctLists, Reads
  <2>. QED
    BY <2>4, <2>10, <2>11 DEF Shift
<1>13. ASSUME NEW s \in Server, Drops(s)
       PROVE  Shift /\ DistinctLists'
  <2>1. /\ channel[s] # <<>> /\ channel' = [channel EXCEPT ![s] = Tail(@)]
        /\ UNCHANGED <<chat, unread, inbox, sent>>
    BY <1>13 DEF Drops
  <2>2. \A t \in Server : Distinct(channel'[t]) /\ \A i : InLine(t, i)' => InLine(t, i)
    BY <1>1, <2>1, LineTaken
  <2>3. /\ \A i : \A t \in Server : /\ InHand(t, i)' <=> InHand(t, i)
                                    /\ Read(t, i)' <=> Read(t, i)
        /\ \A i : \A u \in User : Stored(u, i)' <=> Stored(u, i)
        /\ \A i : \A d \in Conn : (Given(d, i)' <=> Given(d, i)) /\ (Live(d, i)' <=> Live(d, i))
    BY <2>1, Stays
  <2>4. \A i : Thinner(i)
    BY <2>1, <2>2, <2>3 DEF Thinner
  <2>5. DistinctLists'
    BY <1>1, <2>1, <2>2 DEF DistinctLists, Reads
  <2>. QED
    BY <2>1, <2>4, <2>5 DEF Shift
<1>14. ASSUME NEW s \in Server, NEW m \in Message, Misses(s, m)
       PROVE  Shift /\ DistinctLists'
  <2>1. PICK st : st = PeerStage("push", m, None)
    OBVIOUS
  <2>2. chat' = [chat EXCEPT ![s] = st] /\ st.op = "push" /\ st.msg = m
    BY <1>14, <2>1 DEF Misses, PeerStage
  <2>. QED
    BY <1>5, <1>14, <2>2 DEF Misses
<1>15. ASSUME NEW s \in Server, NEW t \in Server, NEW m \in Message, NEW n \in Message, Finds(s, m, n, t)
       PROVE  Shift /\ DistinctLists'
  <2>1. PICK st : st = PeerStage("publish", n, t)
    OBVIOUS
  <2>2. chat' = [chat EXCEPT ![s] = st] /\ st.op = "publish" /\ st.msg = n
    BY <1>15, <2>1 DEF Finds, PeerStage
  <2>3. /\ chat[s].op = "get" /\ chat[s].msg.id = m.id /\ n.id = m.id
        /\ UNCHANGED <<channel, unread, inbox, sent>>
    BY <1>15 DEF Finds
  <2>. QED
    BY <1>5, <2>2, <2>3
<1>. QED
  BY ONLY ChatSteps, <1>3, <1>4, <1>6, <1>7, <1>8, <1>9, <1>10, <1>11, <1>12, <1>13, <1>14, <1>15
  DEF ChatSteps


\* A step of presence takes handlers and channels away, and lists nothing.
LEMMA PlacesShift ==
  ASSUME IInv, ChatInv, BusyOK, Contents, Placed, [PeerNext]_allVars
  PROVE  Shift /\ DistinctLists'
<1>. USE NoChatTyped
<1>1. CASE PresenceStep \/ Still
  <2>1. UNCHANGED <<unread, inbox, sent>>
    BY <1>1 DEF PresenceStep, Still
  <2>2. \A s \in Server : chat'[s] = chat[s] \/ chat'[s].op = "idle"
    BY <1>1 DEF PresenceStep, Still
  <2>3. \A s \in Server : channel'[s] = channel[s] \/ channel'[s] = <<>>
    BY <1>1 DEF PresenceStep, Still
  <2>4. Ids(<<>>) = {} /\ Distinct(<<>>)
    BY IdsOfOne
  <2>5. ASSUME NEW s \in Server, NEW i
        PROVE  /\ InHand(s, i)' => InHand(s, i)
               /\ InLine(s, i)' => InLine(s, i)
               /\ Read(s, i)' => Read(s, i) /\ chat'[s] = chat[s]
    <3>1. InHand(s, i)' => InHand(s, i)
      BY <2>2 DEF InHand, Hand
    <3>2. Read(s, i)' => Read(s, i) /\ chat'[s] = chat[s]
      BY <2>2 DEF Read, Reads
    <3>3. InLine(s, i)' => InLine(s, i)
      BY <2>3, <2>4 DEF InLine
    <3>. QED
      BY <3>1, <3>2, <3>3
  <2>6. /\ \A i : \A u \in User : Stored(u, i)' <=> Stored(u, i)
        /\ \A i : \A d \in Conn : (Given(d, i)' <=> Given(d, i)) /\ (Live(d, i)' <=> Live(d, i))
    BY <2>1, Stays
  <2>7. \A i : Thinner(i)
    BY <2>5, <2>6 DEF Thinner
  <2>8. DistinctLists'
    <3>1. \A s \in Server : Distinct(channel'[s])
      BY <2>3, <2>4 DEF Placed, DistinctLists
    <3>2. \A s \in Server : Reads(s)' => Distinct(chat'[s].list)
      BY <2>2 DEF Placed, DistinctLists, Reads
    <3>. QED
      BY <2>1, <3>1, <3>2 DEF Placed, DistinctLists
  <2>. QED
    BY <2>1, <2>7, <2>8 DEF Shift
<1>2. CASE ChatSteps /\ UNCHANGED <<vars, doubled>>
  BY <1>2, Shifts
<1>. QED
  BY <1>1, <1>2, PeerStepsAre

LEMMA PlacedHolds ==
  ASSUME IInv, ChatInv, BusyOK, Contents, Placed, [PeerNext]_allVars
  PROVE  Placed'
BY PlacesShift, ShiftMoves DEF Placed, ChatInv

LEMMA PlacedInit == PeerInit => Placed
<1>. SUFFICES ASSUME PeerInit PROVE Placed
  OBVIOUS
<1>1. /\ \A s \in Server : chat[s] = NoChat /\ chat[s].op = "idle" /\ channel[s] = <<>>
      /\ \A u \in User : unread[u] = <<>>
      /\ \A c \in Conn : inbox[c] = <<>>
  BY NoChatTyped DEF PeerInit
<1>2. Ids(<<>>) = {} /\ Distinct(<<>>) /\ \A f : LiveIds(<<>>, f) = {}
  BY IdsOfOne, LiveOfOne
<1>3. DistinctLists
  BY <1>1, <1>2 DEF DistinctLists, Reads
<1>4. ASSUME NEW i
      PROVE  /\ \A s \in Server : ~InHand(s, i) /\ ~InLine(s, i) /\ ~Read(s, i)
             /\ \A c \in Conn : ~Given(c, i) /\ ~Live(c, i)
  BY <1>1, <1>2 DEF InHand, Hand, InLine, Read, Reads, Given, Live
<1>5. \A i : MovesOnce(i)
  BY <1>4 DEF MovesOnce
<1>. QED
  BY <1>3, <1>5 DEF Placed

-----------------------------------------------------------------------------
(* The promise of Delivery.                                                  *)

Kept(i) == (\E u \in User : Stored(u, i)) \/ (\E s \in Server : Read(s, i))
Had(i) == \E c \in Conn : Given(c, i)

\* The sets of numbers that fate is read from.
LEMMA IdsAre ==
  ASSUME NEW i
  PROVE  /\ i \in MovingIds <=> Moving(i)
         /\ i \in KeptIds <=> Kept(i)
         /\ i \in MovingIds' <=> Moving(i)'
         /\ i \in KeptIds' <=> Kept(i)'
<1>1. i \in MovingIds <=> Moving(i)
  BY DEF MovingIds, Moving, InHand, InLine, Hand
<1>2. i \in KeptIds <=> Kept(i)
  BY DEF KeptIds, Kept, Stored, Read, Reads
<1>3. i \in MovingIds' <=> Moving(i)'
  BY DEF MovingIds, Moving, InHand, InLine, Hand
<1>4. i \in KeptIds' <=> Kept(i)'
  BY DEF KeptIds, Kept, Stored, Read, Reads
<1>. QED
  BY <1>1, <1>2, <1>3, <1>4

LEMMA GivenAre ==
  ASSUME NEW i, NEW box \in [Conn -> Seq(Message)], NEW live, NEW dead,
         live = UNION {{box[c][k].id : k \in {j \in DOMAIN box[c] : (box[c][j].via # None) = TRUE}} : c \in Conn},
         dead = UNION {{box[c][k].id : k \in {j \in DOMAIN box[c] : (box[c][j].via # None) = FALSE}} : c \in Conn}
  PROVE  /\ i \in live <=> \E c, f \in Conn : i \in LiveIds(box[c], f)
         /\ i \in live \cup dead <=> \E c \in Conn : i \in Ids(box[c])
<1>1. \A c \in Conn : DOMAIN box[c] = 1..Len(box[c])
  OBVIOUS
<1>2. \A c \in Conn : \A j \in 1..Len(box[c]) : box[c][j].from \in Conn
  <2>1. \A c \in Conn : \A j \in 1..Len(box[c]) : box[c][j] \in Message
    BY ElementOfSeq
  <2>. QED
    BY <2>1 DEF Message
<1>3. i \in live <=> \E c \in Conn : \E k \in 1..Len(box[c]) : box[c][k].via # None /\ box[c][k].id = i
  BY <1>1
<1>4. i \in dead <=> \E c \in Conn : \E k \in 1..Len(box[c]) : box[c][k].via = None /\ box[c][k].id = i
  BY <1>1
<1>5. (\E c, f \in Conn : i \in LiveIds(box[c], f))
        <=> \E c \in Conn : \E k \in 1..Len(box[c]) : box[c][k].via # None /\ box[c][k].id = i
  BY <1>2 DEF LiveIds
<1>6. (\E c \in Conn : i \in Ids(box[c])) <=> \E c \in Conn : \E k \in 1..Len(box[c]) : box[c][k].id = i
  BY <1>1 DEF Ids
<1>. QED
  BY <1>3, <1>4, <1>5, <1>6

\* The fate of message i, by its place.
FateAt(i) ==
  IF i > Len(sent) THEN "unsent" ELSE IF Moving(i) THEN "moving" ELSE IF Had(i) THEN "given"
  ELSE IF Kept(i) THEN "kept" ELSE "lost"

LEMMA FateIs ==
  ASSUME ChatTyped, ChatTyped', NEW i \in 1..MaxMsg
  PROVE  /\ MovesOnce(i) => Fate[i] = FateAt(i)
         /\ MovesOnce(i)' => Fate'[i] = FateAt(i)'
<1>1. /\ i \in GivenIds(TRUE) <=> \E c \in Conn : Live(c, i)
      /\ i \in GivenIds(TRUE) \cup GivenIds(FALSE) <=> Had(i)
  <2>1. PICK box \in [Conn -> Seq(Message)] : box = inbox
    BY DEF ChatTyped
  <2>. QED
    BY <2>1, GivenAre DEF GivenIds, Had, Given, Live
<1>2. /\ i \in GivenIds(TRUE)' <=> \E c \in Conn : Live(c, i)'
      /\ i \in GivenIds(TRUE)' \cup GivenIds(FALSE)' <=> Had(i)'
  <2>1. PICK box \in [Conn -> Seq(Message)] : box = inbox'
    BY DEF ChatTyped
  <2>. QED
    BY <2>1, GivenAre DEF GivenIds, Had, Given, Live
<1>3. ASSUME MovesOnce(i) PROVE Fate[i] = FateAt(i)
  <2>1. i \notin GivenIds(TRUE) \cap KeptIds
    BY <1>1, <1>3, IdsAre DEF MovesOnce, Kept
  <2>2. i \notin MovingIds \cap (GivenIds(TRUE) \cup GivenIds(FALSE) \cup KeptIds)
    BY <1>1, <1>3, IdsAre DEF MovesOnce, Moving, Settled, Kept, Had
  <2>. QED
    BY <1>1, <2>1, <2>2, IdsAre DEF Fate, FateAt
<1>4. ASSUME MovesOnce(i)' PROVE Fate'[i] = FateAt(i)'
  <2>1. i \notin GivenIds(TRUE)' \cap KeptIds'
    BY <1>2, <1>4, IdsAre DEF MovesOnce, Kept
  <2>2. i \notin MovingIds' \cap (GivenIds(TRUE)' \cup GivenIds(FALSE)' \cup KeptIds')
    BY <1>2, <1>4, IdsAre DEF MovesOnce, Moving, Settled, Kept, Had
  <2>. QED
    BY <1>2, <2>1, <2>2, IdsAre DEF Fate, FateAt
<1>. QED
  BY <1>3, <1>4

\* What a step does to the fate of a message.
LEMMA ShiftFates ==
  ASSUME ChatInv, ChatTyped', Contents, Placed, Placed', Shift
  PROVE  Promise!Next
<1>1. Len(sent) \in Nat /\ Len(sent') \in Nat
  BY DEF ChatInv, ChatTyped
<1>2. ASSUME NEW i \in 1..MaxMsg
      PROVE  /\ ~(i > Len(sent)) => /\ ~(i > Len(sent'))
                                    /\ Moving(i)' => Moving(i)
                                    /\ Had(i) => Had(i)'
                                    /\ Had(i)' => Moving(i) \/ Had(i) \/ Kept(i)
                                    /\ Kept(i)' => Moving(i) \/ Kept(i)
             /\ i > Len(sent) /\ ~(i > Len(sent')) => Moving(i)' \/ Had(i)'
  <2>1. ASSUME Thinner(i)
        PROVE  /\ Moving(i)' => Moving(i)
               /\ Had(i) <=> Had(i)'
               /\ Kept(i)' => Kept(i)
    BY <2>1 DEF Thinner, Moving, Had, Kept
  <2>2. CASE sent' = sent /\ Thinner(i)
    BY <2>1, <2>2
  <2>3. ASSUME NEW x \in 1..MaxMsg, Goes(x)
        PROVE  /\ ~(i > Len(sent)) => /\ ~(i > Len(sent'))
                                      /\ Moving(i)' => Moving(i)
                                      /\ Had(i) => Had(i)'
                                      /\ Had(i)' => Moving(i) \/ Had(i) \/ Kept(i)
                                      /\ Kept(i)' => Moving(i) \/ Kept(i)
               /\ i > Len(sent) /\ ~(i > Len(sent')) => Moving(i)' \/ Had(i)'
    <3>1. CASE sent' = sent /\ Moving(x)
      <4>1. CASE i = x
        <5>1. ~Had(i)
          <6>1. MovesOnce(i)
            BY DEF Placed
          <6>. QED
            BY <3>1, <4>1, <6>1 DEF MovesOnce, Moving, Settled, Had
        <5>. QED
          BY <3>1, <4>1, <5>1
      <4>2. CASE i # x
        BY <2>1, <2>3, <3>1, <4>2 DEF Goes
      <4>. QED
        BY <4>1, <4>2
    <3>2. CASE /\ x = Len(sent) + 1 /\ SentGrows /\ sent' # sent
               /\ Moving(x)' \/ \E c \in Conn : Given(c, x)'
      <4>1. Len(sent') = Len(sent) + 1
        BY <3>2, AppendProperties DEF SentGrows, ChatInv, ChatTyped
      <4>2. CASE i = x
        <5>1. i > Len(sent)
          BY <1>1, <3>2, <4>2
        <5>. QED
          BY <3>2, <4>2, <5>1 DEF Had
      <4>3. CASE i # x
        <5>1. /\ i > Len(sent) => i > Len(sent')
              /\ ~(i > Len(sent)) => ~(i > Len(sent'))
          BY ONLY <1>1, <3>2, <4>1, <4>3, i \in 1..MaxMsg
        <5>2. Thinner(i)
          BY <2>3, <4>3 DEF Goes
        <5>. QED
          BY <2>1, <5>1, <5>2
      <4>. QED
        BY <4>2, <4>3
    <3>. QED
      BY <2>3, <3>1, <3>2 DEF Goes
  <2>4. ASSUME NEW s \in Server, NEW c \in Conn, Listed(s, c) \/ Deleted(s, c) \/ HandedOver(s, c)
        PROVE  /\ Moving(i)' => Moving(i)
               /\ Had(i) => Had(i)'
               /\ Had(i)' => Had(i) \/ Kept(i)
               /\ Kept(i)' => Kept(i)
    <3>1. ClientOf[c] \in User
      BY PresenceAssumption
    <3>2. CASE Listed(s, c)
      BY <3>1, <3>2 DEF Listed, Lists, Moving, Had, Kept
    <3>3. CASE Deleted(s, c)
      BY <3>1, <3>3 DEF Deleted, Lists, Moving, Had, Kept
    <3>4. CASE HandedOver(s, c)
      BY <3>1, <3>4 DEF HandedOver, Lists, Moving, Had, Kept
    <3>. QED
      BY <2>4, <3>2, <3>3, <3>4
  <2>. QED
    BY <2>2, <2>3, <2>4 DEF Shift
<1>3. ASSUME NEW i \in 1..MaxMsg PROVE FateAt(i)' \in Promise!MayBecome(FateAt(i))
  <2>1. MovesOnce(i)
    BY DEF Placed
  <2>2. Moving(i) => ~Had(i) /\ ~Kept(i)
    BY <2>1 DEF MovesOnce, Moving, Settled, Had, Kept
  <2>3. CASE i > Len(sent)
    <3>1. FateAt(i) = "unsent" /\ FateAt(i)' \in {"unsent", "moving", "given"}
      BY <1>2, <2>3 DEF FateAt
    <3>. QED
      BY <3>1 DEF Promise!MayBecome
  <2>4. CASE ~(i > Len(sent)) /\ Moving(i)
    <3>1. FateAt(i) = "moving" /\ FateAt(i)' \in {"moving", "kept", "given", "lost"}
      BY <1>2, <2>4 DEF FateAt
    <3>. QED
      BY <3>1 DEF Promise!MayBecome
  <2>5. CASE ~(i > Len(sent)) /\ ~Moving(i) /\ Had(i)
    <3>1. FateAt(i) = "given" /\ FateAt(i)' = "given"
      BY <1>2, <2>5 DEF FateAt
    <3>. QED
      BY <3>1 DEF Promise!MayBecome
  <2>6. CASE ~(i > Len(sent)) /\ ~Moving(i) /\ ~Had(i) /\ Kept(i)
    <3>1. FateAt(i) = "kept" /\ FateAt(i)' \in {"kept", "given", "lost"}
      BY <1>2, <2>6 DEF FateAt
    <3>. QED
      BY <3>1 DEF Promise!MayBecome
  <2>7. CASE ~(i > Len(sent)) /\ ~Moving(i) /\ ~Had(i) /\ ~Kept(i)
    <3>1. FateAt(i) = "lost" /\ FateAt(i)' = "lost"
      BY <1>2, <2>7 DEF FateAt
    <3>. QED
      BY <3>1 DEF Promise!MayBecome
  <2>. QED
    BY <2>3, <2>4, <2>5, <2>6, <2>7
<1>4. \A i \in 1..MaxMsg : Fate[i] = FateAt(i) /\ Fate'[i] = FateAt(i)'
  BY FateIs DEF ChatInv, Placed
<1>5. DOMAIN Fate' = 1..MaxMsg
  BY DEF Fate
<1>6. \A i \in 1..MaxMsg : Fate'[i] \in Promise!MayBecome(Fate[i])
  BY <1>3, <1>4
<1>. QED
  BY <1>5, <1>6 DEF Promise!Next

LEMMA FateInit == PeerInit => Promise!Init
<1>. SUFFICES ASSUME PeerInit PROVE Promise!Init
  OBVIOUS
<1>1. \A i \in 1..MaxMsg : i > Len(sent)
  BY PeerAssumption DEF PeerInit
<1>2. Fate = [i \in 1..MaxMsg |-> "unsent"]
  BY <1>1 DEF Fate
<1>. QED
  BY <1>2 DEF Promise!Init

(* The servers keep the promise of Delivery, however their handlers and subscriber
   threads take turns, whichever die, and however stale the keys they read are: a
   message is never in two places, and none comes back once it was handed over,
   deleted or dropped (Server.cpp:261-296, 447-449).                         *)
THEOREM PeerImplementsDelivery == PeerSpec => ImplementsDelivery
<1>. DEFINE J == IInv /\ Mapped /\ ChatInv /\ BusyOK /\ Contents /\ Placed
<1>1. PeerInit => J /\ Promise!Init
  BY ChatInit, LiveInit, MappedInit, InitIInv, PlacedInit, FateInit DEF PeerInit
<1>2. J /\ [PeerNext]_allVars => J'
  <2>. SUFFICES ASSUME J, [PeerNext]_allVars PROVE J'
    OBVIOUS
  <2>1. IInv' /\ Mapped'
    BY PresenceNext, NextIInv, MappedHolds
  <2>2. ChatInv'
    BY ChatNextTyped DEF IInv, TypeInv
  <2>3. BusyOK' /\ Contents' /\ Placed'
    BY BusyHolds, ContentsHolds, PlacedHolds
  <2>. QED
    BY <2>1, <2>2, <2>3
<1>3. J /\ J' /\ [PeerNext]_allVars => [Promise!Next]_Fate
  <2>1. ASSUME J, J', [PeerNext]_allVars PROVE Promise!Next
    <3>1. Shift /\ ChatTyped'
      BY <2>1, PlacesShift DEF ChatInv
    <3>. QED
      BY <2>1, <3>1, ShiftFates
  <2>. QED
    BY <2>1
<1>. HIDE DEF J
<1>. QED
  BY <1>1, <1>2, <1>3, PTL DEF PeerSpec, ImplementsDelivery, Promise!Spec

-----------------------------------------------------------------------------
(* Delivery at most once, to a user who never has two clients at work at once. *)

LEMMA ShiftOnce ==
  ASSUME IInv, Mapped, BusyOK, Twins, ChatInv, Contents, OnceInv, Shift, doubled \subseteq doubled'
  PROVE  \A i \in 1..Len(sent') : sent'[i] \notin doubled' => GivenOnce(i)'
<1>0. Len(sent) \in Nat /\ ChatTyped
  BY DEF ChatInv, ChatTyped
<1>1. SUFFICES ASSUME NEW i \in 1..Len(sent'), sent'[i] \notin doubled'
               PROVE  GivenOnce(i)'
  OBVIOUS
<1>2. CASE sent' = sent /\ Thinner(i)
  <2>1. GivenOnce(i)
    BY <1>1, <1>2 DEF OnceInv
  <2>. QED
    BY <1>2, <2>1, ThinnerKeeps
<1>3. ASSUME NEW x \in 1..MaxMsg, Goes(x) PROVE GivenOnce(i)'
  <2>1. CASE i = x
    BY <1>3, <2>1 DEF Goes
  <2>2. CASE i # x
    <3>1. i \in 1..Len(sent) /\ sent'[i] = sent[i]
      <4>1. CASE sent' = sent
        BY <1>1, <4>1
      <4>2. CASE sent' # sent
        <5>1. x = Len(sent) + 1 /\ \E u \in User : sent' = Append(sent, u)
          BY <1>3, <4>2 DEF Goes, SentGrows
        <5>2. /\ Len(sent') = Len(sent) + 1
              /\ \A k \in 1..Len(sent) : sent'[k] = sent[k]
          BY <1>0, <5>1, AppendProperties DEF ChatTyped
        <5>3. i \in 1..Len(sent)
          BY ONLY <1>0, <1>1, <2>2, <5>1, <5>2
        <5>. QED
          BY <5>2, <5>3
      <4>. QED
        BY <4>1, <4>2
    <3>2. GivenOnce(i)
      BY <1>1, <3>1 DEF OnceInv
    <3>. QED
      BY <1>3, <2>2, <3>2, ThinnerKeeps DEF Goes
  <2>. QED
    BY <2>1, <2>2
<1>4. ASSUME sent' = sent, NEW s \in Server, NEW c \in Conn, Listed(s, c) \/ Deleted(s, c) \/ HandedOver(s, c)
      PROVE  GivenOnce(i)'
  <2>1. GivenOnce(i) /\ sent[i] \notin doubled /\ ClientOf[c] \in User
    BY <1>1, <1>4, PresenceAssumption DEF OnceInv
  <2>2. CASE Listed(s, c)
    BY <2>1, <2>2 DEF Listed, Lists, GivenOnce
  <2>3. CASE Deleted(s, c)
    <3>1. ASSUME NEW u \in User, Read(s, i) PROVE ~Stored(u, i)'
      <4>1. sent[i] = ClientOf[c]
        BY <2>3, <3>1, PlacesKnown DEF Deleted
      <4>2. u # ClientOf[c] => sent[i] = u \/ ~Stored(u, i)
        BY PlacesKnown
      <4>. QED
        BY <2>3, <4>1, <4>2 DEF Deleted, Lists
    <3>2. /\ \A u \in User : Stored(u, i)' => Stored(u, i)
          /\ \A r \in Server : Read(r, i)' <=> Read(r, i)
          /\ \A d \in Conn : Given(d, i)' <=> Given(d, i)
          /\ \A r \in Server \ {s} : chat'[r].op = chat[r].op
      BY <2>1, <2>3 DEF Deleted, Lists
    <3>. QED
      BY <2>1, <3>1, <3>2 DEF GivenOnce
  <2>4. CASE HandedOver(s, c)
    <3>1. /\ \A u \in User : Stored(u, i)' <=> Stored(u, i)
          /\ \A r \in Server : r # s => (Read(r, i)' <=> Read(r, i)) /\ chat'[r].op = chat[r].op
          /\ ~Read(s, i)'
          /\ \A d \in Conn : Given(d, i)' <=> Given(d, i) \/ (d = c /\ Read(s, i))
      BY <2>1, <2>4 DEF HandedOver, Lists
    <3>2. CASE ~Read(s, i)
      BY <2>1, <3>1, <3>2 DEF GivenOnce
    <3>3. CASE Read(s, i)
      <4>1. /\ \A d \in Conn : ~Given(d, i)
            /\ \A u \in User : ~Stored(u, i)
        BY <2>1, <2>4, <3>3 DEF GivenOnce, HandedOver
      <4>2. ASSUME NEW r \in Server, r # s PROVE ~Read(r, i)
        <5>1. SUFFICES ASSUME Read(r, i) PROVE FALSE
          OBVIOUS
        <5>2. sent[i] = ClientOf[chat[s].conn] /\ sent[i] = ClientOf[chat[r].conn]
          BY <3>3, <5>1, PlacesKnown
        <5>3. Reads(s) /\ Reads(r)
          BY <3>3, <5>1 DEF Read
        <5>. QED
          BY <2>1, <4>2, <5>2, <5>3, ReadsAlone
      <4>. QED
        BY <3>1, <4>1, <4>2 DEF GivenOnce
    <3>. QED
      BY <3>2, <3>3
  <2>. QED
    BY <1>4, <2>2, <2>3, <2>4
<1>. QED
  BY <1>2, <1>3, <1>4 DEF Shift

\* Messages that d was not handed before are handed to it.
LEMMA DistinctGiven ==
  ASSUME ChatTyped, NEW d \in Conn, NEW ns \in Seq(Message), inbox' = [inbox EXCEPT ![d] = @ \o ns],
         Distinct(ns), NEW c \in Conn, Distinct(inbox[c]), c = d => Ids(inbox[d]) \cap Ids(ns) = {}
  PROVE  Distinct(inbox'[c])
<1>1. inbox[d] \in Seq(Message) /\ inbox'[c] = IF c = d THEN inbox[d] \o ns ELSE inbox[c]
  BY DEF ChatTyped
<1>2. CASE c = d
  <2>1. Distinct(inbox[d] \o ns)
    BY <1>1, <1>2, IdsJoined
  <2>. QED
    BY <1>1, <1>2, <2>1
<1>. QED
  BY <1>1, <1>2

LEMMA OnceHolds ==
  ASSUME IInv, Mapped, BusyOK, Twins, ChatInv, Contents, Placed, OnceInv, [PeerNext]_allVars
  PROVE  OnceInv'
<1>1. ChatTyped
  BY DEF ChatInv
<1>2. doubled \subseteq doubled'
  <2>1. CASE PresenceStep \/ Still
    BY <2>1 DEF PresenceStep, Still
  <2>. QED
    BY <2>1, PeerStepsAre
<1>3. \A i \in 1..Len(sent') : sent'[i] \notin doubled' => GivenOnce(i)'
  BY <1>2, ShiftOnce, PlacesShift
<1>4. ASSUME NEW c \in Conn, ClientOf[c] \notin doubled' PROVE Distinct(inbox'[c])
  <2>1. Distinct(inbox[c]) /\ ClientOf[c] \notin doubled
    BY <1>2, <1>4 DEF OnceInv
  <2>2. CASE UNCHANGED inbox
    BY <2>1, <2>2
  <2>3. ASSUME NEW m \in Message, NEW d \in Conn, inbox' = [inbox EXCEPT ![d] = @ \o <<m>>], ~Given(d, m.id)
        PROVE  Distinct(inbox'[c])
    <3>1. PICK ns \in Seq(Message) : ns = <<m>>
      BY Singleton
    <3>2. Ids(ns) = {m.id} /\ Distinct(ns) /\ inbox' = [inbox EXCEPT ![d] = @ \o ns]
      BY <2>3, <3>1, IdsOfOne
    <3>3. Ids(inbox[d]) \cap Ids(ns) = {}
      BY <2>3, <3>2 DEF Given
    <3>. QED
      BY <1>1, <2>1, <3>2, <3>3, DistinctGiven
  <2>4. ASSUME NEW s \in Server, NEW m \in Message, NEW d \in Conn, SendsHere(s, m, d)
        PROVE  Distinct(inbox'[c])
    <3>1. ~Given(d, m.id) /\ inbox' = [inbox EXCEPT ![d] = @ \o <<m>>]
      <4>1. PICK x : x = m.id
        OBVIOUS
      <4>2. x = Len(sent) + 1 /\ inbox' = [inbox EXCEPT ![d] = @ \o <<m>>]
        BY <2>4, <4>1 DEF SendsHere, Numbers
      <4>. QED
        BY <4>1, <4>2, Fresh
    <3>. QED
      BY <2>3, <3>1
  <2>5. ASSUME NEW s \in Server, NEW m \in Message, NEW d \in Conn, Takes(s, m, d)
        PROVE  Distinct(inbox'[c])
    <3>1. /\ channel[s] # <<>> /\ m = Head(channel[s]) /\ channel' = [channel EXCEPT ![s] = Tail(@)]
          /\ inbox' = [inbox EXCEPT ![d] = @ \o <<m>>]
      BY <2>5 DEF Takes
    <3>2. InLine(s, m.id) /\ m.id \in 1..MaxMsg
      BY <1>1, <3>1, LineTaken DEF Placed, DistinctLists, Message
    <3>3. ~Given(d, m.id)
      BY <3>2 DEF Placed, MovesOnce, Settled
    <3>. QED
      BY <2>3, <3>1, <3>3
  <2>6. ASSUME NEW s \in Server, NEW d \in Conn, NEW ms \in Seq(Message), Answers(s, d, ms)
        PROVE  Distinct(inbox'[c])
    <3>1. /\ Reads(s) /\ chat[s].list = ms /\ chat[s].conn = d /\ inbox' = [inbox EXCEPT ![d] = @ \o ms]
      BY <2>6 DEF Answers, Reads
    <3>2. Distinct(ms)
      BY <3>1 DEF Placed, DistinctLists
    <3>3. ASSUME c = d, NEW i \in Ids(ms), i \in Ids(inbox[d]) PROVE FALSE
      <4>1. Read(s, i) /\ Given(d, i)
        BY <3>1, <3>3 DEF Read, Given
      <4>2. i \in 1..Len(sent) /\ sent[i] = ClientOf[d]
        BY <4>1, PlacesKnown
      <4>3. GivenOnce(i)
        BY <2>1, <3>3, <4>2 DEF OnceInv
      <4>. QED
        BY <4>1, <4>3 DEF GivenOnce
    <3>4. c = d => Ids(inbox[d]) \cap Ids(ms) = {}
      BY <3>3
    <3>5. inbox' = [inbox EXCEPT ![d] = @ \o ms] /\ Distinct(inbox[c])
      BY <2>1, <3>1
    <3>. QED
      BY <1>1, <3>2, <3>4, <3>5, DistinctGiven
  <2>7. CASE PresenceStep
    BY <2>2, <2>7 DEF PresenceStep
  <2>8. CASE Still
    BY <2>2, <2>8 DEF Still
  <2>9. CASE ChatSteps
    BY <2>2, <2>4, <2>5, <2>6, <2>9
    DEF ChatSteps, SendsAway, Finds, Misses, Publishes, Gives, Pushes, Asks, Deletes, Drops
  <2>. QED
    BY <2>7, <2>8, <2>9, PeerStepsAre
<1>. QED
  BY <1>3, <1>4 DEF OnceInv

\* A message is delivered at most once, over all connections and all servers, to a user
\* who never has two clients at work at once: neither the route over a channel nor a list
\* that is read by several servers hands it over again.
THEOREM DeliveredOnceHolds == IsFiniteSet(Conn) => (PeerSpec => []DeliveredOnce)
<1>. DEFINE J == IInv /\ Mapped /\ ChatInv /\ BusyOK /\ Twins /\ Contents /\ Placed /\ OnceInv
<1>. SUFFICES ASSUME IsFiniteSet(Conn) PROVE PeerSpec => []DeliveredOnce
  OBVIOUS
<1>1. PeerInit => J
  <2>. SUFFICES ASSUME PeerInit PROVE J
    OBVIOUS
  <2>1. OnceInv
    <3>1. Len(sent) = 0 /\ \A c \in Conn : inbox[c] = <<>>
      BY DEF PeerInit
    <3>2. Distinct(<<>>)
      BY IdsOfOne
    <3>3. 1..Len(sent) = {}
      BY <3>1
    <3>. QED
      BY <3>1, <3>2, <3>3 DEF OnceInv
  <2>. QED
    BY <2>1, ChatInit, LiveInit, MappedInit, InitIInv, PlacedInit, RoutedInit DEF PeerInit
<1>2. J /\ [PeerNext]_allVars => J'
  <2>. SUFFICES ASSUME J, [PeerNext]_allVars PROVE J'
    OBVIOUS
  <2>1. IInv' /\ Mapped'
    BY PresenceNext, NextIInv, MappedHolds
  <2>2. ChatInv'
    BY ChatNextTyped DEF IInv, TypeInv
  <2>3. BusyOK' /\ Contents' /\ Placed' /\ OnceInv'
    BY BusyHolds, ContentsHolds, PlacedHolds, OnceHolds
  <2>4. Twins'
    BY <2>1, TwinsHold
  <2>. QED
    BY <2>1, <2>2, <2>3, <2>4
<1>3. J => DeliveredOnce
  <2>. SUFFICES ASSUME J, NEW c \in Conn, NEW d \in Conn, NEW i \in DOMAIN inbox[c], NEW j \in DOMAIN inbox[d],
                       inbox[c][i].id = inbox[d][j].id, inbox[c][i].to \notin doubled
                PROVE  c = d /\ i = j
    BY DEF DeliveredOnce
  <2>1. PICK x : x = inbox[c][i].id
    OBVIOUS
  <2>2. Given(c, x) /\ Given(d, x) /\ i \in 1..Len(inbox[c]) /\ j \in 1..Len(inbox[d])
    BY <2>1 DEF Given, Ids, ChatInv, ChatTyped
  <2>3. inbox[c][i].to = ClientOf[c] /\ ClientOf[c] \notin doubled
    BY <2>2 DEF ChatInv, Addressed, AllTo
  <2>4. GivenOnce(x)
    BY <2>2, <2>3, PlacesKnown DEF OnceInv
  <2>5. c = d
    BY <2>2, <2>4 DEF GivenOnce
  <2>. QED
    BY <2>2, <2>3, <2>5 DEF OnceInv, Distinct
<1>. HIDE DEF J
<1>. QED
  BY <1>1, <1>2, <1>3, PTL DEF PeerSpec

-----------------------------------------------------------------------------
(* What is lost.  A message that is nowhere any more was deleted unread or trimmed, or
   was routed to a session that has ended since.                             *)

Somewhere(i) == Moving(i) \/ Kept(i) \/ Had(i)

\* What LostKnownWays allows to happen to message i.
Excused(i) ==
  DeletedUnread(i) \/ Trimmed(i) \/ Unheard(i) \/ Ended(sent[i]) \/ sent[i] \in doubled

LEMMA HeldIs ==
  ASSUME NEW i
  PROVE  (i \in Held <=> Somewhere(i)) /\ (i \in Held' <=> Somewhere(i)')
<1>1. i \in Held <=> Somewhere(i)
  <2>1. i \in Held <=> \/ \E s \in Server : i \in Ids(channel[s])
                       \/ \E u \in User : i \in Ids(unread[u])
                       \/ \E c \in Conn : i \in Ids(inbox[c])
                       \/ \E s \in Server : Hand(s) /\ chat[s].msg.id = i
                       \/ \E s \in Server : Reads(s) /\ i \in Ids(chat[s].list)
    BY DEF Held, Hand, Reads
  <2>. QED
    BY <2>1 DEF Somewhere, Moving, Kept, Had, InHand, InLine, Stored, Read, Given
<1>2. i \in Held' <=> Somewhere(i)'
  <2>1. i \in Held' <=> \/ \E s \in Server : i \in Ids(channel'[s])
                        \/ \E u \in User : i \in Ids(unread'[u])
                        \/ \E c \in Conn : i \in Ids(inbox'[c])
                        \/ \E s \in Server : Hand(s)' /\ chat'[s].msg.id = i
                        \/ \E s \in Server : Reads(s)' /\ i \in Ids(chat'[s].list)
    BY DEF Held, Hand, Reads
  <2>. QED
    BY <2>1 DEF Somewhere, Moving, Kept, Had, InHand, InLine, Stored, Read, Given, Ids
<1>. QED
  BY <1>1, <1>2

\* The message m went to server s, where its session is not at work any more.
LEMMA RouteEnds ==
  ASSUME Mapped, EndedOK, NEW s \in Server, NEW m \in Known, Way(m, s),
         \/ m_SessionMap[s][m.to] # None => phase[m_SessionMap[s][m.to]] = "closed"
         \/ s \notin running \/ m_sessionSet[s] = {}
  PROVE  Excused(m.id)
<1>1. m.to \in User /\ m.via \in Conn \cup {None} /\ sent[m.id] = m.to
      /\ (m.via # None => ClientOf[m.via] = m.to)
  BY DEF Known, Message
<1>2. m_SessionMap[s][m.to] # None => phase[m_SessionMap[s][m.to]] = "closed"
  <2>1. CASE s \notin running
    BY <1>1, <2>1 DEF EndedOK, NoSessions
  <2>2. CASE m_sessionSet[s] = {}
    BY <1>1, <2>2 DEF Mapped
  <2>. QED
    BY <2>1, <2>2
<1>3. CASE m.to \notin doubled
  <2>1. m.via \in Conn /\ phase[m.via] = "closed" /\ ClientOf[m.via] = m.to
    BY <1>1, <1>2, <1>3, PresenceAssumption DEF Way
  <2>. QED
    BY <1>1, <2>1 DEF Excused, Ended
<1>. QED
  BY <1>1, <1>3 DEF Excused

LEMMA ChatLoses ==
  ASSUME IInv, Mapped, EndedOK, ChatInv, Contents, Placed, RoutedInv, crashed = {}, ChatSteps,
         NEW i, Somewhere(i)
  PROVE  Somewhere(i)' \/ Excused(i)
<1>. USE NoChatTyped
<1>1. ChatTyped /\ \A t \in Server : Distinct(channel[t])
  BY DEF ChatInv, Placed, DistinctLists
<1>. DEFINE Z == Somewhere(i)' \/ Excused(i)
<1>2. /\ \A r \in Server : InHand(r, i)' \/ InLine(r, i)' \/ Read(r, i)' => Z
      /\ \A u \in User : Stored(u, i)' => Z
      /\ \A c \in Conn : Given(c, i)' => Z
  BY DEF Somewhere, Moving, Kept, Had
<1>3. /\ channel' = channel => \A r \in Server : InLine(r, i) => Z
      /\ unread' = unread => \A u \in User : Stored(u, i) => Z
      /\ inbox' = inbox => \A c \in Conn : Given(c, i) => Z
      /\ \A r \in Server : chat'[r] = chat[r] => (InHand(r, i) \/ Read(r, i) => Z)
  BY <1>2, Stays
<1>4. ASSUME NEW s \in Server, NEW st, chat' = [chat EXCEPT ![s] = st]
      PROVE  /\ \A r \in Server \ {s} : InHand(r, i) \/ Read(r, i) => Z
             /\ st.op \in {"get", "publish", "push"} /\ st.msg.id = i => Z
             /\ st.op \in {"del", "answer"} /\ i \in Ids(st.list) => Z
  BY <1>1, <1>2, <1>4, StageChanges
<1>5. ASSUME NEW d \in Conn, NEW ns \in Seq(Message), inbox' = [inbox EXCEPT ![d] = @ \o ns]
      PROVE  (\A c \in Conn : Given(c, i) => Z) /\ (i \in Ids(ns) => Z)
  BY <1>1, <1>2, <1>5, GivenMore
<1>6. ASSUME \A r \in Server : InHand(r, i) \/ InLine(r, i) \/ Read(r, i) => Z,
             \A u \in User : Stored(u, i) => Z, \A c \in Conn : Given(c, i) => Z
      PROVE  Z
  BY <1>6 DEF Somewhere, Moving, Kept, Had
<1>7. ASSUME NEW s \in Server, channel[s] # <<>>, channel' = [channel EXCEPT ![s] = Tail(@)]
      PROVE  /\ Head(channel[s]) \in Message
             /\ \A r \in Server : InLine(r, i) => Z \/ (r = s /\ i = Head(channel[s]).id)
  BY <1>1, <1>2, <1>7, LineTaken
<1>8. \A s \in Server : /\ InHand(s, i) => chat[s].op \in {"get", "publish", "push"} /\ chat[s].msg.id = i
                        /\ Read(s, i) => chat[s].op \in {"del", "answer"} /\ i \in Ids(chat[s].list)
  BY DEF InHand, Read, Hand, Reads
<1>. HIDE DEF Z
<1>9. ASSUME NEW s \in Server, NEW m \in Message, NEW d \in Conn, SendsHere(s, m, d) PROVE Z
  <2>1. PICK ns \in Seq(Message) : ns = <<m>>
    BY Singleton
  <2>2. inbox' = [inbox EXCEPT ![d] = @ \o ns] /\ UNCHANGED <<chat, channel, unread>>
    BY <1>9, <2>1 DEF SendsHere
  <2>. QED
    BY <1>3, <1>5, <1>6, <2>2
<1>10. ASSUME NEW s \in Server, NEW m \in Message, SendsAway(s, m) PROVE Z
  <2>1. PICK st : st = PeerStage("get", m, None)
    OBVIOUS
  <2>2. chat' = [chat EXCEPT ![s] = st] /\ chat[s].op = "idle" /\ UNCHANGED <<channel, unread, inbox>>
    BY <1>10, <2>1 DEF SendsAway, Numbers
  <2>. QED
    BY <1>3, <1>4, <1>6, <1>8, <2>2
<1>11. ASSUME NEW s \in Server, NEW t \in Server, NEW m \in Message, NEW n \in Message, Finds(s, m, n, t)
       PROVE  Z
  <2>1. PICK st : st = PeerStage("publish", n, t)
    OBVIOUS
  <2>2. /\ chat' = [chat EXCEPT ![s] = st] /\ st.op = "publish" /\ st.msg.id = chat[s].msg.id
        /\ chat[s].op = "get" /\ UNCHANGED <<channel, unread, inbox>>
    BY <1>11, <2>1 DEF Finds, PeerStage
  <2>. QED
    BY <1>3, <1>4, <1>6, <1>8, <2>2
<1>12. ASSUME NEW s \in Server, NEW m \in Message, Misses(s, m) PROVE Z
  <2>1. PICK st : st = PeerStage("push", m, None)
    OBVIOUS
  <2>2. /\ chat' = [chat EXCEPT ![s] = st] /\ st.op = "push" /\ st.msg.id = chat[s].msg.id
        /\ chat[s].op = "get" /\ UNCHANGED <<channel, unread, inbox>>
    BY <1>12, <2>1 DEF Misses, PeerStage
  <2>. QED
    BY <1>3, <1>4, <1>6, <1>8, <2>2
<1>13. ASSUME NEW s \in Server, NEW t \in Server, NEW m \in Message, Publishes(s, m, t) PROVE Z
  <2>1. PICK ns \in Seq(Message) : ns = <<m>>
    BY Singleton
  <2>2. \A r \in Server : channel'[r] = IF r = t THEN channel[t] \o ns ELSE channel[r]
    <3>1. channel[t] \in Seq(Message)
      BY <1>1 DEF ChatTyped
    <3>2. Append(channel[t], m) = channel[t] \o ns
      BY <2>1, <3>1
    <3>. QED
      BY <1>1, <1>13, <3>2 DEF Publishes, ChatTyped
  <2>3. Ids(channel[t] \o ns) = Ids(channel[t]) \cup {m.id}
    <3>1. channel[t] \in Seq(Message) /\ Ids(ns) = {m.id}
      BY <1>1, <2>1, IdsOfOne DEF ChatTyped
    <3>2. Ids(channel[t] \o ns) = Ids(channel[t]) \cup Ids(ns)
      BY <3>1, IdsJoined
    <3>. QED
      BY <3>1, <3>2
  <2>4. ASSUME NEW r \in Server, InLine(r, i) \/ (r = t /\ i = m.id) PROVE Z
    <3>1. InLine(r, i)'
      BY <2>2, <2>3, <2>4 DEF InLine
    <3>. QED
      BY <1>2, <3>1
  <2>5. /\ chat' = [chat EXCEPT ![s] = NoChat] /\ chat[s].op = "publish" /\ chat[s].msg.id = m.id
        /\ UNCHANGED <<unread, inbox>>
    BY <1>13 DEF Publishes
  <2>. QED
    BY <1>3, <1>4, <1>6, <1>8, <2>4, <2>5
<1>14. ASSUME NEW s \in Server, Gives(s) PROVE Z
  <2>1. chat' = [chat EXCEPT ![s] = NoChat] /\ chat[s].op \in {"publish", "trim"} /\ UNCHANGED <<channel, inbox>>
    BY <1>14 DEF Gives
  <2>2. ASSUME InHand(s, i) PROVE Z
    <3>1. PICK m \in Known, t \in Server : m = chat[s].msg /\ t = chat[s].target /\ m.id = i /\ chat[s].op = "publish"
      BY <1>8, <2>1, <2>2 DEF Contents, Hand, RoutedInv
    <3>2. Way(m, t) /\ t \notin subscribed
      BY <1>14, <3>1 DEF RoutedInv, Gives
    <3>3. CASE t \notin running
      <4>1. Excused(m.id)
        BY <3>2, <3>3, RouteEnds
      <4>. QED
        BY <3>1, <4>1 DEF Z
    <3>4. CASE t \in running
      <4>1. chat'[s] = NoChat
        BY <1>1, <2>1 DEF ChatTyped
      <4>2. Unheard(i)
        BY <3>1, <3>2, <3>4, <4>1 DEF Unheard
      <4>. QED
        BY <4>2 DEF Z, Excused
    <3>. QED
      BY <3>3, <3>4
  <2>3. ASSUME NEW u \in User, Stored(u, i) PROVE Z
    <3>1. CASE Stored(u, i)'
      BY <1>2, <3>1
    <3>2. CASE ~Stored(u, i)'
      <4>1. unread'[u] = Ltrim(unread[u]) /\ chat[s].op = "trim" /\ chat[s].msg.to = u
        BY <1>14, <2>3, <3>2 DEF Gives, Stored
      <4>2. i \notin Ids(Ltrim(unread[u]))
        BY <3>2, <4>1 DEF Stored
      <4>3. chat'[s] = NoChat
        BY <1>1, <2>1 DEF ChatTyped
      <4>. QED
        BY <4>1, <4>2, <4>3 DEF Z, Excused, Trimmed
    <3>. QED
      BY <3>1, <3>2
  <2>. QED
    BY <1>3, <1>4, <1>6, <1>8, <2>1, <2>2, <2>3
<1>15. ASSUME NEW s \in Server, NEW m \in Message, Pushes(s, m) PROVE Z
  <2>1. PICK ns \in Seq(Message) : ns = <<m>>
    BY Singleton
  <2>2. m.to \in User /\ unread[m.to] \in Seq(Message)
    BY <1>1 DEF Message, ChatTyped
  <2>3. \A u \in User : unread'[u] = IF u = m.to THEN ns \o unread[u] ELSE unread[u]
    BY <1>1, <1>15, <2>1 DEF Pushes, ChatTyped
  <2>4. Ids(ns \o unread[m.to]) = {m.id} \cup Ids(unread[m.to])
    BY <2>1, <2>2, IdsJoined, IdsOfOne, ZenonT(30)
  <2>5. ASSUME NEW u \in User, Stored(u, i) \/ (u = m.to /\ i = m.id) PROVE Z
    <3>1. Stored(u, i)'
      BY <2>3, <2>4, <2>5 DEF Stored
    <3>. QED
      BY <1>2, <3>1
  <2>6. PICK st : chat' = [chat EXCEPT ![s] = st]
    BY <1>15 DEF Pushes
  <2>7. chat[s].op = "push" /\ chat[s].msg.id = m.id /\ UNCHANGED <<channel, inbox>>
    BY <1>15 DEF Pushes
  <2>. QED
    BY <1>3, <1>4, <1>6, <1>8, <2>2, <2>5, <2>6, <2>7
<1>16. ASSUME NEW s \in Server, NEW c \in Conn, Asks(s, c) PROVE Z
  <2>1. PICK st : chat' = [chat EXCEPT ![s] = st]
    BY <1>16 DEF Asks
  <2>2. chat[s].op = "idle" /\ UNCHANGED <<channel, unread, inbox>>
    BY <1>16 DEF Asks
  <2>. QED
    BY <1>3, <1>4, <1>6, <1>8, <2>1, <2>2
<1>17. ASSUME NEW s \in Server, NEW c \in Conn, NEW ms \in Seq(Message), Deletes(s, c, ms) PROVE Z
  <2>1. PICK st : st = UnreadStage("answer", c, ms)
    OBVIOUS
  <2>2. /\ chat' = [chat EXCEPT ![s] = st] /\ st.op = "answer" /\ st.list = ms
        /\ chat[s].op = "del" /\ chat[s].list = ms /\ UNCHANGED <<channel, inbox>>
    BY <1>17, <2>1 DEF Deletes, UnreadStage
  <2>3. ASSUME NEW u \in User, Stored(u, i) PROVE Z
    <3>1. CASE i \in Ids(ms)
      BY <1>4, <2>2, <3>1
    <3>2. CASE i \notin Ids(ms)
      <4>1. chat'[s].op = "answer"
        BY <1>1, <2>2 DEF ChatTyped
      <4>. QED
        BY <2>2, <3>2, <4>1 DEF Z, Excused, DeletedUnread
    <3>. QED
      BY <3>1, <3>2
  <2>. QED
    BY <1>3, <1>4, <1>6, <1>8, <2>2, <2>3
<1>18. ASSUME NEW s \in Server, NEW c \in Conn, NEW ms \in Seq(Message), Answers(s, c, ms) PROVE Z
  <2>1. /\ chat' = [chat EXCEPT ![s] = NoChat] /\ inbox' = [inbox EXCEPT ![c] = @ \o ms]
        /\ chat[s].op = "answer" /\ chat[s].list = ms /\ UNCHANGED <<channel, unread>>
    BY <1>18 DEF Answers
  <2>2. i \in Ids(ms) => Z
    BY <1>5, <2>1
  <2>. QED
    BY <1>3, <1>4, <1>5, <1>6, <1>8, <2>1, <2>2
<1>19. ASSUME NEW s \in Server, NEW m \in Message, NEW d \in Conn, Takes(s, m, d) PROVE Z
  <2>1. PICK ns \in Seq(Message) : ns = <<m>>
    BY Singleton
  <2>2. /\ channel[s] # <<>> /\ m = Head(channel[s]) /\ channel' = [channel EXCEPT ![s] = Tail(@)]
        /\ inbox' = [inbox EXCEPT ![d] = @ \o ns] /\ UNCHANGED <<chat, unread>>
    BY <1>19, <2>1 DEF Takes
  <2>3. i = m.id => Z
    <3>1. Ids(ns) = {m.id}
      BY <2>1, IdsOfOne
    <3>. QED
      BY <1>5, <2>2, <3>1
  <2>. QED
    BY <1>3, <1>5, <1>6, <1>7, <2>2, <2>3
<1>20. ASSUME NEW s \in Server, Drops(s) PROVE Z
  <2>1. PICK m : m = Head(channel[s])
    OBVIOUS
  <2>2. /\ channel[s] # <<>> /\ channel' = [channel EXCEPT ![s] = Tail(@)]
        /\ UNCHANGED <<chat, unread, inbox>>
        /\ m_SessionMap[s][m.to] # None => phase[m_SessionMap[s][m.to]] = "closed"
    <3>1. PICK d \in Conn \cup {None} :
            d = m_SessionMap[s][Head(channel[s]).to] /\ (d # None => phase[d] = "closed")
      BY ONLY <1>20 DEF Drops
    <3>2. /\ channel[s] # <<>> /\ channel' = [channel EXCEPT ![s] = Tail(@)]
          /\ UNCHANGED <<chat, unread, inbox>>
      BY <1>20 DEF Drops
    <3>. QED
      BY <2>1, <3>1, <3>2
  <2>3. m \in Known
    <3>1. channel[s] \in Seq(Led(s))
      BY DEF Contents
    <3>2. m \in Led(s)
      BY <2>1, <2>2, <3>1, HeadTailProperties
    <3>. QED
      BY <3>2 DEF Led
  <2>4. Way(m, s)
    <3>1. channel[s] \in Seq(Message)
      BY <1>1 DEF ChatTyped
    <3>2. 1 \in 1..Len(channel[s]) /\ m = channel[s][1]
      BY <2>1, <2>2, <3>1
    <3>. QED
      BY <3>2 DEF RoutedInv
  <2>5. Excused(m.id)
    BY <2>2, <2>3, <2>4, RouteEnds
  <2>6. i = m.id => Z
    BY <2>5 DEF Z
  <2>. QED
    BY <1>3, <1>6, <1>7, <2>1, <2>2, <2>6
<1>21. Z
  BY ONLY ChatSteps, <1>9, <1>10, <1>11, <1>12, <1>13, <1>14, <1>15, <1>16, <1>17, <1>18, <1>19, <1>20 DEF ChatSteps
<1>. QED
  BY <1>21 DEF Z

\* As long as no server dies, a process ends when it has no session left, and in no
\* handler of chat.
LEMMA ExitsEmpty ==
  ASSUME IInv, BusyOK, PresenceStep, crashed' = {}
  PROVE  /\ crashed = {}
         /\ \A s \in Server : chat[s] # NoChat => s \in running'
         /\ \A s \in running \ running' : m_sessionSet[s] = {}
<1>1. ASSUME Environment PROVE crashed = {} /\ running \subseteq running'
  BY <1>1
  DEF Environment, LoginRecorded, LoginForgotten, HangUp, Crash, Die, Exit, Restart
<1>2. ASSUME NEW t \in Server, Begin(t) PROVE UNCHANGED <<running, crashed>>
  BY <1>2
  DEF Begin, Accept, StopSession, ShakeUnknown, ShakeKnown, Shutdown, BeginStopAll
<1>3. ASSUME NEW t \in Server, Shake(t) PROVE UNCHANGED <<running, crashed>>
  BY <1>3
  DEF Shake, ShakeAlreadyOnline, ShakeRegister, ShakeSet, ShakeSadd, ShakeReply
<1>4. ASSUME NEW t \in Server, Stop(t)
      PROVE  crashed = {} /\ (running' = running \/ (running' = running \ {t} /\ io[t].op = "stopAll"))
  BY <1>4
  DEF Stop, StopDel, StopErase, StopEraseEnd, StopEraseThrow, BeginStopAll, Srem, StopAllDel,
      StopAllDone, Die, Exit
<1>5. \A t \in Server : io[t].op = "stopAll" => m_sessionSet[t] = {}
  BY DEF IInv, HandlerOK, StopOK
<1>. QED
  BY <1>1, <1>2, <1>3, <1>4, <1>5 DEF PresenceStep, Continue, BusyOK

LEMMA PresenceLoses ==
  ASSUME IInv, Mapped, EndedOK, ChatInv, BusyOK, Contents, RoutedInv, PresenceStep, crashed' = {},
         NEW i, Somewhere(i)
  PROVE  Somewhere(i)' \/ Excused(i)
<1>1. /\ crashed = {} /\ \A s \in Server : chat[s] # NoChat => s \in running'
      /\ \A s \in running \ running' : m_sessionSet[s] = {}
  BY ExitsEmpty
<1>2. /\ \A s \in Server : chat'[s] = chat[s] /\ (s \in running' => channel'[s] = channel[s])
      /\ UNCHANGED <<unread, inbox>>
  BY <1>1 DEF PresenceStep
<1>3. ASSUME NEW s \in Server, InLine(s, i), s \notin running' PROVE Excused(i)
  <2>1. channel[s] \in Seq(Led(s))
    BY DEF Contents
  <2>2. PICK k \in 1..Len(channel[s]) : channel[s][k].id = i
    BY <1>3, <2>1 DEF InLine, Ids
  <2>3. channel[s][k] \in Known
    BY <2>1, <2>2, ElementOfSeq DEF Led
  <2>4. PICK m \in Known : m = channel[s][k]
    BY <2>3
  <2>5. Way(m, s)
    BY <1>1, <2>2, <2>4 DEF RoutedInv
  <2>6. s \notin running \/ m_sessionSet[s] = {}
    BY <1>1, <1>3
  <2>. QED
    BY <2>2, <2>4, <2>5, <2>6, RouteEnds
<1>4. ASSUME NEW s \in Server, InLine(s, i), s \in running' PROVE InLine(s, i)'
  BY <1>2, <1>4 DEF InLine
<1>5. /\ \A s \in Server : (InHand(s, i) => InHand(s, i)') /\ (Read(s, i) => Read(s, i)')
      /\ \A u \in User : Stored(u, i) => Stored(u, i)'
      /\ \A c \in Conn : Given(c, i) => Given(c, i)'
  BY <1>2, Stays
<1>. QED
  BY <1>3, <1>4, <1>5 DEF Somewhere, Moving, Kept, Had

\* No step loses a message, but for one that is deleted unread or trimmed, one published
\* to a server that serves and has not subscribed yet, one whose addressee had a
\* connection that has ended or two clients at work, and what a server that dies takes
\* with it: a server that is shut down has closed its sessions before its channel goes,
\* and one that has ended has none.
THEOREM LostKnownWaysHolds == IsFiniteSet(Conn) => (PeerSpec => LostKnownWays)
<1>. SUFFICES ASSUME IsFiniteSet(Conn) PROVE PeerSpec => LostKnownWays
  OBVIOUS
<1>. DEFINE J == /\ IInv /\ EndedOK /\ Mapped /\ ChatInv /\ BusyOK /\ Twins
                 /\ Contents /\ Placed /\ RoutedInv
<1>. DEFINE A == \/ crashed' # {}
                 \/ \A i \in Held \ Held' :
                      DeletedUnread(i) \/ Trimmed(i) \/ Unheard(i) \/ Ended(sent[i]) \/ sent[i] \in doubled
<1>1. PeerInit => J
  BY ChatInit, LiveInit, RoutedInit, MappedInit, InitIInv, PlacedInit DEF PeerInit, Init, EndedOK
<1>2. J /\ [PeerNext]_allVars => J'
  <2>. SUFFICES ASSUME J, [PeerNext]_allVars PROVE J'
    OBVIOUS
  <2>1. IInv' /\ Mapped' /\ EndedOK'
    BY PresenceNext, NextIInv, MappedHolds, EndedStep DEF IInv
  <2>2. ChatInv'
    BY ChatNextTyped DEF IInv, TypeInv
  <2>3. BusyOK' /\ Contents' /\ Placed'
    BY BusyHolds, ContentsHolds, PlacedHolds
  <2>4. Twins'
    BY <2>1, TwinsHold
  <2>5. RoutedInv'
    BY <2>1, <2>4, RoutedHolds
  <2>. QED
    BY <2>1, <2>2, <2>3, <2>4, <2>5
<1>3. J /\ [PeerNext]_allVars => [A]_allVars
  <2>. SUFFICES ASSUME J, PeerNext, crashed' = {}, NEW i \in Held \ Held' PROVE Excused(i)
    BY DEF Excused
  <2>1. Somewhere(i) /\ ~Somewhere(i)'
    BY HeldIs
  <2>2. CASE PresenceStep
    BY <2>1, <2>2, PresenceLoses
  <2>3. CASE ChatStep
    <3>1. (ChatSteps \/ Still) /\ UNCHANGED vars
      BY <2>3, ChatStepsAre DEF Still
    <3>2. crashed = {}
      BY <3>1 DEF vars, sessionVars
    <3>3. CASE Still
      <4>1. Held' = Held
        BY <3>3 DEF Still, Held, Ids
      <4>. QED
        BY <4>1
    <3>. QED
      BY <2>1, <3>1, <3>2, <3>3, ChatLoses
  <2>. QED
    BY <2>2, <2>3 DEF PeerNext
<1>. HIDE DEF J, A
<1>4. PeerSpec => [][A]_allVars
  BY <1>1, <1>2, <1>3, PTL DEF PeerSpec
<1>. QED
  BY <1>4 DEF A, LostKnownWays
=============================================================================
