----------------------------- MODULE GroupChat -----------------------------
(* Messages to a group, through any number of message servers:
   Server::doOnlineGroupMsg and doOfflineGroupMsg, the channels
   groupMsg:<server> and Server::SubscribeGroupMsg.

   The module extends Presence, as PeerChat does: the handlers run on the io
   thread, between those of Presence.  Each of the two functions takes m_mutex,
   which SubscribeGroupMsg, on the subscriber thread, takes as well.         *)
EXTENDS Presence, Naturals, Sequences

CONSTANTS
  MaxMsg,   \* how many messages are sent in all: a bound of the model
  Keep,     \* the length a list groupMsg:<g> is cut at; 99 in the code
  Bucket    \* Bucket[s]: the bucket of the name of s in an unordered_map

ASSUME GroupAssumption ==
  /\ MaxMsg \in Nat /\ Keep \in Nat /\ Bucket \in [Server -> Nat]

VARIABLES
  group,         \* group[s]: the group handler the io thread of s is in, and how far
  subscribed,    \* the servers whose subscriber thread has subscribed to groupMsg:<s>
  groupChannel,  \* groupChannel[s]: what is published on groupMsg:<s> and not consumed
  groupMsg,      \* groupMsg[g]: the list groupMsg:<g>, its head first
  unreadNumber,  \* unreadNumber[u][g]: the key unreadNumber:<u>:<g>
  groupLog       \* history: what became of the messages, see Entry

groupVars == <<group, subscribed, groupChannel, groupMsg, unreadNumber, groupLog>>
allVars == <<vars, groupVars>>

-----------------------------------------------------------------------------
(* The stages: "publish" of doOnlineGroupMsg, the others of doOfflineGroupMsg.
   remote: the map from servers to users, dataUnorderMap.                    *)
NoMsg == [op |-> "idle"]

InStage(stage, i) == [op |-> stage, id |-> i]

Remotes == UNION {[S -> User] : S \in SUBSET Server}

GroupState ==
  {NoMsg}
  \cup [op : {"publish"}, id : 1..MaxMsg, remote : Remotes]
  \cup [op : {"push", "trim", "sdiff"}, id : 1..MaxMsg]
  \cup [op : {"incr"}, id : 1..MaxMsg, users : SUBSET User]

(* A message: who was handed it, for whom it was counted as unread, whom the
   code passes over by the way it looks for them, for whom it was published to a
   server that had not subscribed, who was added to onlineGroup
   after SORT and before SDIFF, whom findUser lost or who was taken out of
   onlineGroup while it was under way, and whether its server ended before it
   was done.                                                                 *)
Entry ==
  [group : Group, from : User, live : SUBSET User, counted : SUBSET User,
   overlooked : SUBSET User, unheard : SUBSET User, joined : SUBSET User, leaving : SUBSET User, cut : BOOLEAN]

GroupTypeOK ==
  /\ group \in [Server -> GroupState]
  /\ subscribed \subseteq running
  /\ groupChannel \in [Server -> Seq([id : 1..MaxMsg, users : SUBSET User])]
  /\ groupMsg \in [Group -> Seq(1..MaxMsg)]
  /\ unreadNumber \in [User -> [Group -> 0..MaxMsg]]
  /\ groupLog \in Seq(Entry) /\ Len(groupLog) <= MaxMsg

GroupInit ==
  /\ Init
  /\ group = [s \in Server |-> NoMsg]
  /\ subscribed = {}
  /\ groupChannel = [s \in Server |-> <<>>]
  /\ groupMsg = [g \in Group |-> <<>>]
  /\ unreadNumber = [u \in User |-> [g \in Group |-> 0]]
  /\ groupLog = <<>>

-----------------------------------------------------------------------------
\* The io thread of s is free for another handler.
Free(s) == IoIdle(s) /\ group[s] = NoMsg

\* m_mutex is held.  It is free for a moment between the two functions.
Locked(s) == group[s].op \notin {"idle", "push"}

\* groupMember:<g>, the inverse of groupSet:<u>.
Members(g) == {u \in User : g \in GroupSet[u]}

\* findUser finds a session of u on s, and Send takes the message.
Reaches(s, u) ==
  m_SessionMap[s][u] # None /\ phase[m_SessionMap[s][u]] # "closed"

\* SORT onlineGroup:<g> GET # GET online:*, without those who have no key.
Found(g) == {u \in onlineGroup[g] : online[u] # None}

\* LTRIM key 0 99 keeps the elements with index 0 to 99.
Ltrim(list) == SubSeq(list, 1, IF Len(list) <= Keep THEN Len(list) ELSE Keep + 1)

\* Mutant: the command is queued in both loops.
Incr_Twice(n) == n + 2

\* INCR.
Incr(n) == n + 1

\* Mutants: the sets the wrong way round, and one of them forgotten.
Sdiff_Swapped(g) == onlineGroup[g] \ Members(g)
Sdiff_All(g) == Members(g)

\* SDIFF groupMember:<g> onlineGroup:<g>.
Sdiff(g) == Members(g) \ onlineGroup[g]

-----------------------------------------------------------------------------
(* Server::onMsgData and doOnlineGroupMsg.                                   *)

\* The map from other servers to one of the users found there: each user read
\* replaces the one before, and SORT has no order.
RemoteMaps(s, g) ==
  {f \in [{online[u] : u \in Found(g)} \ {s} -> Found(g)] : \A t \in DOMAIN f : online[f[t]] = t}

(* The client of c sends a message to one of its groups.  SORT, then the members
   found on this server are sent the message, but for the sender.            *)
SendGroup(s, c, g) ==
  /\ Free(s) /\ c \in m_sessionSet[s] /\ phase[c] \in {"unknown", "ready"}
  /\ g \in GroupSet[ClientOf[c]] /\ Len(groupLog) < MaxMsg
  /\ \E remote \in RemoteMaps(s, g) :
       LET i == Len(groupLog) + 1
           here == {u \in Found(g) : online[u] = s}
           kept == {remote[t] : t \in DOMAIN remote}
       IN  /\ group' = [group EXCEPT ![s] =
                IF DOMAIN remote = {} THEN InStage("push", i)
                ELSE [op |-> "publish", id |-> i, remote |-> remote]]
           /\ groupLog' = Append(groupLog,
                [group |-> g, from |-> ClientOf[c],
                 live |-> {u \in here \ {ClientOf[c]} : Reaches(s, u)}, counted |-> {},
                 overlooked |-> (onlineGroup[g] \ (here \cup kept))
                                \cup {u \in Found(g) : ~ Reaches(online[u], u)},
                 unheard |-> {}, joined |-> {}, leaving |-> {}, cut |-> FALSE])
  /\ UNCHANGED <<vars, subscribed, groupChannel, groupMsg, unreadNumber>>

(* PUBLISH to one bucket of the map: the users of all its servers, on the channel
   of the first of them.  If that server has not subscribed nobody gets it.  *)
PublishGroup(s, t) ==
  /\ group[s].op = "publish" /\ t \in DOMAIN group[s].remote
  /\ LET remote == group[s].remote
         bucket == {x \in DOMAIN remote : Bucket[x] = Bucket[t]}
         rest == DOMAIN remote \ bucket
         i == group[s].id
     IN  /\ groupChannel' =
              IF t \in subscribed
              THEN [groupChannel EXCEPT ![t] =
                      Append(@, [id |-> i, users |-> {remote[x] : x \in bucket}])]
              ELSE groupChannel
         /\ group' = [group EXCEPT ![s] =
              IF rest = {} THEN InStage("push", i)
              ELSE [@ EXCEPT !.remote = [x \in rest |-> remote[x]]]]
         /\ groupLog' = [groupLog EXCEPT
              ![i].overlooked = @ \cup {remote[x] : x \in bucket \ {t}},
              ![i].unheard = @ \cup (IF t \in running \ subscribed THEN {remote[t]} ELSE {})]
  /\ UNCHANGED <<vars, subscribed, groupMsg, unreadNumber>>

-----------------------------------------------------------------------------
(* doOfflineGroupMsg.                                                        *)

\* LPUSH groupMsg:<g>; the reply is the new length.
PushGroup(s) ==
  /\ group[s].op = "push"
  /\ LET i == group[s].id
         g == groupLog[i].group
         list == <<i>> \o groupMsg[g]
     IN  /\ groupMsg' = [groupMsg EXCEPT ![g] = list]
         /\ group' = [group EXCEPT ![s] = InStage(IF Len(list) > Keep THEN "trim" ELSE "sdiff", i)]
  /\ UNCHANGED <<vars, subscribed, groupChannel, unreadNumber, groupLog>>

\* LTRIM groupMsg:<g> 0 99.
TrimGroup(s) ==
  /\ group[s].op = "trim"
  /\ groupMsg' = [groupMsg EXCEPT ![groupLog[group[s].id].group] = Ltrim(@)]
  /\ group' = [group EXCEPT ![s] = InStage("sdiff", @.id)]
  /\ UNCHANGED <<vars, subscribed, groupChannel, unreadNumber, groupLog>>

SdiffGroup(s) ==
  /\ group[s].op = "sdiff"
  /\ group' = [group EXCEPT ![s] =
       [op |-> "incr", id |-> @.id, users |-> Sdiff(groupLog[@.id].group)]]
  /\ UNCHANGED <<vars, subscribed, groupChannel, groupMsg, unreadNumber, groupLog>>

\* INCR unreadNumber:<u>:<g> for each of them, in one pipeline.
IncrGroup(s) ==
  /\ group[s].op = "incr"
  /\ LET i == group[s].id
         counted == group[s].users
     IN  /\ unreadNumber' = [u \in User |->
              IF u \in counted THEN [unreadNumber[u] EXCEPT ![groupLog[i].group] = Incr(@)]
              ELSE unreadNumber[u]]
         /\ groupLog' = [groupLog EXCEPT ![i].counted = counted]
  /\ group' = [group EXCEPT ![s] = NoMsg]
  /\ UNCHANGED <<vars, subscribed, groupChannel, groupMsg>>

-----------------------------------------------------------------------------
(* CRedis::Subscribe, on the subscriber thread that the constructor of Server
   detaches: it is later than the first users, or never if the connection to
   Redis fails.  The command names all the channels of the server.           *)
Subscribe(s) ==
  /\ s \in running \ subscribed
  /\ subscribed' = subscribed \cup {s}
  /\ UNCHANGED <<vars, group, groupChannel, groupMsg, unreadNumber, groupLog>>

(* Server::SubscribeGroupMsg, on that thread: every user of the message who has a
   session here is sent it.                                                  *)
ConsumeGroup(s) ==
  /\ s \in running /\ ~ Locked(s) /\ groupChannel[s] # <<>>
  /\ LET m == Head(groupChannel[s])
     IN  groupLog' = [groupLog EXCEPT ![m.id].live = @ \cup {u \in m.users : Reaches(s, u)}]
  /\ groupChannel' = [groupChannel EXCEPT ![s] = Tail(@)]
  /\ UNCHANGED <<vars, subscribed, group, groupMsg, unreadNumber>>

-----------------------------------------------------------------------------
\* The messages a handler has still to count, and those of which anything is to come.
Uncounted ==
  {group[s].id : s \in {t \in Server : group[t].op \in {"publish", "push", "trim", "sdiff"}}}

UnderWay ==
  {group[s].id : s \in {t \in Server : group[t] # NoMsg}}
  \cup UNION {{groupChannel[s][i].id : i \in DOMAIN groupChannel[s]} : s \in Server}

\* The users whom findUser finds no more.
Lost == {u \in User : \E s \in Server : Reaches(s, u) /\ ~ Reaches(s, u)'}

(* A step of Presence.  A process that ends loses its handler and its
   subscription.                                                             *)
PresenceStep ==
  /\ \/ Environment
     \/ \E s \in Server : group[s] = NoMsg /\ (Begin(s) \/ Continue(s))
  /\ group' = [s \in Server |-> IF s \in running' THEN group[s] ELSE NoMsg]
  /\ subscribed' = subscribed \cap running'
  /\ groupChannel' = [s \in Server |-> IF s \in running' THEN groupChannel[s] ELSE <<>>]
  /\ groupLog' = [i \in DOMAIN groupLog |->
       LET e == groupLog[i]
       IN  [e EXCEPT
              !.joined = IF i \in Uncounted THEN @ \cup (onlineGroup'[e.group] \ onlineGroup[e.group]) ELSE @,
              !.leaving = IF i \in UnderWay
                          THEN @ \cup Lost \cup (onlineGroup[e.group] \ onlineGroup'[e.group]) ELSE @,
              !.cut = @ \/ \E s \in running \ running' : group[s] # NoMsg /\ group[s].id = i]]
  /\ UNCHANGED <<groupMsg, unreadNumber>>

GroupContinue(s) ==
  \/ \E t \in Server : PublishGroup(s, t)
  \/ PushGroup(s) \/ TrimGroup(s) \/ SdiffGroup(s) \/ IncrGroup(s)

GroupStep ==
  \E s \in Server :
    \/ \E c \in Conn, g \in Group : SendGroup(s, c, g)
    \/ GroupContinue(s)
    \/ Subscribe(s) \/ ConsumeGroup(s)

GroupNext == PresenceStep \/ GroupStep

GroupSpec == GroupInit /\ [][GroupNext]_allVars

-----------------------------------------------------------------------------
(* A message that is done was handed to every member but its sender, or counted
   for her, but for those the code passes over (of several members on another
   server it keeps one, Server.cpp:329; of several servers in one bucket the
   first, :350; who disconnected stays in onlineGroup), those on a server that
   was published to before it SUBSCRIBEd (:41-43, Redis.cpp:510-551), and those
   who came or went between SORT and SDIFF (:308, :387) or the turn of the
   channel.                                                                  *)
MembersReached ==
  \A i \in DOMAIN groupLog \ UnderWay :
    LET e == groupLog[i] IN
    e.cut \/ Members(e.group) \subseteq
               {e.from} \cup e.live \cup e.counted \cup e.overlooked \cup e.unheard
               \cup e.joined \cup e.leaving

(* Nobody is handed a message and has it counted as unread as well, but for those
   who were leaving: the shutdown of a server takes its users out of
   onlineGroup after they may have come back elsewhere.                      *)
ReachedOnce ==
  \A i \in DOMAIN groupLog : groupLog[i].live \cap groupLog[i].counted \subseteq groupLog[i].leaving
=============================================================================
