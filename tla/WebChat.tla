------------------------------ MODULE WebChat ------------------------------
(* The web chat server, websocket/websocket/socket.js: a single-threaded
   process that keeps the users of web pages in two maps and tells the message
   servers about them through Redis.

   A handler runs to its end and only queues commands on the one connection
   redisDB.  Redis executes the commands of that connection in order (pipe) and
   the callbacks run in the order of the replies (replies); commands of other
   processes come between any two of them.  What is published on
   peerMsg:<g_socketStr> arrives on a second connection (channel).

   The publications on "online" and "offline" are only logged and are left out. *)
EXTENDS Naturals, Sequences, FiniteSets, SequencesExt

CONSTANTS
  User, Group,
  Sock,      \* the socket.io connections of web pages; each is used once
  Loaded,    \* those opened by a page when it was loaded; the others are opened by
             \* socket.io after a connection was lost, and no handshake is sent on them
  UserOf,    \* UserOf[k]: the user whose page opens the connection k
  GroupSet,  \* groupSet:<u>; groupMember:<g> is its inverse
  Remote,    \* the users who may also log in on a message server
  Here,      \* g_socketStr, the address of this server
  There,     \* the address of a message server
  MaxMoves,  \* how many messages are sent, crashes and steps of message servers
             \* happen, in all: a bound of the model
  MayCrash,  \* whether the process may die and be started again
  Keep,      \* the length lists are cut at; 99 in the code
  None

ASSUME WebAssumption ==
  /\ Loaded \subseteq Sock /\ UserOf \in [Sock -> User] /\ GroupSet \in [User -> SUBSET Group]
  /\ Remote \subseteq User /\ Here # There /\ None \notin {Here, There} \cup Sock \cup User
  /\ MaxMoves \in Nat /\ Keep \in Nat /\ MayCrash \in BOOLEAN
  /\ IsFiniteSet(Group)

VARIABLES
  up,           \* the process is running
  subscribed,   \* redisSub has subscribed to peerMsg:<Here>
  phase,        \* phase[k]: "new", "open" or "closed"
  userIdMap,    \* userIdMap[u]: the socket of u, or None
  socketMap,    \* socketMap[k]: the user of the socket k, or None
  pipe,         \* the commands queued on redisDB and not executed yet
  replies,      \* the replies whose callbacks have not run yet
  channel,      \* what was published on peerMsg:<Here> and not consumed yet
  online,       \* online:<u>
  onlineGroup,  \* onlineGroup:<g>
  unread,       \* unreadMsg:<u>, its head first
  groupMsg,     \* groupMsg:<g>, its head first
  unreadNumber, \* unreadNumber:<u>:<g>
  elsewhere,    \* the messages published on peerMsg:<There>
  inbox,        \* inbox[k]: the messages to its user emitted on socket k
  moves,        \* how many of the MaxMoves have been made
  sent,         \* history: the addressees of the messages sent so far
  left,         \* history: left[u]: how many were sent when u last disconnected
  gone,         \* history: the users on whom a crash left keys or lost commands
  foreign,      \* history: the users whose presence a message server has changed
  trimming,     \* trimming[u]: the LTRIM of unreadMsg:<u> that message servers are about to send
  meddled,      \* history: meddled[u]: how many were sent when a message server last pushed
                \* to unreadMsg:<u> or deleted it
  unheard,      \* history: the messages published to this server before it had subscribed
  groupLog      \* history: what became of the messages to groups, see GroupEntry

node == <<up, subscribed, phase, userIdMap, socketMap>>
lines == <<pipe, replies, channel>>
presence == <<online, onlineGroup>>
lists == <<unread, groupMsg, unreadNumber, elsewhere>>
marks == <<trimming, meddled, unheard>>
history == <<moves, sent, left, gone, foreign, marks, groupLog>>
webVars == <<node, lines, presence, lists, inbox, history>>

-----------------------------------------------------------------------------
(* Messages.  The page sends text in UTF-8 and messages travel between servers
   in GBK; decoding what was not encoded, or encoding twice, garbles it.     *)
Text == {"utf8", "gbk", "garbled"}

Message == [id : 1..MaxMoves, to : User, text : Text]

\* What message servers keep in the lists for unread messages has the number 0.
Stored == [id : 0..MaxMoves, to : User, text : Text]
Foreign(u) == [id |-> 0, to |-> u, text |-> "gbk"]

\* iconv.encode(_, 'gbk') and iconv.decode(_, 'gbk').
EncodeText(m) == [m EXCEPT !.text = IF @ = "utf8" THEN "gbk" ELSE "garbled"]
DecodeText(m) == [m EXCEPT !.text = IF @ = "gbk" THEN "utf8" ELSE "garbled"]

(* A message to a group, as history: to whom it was emitted, for whom it was
   counted as unread, who was leaving meanwhile, and whether the process died
   before its last callback.                                                 *)
GroupEntry == [group : Group, live : SUBSET User, counted : SUBSET User,
               leaving : SUBSET User, cut : BOOLEAN]

Members(g) == {u \in User : g \in GroupSet[u]}

-----------------------------------------------------------------------------
(* The commands and the replies with the callbacks they are for.             *)
UserCmd(op, u) == [op |-> op, user |-> u]
GroupCmd(op, u, g) == [op |-> op, user |-> u, group |-> g]
MsgCmd(op, m) == [op |-> op, msg |-> m]
SeqCmd(op, i) == [op |-> op, id |-> i]

Commands ==
  [op : {"set", "del", "smembers to join", "smembers to leave", "ltrim"}, user : User]
  \cup [op : {"sadd", "srem"}, user : User, group : Group]
  \cup [op : {"get", "lpush"}, msg : Message]
  \cup [op : {"publish"}, msg : Message, to : {Here, There}]
  \cup [op : {"sort", "lpush group", "ltrim group", "sdiff"}, id : 1..MaxMoves]
  \cup [op : {"incr"}, id : 1..MaxMoves, users : SUBSET User]

Calls ==
  [call : {"join", "leave"}, user : User, groups : SUBSET Group]
  \cup [call : {"got"}, msg : Message, server : {Here, There, None}]
  \cup [call : {"pushed"}, user : User, length : Nat]
  \cup [call : {"pushed group"}, id : 1..MaxMoves, length : Nat]
  \cup [call : {"sorted"}, id : 1..MaxMoves, here : SUBSET User]
  \cup [call : {"differ"}, id : 1..MaxMoves, users : SUBSET User]

WebTypeOK ==
  /\ up \in BOOLEAN /\ subscribed \in BOOLEAN
  /\ phase \in [Sock -> {"new", "open", "closed"}]
  /\ userIdMap \in [User -> Sock \cup {None}]
  /\ socketMap \in [Sock -> User \cup {None}]
  /\ \A i \in 1..Len(pipe) : pipe[i] \in Commands
  /\ \A i \in 1..Len(replies) : replies[i] \in Calls
  /\ channel \in Seq(Message)
  /\ online \in [User -> {Here, There, None}]
  /\ onlineGroup \in [Group -> SUBSET User]
  /\ unread \in [User -> Seq(Stored)]
  /\ groupMsg \in [Group -> Seq(1..MaxMoves)]
  /\ unreadNumber \in [User -> [Group -> Nat]]
  /\ elsewhere \subseteq Message
  /\ inbox \in [Sock -> Seq(Message)]
  /\ moves \in 0..MaxMoves
  /\ sent \in Seq(User)
  /\ left \in [User -> 0..MaxMoves]
  /\ gone \subseteq User /\ foreign \subseteq User
  /\ trimming \in [User -> 0..MaxMoves] /\ meddled \in [User -> 0..MaxMoves]
  /\ unheard \subseteq 1..MaxMoves
  /\ groupLog \in Seq(GroupEntry)

WebInit ==
  /\ up = TRUE /\ subscribed = FALSE
  /\ phase = [k \in Sock |-> "new"]
  /\ userIdMap = [u \in User |-> None]
  /\ socketMap = [k \in Sock |-> None]
  /\ pipe = <<>> /\ replies = <<>> /\ channel = <<>>
  /\ online = [u \in User |-> None]
  /\ onlineGroup = [g \in Group |-> {}]
  /\ unread = [u \in User |-> <<>>]
  /\ groupMsg = [g \in Group |-> <<>>]
  /\ unreadNumber = [u \in User |-> [g \in Group |-> 0]]
  /\ elsewhere = {}
  /\ inbox = [k \in Sock |-> <<>>]
  /\ moves = 0
  /\ sent = <<>>
  /\ left = [u \in User |-> 0]
  /\ gone = {} /\ foreign = {}
  /\ trimming = [u \in User |-> 0] /\ meddled = [u \in User |-> 0]
  /\ unheard = {}
  /\ groupLog = <<>>

-----------------------------------------------------------------------------
(* Users whose presence the queued commands and callbacks still change.      *)
PresenceOps == {"set", "del", "smembers to join", "smembers to leave", "sadd", "srem"}
LeaveOps == {"del", "smembers to leave", "srem"}

Touching(ops, calls) ==
  {pipe[i].user : i \in {j \in 1..Len(pipe) : pipe[j].op \in ops}}
  \cup {replies[i].user : i \in {j \in 1..Len(replies) : replies[j].call \in calls}}

\* The numbers of the messages in a sequence of messages.
Ids(ms) == {ms[i].id : i \in 1..Len(ms)}

\* The messages to users, and to groups, that a command or a callback is still about.
MsgsUnderWay ==
  {pipe[i].msg : i \in {j \in 1..Len(pipe) : pipe[j].op \in {"get", "lpush", "publish"}}}
  \cup {replies[i].msg : i \in {j \in 1..Len(replies) : replies[j].call = "got"}}
  \cup {channel[i] : i \in 1..Len(channel)}

GroupMsgsUnderWay ==
  {pipe[i].id : i \in {j \in 1..Len(pipe) :
      pipe[j].op \in {"sort", "lpush group", "ltrim group", "sdiff", "incr"}}}
  \cup {replies[i].id : i \in {j \in 1..Len(replies) :
      replies[j].call \in {"sorted", "pushed group", "differ"}}}

-----------------------------------------------------------------------------
(* socket.io events.                                                         *)
Open(k) == up /\ phase[k] = "open"

\* One of the bounded number of moves.
Move == moves < MaxMoves /\ moves' = moves + 1

\* A page, or socket.io after a connection was lost, opens a connection.
Connect(k) ==
  /\ up /\ phase[k] = "new"
  /\ phase' = [phase EXCEPT ![k] = "open"]
  /\ UNCHANGED <<up, subscribed, userIdMap, socketMap, lines, presence, lists, inbox, history>>

\* 'handleShake', which a page sends once, after it was loaded.
HandleShake(k) ==
  /\ Open(k) /\ k \in Loaded /\ socketMap[k] = None
  /\ userIdMap' = [userIdMap EXCEPT ![UserOf[k]] = k]
  /\ socketMap' = [socketMap EXCEPT ![k] = UserOf[k]]
  /\ pipe' = pipe \o <<UserCmd("set", UserOf[k]), UserCmd("smembers to join", UserOf[k])>>
  /\ UNCHANGED <<up, subscribed, phase, replies, channel, presence, lists, inbox, history>>

\* 'disconnect' of a socket that never shook hands.
DisconnectStranger(k) ==
  /\ Open(k) /\ socketMap[k] = None
  /\ phase' = [phase EXCEPT ![k] = "closed"]
  /\ UNCHANGED <<up, subscribed, userIdMap, socketMap, lines, presence, lists, inbox, history>>

\* Mutant: the user's entry is kept.
Disconnect_KeepsUser(k) ==
  /\ Open(k) /\ socketMap[k] # None
  /\ phase' = [phase EXCEPT ![k] = "closed"]
  /\ pipe' = pipe \o <<UserCmd("del", socketMap[k]), UserCmd("smembers to leave", socketMap[k])>>
  /\ socketMap' = [socketMap EXCEPT ![k] = None]
  /\ left' = [left EXCEPT ![socketMap[k]] = Len(sent)]
  /\ groupLog' = [i \in DOMAIN groupLog |->
                    [groupLog[i] EXCEPT !.leaving = @ \cup {socketMap[k]}]]
  /\ UNCHANGED <<up, subscribed, userIdMap, replies, channel, presence, lists, inbox, moves, sent,
                 gone, foreign, marks>>

(* 'disconnect': the key and the entry of the user go, whichever connection set
   them last.                                                                *)
Disconnect(k) ==
  /\ Open(k) /\ socketMap[k] # None
  /\ phase' = [phase EXCEPT ![k] = "closed"]
  /\ pipe' = pipe \o <<UserCmd("del", socketMap[k]), UserCmd("smembers to leave", socketMap[k])>>
  /\ socketMap' = [socketMap EXCEPT ![k] = None]
  /\ userIdMap' = [userIdMap EXCEPT ![socketMap[k]] = None]
  /\ left' = [left EXCEPT ![socketMap[k]] = Len(sent)]
  /\ groupLog' = [i \in DOMAIN groupLog |->
                    [groupLog[i] EXCEPT !.leaving = @ \cup {socketMap[k]}]]
  /\ UNCHANGED <<up, subscribed, replies, channel, presence, lists, inbox, moves, sent, gone,
                 foreign, marks>>

\* Mutant: a message without an addressee is sent as well.
PeerMessage_Unchecked(k, u) ==
  /\ Open(k) /\ u # UserOf[k] /\ Move
  /\ \E to \in {u, None} :
       pipe' = Append(pipe, MsgCmd("get", [id |-> Len(sent) + 1, to |-> to, text |-> "utf8"]))
  /\ sent' = Append(sent, u)
  /\ UNCHANGED <<node, replies, channel, presence, lists, inbox, left, gone, foreign, marks, groupLog>>

(* 'peer message'.  userIdMap[data.toId] is a property of the Map object, not
   an entry: it is undefined for every user, so the server of the addressee is
   always asked for, her being on this one included.                         *)
PeerMessage(k, u) ==
  /\ Open(k) /\ u # UserOf[k] /\ Move
  /\ pipe' = Append(pipe, MsgCmd("get", [id |-> Len(sent) + 1, to |-> u, text |-> "utf8"]))
  /\ sent' = Append(sent, u)
  /\ UNCHANGED <<node, replies, channel, presence, lists, inbox, left, gone, foreign, marks, groupLog>>

\* Mutant: the members who are away are not asked for.
GroupMessage_Uncounted(k, g) ==
  /\ Open(k) /\ g \in GroupSet[UserOf[k]] /\ Move
  /\ LET i == Len(groupLog) + 1
     IN  pipe' = pipe \o <<SeqCmd("sort", i), SeqCmd("lpush group", i)>>
  /\ groupLog' = Append(groupLog, [group |-> g, live |-> {}, counted |-> {},
                                   leaving |-> Touching(LeaveOps, {"leave"}), cut |-> FALSE])
  /\ UNCHANGED <<node, replies, channel, presence, lists, inbox, sent, left, gone, foreign, marks>>

\* 'group message': three commands at once.
GroupMessage(k, g) ==
  /\ Open(k) /\ g \in GroupSet[UserOf[k]] /\ Move
  /\ LET i == Len(groupLog) + 1
     IN  pipe' = pipe \o <<SeqCmd("sort", i), SeqCmd("lpush group", i), SeqCmd("sdiff", i)>>
  /\ groupLog' = Append(groupLog, [group |-> g, live |-> {}, counted |-> {},
                                   leaving |-> Touching(LeaveOps, {"leave"}), cut |-> FALSE])
  /\ UNCHANGED <<node, replies, channel, presence, lists, inbox, sent, left, gone, foreign, marks>>

-----------------------------------------------------------------------------
(* Redis executes the oldest command of redisDB.  The reply of a command of a
   process that died is for nobody.                                          *)
Executes(ops) == pipe # <<>> /\ Head(pipe).op \in ops

Done(reply) ==
  /\ pipe' = Tail(pipe)
  /\ replies' = IF up THEN replies \o reply ELSE replies
  /\ UNCHANGED <<node, inbox, history>>

\* Mutant: one element less is kept, as the comment in the code has it.
Ltrim_OffByOne(list) == SubSeq(list, 1, IF Len(list) < Keep THEN Len(list) ELSE Keep)

\* LTRIM key 0 99, which keeps the elements with index 0 to 99.
Ltrim(list) == SubSeq(list, 1, IF Len(list) <= Keep THEN Len(list) ELSE Keep + 1)

\* SET and DEL of online:<u>.
ExecPresence ==
  /\ Executes({"set", "del"})
  /\ online' = [online EXCEPT ![Head(pipe).user] = IF Head(pipe).op = "set" THEN Here ELSE None]
  /\ Done(<<>>)
  /\ UNCHANGED <<onlineGroup, lists, channel>>

\* SMEMBERS groupSet:<u>.
ExecSmembers ==
  /\ Executes({"smembers to join", "smembers to leave"})
  /\ LET u == Head(pipe).user
     IN  Done(<<[call |-> IF Head(pipe).op = "smembers to join" THEN "join" ELSE "leave",
                 user |-> u, groups |-> GroupSet[u]]>>)
  /\ UNCHANGED <<presence, lists, channel>>

\* SADD and SREM of onlineGroup:<g>.
ExecMembership ==
  /\ Executes({"sadd", "srem"})
  /\ LET c == Head(pipe)
     IN  onlineGroup' = [onlineGroup EXCEPT ![c.group] =
                           IF c.op = "sadd" THEN @ \cup {c.user} ELSE @ \ {c.user}]
  /\ Done(<<>>)
  /\ UNCHANGED <<online, lists, channel>>

\* GET online:<u>.
ExecGet ==
  /\ Executes({"get"})
  /\ LET m == Head(pipe).msg
     IN  Done(<<[call |-> "got", msg |-> m, server |-> online[m.to]]>>)
  /\ UNCHANGED <<presence, lists, channel>>

(* PUBLISH peerMsg:<server>.  It reaches this server once redisSub has subscribed,
   which is another connection than redisDB.                                 *)
ExecPublish ==
  /\ Executes({"publish"})
  /\ LET c == Head(pipe)
     IN  IF c.to = Here
         THEN /\ channel' = IF subscribed THEN Append(channel, c.msg) ELSE channel
              /\ unheard' = IF subscribed THEN unheard ELSE unheard \cup {c.msg.id}
              /\ UNCHANGED elsewhere
         ELSE /\ elsewhere' = elsewhere \cup {c.msg}
              /\ UNCHANGED <<channel, unheard>>
  /\ pipe' = Tail(pipe)
  /\ UNCHANGED <<node, replies, presence, unread, groupMsg, unreadNumber, inbox, moves, sent,
                 left, gone, foreign, trimming, meddled, groupLog>>

\* LPUSH unreadMsg:<u>, which replies with the new length.
ExecLpush ==
  /\ Executes({"lpush"})
  /\ LET m == Head(pipe).msg
     IN  /\ unread' = [unread EXCEPT ![m.to] = <<m>> \o @]
         /\ Done(<<[call |-> "pushed", user |-> m.to, length |-> Len(unread[m.to]) + 1]>>)
  /\ UNCHANGED <<presence, groupMsg, unreadNumber, elsewhere, channel>>

\* LTRIM unreadMsg:<u>.
ExecLtrim ==
  /\ Executes({"ltrim"})
  /\ unread' = [unread EXCEPT ![Head(pipe).user] = Ltrim(@)]
  /\ Done(<<>>)
  /\ UNCHANGED <<presence, groupMsg, unreadNumber, elsewhere, channel>>

(* SORT onlineGroup:<g> GET # GET online:*: the users found on this server.
   The others are published to groupMsg:<user>, for the callback mistakes the
   user for the server; nobody subscribes to that channel.                   *)
ExecSort ==
  /\ Executes({"sort"})
  /\ LET i == Head(pipe).id
     IN  Done(<<[call |-> "sorted", id |-> i,
                 here |-> {u \in onlineGroup[groupLog[i].group] : online[u] = Here}]>>)
  /\ UNCHANGED <<presence, lists, channel>>

\* LPUSH and LTRIM of groupMsg:<g>.
ExecLpushGroup ==
  /\ Executes({"lpush group"})
  /\ LET i == Head(pipe).id
         g == groupLog[i].group
     IN  /\ groupMsg' = [groupMsg EXCEPT ![g] = <<i>> \o @]
         /\ Done(<<[call |-> "pushed group", id |-> i, length |-> Len(groupMsg[g]) + 1]>>)
  /\ UNCHANGED <<presence, unread, unreadNumber, elsewhere, channel>>

ExecLtrimGroup ==
  /\ Executes({"ltrim group"})
  /\ groupMsg' = [groupMsg EXCEPT ![groupLog[Head(pipe).id].group] = Ltrim(@)]
  /\ Done(<<>>)
  /\ UNCHANGED <<presence, unread, unreadNumber, elsewhere, channel>>

\* SDIFF groupMember:<g> onlineGroup:<g>.
ExecSdiff ==
  /\ Executes({"sdiff"})
  /\ LET i == Head(pipe).id
         g == groupLog[i].group
     IN  Done(<<[call |-> "differ", id |-> i, users |-> Members(g) \ onlineGroup[g]]>>)
  /\ UNCHANGED <<presence, lists, channel>>

\* MULTI, INCR unreadNumber:<u>:<g> for each u, EXEC.
ExecIncr ==
  /\ Executes({"incr"})
  /\ LET c == Head(pipe)
     IN  /\ unreadNumber' = [u \in User |-> [g \in Group |->
              IF u \in c.users /\ g = groupLog[c.id].group
              THEN unreadNumber[u][g] + 1 ELSE unreadNumber[u][g]]]
         /\ groupLog' = [groupLog EXCEPT ![c.id].counted = c.users]
  /\ pipe' = Tail(pipe)
  /\ UNCHANGED <<replies, node, inbox, moves, sent, left, gone, foreign, marks, presence, unread, groupMsg,
                 elsewhere, channel>>

Redis ==
  \/ ExecPresence \/ ExecSmembers \/ ExecMembership \/ ExecGet \/ ExecPublish
  \/ ExecLpush \/ ExecLtrim \/ ExecSort \/ ExecLpushGroup \/ ExecLtrimGroup
  \/ ExecSdiff \/ ExecIncr

-----------------------------------------------------------------------------
(* The callback of the oldest reply runs and may queue further commands.     *)
CallbackOf(call) == up /\ replies # <<>> /\ Head(replies).call = call

Queue(cmds) ==
  /\ pipe' = pipe \o cmds
  /\ replies' = Tail(replies)

\* One SADD, or SREM, for each group of the reply.
ForGroups(op, r) ==
  LET gs == SetToSeq(r.groups)
  IN  [i \in 1..Len(gs) |-> GroupCmd(op, r.user, gs[i])]

OnJoin ==
  /\ CallbackOf("join")
  /\ Queue(ForGroups("sadd", Head(replies)))
  /\ UNCHANGED <<node, channel, presence, lists, inbox, history>>

\* Mutant: nobody is taken out of a group.
OnLeave_Nothing ==
  /\ CallbackOf("leave")
  /\ Queue(<<>>)
  /\ UNCHANGED <<node, channel, presence, lists, inbox, history>>

OnLeave ==
  /\ CallbackOf("leave")
  /\ Queue(ForGroups("srem", Head(replies)))
  /\ UNCHANGED <<node, channel, presence, lists, inbox, history>>

\* Mutant: what is published is kept in the unread list as well.
OnGet_Both ==
  /\ CallbackOf("got")
  /\ LET r == Head(replies)
     IN  Queue(IF r.server # None
               THEN <<[op |-> "publish", msg |-> EncodeText(r.msg), to |-> r.server],
                      MsgCmd("lpush", r.msg)>>
               ELSE <<MsgCmd("lpush", r.msg)>>)
  /\ UNCHANGED <<node, channel, presence, lists, inbox, history>>

\* Mutant: the text is not encoded.
OnGet_Plain ==
  /\ CallbackOf("got")
  /\ LET r == Head(replies)
     IN  Queue(IF r.server # None
               THEN <<[op |-> "publish", msg |-> r.msg, to |-> r.server]>>
               ELSE <<MsgCmd("lpush", r.msg)>>)
  /\ UNCHANGED <<node, channel, presence, lists, inbox, history>>

\* Mutant: a user who is offline is asked for again.
OnGet_Retries ==
  /\ CallbackOf("got")
  /\ LET r == Head(replies)
     IN  Queue(IF r.server # None
               THEN <<[op |-> "publish", msg |-> EncodeText(r.msg), to |-> r.server]>>
               ELSE <<MsgCmd("get", r.msg)>>)
  /\ UNCHANGED <<node, channel, presence, lists, inbox, history>>

(* The reply to GET online:<u>: publish the message to the server it names, or
   keep it.  Only what is published is encoded in GBK.                       *)
OnGet ==
  /\ CallbackOf("got")
  /\ LET r == Head(replies)
     IN  Queue(IF r.server # None
               THEN <<[op |-> "publish", msg |-> EncodeText(r.msg), to |-> r.server]>>
               ELSE <<MsgCmd("lpush", r.msg)>>)
  /\ UNCHANGED <<node, channel, presence, lists, inbox, history>>

\* The reply to LPUSH unreadMsg:<u>.
OnPushed ==
  /\ CallbackOf("pushed")
  /\ LET r == Head(replies)
     IN  Queue(IF r.length > Keep THEN <<UserCmd("ltrim", r.user)>> ELSE <<>>)
  /\ UNCHANGED <<node, channel, presence, lists, inbox, history>>

\* The reply to SORT: emit to the members on this server who have a socket still.
OnSort ==
  /\ CallbackOf("sorted")
  /\ LET r == Head(replies)
     IN  groupLog' = [groupLog EXCEPT ![r.id].live = {u \in r.here : userIdMap[u] # None}]
  /\ Queue(<<>>)
  /\ UNCHANGED <<node, channel, presence, lists, inbox, moves, sent, left, gone, foreign, marks>>

\* The reply to LPUSH groupMsg:<g>.
OnPushedGroup ==
  /\ CallbackOf("pushed group")
  /\ LET r == Head(replies)
     IN  Queue(IF r.length > Keep THEN <<SeqCmd("ltrim group", r.id)>> ELSE <<>>)
  /\ UNCHANGED <<node, channel, presence, lists, inbox, history>>

\* The reply to SDIFF.
OnDiff ==
  /\ CallbackOf("differ")
  /\ LET r == Head(replies)
     IN  Queue(<<[op |-> "incr", id |-> r.id, users |-> r.users]>>)
  /\ UNCHANGED <<node, channel, presence, lists, inbox, history>>

Callback == OnJoin \/ OnLeave \/ OnGet \/ OnPushed \/ OnSort \/ OnPushedGroup \/ OnDiff

-----------------------------------------------------------------------------
(* Redis executes the SUBSCRIBE that the callback of listen has queued on redisSub;
   pages may have connected before.                                          *)
Subscribe ==
  /\ up /\ ~subscribed
  /\ subscribed' = TRUE
  /\ UNCHANGED <<up, phase, userIdMap, socketMap, lines, presence, lists, inbox, history>>

(* redisSub.on('message') for peerMsg:<g_socketStr>.                         *)

\* The addressee has a socket: the message is decoded and emitted.
Deliver ==
  /\ up /\ channel # <<>>
  /\ LET m == Head(channel)
         k == userIdMap[m.to]
     IN  /\ k # None
         /\ inbox' = [inbox EXCEPT ![k] = Append(@, DecodeText(m))]
  /\ channel' = Tail(channel)
  /\ UNCHANGED <<node, pipe, replies, presence, lists, history>>

\* She has none: the message is dropped.
Drop ==
  /\ up /\ channel # <<>>
  /\ userIdMap[Head(channel).to] = None
  /\ channel' = Tail(channel)
  /\ UNCHANGED <<node, pipe, replies, presence, lists, inbox, history>>

Subscriber == Deliver \/ Drop

-----------------------------------------------------------------------------
(* The message servers, on the same keys.  What they have read before and the state
   of their sessions are not kept: they may issue each of their commands on one of
   their users at any moment.  The lists groupMsg:<g>, the numbers
   unreadNumber:<u>:<g> and what they publish to this server, which nothing here
   reads back, are left out.                                                 *)

\* SET online:<u> and SADD onlineGroup:<g> of a handshake.
RemoteSet(u) ==
  /\ Move /\ u \in Remote /\ online[u] # There
  /\ online' = [online EXCEPT ![u] = There]
  /\ foreign' = foreign \cup {u}
  /\ UNCHANGED <<node, lines, onlineGroup, lists, inbox, sent, left, gone, marks, groupLog>>

RemoteSadd(u, g) ==
  /\ Move /\ u \in Remote /\ g \in GroupSet[u] /\ u \notin onlineGroup[g]
  /\ onlineGroup' = [onlineGroup EXCEPT ![g] = @ \cup {u}]
  /\ foreign' = foreign \cup {u}
  /\ UNCHANGED <<node, lines, online, lists, inbox, sent, left, gone, marks, groupLog>>

\* DEL online:<u> of stop and stop_all, SREM onlineGroup:<g> of stop_all.
RemoteDel(u) ==
  /\ Move /\ u \in Remote /\ online[u] # None
  /\ online' = [online EXCEPT ![u] = None]
  /\ foreign' = foreign \cup {u}
  /\ UNCHANGED <<node, lines, onlineGroup, lists, inbox, sent, left, gone, marks, groupLog>>

RemoteSrem(u, g) ==
  /\ Move /\ u \in Remote /\ g \in GroupSet[u] /\ u \in onlineGroup[g]
  /\ onlineGroup' = [onlineGroup EXCEPT ![g] = @ \ {u}]
  /\ foreign' = foreign \cup {u}
  /\ UNCHANGED <<node, lines, online, lists, inbox, sent, left, gone, marks, groupLog>>

\* LPUSH unreadMsg:<u> of doPeerMsg, to any user, and the LTRIM that follows a reply
\* above Keep.
RemotePush(u) ==
  /\ Move
  /\ unread' = [unread EXCEPT ![u] = <<Foreign(u)>> \o @]
  /\ trimming' = [trimming EXCEPT ![u] = IF Len(unread[u]) + 1 > Keep THEN @ + 1 ELSE @]
  /\ meddled' = [meddled EXCEPT ![u] = Len(sent)]
  /\ UNCHANGED <<node, lines, presence, groupMsg, unreadNumber, elsewhere, inbox, sent, left, gone,
                 foreign, unheard, groupLog>>

RemoteTrim(u) ==
  /\ trimming[u] > 0
  /\ unread' = [unread EXCEPT ![u] = Ltrim(@)]
  /\ trimming' = [trimming EXCEPT ![u] = @ - 1]
  /\ UNCHANGED <<node, lines, presence, groupMsg, unreadNumber, elsewhere, inbox, moves, sent, left,
                 gone, foreign, meddled, unheard, groupLog>>

\* DEL unreadMsg:<u> of appendPeerMsg.
RemoteDelUnread(u) ==
  /\ Move /\ u \in Remote /\ unread[u] # <<>>
  /\ unread' = [unread EXCEPT ![u] = <<>>]
  /\ meddled' = [meddled EXCEPT ![u] = Len(sent)]
  /\ UNCHANGED <<node, lines, presence, groupMsg, unreadNumber, elsewhere, inbox, sent, left, gone,
                 foreign, trimming, unheard, groupLog>>

MessageServer == \E u \in User :
  \/ RemoteSet(u) \/ RemoteDel(u)
  \/ \E g \in Group : RemoteSadd(u, g) \/ RemoteSrem(u, g)
  \/ RemotePush(u) \/ RemoteTrim(u) \/ RemoteDelUnread(u)

-----------------------------------------------------------------------------
(* The process dies.  Of what is queued, Redis still executes what had reached
   it, the first n commands; the keys stay as they are.                      *)
Crash(n) ==
  /\ up /\ MayCrash /\ Move
  /\ up' = FALSE /\ subscribed' = FALSE
  /\ phase' = [k \in Sock |-> IF phase[k] = "open" THEN "closed" ELSE phase[k]]
  /\ userIdMap' = [u \in User |-> None]
  /\ socketMap' = [k \in Sock |-> None]
  /\ pipe' = SubSeq(pipe, 1, n) /\ replies' = <<>> /\ channel' = <<>>
  /\ gone' = gone \cup Touching(PresenceOps, {"join", "leave"})
                  \cup {u \in User : userIdMap[u] # None}
                  \cup {m.to : m \in MsgsUnderWay}
  /\ groupLog' = [i \in DOMAIN groupLog |->
                    [groupLog[i] EXCEPT !.cut = @ \/ i \in GroupMsgsUnderWay]]
  /\ UNCHANGED <<presence, lists, inbox, sent, left, foreign, marks>>

\* It is started again, long after Redis has executed what was left.
Restart ==
  /\ ~up /\ pipe = <<>>
  /\ up' = TRUE
  /\ UNCHANGED <<subscribed, phase, userIdMap, socketMap, lines, presence, lists, inbox, history>>

Pages == \E k \in Sock :
  \/ Connect(k) \/ HandleShake(k) \/ DisconnectStranger(k) \/ Disconnect(k)
  \/ \E u \in User : PeerMessage(k, u)
  \/ \E g \in Group : GroupMessage(k, g)

WebNext ==
  \/ Pages \/ Redis \/ Callback \/ Subscribe \/ Subscriber \/ MessageServer
  \/ \E n \in 0..Len(pipe) : Crash(n)
  \/ Restart

WebSpec == WebInit /\ [][WebNext]_webVars

-----------------------------------------------------------------------------
(* Properties.                                                               *)

(* A socket that messages are emitted to is open, shook hands, and belongs to the
   user it stands for: 'disconnect' (socket.js:247) never leaves an entry of
   userIdMap that points to a dead socket, also when a user has two.         *)
MapNamesOpenSocket ==
  \A u \in User : LET k == userIdMap[u] IN
    k # None => phase[k] = "open" /\ socketMap[k] = u

(* Once nothing queued is about a user any more, Redis and the process agree on
   her: online:<u> names this server, she is in onlineGroup of each of her groups,
   and the process has a socket for her, or none of it.  The callbacks of a
   handshake and of a disconnection that overtake each other (socket.js:236,
   256) must not leave her in a group she has left.  Users whose keys
   a message server has changed and those a crash has touched are exempt. *)
PresenceSettles ==
  \A u \in User \ (foreign \cup gone \cup Touching(PresenceOps, {"join", "leave"})) :
    LET here == userIdMap[u] # None
    IN  /\ (online[u] = Here) = here
        /\ \A g \in GroupSet[u] : (u \in onlineGroup[g]) = here

(* What is emitted on a socket is addressed to its user, readable, and in the
   order it was sent, although each message takes a GET, a PUBLISH and a turn
   on the channel (socket.js:119, 124, 49), with callbacks in between.       *)
LiveInOrder ==
  \A k \in Sock : \A i \in 1..Len(inbox[k]) :
    /\ inbox[k][i].to = UserOf[k] /\ inbox[k][i].text = "utf8"
    /\ \A j \in 1..i - 1 : inbox[k][j].id < inbox[k][i].id

GivenIds == (UNION {Ids(inbox[k]) : k \in Sock}) \cup {m.id : m \in elsewhere}
KeptIds == (UNION {Ids(unread[u]) : u \in User}) \ {0}
MovingIds == {m.id : m \in MsgsUnderWay}

(* A member of a group gets a message to the group live, or has it counted as
   unread: SORT and SDIFF (socket.js:150, 204) are two commands, and presence
   changes around them.  Neither happens only to a member who is leaving, whose
   presence a message server changes, or who was touched by a crash; both only to
   one whose presence a message server changes, as stop_all, which may take her
   out of her groups after she came here.                                    *)
GroupReached ==
  \A i \in DOMAIN groupLog : LET e == groupLog[i] IN
    /\ e.live \cap e.counted \subseteq foreign
    /\ i \notin GroupMsgsUnderWay =>
         Members(e.group) \subseteq e.live \cup e.counted \cup e.leaving \cup foreign \cup gone
                                    \cup (IF e.cut THEN User ELSE {})

(* How much the server and Redis still have to do for what is queued: the most
   commands, callbacks and turns of the channel that may follow, the item itself
   included.                                                                 *)
CmdWork(c) ==
  CASE c.op \in {"smembers to join", "smembers to leave"} -> 2 + Cardinality(Group)
    [] c.op = "get" -> 5
    [] c.op \in {"lpush", "lpush group", "sdiff"} -> 3
    [] c.op \in {"publish", "sort"} -> 2
    [] OTHER -> 1

CallWork(r) ==
  CASE r.call \in {"join", "leave"} -> 1 + Cardinality(Group)
    [] r.call = "got" -> 4
    [] r.call \in {"pushed", "pushed group", "differ"} -> 2
    [] OTHER -> 1

\* The sum of a sequence of numbers: the size of a union of disjoint sets that have them.
Total(w) == Cardinality(UNION {{i} \X (1..w[i]) : i \in 1..Len(w)})

PipeWork(p) == Total([i \in 1..Len(p) |-> CmdWork(p[i])])
ReplyWork(q) == Total([i \in 1..Len(q) |-> CallWork(q[i])])

Work == PipeWork(pipe) + ReplyWork(replies) + Len(channel)

(* Every command, callback and message from the channel leaves less work than it
   found, and they never wait for a page: so what is queued comes to an end, and
   PresenceSettles applies, once the pages are quiet. *)
WorkShrinks == [][Redis \/ Callback \/ Subscriber => Work' < Work]_webVars

=============================================================================
