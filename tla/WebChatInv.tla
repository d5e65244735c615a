----------------------------- MODULE WebChatInv -----------------------------
(* The inductive invariants of WebChat and WebUnread that WebChatProofs proves, and
   what they say of the queues of redisDB, of the keys and of the history.     *)
EXTENDS WebUnread

-----------------------------------------------------------------------------
(* The commands and the callbacks, their fields, and how far their numbers go. *)
UserOps == {"set", "del", "smembers to join", "smembers to leave", "ltrim"}
MemberOps == {"sadd", "srem"}
MsgOps == {"get", "lpush", "publish"}
SeqOps == {"sort", "lpush group", "ltrim group", "sdiff"}
GroupCalls == {"pushed group", "sorted", "differ"}

\* The commands and callbacks about the first s messages to users and l to groups.
CmdsTo(s, l) == {c \in Commands :
  /\ c.op \in MsgOps => c.msg.id <= s
  /\ c.op \in SeqOps \cup {"incr"} => c.id <= l}

CallsTo(s, l) == {r \in Calls :
  /\ r.call = "got" => r.msg.id <= s
  /\ r.call \in GroupCalls => r.id <= l}

-----------------------------------------------------------------------------
(* Type correctness.  Beyond the types of the variables, Typed says that a queued
   command or callback is about a message that was sent, and that no more were
   sent than moves were made.                                                *)
S == Len(sent)
L == Len(groupLog)

NodeTyped ==
  /\ up \in BOOLEAN /\ subscribed \in BOOLEAN /\ (subscribed => up)
  /\ phase \in [Sock -> {"new", "open", "closed"}]
  /\ userIdMap \in [User -> Sock \cup {None}]
  /\ socketMap \in [Sock -> User \cup {None}]

LinesTyped ==
  /\ pipe \in Seq(CmdsTo(S, L))
  /\ replies \in Seq(CallsTo(S, L))
  /\ channel \in Seq(Message)

StoreTyped ==
  /\ online \in [User -> {Here, There, None}]
  /\ onlineGroup \in [Group -> SUBSET User]
  /\ unread \in [User -> Seq(Stored)]
  /\ groupMsg \in [Group -> Seq(1..MaxMoves)]
  /\ unreadNumber \in [User -> [Group -> Nat]]
  /\ elsewhere \subseteq Message

PastTyped ==
  /\ inbox \in [Sock -> Seq(Message)]
  /\ moves \in 0..MaxMoves
  /\ sent \in Seq(User)
  /\ S + L <= moves
  /\ left \in [User -> 0..MaxMoves]
  /\ gone \subseteq User /\ foreign \subseteq User
  /\ groupLog \in Seq(GroupEntry)

ReadTyped ==
  /\ reading \in [Request -> User \cup {None, "done"}]
  /\ answer \in [Request -> Stored \cup {None}]
  /\ asked \subseteq User

Typed == NodeTyped /\ LinesTyped /\ StoreTyped /\ PastTyped

\* What is noted of the message servers, and of the messages nobody heard.
MarksTyped ==
  /\ trimming \in [User -> 0..moves] /\ meddled \in [User -> 0..S]
  /\ unheard \subseteq 1..S

-----------------------------------------------------------------------------
(* The maps of the process.  Registered adds to MapNamesOpenSocket what keeps it
   true: an entry of socketMap names the user of an open connection, and a process
   that is down has no entries and hears no replies.                         *)
Registered ==
  /\ \A k \in Sock : socketMap[k] # None => socketMap[k] = UserOf[k] /\ phase[k] = "open"
  /\ MapNamesOpenSocket
  /\ ~up => /\ replies = <<>> /\ channel = <<>>
            /\ \A u \in User : userIdMap[u] = None

-----------------------------------------------------------------------------
(* What a queue makes of a fact.  An element of yes makes it true, one of no makes
   it false, and the others leave it: After is what it is in the end, when it
   is b now.                                                                 *)
After(s, yes, no, b) ==
  \/ \E i \in 1..Len(s) : s[i] \in yes /\ \A j \in (i + 1)..Len(s) : s[j] \notin no
  \/ b /\ \A i \in 1..Len(s) : s[i] \notin no

(* The commands and callbacks that make a user present, and those that end it.  *)
SetsOf(u) == {c \in Commands : c.op = "set" /\ c.user = u}
DelsOf(u) == {c \in Commands : c.op = "del" /\ c.user = u}
JoinsOf(u) == {c \in Commands : c.op = "smembers to join" /\ c.user = u}
LeavesOf(u) == {c \in Commands : c.op = "smembers to leave" /\ c.user = u}
SaddsOf(u, g) == {c \in Commands : c.op = "sadd" /\ c.user = u /\ c.group = g}
SremsOf(u, g) == {c \in Commands : c.op = "srem" /\ c.user = u /\ c.group = g}
JoinCallsOf(u) == {r \in Calls : r.call = "join" /\ r.user = u}
LeaveCallsOf(u) == {r \in Calls : r.call = "leave" /\ r.user = u}

(* Whether u is in onlineGroup[g] when the SADDs and SREMs of the pipe p, and then
   those of the callbacks q, have been executed; b says whether she is now.  *)
GroupSoon(p, q, b, u, g) ==
  After(q, JoinCallsOf(u), LeaveCallsOf(u), After(p, SaddsOf(u, g), SremsOf(u, g), b))

\* The same in the end, when the SMEMBERS of the pipe have had their effect, too.
GroupAfter(p, q, b, u, g) == After(p, JoinsOf(u), LeavesOf(u), GroupSoon(p, q, b, u, g))

-----------------------------------------------------------------------------
(* Presence.  What the queues make of the keys of a user in the end is what the
   process has for her now, unless a message server or a crash interfered.   *)
OnlineAfter(p, b, u) == After(p, SetsOf(u), DelsOf(u), b)

\* What becomes of online:<u>, and of onlineGroup:<g> as far as u goes.
OnlineEnd(u) == OnlineAfter(pipe, online[u] = Here, u)
SoonEnd(u, g) == GroupSoon(pipe, replies, u \in onlineGroup[g], u, g)
GroupEnd(u, g) == GroupAfter(pipe, replies, u \in onlineGroup[g], u, g)

Present(u) == userIdMap[u] # None

Settled ==
  \A u \in User \ (foreign \cup gone) :
    /\ OnlineEnd(u) = Present(u)
    /\ \A g \in GroupSet[u] : GroupEnd(u, g) = Present(u)

\* The callbacks of SMEMBERS know the groups of their user.
CallsKnow ==
  \A i \in 1..Len(replies) :
    replies[i].call \in {"join", "leave"} => replies[i].groups = GroupSet[replies[i].user]

\* What a process that died has left on redisDB is about users counted in gone.
DownTouched == ~up => Touching(PresenceOps, {"join", "leave"}) \subseteq gone

PresenceInv == Settled /\ CallsKnow /\ DownTouched

-----------------------------------------------------------------------------
(* The numbers of the messages to users on their way.  redisDB has three stages: the
   commands that ask for the server of a user, the callbacks that are told it, and
   the commands that pass a message on to a list or a server.                *)
Gets == [op : {"get"}, msg : Message]
Gots == [call : {"got"}, msg : Message, server : {Here, There, None}]
Pushes == [op : {"lpush"}, msg : Message]
Publishes == [op : {"publish"}, msg : Message, to : {Here, There}]
Passes == Pushes \cup Publishes

\* The numbers in the elements of s that are in C, and that they rise.
IdsIn(s, C) == {s[i].msg.id : i \in {j \in 1..Len(s) : s[j] \in C}}
OrderedIn(s, C) ==
  \A i, j \in 1..Len(s) : i < j /\ s[i] \in C /\ s[j] \in C => s[i].msg.id < s[j].msg.id

Rises(ms) == \A i, j \in 1..Len(ms) : i < j => ms[i].id < ms[j].id

\* The web messages of a list for unread messages, its newest first.
Falls(ms) ==
  \A i, j \in 1..Len(ms) : i < j /\ ms[i].id # 0 /\ ms[j].id # 0 => ms[j].id < ms[i].id
Before(X, Y) == \A x \in X, y \in Y : x < y

(* The order of the messages to users.                                       *)
ToAsk == IdsIn(pipe, Gets)
Told == IdsIn(replies, Gots)
ToPass == IdsIn(pipe, Passes)
Passed == Ids(channel)

\* What has left redisDB.
Past == Passed \cup GivenIds \cup KeptIds \cup AnsweredIds

LineOrder ==
  /\ OrderedIn(pipe, Gets) /\ OrderedIn(pipe, Passes) /\ OrderedIn(replies, Gots) /\ Rises(channel)
  /\ \A k \in Sock : Rises(inbox[k]) /\ Before(Ids(inbox[k]), Passed)
  /\ \A u \in User : Falls(unread[u])

(* No message overtakes another: each stage of redisDB is behind the next one, and
   what has left redisDB is ahead of all that is on it.  None is in two places,
   but for what a request was answered with, which stays in its list.        *)
StageOrder ==
  /\ ToAsk \cup Told \cup ToPass \cup Past \subseteq 1..S
  /\ Before(ToPass, Told) /\ Before(ToPass, ToAsk) /\ Before(Told, ToAsk)
  /\ Before(Past, ToPass) /\ Before(Past, Told) /\ Before(Past, ToAsk)
  /\ Passed \cap (GivenIds \cup KeptIds \cup AnsweredIds) = {}
  /\ GivenIds \cap KeptIds = {}

\* Where a message is that is not lost.
OnTheWay == ToAsk \cup ToPass \cup Told \cup Passed
Somewhere == OnTheWay \cup GivenIds \cup AnsweredIds \cup KeptIds

\* A request is answered once.
ReadOnce == \A r \in Request : reading[r] = None => answer[r] = None

-----------------------------------------------------------------------------
(* What the messages say.  A message keeps its number and its addressee, is in UTF-8
   until its server is known and once it is decoded, and in GBK between.     *)
Plain(sn) == {m \in Message : m.id <= Len(sn) /\ m.to = sn[m.id] /\ m.text = "utf8"}
Coded(sn) == {m \in Message : m.id <= Len(sn) /\ m.to = sn[m.id] /\ m.text = "gbk"}
MailOf(sn, u) == {m \in Plain(sn) : m.to = u}

\* What is kept for u: web messages, and those of message servers.
ListOf(sn, u) == MailOf(sn, u) \cup {Foreign(u)}

GoodCmds(sn) == {c \in Commands : /\ c \in Gets \cup Pushes => c.msg \in Plain(sn)
                                  /\ c \in Publishes => c.msg \in Coded(sn)}
GoodCalls(sn) == {r \in Calls : r \in Gots => r.msg \in Plain(sn)}

Contents ==
  /\ pipe \in Seq(GoodCmds(sent)) /\ replies \in Seq(GoodCalls(sent)) /\ channel \in Seq(Coded(sent))
  /\ \A k \in Sock : inbox[k] \in Seq(MailOf(sent, UserOf[k]))
  /\ \A u \in User : unread[u] \in Seq(ListOf(sent, u))

\* All that is said of the messages to users on their way.
LettersInv == ReadOnce /\ LineOrder /\ StageOrder /\ Contents

-----------------------------------------------------------------------------
(* How a message to a user is lost.                                          *)

\* The messages that were sent and are for a user who is here, has left since, or was
\* touched by a crash.
Awaits(sn, gn, mp, lf) ==
  {m \in Message : m.id <= Len(sn) /\ (m.to \in gn \/ mp[m.to] # None \/ m.id <= lf[m.to])}
Awaited == Awaits(sent, gone, userIdMap, left)

HopefulCmds(A) == {c \in Commands : c \in Publishes /\ c.to = Here => c.msg \in A}
HopefulCalls(A) == {r \in Calls : r \in Gots /\ r.server = Here => r.msg \in A}

\* Redis is told, tells and publishes this server for such messages only.
Expected ==
  /\ pipe \in Seq(HopefulCmds(Awaited)) /\ replies \in Seq(HopefulCalls(Awaited))
  /\ channel \in Seq(Awaited)

\* online:<u> names this server in the end only for a user who is present.
HereIsPresent == \A u \in User \ gone : OnlineEnd(u) => Present(u)

\* What was asked before a DEL was sent before its user left.
LeftAfter ==
  /\ \A u \in User : left[u] <= S
  /\ \A i, j \in 1..Len(pipe) : i < j /\ pipe[i] \in Gets /\ pipe[j] \in DelsOf(pipe[i].msg.to)
       => pipe[i].msg.id <= left[pipe[i].msg.to]

\* A process that died leaves messages to users in gone, and no others.
CmdsFor(us) == {c \in Commands : c \in Gets \cup Passes => c.msg.to \in us}
DownGone == ~up => pipe \in Seq(CmdsFor(gone))

ReadAsked == \A r \in Request : reading[r] \in User => reading[r] \in asked

\* The ways in which the message number i may have been lost.
Excused(i) ==
  \/ left[sent[i]] >= i \/ meddled[sent[i]] >= i
  \/ sent[i] \in gone \cup asked \/ i \in unheard
  \/ Cardinality({j \in 1..Len(sent) : j > i /\ sent[j] = sent[i]}) > Keep

\* What stands behind a message of a message server was sent before it was pushed.
Shadowed(ms, n) == \A a, b \in 1..Len(ms) : a < b /\ ms[a].id = 0 => ms[b].id <= n
Shadows == \A u \in User : Shadowed(unread[u], meddled[u])

LossInv ==
  /\ Expected /\ HereIsPresent /\ LeftAfter /\ DownGone /\ ReadAsked /\ Shadows
  /\ \A i \in 1..S : i \in Somewhere \/ Excused(i)

-----------------------------------------------------------------------------
(* Messages to groups.  What is queued: that s has an element of C, that it has one at
   most, and that one of D is k places before, or after, each of C.          *)
Has(s, C) == \E j \in 1..Len(s) : s[j] \in C
Once(s, C) == \A j, k \in 1..Len(s) : s[j] \in C /\ s[k] \in C => j = k
Follows(s, C, k, D) == \A j \in 1..Len(s) : s[j] \in C /\ k < j => s[j - k] \in D
Leads(s, C, k, D) == \A j \in 1..Len(s) : s[j] \in C => j + k \in 1..Len(s) /\ s[j + k] \in D

(* Who is leaving.  What is queued to take a user out of her groups is noted in every
   message to a group: it was there when the message was sent, or came later. *)
KeepCmds(X) == {c \in Commands : c.op \in LeaveOps => c.user \in X}
KeepCalls(X) == {r \in Calls : r.call = "leave" => r.user \in X}

LeavingNoted ==
  \A i \in 1..L : /\ pipe \in Seq(KeepCmds(groupLog[i].leaving))
                  /\ replies \in Seq(KeepCalls(groupLog[i].leaving))

(* What is queued together.  A page queues a SET before the SMEMBERS of a handshake, a
   DEL before that of a disconnection, and three commands for a message to a group.  *)
Sorts(i) == {c \in Commands : c.op = "sort" /\ c.id = i}
Diffs(i) == {c \in Commands : c.op = "sdiff" /\ c.id = i}
Incrs(i) == {c \in Commands : c.op = "incr" /\ c.id = i}
GroupPushes == {c \in Commands : c.op = "lpush group"}
Sorteds(i) == {r \in Calls : r.call = "sorted" /\ r.id = i}
Differs(i) == {r \in Calls : r.call = "differ" /\ r.id = i}

(* What is queued together is executed together, but for what a crash cuts off. *)
Ordered ==
  /\ \A u : /\ Follows(pipe, JoinsOf(u), 1, SetsOf(u))
            /\ u \in User \ gone => Leads(pipe, DelsOf(u), 1, LeavesOf(u))
  /\ \A i : /\ Follows(pipe, Diffs(i), 1, GroupPushes) /\ Follows(pipe, Diffs(i), 2, Sorts(i))
            /\ up => Leads(pipe, Sorts(i), 2, Diffs(i))

\* When the SMEMBERS of a handshake comes next, its SET has been executed.
JoinIsNext ==
  \A u \in User \ (foreign \cup gone) :
    pipe # <<>> /\ Head(pipe) \in JoinsOf(u) => online[u] = Here

(* Who is in a group, or will be once the callbacks have run, is online here, unless
   the SMEMBERS of a disconnection of hers is still queued.                  *)
JoinedOnline ==
  \A u \in User \ (foreign \cup gone) : \A g \in GroupSet[u] :
    SoonEnd(u, g) /\ ~Has(pipe, LeavesOf(u)) => online[u] = Here

(* Once only.  A command of C in the pipe p leads to a callback of D in q, or is what
   such a callback leads to, and then to the result X: it is in one of these places
   at a time.                                                                *)
Single(p, C, q, D, X) ==
  /\ Once(p, C) /\ Once(q, D) /\ ~(Has(p, C) /\ Has(q, D))
  /\ Has(p, C) \/ Has(q, D) => X = {}

\* A message to a group is sorted for, and asked for, once.
Tokens ==
  \A i \in 1..L :
    /\ Single(pipe, Sorts(i), replies, Sorteds(i), groupLog[i].live)
    /\ Single(pipe, Diffs(i) \cup Incrs(i), replies, Differs(i), groupLog[i].counted)

(* What a process that died has left on redisDB of a message to a group.      *)
GroupCmds(i) == Sorts(i) \cup Diffs(i) \cup Incrs(i)
DownCut == ~up => \A i \in 1..L : groupLog[i].cut \/ ~Has(pipe, GroupCmds(i))

(* How a message to a group comes to a user: it is, or will be, emitted to her; it is,
   or will be, counted for her; or an SDIFF is queued that would count it now.  *)
SortedWith(i, u) == {r \in Sorteds(i) : u \in r.here}
DifferWith(i, u) == {r \in Differs(i) : u \in r.users}
IncrWith(i, u) == {c \in Incrs(i) : u \in c.users}

ToLive(i, u) == u \in groupLog[i].live \/ Has(replies, SortedWith(i, u))
ToCount(i, u) ==
  u \in groupLog[i].counted \/ Has(replies, DifferWith(i, u)) \/ Has(pipe, IncrWith(i, u))
Waits(i, u) == Has(pipe, Diffs(i)) /\ u \notin onlineGroup[groupLog[i].group]

\* The members to whom it must come.
Bound(i) == Members(groupLog[i].group) \ (groupLog[i].leaving \cup foreign \cup gone)

Reaches(i, u) ==
  /\ u \notin foreign /\ ToLive(i, u) => ~ToCount(i, u) /\ ~Waits(i, u)
  /\ u \in Bound(i) /\ ~groupLog[i].cut =>
       Has(pipe, Sorts(i)) \/ ToLive(i, u) \/ ToCount(i, u) \/ Waits(i, u)
  /\ u \in Bound(i) /\ Has(replies, SortedWith(i, u)) => Present(u)

GroupReaches == \A i \in 1..L, u \in User : Reaches(i, u)

\* All that is said of the messages to groups.
GroupInv ==
  LeavingNoted /\ Ordered /\ JoinIsNext /\ JoinedOnline /\ Tokens /\ DownCut /\ GroupReaches
=============================================================================
