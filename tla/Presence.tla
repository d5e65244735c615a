------------------------------ MODULE Presence ------------------------------
(* Who is online, and where: the message servers (server/DemoServer) and the
   presence keys they share through Redis.

   A server process has one io thread, which runs one handler at a time to its
   end: accept, handshake (Server::onShakeHandleReq), disconnection
   (Connection_Manager::stop) or, on exit, Connection_Manager::stop_all.  A
   handler issues several Redis commands; each is one step here, so that the
   handlers of different servers interleave between commands, as they do.  The
   client, the network and the login server are external: a connection is
   opened by a client that has logged in as one user, carries at most one
   handshake (ClientDlg.cpp sends one and never repeats it) and is lost at any
   moment, and loginMap:<user> comes and goes at any moment.                 *)

CONSTANTS
  User,        \* user ids
  Nobody,      \* the empty user id; whether anybody has it is up to User
  Conn,        \* TCP connections; each is used once
  ClientOf,    \* ClientOf[c]: the user whose client opens connection c
  Server,      \* message servers, named by their address:port
  Group,       \* group ids
  GroupSet,    \* GroupSet[u]: the set groupSet:<u>, fixed
  None,        \* the absent value
  CrashHosts,  \* the servers whose process may die without any clean-up
  StopHosts    \* the servers that may be shut down, or exit on an exception

ASSUME PresenceAssumption ==
  /\ GroupSet \in [User -> SUBSET Group]
  /\ ClientOf \in [Conn -> User]
  /\ None \notin User \cup Conn \cup Server \cup {Nobody}
  /\ CrashHosts \subseteq Server
  /\ StopHosts \subseteq Server

VARIABLES
  online,       \* online[u]: the value of online:<u>, None when absent
  onlineGroup,  \* onlineGroup[g]: the set onlineGroup:<g>
  loginMap,     \* the users whose hash loginMap:<u> is not empty
  running,      \* the servers whose process is up
  m_sessionSet, \* m_sessionSet[s]: Connection_Manager::m_sessionSet
  m_SessionMap, \* m_SessionMap[s][u]: the session of u, None when no entry
  m_userId,     \* m_userId[c]: Tcp_Session::m_userId, None before the handshake sets it
  phase,        \* phase[c]: how far connection c has got
  gone,         \* connections the client closed or the network lost
  io,           \* io[s]: the handler the io thread of s is in, and how far
  crashed       \* history: the servers that ever died without clean-up

redisVars  == <<online, onlineGroup, loginMap>>
sessionVars == <<m_sessionSet, m_SessionMap, m_userId, phase>>
vars == <<redisVars, sessionVars, running, gone, io, crashed>>

-----------------------------------------------------------------------------
(* The stages of the io thread.  "exists", "set" and "sadd" are the commands
   of onShakeHandleReq still to come, "del" and "erase" those of stop, and
   "stopAll" is the loop of stop_all.                                        *)
Stage == {"idle", "exists", "set", "sadd", "del", "erase", "stopAll"}

IoState == [op : Stage, conn : Conn \cup {None}, user : User \cup {None},
            groups : SUBSET Group, users : SUBSET User]

Handling(stage, c, u) ==
  [op |-> stage, conn |-> c, user |-> u, groups |-> {}, users |-> {}]

Idle == Handling("idle", None, None)

\* The handler h, now at another stage or with other groups left.
At(h, stage, G) ==
  [op |-> stage, conn |-> h.conn, user |-> h.user, groups |-> G, users |-> h.users]

StoppingAll(U) ==
  [op |-> "stopAll", conn |-> None, user |-> None, groups |-> {}, users |-> U]

(* The life of a connection.  A handshake leaves it "ready" (registered and
   answered), "unknown" (answered, with the same result, but not registered: the
   user has no loginMap) or "refused" (not answered: the user is online).    *)
Phase == {"unused", "open", "unknown", "refused", "ready", "closed"}

NoSessions == [u \in User |-> None]

IoIdle(s) == s \in running /\ io[s] = Idle

TypeOK ==
  /\ online \in [User -> Server \cup {None}]
  /\ onlineGroup \in [Group -> SUBSET User]
  /\ loginMap \subseteq User
  /\ running \subseteq Server
  /\ m_sessionSet \in [Server -> SUBSET Conn]
  /\ m_SessionMap \in [Server -> [User -> Conn \cup {None}]]
  /\ m_userId \in [Conn -> User \cup {None}]
  /\ phase \in [Conn -> Phase]
  /\ gone \subseteq Conn
  /\ io \in [Server -> IoState]
  /\ crashed \subseteq Server

Init ==
  /\ online = [u \in User |-> None]
  /\ onlineGroup = [g \in Group |-> {}]
  /\ loginMap = {}
  /\ running = Server
  /\ m_sessionSet = [s \in Server |-> {}]
  /\ m_SessionMap = [s \in Server |-> NoSessions]
  /\ m_userId = [c \in Conn |-> None]
  /\ phase = [c \in Conn |-> "unused"]
  /\ gone = {}
  /\ io = [s \in Server |-> Idle]
  /\ crashed = {}

-----------------------------------------------------------------------------
(* The Redis commands on the presence keys, one atomic step each.            *)

\* Mutant: the answer is never looked at.
ExistsOnline_Ignored(u) == FALSE

\* EXISTS online:<u> (CRedis::Exists).
ExistsOnline(u) == online[u] # None

\* Mutants: SET with key and value from the same string, SET and DEL forgotten.
SetOnline_Swapped(u, s) == online' = [online EXCEPT ![u] = u]
SetOnline_Skipped(u, s) == UNCHANGED online
DelOnline_Skipped(u) == UNCHANGED online

\* SET online:<u> <s> (CRedis::Set) and DEL online:<u> (CRedis::DEL).
SetOnline(u, s) == online' = [online EXCEPT ![u] = s]
DelOnline(u) == online' = [online EXCEPT ![u] = None]

\* SADD, SREM onlineGroup:<g> <u> (CRedis::SADD, CRedis::SREM).
SaddOnlineGroup(g, u) == onlineGroup' = [onlineGroup EXCEPT ![g] = @ \cup {u}]
SremOnlineGroup(g, u) == onlineGroup' = [onlineGroup EXCEPT ![g] = @ \ {u}]

\* SMEMBERS groupSet:<u> (CRedis::SMEMBERS).
SmembersGroupSet(u) == GroupSet[u]

\* The groups Connection_Manager::stop goes through to remove the user from: it
\* reads the set groupSet:<u> with LRANGE, Redis refuses (WRONGTYPE) and
\* CRedis::LRANGE_binary returns an empty vector.
LrangeGroupSet(u) == {}

-----------------------------------------------------------------------------
(* The environment: clients, network, login server.                          *)

\* LoginServer fills loginMap:<u> for a client that logs in (HMSET, HSET) ...
LoginRecorded(u) ==
  /\ u \notin loginMap
  /\ loginMap' = loginMap \cup {u}
  /\ UNCHANGED <<online, onlineGroup, sessionVars, running, gone, io, crashed>>

\* ... and deletes it after a wrong password.
LoginForgotten(u) ==
  /\ u \in loginMap
  /\ loginMap' = loginMap \ {u}
  /\ UNCHANGED <<online, onlineGroup, sessionVars, running, gone, io, crashed>>

\* The client hangs up or the network drops the connection: from now on a read
\* on it ends in an error other than operation_aborted.
HangUp(c) ==
  /\ phase[c] \notin {"unused", "closed"} /\ c \notin gone
  /\ gone' = gone \cup {c}
  /\ UNCHANGED <<redisVars, sessionVars, running, io, crashed>>

-----------------------------------------------------------------------------
(* Connection_Manager and Tcp_Session: the sessions of one process.          *)

\* Connection_Manager::start.
Start(s, c) ==
  /\ m_sessionSet' = [m_sessionSet EXCEPT ![s] = @ \cup {c}]
  /\ phase' = [phase EXCEPT ![c] = "open"]

\* Tcp_Session::stop for the sessions in C.
Close(C) == phase' = [c \in Conn |-> IF c \in C THEN "closed" ELSE phase[c]]

\* userIdMap replaces the entry of u, if there is one.
UserIdMap(s, u, c) == m_SessionMap' = [m_SessionMap EXCEPT ![s][u] = c]

\* Mutant: the entry stays.
EraseEntry_Skipped(s, u) == UNCHANGED m_SessionMap

\* m_SessionMap.erase(find(u)), when there is an entry.
EraseEntry(s, u) == m_SessionMap' = [m_SessionMap EXCEPT ![s][u] = None]

\* handle_read has an error to report, and it is not operation_aborted.
ReadError(s, c) == c \in m_sessionSet[s] \cap gone

\* tcp_server::handle_accept.
Accept(s, c) ==
  /\ IoIdle(s)
  /\ phase[c] = "unused"
  /\ Start(s, c)
  /\ UNCHANGED <<redisVars, m_SessionMap, m_userId, running, gone, io, crashed>>

-----------------------------------------------------------------------------
(* Server::onShakeHandleReq.                                                 *)

CanShake(s, c) == IoIdle(s) /\ c \in m_sessionSet[s] /\ phase[c] = "open"

\* HGETALL loginMap:<u> comes back empty: the client is answered, nothing is
\* recorded.
ShakeUnknown(s, c) ==
  /\ CanShake(s, c)
  /\ ClientOf[c] \notin loginMap
  /\ phase' = [phase EXCEPT ![c] = "unknown"]
  /\ UNCHANGED <<redisVars, m_sessionSet, m_SessionMap, m_userId, running,
                 gone, io, crashed>>

\* HGETALL loginMap:<u> is not empty: the handler goes on to ask for online:<u>.
ShakeKnown(s, c) ==
  /\ CanShake(s, c)
  /\ ClientOf[c] \in loginMap
  /\ io' = [io EXCEPT ![s] = Handling("exists", c, ClientOf[c])]
  /\ UNCHANGED <<redisVars, sessionVars, running, gone, crashed>>

\* EXISTS online:<u> says yes: the handler ends without an answer.
ShakeAlreadyOnline(s) ==
  /\ io[s].op = "exists" /\ ExistsOnline(io[s].user)
  /\ phase' = [phase EXCEPT ![io[s].conn] = "refused"]
  /\ io' = [io EXCEPT ![s] = Idle]
  /\ UNCHANGED <<redisVars, m_sessionSet, m_SessionMap, m_userId, running,
                 gone, crashed>>

\* EXISTS online:<u> says no: the connection is named and mapped.
ShakeRegister(s) ==
  /\ io[s].op = "exists" /\ ~ ExistsOnline(io[s].user)
  /\ m_userId' = [m_userId EXCEPT ![io[s].conn] = io[s].user]
  /\ UserIdMap(s, io[s].user, io[s].conn)
  /\ io' = [io EXCEPT ![s] = At(@, "set", {})]
  /\ UNCHANGED <<redisVars, m_sessionSet, phase, running, gone, crashed>>

\* SET online:<u>, whatever it holds by now, then SMEMBERS groupSet:<u>.
ShakeSet(s) ==
  /\ io[s].op = "set"
  /\ SetOnline(io[s].user, s)
  /\ io' = [io EXCEPT ![s] = At(@, "sadd", SmembersGroupSet(@.user))]
  /\ UNCHANGED <<onlineGroup, loginMap, sessionVars, running, gone, crashed>>

\* SADD onlineGroup:<g>, one group after the other.
ShakeSadd(s, g) ==
  /\ io[s].op = "sadd" /\ g \in io[s].groups
  /\ SaddOnlineGroup(g, io[s].user)
  /\ io' = [io EXCEPT ![s] = At(@, @.op, @.groups \ {g})]
  /\ UNCHANGED <<online, loginMap, sessionVars, running, gone, crashed>>

\* PUBLISH online and the answer.
ShakeReply(s) ==
  /\ io[s].op = "sadd" /\ io[s].groups = {}
  /\ phase' = [phase EXCEPT ![io[s].conn] = "ready"]
  /\ io' = [io EXCEPT ![s] = Idle]
  /\ UNCHANGED <<redisVars, m_sessionSet, m_SessionMap, m_userId, running,
                 gone, crashed>>

-----------------------------------------------------------------------------
(* The end of the process: everything it holds in memory is gone.            *)
Exit(s) ==
  /\ running' = running \ {s}
  /\ m_sessionSet' = [m_sessionSet EXCEPT ![s] = {}]
  /\ m_SessionMap' = [m_SessionMap EXCEPT ![s] = NoSessions]
  /\ io' = [io EXCEPT ![s] = Idle]

\* The connections of s, those in m_sessionSet and the one being stopped.
Served(s) == m_sessionSet[s] \cup ({io[s].conn} \ {None})

\* Death without clean-up: the Redis keys stay as they are.
Die(s) ==
  /\ Exit(s)
  /\ Close(Served(s))
  /\ crashed' = crashed \cup {s}
  /\ UNCHANGED <<redisVars, m_userId, gone>>

Crash(s) == s \in CrashHosts \cap running /\ Die(s)

-----------------------------------------------------------------------------
(* Connection_Manager::stop, run by handle_read when the peer is gone.       *)

\* The session leaves m_sessionSet and its socket is closed.  If its user id is
\* empty, never set or set to the empty one, that is all.
StopSession(s, c) ==
  /\ IoIdle(s)
  /\ ReadError(s, c)
  /\ m_sessionSet' = [m_sessionSet EXCEPT ![s] = @ \ {c}]
  /\ Close({c})
  /\ io' = [io EXCEPT ![s] = IF m_userId[c] \in {None, Nobody} THEN Idle
                             ELSE Handling("del", c, m_userId[c])]
  /\ UNCHANGED <<redisVars, m_SessionMap, m_userId, running, gone, crashed>>

\* DEL online:<u>, whichever server it names, then the groups are read.
StopDel(s) ==
  /\ io[s].op = "del"
  /\ DelOnline(io[s].user)
  /\ io' = [io EXCEPT ![s] = At(@, "erase", LrangeGroupSet(@.user))]
  /\ UNCHANGED <<onlineGroup, loginMap, sessionVars, running, gone, crashed>>

\* PUBLISH offline, then the map entry of the user is erased, whichever
\* session it names.
StopErase(s) ==
  /\ io[s].op = "erase" /\ io[s].groups = {}
  /\ m_SessionMap[s][io[s].user] # None
  /\ EraseEntry(s, io[s].user)
  /\ io' = [io EXCEPT ![s] = Idle]
  /\ UNCHANGED <<redisVars, m_sessionSet, m_userId, phase, running, gone, crashed>>

(* There is no entry to erase: erase(end()) is undefined behaviour.  Either it
   takes the process down (an assertion of the debug build, a corrupted tree of
   the release build), or it throws.                                         *)
EraseEnd(s) ==
  /\ io[s].op = "erase" /\ io[s].groups = {}
  /\ m_SessionMap[s][io[s].user] = None

StopEraseEnd(s) == EraseEnd(s) /\ Die(s)

-----------------------------------------------------------------------------
(* ~Server and Connection_Manager::stop_all, after Ctrl-C or an exception.   *)

\* Every session is closed; the map is still there to be gone through.
BeginStopAll(s) ==
  /\ s \in StopHosts
  /\ m_sessionSet' = [m_sessionSet EXCEPT ![s] = {}]
  /\ Close(m_sessionSet[s])
  /\ io' = [io EXCEPT ![s] = StoppingAll({u \in User : m_SessionMap[s][u] # None})]
  /\ UNCHANGED <<redisVars, m_SessionMap, m_userId, running, gone, crashed>>

\* The operator presses Ctrl-C.
Shutdown(s) == IoIdle(s) /\ BeginStopAll(s)

\* There is no entry to erase, and erase(end()) throws: main catches it.
StopEraseThrow(s) == EraseEnd(s) /\ BeginStopAll(s)

\* The next user of the map: DEL online:<u>, SMEMBERS groupSet:<u>.
StopAllDel(s, u) ==
  /\ io[s].op = "stopAll" /\ io[s].groups = {} /\ u \in io[s].users
  /\ DelOnline(u)
  /\ io' = [io EXCEPT ![s] = [op |-> "stopAll", conn |-> None, user |-> u,
                                groups |-> SmembersGroupSet(u), users |-> @.users \ {u}]]
  /\ UNCHANGED <<onlineGroup, loginMap, sessionVars, running, gone, crashed>>

\* SREM onlineGroup:<g>, one group after the other, in stop and in stop_all.
Srem(s, g) ==
  /\ io[s].op \in {"erase", "stopAll"} /\ g \in io[s].groups
  /\ SremOnlineGroup(g, io[s].user)
  /\ io' = [io EXCEPT ![s] = At(@, @.op, @.groups \ {g})]
  /\ UNCHANGED <<online, loginMap, sessionVars, running, gone, crashed>>

\* The map is cleared and the process ends.
StopAllDone(s) ==
  /\ io[s].op = "stopAll" /\ io[s].groups = {} /\ io[s].users = {}
  /\ Exit(s)
  /\ UNCHANGED <<redisVars, m_userId, phase, gone, crashed>>

\* The operator starts the server again, on the same address: it serves at once.
\* Its subscriber thread subscribes later, which is a step of PeerChat and of
\* GroupChat.
Restart(s) ==
  /\ s \notin running
  /\ running' = running \cup {s}
  /\ UNCHANGED <<redisVars, sessionVars, gone, io, crashed>>

-----------------------------------------------------------------------------
Shake(s) ==
  \/ ShakeAlreadyOnline(s) \/ ShakeRegister(s) \/ ShakeSet(s)
  \/ \E g \in Group : ShakeSadd(s, g)
  \/ ShakeReply(s)

Stop(s) ==
  \/ StopDel(s) \/ StopErase(s) \/ StopEraseEnd(s) \/ StopEraseThrow(s)
  \/ \E g \in Group : Srem(s, g)
  \/ \E u \in User : StopAllDel(s, u)
  \/ StopAllDone(s)

\* What the io thread of s does once a handler has begun.
Continue(s) == Shake(s) \/ Stop(s)

\* A new handler begins.
Begin(s) ==
  \/ \E c \in Conn : Accept(s, c) \/ StopSession(s, c)
  \/ \E c \in Conn : ShakeUnknown(s, c) \/ ShakeKnown(s, c)
  \/ Shutdown(s)

Environment ==
  \/ \E u \in User : LoginRecorded(u) \/ LoginForgotten(u)
  \/ \E c \in Conn : HangUp(c)
  \/ \E s \in Server : Crash(s) \/ Restart(s)

Next == Environment \/ \E s \in Server : Begin(s) \/ Continue(s)

Spec == Init /\ [][Next]_vars

(* Fairness: an io thread that is inside a handler goes on, and a read error
   that has been queued is eventually handled.  Nothing makes a client
   connect, shake hands or hang up, nor an operator act.                      *)
Fairness ==
  \A s \in Server :
    /\ WF_vars(Continue(s))
    /\ \A c \in Conn : WF_vars(StopSession(s, c))

FairSpec == Spec /\ Fairness
-----------------------------------------------------------------------------
(* Safety.                                                                   *)

\* online:<u> never names a server that has no session of u in its map: where
\* GET online:<u> sends a message (doPeerMsg, doOnlineGroupMsg), findUser finds a
\* session.  It holds between any two Redis commands, because the handshake maps
\* before SET and stop deletes the key before it erases the entry, and as long
\* as the server named has not died without clean-up.
OnlineNamesSession ==
  \A u \in User :
    \A s \in Server \ crashed : online[u] = s => m_SessionMap[s][u] # None

\* findUser(u) returns a session of u, and one that is still in m_sessionSet
\* unless the io thread is itself inside stop of a session of u, or stop_all, or
\* u is the empty id, whose entry stop leaves behind.
MapNamesSession ==
  \A s \in Server, u \in User :
    m_SessionMap[s][u] # None =>
      /\ m_userId[m_SessionMap[s][u]] = u /\ ClientOf[m_SessionMap[s][u]] = u
      /\ \/ m_SessionMap[s][u] \in m_sessionSet[s]
         \/ io[s].op \in {"del", "erase"} /\ io[s].user = u
         \/ io[s].op = "stopAll"
         \/ u = Nobody

\* The sessions of u: a handshake has named them and they are not stopped yet.
SessionsOf(u) == {c \in UNION {m_sessionSet[s] : s \in Server} : m_userId[c] = u}

\* A user is logged in once: no two sessions carry the same user id.  The
\* handshake asks for it with EXISTS online:<u>, but SETs in another command.
ExclusiveSession == \A u \in User : \A c, d \in SessionsOf(u) : c = d

\* stop erases the entry of the session it stops, never that of a newer session
\* of the same user, and never end().
StopFindsItsEntry ==
  \A s \in Server :
    io[s].op \in {"del", "erase"} => m_SessionMap[s][io[s].user] = io[s].conn

(* What the repository says of the group keys, and the code does not keep.    *)

Quiet == \A s \in Server : io[s] = Idle

\* README.md:52: onlineGroup:<g> stores the members that are online now;
\* Connection_Manager.cpp:34: a stopped session's user leaves onlineGroup of
\* all groups.  So a member found there has a session, once no handler is under
\* way.
OnlineGroupIsOnline ==
  Quiet => \A g \in Group : \A u \in onlineGroup[g] : SessionsOf(u) # {}

-----------------------------------------------------------------------------
(* Liveness.                                                                 *)

\* No session of u is left but such as the client has abandoned, and none is
\* being made.
Abandoned(u) ==
  /\ SessionsOf(u) \subseteq gone
  /\ \A s \in Server : io[s].user = u => io[s].op \in {"idle", "del", "erase"}

\* A user who has hung up everywhere becomes offline, and so can log in again:
\* online:<u> is deleted, unless she comes back or a server dies before.  It is
\* not for the empty user id, whose key stop leaves behind.
HangUpFreesName ==
  \A u \in User \ {Nobody} :
    Abandoned(u) ~> (online[u] = None \/ ~ Abandoned(u) \/ crashed # {})
=============================================================================
