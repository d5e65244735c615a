--------------------------- MODULE PresenceProofs ---------------------------
(* Theorems of Presence, for any users, connections, servers and groups.     *)
EXTENDS Presence, TLAPS

USE DEF Stage, Phase, Handling, At, StoppingAll

-----------------------------------------------------------------------------
(* Every variable keeps its type.  That is not inductive by itself: a handler
   passes its user to GroupSet and to SADD, so it must have one.             *)

HandlerNamed ==
  \A s \in Server :
    /\ io[s].op \notin {"idle", "stopAll"} => io[s].conn \in Conn /\ io[s].user \in User
    /\ io[s].groups # {} => io[s].user \in User

TypeInv == TypeOK /\ HandlerNamed

LEMMA TypeInit == Init => TypeInv
  BY PresenceAssumption DEF Init, TypeInv, TypeOK, HandlerNamed, IoState, Idle, NoSessions

\* The parts of a step that several actions share.
LEMMA TypeExit ==
  ASSUME TypeInv, NEW s \in Server, Exit(s)
  PROVE  /\ running' \subseteq Server
         /\ m_sessionSet' \in [Server -> SUBSET Conn]
         /\ m_SessionMap' \in [Server -> [User -> Conn \cup {None}]]
         /\ io' \in [Server -> IoState]
         /\ HandlerNamed'
  BY DEF TypeInv, TypeOK, HandlerNamed, Exit, IoState, Idle, NoSessions

LEMMA TypeDie ==
  ASSUME TypeInv, NEW s \in Server, Die(s)
  PROVE  TypeInv'
<1>1. phase' \in [Conn -> Phase]
  BY DEF TypeInv, TypeOK, HandlerNamed, Die, Close
<1>. QED
  BY <1>1, TypeExit DEF TypeInv, TypeOK, HandlerNamed, Die, redisVars

LEMMA TypeEnvironment ==
  ASSUME TypeInv, Environment
  PROVE  TypeInv'
<1>1. ASSUME NEW u \in User, LoginRecorded(u) \/ LoginForgotten(u) PROVE TypeInv'
  BY <1>1 DEF TypeInv, TypeOK, HandlerNamed, LoginRecorded, LoginForgotten, sessionVars
<1>2. ASSUME NEW c \in Conn, HangUp(c) PROVE TypeInv'
  BY <1>2 DEF TypeInv, TypeOK, HandlerNamed, HangUp, redisVars, sessionVars
<1>3. ASSUME NEW s \in Server, Crash(s) PROVE TypeInv'
  BY <1>3, TypeDie DEF Crash
<1>4. ASSUME NEW s \in Server, Restart(s) PROVE TypeInv'
  BY <1>4 DEF TypeInv, TypeOK, HandlerNamed, Restart, redisVars, sessionVars
<1>. QED
  BY <1>1, <1>2, <1>3, <1>4 DEF Environment

LEMMA TypeStopAll ==
  ASSUME TypeInv, NEW s \in Server, BeginStopAll(s)
  PROVE  TypeInv'
<1>1. io' \in [Server -> IoState]
  BY DEF TypeInv, TypeOK, HandlerNamed, BeginStopAll, IoState, Idle
<1>2. phase' \in [Conn -> Phase]
  BY DEF TypeInv, TypeOK, HandlerNamed, BeginStopAll, Close
<1>. QED
  BY <1>1, <1>2 DEF TypeInv, TypeOK, HandlerNamed, BeginStopAll, redisVars

LEMMA TypeBegin ==
  ASSUME TypeInv, NEW s \in Server, Begin(s)
  PROVE  TypeInv'
<1>1. ASSUME NEW c \in Conn, Accept(s, c) PROVE TypeInv'
  BY <1>1 DEF TypeInv, TypeOK, HandlerNamed, Accept, Start, redisVars
<1>2. ASSUME NEW c \in Conn, StopSession(s, c) PROVE TypeInv'
  BY <1>2 DEF TypeInv, TypeOK, HandlerNamed, StopSession, ReadError, Close, redisVars, IoState, Idle, Handling
<1>3. ASSUME NEW c \in Conn, ShakeUnknown(s, c) PROVE TypeInv'
  BY <1>3 DEF TypeInv, TypeOK, HandlerNamed, ShakeUnknown, CanShake, redisVars
<1>4. ASSUME NEW c \in Conn, ShakeKnown(s, c) PROVE TypeInv'
  BY <1>4 DEF TypeInv, TypeOK, HandlerNamed, ShakeKnown, CanShake, redisVars, sessionVars, IoState, Idle, Handling
<1>5. ASSUME Shutdown(s) PROVE TypeInv'
  BY <1>5, TypeStopAll DEF Shutdown
<1>. QED
  BY <1>1, <1>2, <1>3, <1>4, <1>5 DEF Begin

LEMMA TypeShake ==
  ASSUME TypeInv, NEW s \in Server, Shake(s)
  PROVE  TypeInv'
<1>1. CASE ShakeAlreadyOnline(s)
  BY <1>1 DEF TypeInv, TypeOK, HandlerNamed, ShakeAlreadyOnline, redisVars, IoState, Idle
<1>2. CASE ShakeRegister(s)
  BY <1>2 DEF TypeInv, TypeOK, HandlerNamed, ShakeRegister, UserIdMap, redisVars, IoState
<1>3. CASE ShakeSet(s)
  BY <1>3, PresenceAssumption
  DEF TypeInv, TypeOK, HandlerNamed, ShakeSet, SetOnline, SmembersGroupSet, sessionVars, IoState
<1>4. ASSUME NEW g \in Group, ShakeSadd(s, g) PROVE TypeInv'
  BY <1>4 DEF TypeInv, TypeOK, HandlerNamed, ShakeSadd, SaddOnlineGroup, sessionVars, IoState
<1>5. CASE ShakeReply(s)
  BY <1>5 DEF TypeInv, TypeOK, HandlerNamed, ShakeReply, redisVars, IoState, Idle
<1>. QED
  BY <1>1, <1>2, <1>3, <1>4, <1>5 DEF Shake

LEMMA TypeStop ==
  ASSUME TypeInv, NEW s \in Server, Stop(s)
  PROVE  TypeInv'
<1>1. CASE StopDel(s)
  BY <1>1 DEF TypeInv, TypeOK, HandlerNamed, StopDel, DelOnline, LrangeGroupSet, sessionVars, IoState
<1>2. CASE StopErase(s)
  BY <1>2 DEF TypeInv, TypeOK, HandlerNamed, StopErase, EraseEntry, redisVars, IoState, Idle
<1>3. CASE StopEraseEnd(s)
  BY <1>3, TypeDie DEF StopEraseEnd
<1>4. ASSUME NEW g \in Group, Srem(s, g) PROVE TypeInv'
  BY <1>4 DEF TypeInv, TypeOK, HandlerNamed, Srem, SremOnlineGroup, sessionVars, IoState
<1>5. ASSUME NEW u \in User, StopAllDel(s, u) PROVE TypeInv'
  BY <1>5, PresenceAssumption
  DEF TypeInv, TypeOK, HandlerNamed, StopAllDel, DelOnline, SmembersGroupSet, sessionVars, IoState
<1>6. CASE StopAllDone(s)
  BY <1>6, TypeExit DEF TypeInv, TypeOK, HandlerNamed, StopAllDone, redisVars
<1>7. CASE StopEraseThrow(s)
  BY <1>7, TypeStopAll DEF StopEraseThrow
<1>. QED
  BY <1>1, <1>2, <1>3, <1>4, <1>5, <1>6, <1>7 DEF Stop

LEMMA TypeStep == TypeInv /\ [Next]_vars => TypeInv'
<1>. SUFFICES ASSUME TypeInv, [Next]_vars PROVE TypeInv'
  OBVIOUS
<1>1. CASE Environment
  BY <1>1, TypeEnvironment
<1>2. ASSUME NEW s \in Server, Begin(s) PROVE TypeInv'
  BY <1>2, TypeBegin
<1>3. ASSUME NEW s \in Server, Continue(s) PROVE TypeInv'
  BY <1>3, TypeShake, TypeStop DEF Continue
<1>4. CASE UNCHANGED vars
  BY <1>4 DEF vars, redisVars, sessionVars, TypeInv, TypeOK, HandlerNamed
<1>. QED
  BY <1>1, <1>2, <1>3, <1>4 DEF Next

\* Every variable keeps its type, and a handler that names a user to Redis has
\* one, in every reachable state of the message servers.
THEOREM TypeCorrect == Spec => []TypeInv
<1>1. Init => TypeInv
  BY TypeInit
<1>2. TypeInv /\ [Next]_vars => TypeInv'
  BY TypeStep
<1>. QED
  BY <1>1, <1>2, PTL DEF Spec

-----------------------------------------------------------------------------
(* The inductive invariant.  A session belongs to one server, and what a
   handler has read or written by the stage it is at is still so: the io thread
   of s alone writes m_sessionSet[s], m_SessionMap[s] and the value s of a key. *)

SessionsOK ==
  /\ \A s, t \in Server : \A c \in m_sessionSet[s] : c \in m_sessionSet[t] => s = t
  /\ \A s \in Server : \A c \in m_sessionSet[s] : phase[c] \in {"open", "unknown", "refused", "ready"}

\* A connection gets its user in the handshake: it has none before.
UnnamedBefore ==
  \A c \in Conn :
    phase[c] \in {"unused", "open"} /\ m_userId[c] # None =>
      \E s \in Server : io[s].op \in {"set", "sadd"} /\ io[s].conn = c

ShakeOK(s) ==
  /\ io[s].op \in {"exists", "set", "sadd"} =>
       io[s].conn \in m_sessionSet[s] /\ phase[io[s].conn] = "open"
  /\ io[s].op = "exists" =>
       m_userId[io[s].conn] = None /\ io[s].user = ClientOf[io[s].conn]
  /\ io[s].op \in {"set", "sadd"} =>
       /\ m_SessionMap[s][io[s].user] = io[s].conn
       /\ m_userId[io[s].conn] = io[s].user /\ io[s].user = ClientOf[io[s].conn]

StopOK(s) ==
  /\ io[s].op \in {"idle", "stopAll"} => io[s].conn = None
  /\ io[s].op \in {"del", "erase"} => phase[io[s].conn] = "closed"
  /\ io[s].op = "stopAll" => m_sessionSet[s] = {}
  /\ io[s].op = "erase" /\ s \notin crashed => online[io[s].user] # s
  /\ io[s].op = "stopAll" /\ s \notin crashed =>
       \A u \in User : online[u] = s => u \in io[s].users

HandlerOK == \A s \in Server : ShakeOK(s) /\ StopOK(s)

IInv ==
  /\ TypeInv /\ SessionsOK /\ UnnamedBefore /\ HandlerOK
  /\ OnlineNamesSession /\ MapNamesSession
LEMMA InitIInv == Init => IInv
<1>. SUFFICES ASSUME Init PROVE IInv
  OBVIOUS
<1>1. TypeInv
  BY TypeInit
<1>. QED
  BY <1>1, PresenceAssumption
  DEF IInv, Init, Idle, NoSessions, SessionsOK, UnnamedBefore, HandlerOK, ShakeOK,
      StopOK, OnlineNamesSession, MapNamesSession

\* What IInv says beyond the types, to be shown after each step.
Parts ==
  SessionsOK /\ UnnamedBefore /\ HandlerOK /\ OnlineNamesSession /\ MapNamesSession

USE DEF SessionsOK, UnnamedBefore, HandlerOK, ShakeOK, StopOK, OnlineNamesSession,
        MapNamesSession


LEMMA StepIInv == IInv /\ [Next]_vars => Parts'
<1>. SUFFICES ASSUME IInv, [Next]_vars PROVE Parts'
  OBVIOUS
<1>. USE PresenceAssumption
     DEF Parts, IInv, TypeInv, TypeOK, HandlerNamed, IoState, Idle, NoSessions, IoIdle
<1>1. ASSUME NEW u \in User, LoginRecorded(u) \/ LoginForgotten(u) PROVE Parts'
  BY <1>1 DEF LoginRecorded, LoginForgotten, sessionVars
<1>2. ASSUME NEW c \in Conn, HangUp(c) PROVE Parts'
  BY <1>2 DEF HangUp, redisVars, sessionVars
<1>3. ASSUME NEW s \in Server, Die(s) PROVE Parts'
  <2>. USE <1>3 DEF Die, Exit, Close, Served, redisVars
  <2>1. SessionsOK'
    <3>1. SessionsOK /\ m_sessionSet \in [Server -> SUBSET Conn]
      OBVIOUS
    <3>2. \A t \in Server \ {s} : io[s].conn \notin m_sessionSet[t]
      <4>1. SessionsOK /\ ShakeOK(s) /\ StopOK(s) /\ io[s].op \in Stage /\ None \notin Conn
        OBVIOUS
      <4>. QED
        BY ONLY <4>1, <3>1 DEF SessionsOK, ShakeOK, StopOK, Stage
    <3>3. \A t \in Server : m_sessionSet'[t] = IF t = s THEN {} ELSE m_sessionSet[t]
      OBVIOUS
    <3>4. \A c \in Conn \ Served(s) : phase'[c] = phase[c]
      OBVIOUS
    <3>. QED
      BY ONLY <3>1, <3>2, <3>3, <3>4 DEF SessionsOK, Served
  <2>2. UnnamedBefore'
    OBVIOUS
  <2>3. HandlerOK'
    OBVIOUS
  <2>4. OnlineNamesSession' /\ MapNamesSession'
    OBVIOUS
  <2>. QED
    BY <2>1, <2>2, <2>3, <2>4
<1>4. ASSUME NEW s \in Server, Restart(s) PROVE Parts'
  BY <1>4 DEF Restart, redisVars, sessionVars
<1>5. ASSUME NEW s \in Server, NEW c \in Conn, Accept(s, c) PROVE Parts'
  <2>. USE <1>5 DEF Accept, Start, redisVars
  <2>1. SessionsOK'
    <3>1. \A t \in Server : c \notin m_sessionSet[t]
      OBVIOUS
    <3>2. \A t \in Server, d \in Conn :
            d \in m_sessionSet'[t] <=> (d \in m_sessionSet[t] \/ (t = s /\ d = c))
      OBVIOUS
    <3>3. \A d \in Conn : phase'[d] = IF d = c THEN "open" ELSE phase[d]
      OBVIOUS
    <3>4. \A t \in Server : m_sessionSet'[t] \subseteq Conn
      OBVIOUS
    <3>5. SessionsOK
      OBVIOUS
    <3>6. ASSUME NEW t \in Server, NEW d \in m_sessionSet'[t]
          PROVE  /\ \A r \in Server : d \in m_sessionSet'[r] => t = r
                 /\ phase'[d] \in {"open", "unknown", "refused", "ready"}
      <4>1. d \in Conn
        BY ONLY <3>4, <3>6
      <4>. QED
        BY ONLY <3>1, <3>2, <3>3, <3>5, <3>6, <4>1 DEF SessionsOK
    <3>. QED
      BY ONLY <3>6 DEF SessionsOK
  <2>2. UnnamedBefore' /\ HandlerOK'
    OBVIOUS
  <2>3. OnlineNamesSession' /\ MapNamesSession'
    OBVIOUS
  <2>. QED
    BY <2>1, <2>2, <2>3
<1>6. ASSUME NEW s \in Server, NEW c \in Conn, ShakeUnknown(s, c) PROVE Parts'
  BY <1>6 DEF ShakeUnknown, CanShake, redisVars
<1>7. ASSUME NEW s \in Server, NEW c \in Conn, ShakeKnown(s, c) PROVE Parts'
  <2>. USE <1>7 DEF ShakeKnown, CanShake, redisVars, sessionVars
  <2>1. SessionsOK' /\ UnnamedBefore'
    OBVIOUS
  <2>2. m_userId[c] = None
    <3>1. c \in m_sessionSet[s] /\ phase[c] = "open" /\ io[s].op = "idle"
      OBVIOUS
    <3>2. SessionsOK /\ UnnamedBefore /\ \A t \in Server : ShakeOK(t)
      OBVIOUS
    <3>. QED
      BY ONLY <3>1, <3>2, s \in Server, c \in Conn DEF SessionsOK, UnnamedBefore, ShakeOK
  <2>3. ShakeOK(s)' /\ StopOK(s)'
    <3>1. io'[s] = Handling("exists", c, ClientOf[c])
      OBVIOUS
    <3>. QED
      BY <2>2, <3>1
  <2>4. \A t \in Server \ {s} : io'[t] = io[t] /\ ShakeOK(t) /\ StopOK(t)
    OBVIOUS
  <2>5. HandlerOK'
    BY <2>3, <2>4
  <2>6. OnlineNamesSession' /\ MapNamesSession'
    OBVIOUS
  <2>. QED
    BY <2>1, <2>5, <2>6
<1>8. ASSUME NEW s \in Server, ShakeAlreadyOnline(s) PROVE Parts'
  BY <1>8 DEF ShakeAlreadyOnline, redisVars
<1>9. ASSUME NEW s \in Server, ShakeRegister(s) PROVE Parts'
  BY <1>9 DEF ShakeRegister, UserIdMap, redisVars
<1>10. ASSUME NEW s \in Server, ShakeSet(s) PROVE Parts'
  BY <1>10 DEF ShakeSet, SetOnline, sessionVars
<1>11. ASSUME NEW s \in Server, NEW g \in Group, ShakeSadd(s, g) PROVE Parts'
  BY <1>11 DEF ShakeSadd, sessionVars
<1>12. ASSUME NEW s \in Server, ShakeReply(s) PROVE Parts'
  BY <1>12 DEF ShakeReply, redisVars
<1>13. ASSUME NEW s \in Server, NEW c \in Conn, StopSession(s, c) PROVE Parts'
  BY <1>13 DEF StopSession, ReadError, Close, redisVars
<1>14. ASSUME NEW s \in Server, StopDel(s) PROVE Parts'
  BY <1>14 DEF StopDel, DelOnline, sessionVars
<1>15. ASSUME NEW s \in Server, StopErase(s) PROVE Parts'
  BY <1>15 DEF StopErase, EraseEntry, redisVars
<1>16. ASSUME NEW s \in Server, BeginStopAll(s) PROVE Parts'
  BY <1>16 DEF BeginStopAll, Close, redisVars
<1>17. ASSUME NEW s \in Server, NEW u \in User, StopAllDel(s, u) PROVE Parts'
  BY <1>17 DEF StopAllDel, DelOnline, sessionVars
<1>18. ASSUME NEW s \in Server, NEW g \in Group, Srem(s, g) PROVE Parts'
  BY <1>18 DEF Srem, sessionVars
<1>19. ASSUME NEW s \in Server, StopAllDone(s) PROVE Parts'
  BY <1>19 DEF StopAllDone, Exit, redisVars
<1>20. CASE UNCHANGED vars
  BY <1>20 DEF vars, redisVars, sessionVars
<1>21. ASSUME Environment PROVE Parts'
  BY ONLY <1>1, <1>2, <1>3, <1>4, <1>21 DEF Environment, Crash
<1>22. ASSUME NEW s \in Server, Begin(s) PROVE Parts'
  BY ONLY <1>5, <1>6, <1>7, <1>13, <1>16, <1>22 DEF Begin, Shutdown
<1>23. ASSUME NEW s \in Server, Shake(s) PROVE Parts'
  BY ONLY <1>8, <1>9, <1>10, <1>11, <1>12, <1>23 DEF Shake
<1>24. ASSUME NEW s \in Server, Stop(s) PROVE Parts'
  BY ONLY <1>3, <1>14, <1>15, <1>16, <1>17, <1>18, <1>19, <1>24
  DEF Stop, StopEraseEnd, StopEraseThrow
<1>. QED
  BY ONLY [Next]_vars, <1>20, <1>21, <1>22, <1>23, <1>24 DEF Next, Continue

LEMMA NextIInv == IInv /\ [Next]_vars => IInv'
  BY StepIInv, TypeStep DEF IInv, Parts

\* The inductive invariant holds: what a handler of the io thread has read or
\* written is still so when it acts on it.
THEOREM Invariance == Spec => []IInv
<1>1. Init => IInv
  BY InitIInv
<1>2. IInv /\ [Next]_vars => IInv'
  BY NextIInv
<1>. QED
  BY <1>1, <1>2, PTL DEF Spec

\* online:<u> never names a server that has no session of u in its map, as long
\* as that server has not died without clean-up: at every moment between two
\* Redis commands of any handlers of any servers, restarted ones included.
THEOREM OnlineNamesSessionHolds == Spec => []OnlineNamesSession
<1>1. IInv => OnlineNamesSession
  BY DEF IInv
<1>. QED
  BY <1>1, Invariance, PTL

\* findUser returns a session of the user asked for, and one that is still
\* connected unless the io thread is itself in stop of a session of that user or
\* in stop_all.
THEOREM MapNamesSessionHolds == Spec => []MapNamesSession
<1>1. IInv => MapNamesSession
  BY DEF IInv
<1>. QED
  BY <1>1, Invariance, PTL

-----------------------------------------------------------------------------
(* With one message server the handshake is atomic: no other io thread comes
   between its EXISTS and its SET.  Then a user with a session has online:<u>,
   from SET on, and her map entry is that session.                           *)

SoleServer == \A s, t \in Server : s = t

SessionMapped ==
  \A s \in Server : \A c \in m_sessionSet[s] :
    m_userId[c] # None =>
      /\ m_SessionMap[s][m_userId[c]] = c
      /\ \/ online[m_userId[c]] # None
         \/ io[s].op = "set" /\ io[s].user = m_userId[c]

StopNames ==
  \A s \in Server :
    io[s].op \in {"del", "erase"} => m_userId[io[s].conn] = io[s].user

SoleInv == SessionMapped /\ StopNames /\ StopFindsItsEntry

LEMMA SoleStep ==
  ASSUME SoleServer, IInv, SoleInv, [Next]_vars
  PROVE  SoleInv'
<1>. USE PresenceAssumption
     DEF SoleServer, SoleInv, SessionMapped, StopNames, StopFindsItsEntry, IInv, TypeInv,
         TypeOK, HandlerNamed, IoState, Idle, NoSessions, IoIdle
<1>1. ASSUME NEW u \in User, LoginRecorded(u) \/ LoginForgotten(u) PROVE SoleInv'
  BY <1>1 DEF LoginRecorded, LoginForgotten, sessionVars
<1>2. ASSUME NEW c \in Conn, HangUp(c) PROVE SoleInv'
  BY <1>2 DEF HangUp, redisVars, sessionVars
<1>3. ASSUME NEW s \in Server, Die(s) PROVE SoleInv'
  BY <1>3 DEF Die, Exit, Close, Served, redisVars
<1>4. ASSUME NEW s \in Server, Restart(s) PROVE SoleInv'
  BY <1>4 DEF Restart, redisVars, sessionVars
<1>5. ASSUME NEW s \in Server, NEW c \in Conn, Accept(s, c) PROVE SoleInv'
  BY <1>5 DEF Accept, Start, redisVars
<1>6. ASSUME NEW s \in Server, NEW c \in Conn, ShakeUnknown(s, c) PROVE SoleInv'
  BY <1>6 DEF ShakeUnknown, CanShake, redisVars
<1>7. ASSUME NEW s \in Server, NEW c \in Conn, ShakeKnown(s, c) PROVE SoleInv'
  BY <1>7 DEF ShakeKnown, CanShake, redisVars, sessionVars
<1>8. ASSUME NEW s \in Server, ShakeAlreadyOnline(s) PROVE SoleInv'
  BY <1>8 DEF ShakeAlreadyOnline, redisVars
<1>9. ASSUME NEW s \in Server, ShakeRegister(s) PROVE SoleInv'
  BY <1>9 DEF ShakeRegister, UserIdMap, ExistsOnline, redisVars
<1>10. ASSUME NEW s \in Server, ShakeSet(s) PROVE SoleInv'
  BY <1>10 DEF ShakeSet, SetOnline, SmembersGroupSet, sessionVars
<1>11. ASSUME NEW s \in Server, NEW g \in Group, ShakeSadd(s, g) PROVE SoleInv'
  BY <1>11 DEF ShakeSadd, SaddOnlineGroup, sessionVars
<1>12. ASSUME NEW s \in Server, ShakeReply(s) PROVE SoleInv'
  BY <1>12 DEF ShakeReply, redisVars
<1>13. ASSUME NEW s \in Server, NEW c \in Conn, StopSession(s, c) PROVE SoleInv'
  BY <1>13 DEF StopSession, ReadError, Close, redisVars
<1>14. ASSUME NEW s \in Server, StopDel(s) PROVE SoleInv'
  BY <1>14 DEF StopDel, DelOnline, LrangeGroupSet, sessionVars
<1>15. ASSUME NEW s \in Server, StopErase(s) PROVE SoleInv'
  BY <1>15, SMTT(30) DEF StopErase, EraseEntry, redisVars
<1>16. ASSUME NEW s \in Server, BeginStopAll(s) PROVE SoleInv'
  BY <1>16 DEF BeginStopAll, Close, redisVars
<1>17. ASSUME NEW s \in Server, NEW u \in User, StopAllDel(s, u) PROVE SoleInv'
  BY <1>17 DEF StopAllDel, DelOnline, sessionVars
<1>18. ASSUME NEW s \in Server, NEW g \in Group, Srem(s, g) PROVE SoleInv'
  BY <1>18 DEF Srem, SremOnlineGroup, sessionVars
<1>19. ASSUME NEW s \in Server, StopAllDone(s) PROVE SoleInv'
  BY <1>19 DEF StopAllDone, Exit, redisVars
<1>20. CASE UNCHANGED vars
  BY <1>20 DEF vars, redisVars, sessionVars
<1>21. ASSUME Environment PROVE SoleInv'
  BY ONLY <1>1, <1>2, <1>3, <1>4, <1>21 DEF Environment, Crash
<1>22. ASSUME NEW s \in Server, Begin(s) PROVE SoleInv'
  BY ONLY <1>5, <1>6, <1>7, <1>13, <1>16, <1>22 DEF Begin, Shutdown
<1>23. ASSUME NEW s \in Server, Shake(s) PROVE SoleInv'
  BY ONLY <1>8, <1>9, <1>10, <1>11, <1>12, <1>23 DEF Shake
<1>24. ASSUME NEW s \in Server, Stop(s) PROVE SoleInv'
  BY ONLY <1>3, <1>14, <1>15, <1>16, <1>17, <1>18, <1>19, <1>24
  DEF Stop, StopEraseEnd, StopEraseThrow
<1>. QED
  BY ONLY [Next]_vars, <1>20, <1>21, <1>22, <1>23, <1>24 DEF Next, Continue

\* With one message server, stop erases the entry of the session it stops and no
\* other, and never end().
THEOREM SoleServerStops == SoleServer => (Spec => []StopFindsItsEntry)
<1>. SUFFICES ASSUME SoleServer PROVE Spec => []StopFindsItsEntry
  OBVIOUS
<1>1. Init => SoleInv
  BY DEF Init, Idle, SoleInv, SessionMapped, StopNames, StopFindsItsEntry
<1>2. IInv /\ SoleInv /\ [Next]_vars => SoleInv'
  BY SoleStep
<1>3. SoleInv => StopFindsItsEntry
  BY DEF SoleInv
<1>. QED
  BY <1>1, <1>2, <1>3, Invariance, PTL DEF Spec

\* With one message server a user is logged in once.
THEOREM SoleServerExclusive == SoleServer => (Spec => []ExclusiveSession)
<1>. SUFFICES ASSUME SoleServer PROVE Spec => []ExclusiveSession
  OBVIOUS
<1>1. Init => SoleInv
  BY DEF Init, Idle, SoleInv, SessionMapped, StopNames, StopFindsItsEntry
<1>2. IInv /\ SoleInv /\ [Next]_vars => SoleInv'
  BY SoleStep
<1>3. SoleInv => ExclusiveSession
  <2>. SUFFICES ASSUME SoleInv, NEW u \in User,
                       NEW c \in SessionsOf(u), NEW d \in SessionsOf(u)
                PROVE  c = d
    BY DEF ExclusiveSession
  <2>1. PICK s \in Server : c \in m_sessionSet[s] /\ m_userId[c] = u
    BY DEF SessionsOf
  <2>2. PICK t \in Server : d \in m_sessionSet[t] /\ m_userId[d] = u
    BY DEF SessionsOf
  <2>. QED
    BY <2>1, <2>2, PresenceAssumption DEF SoleInv, SessionMapped, SoleServer
<1>. QED
  BY <1>1, <1>2, <1>3, Invariance, PTL DEF Spec

-----------------------------------------------------------------------------
(* A process that has ended has no sessions and is in no handler.            *)

EndedOK ==
  \A s \in Server \ running : io[s] = Idle /\ m_SessionMap[s] = NoSessions

LEMMA EndedStep ==
  ASSUME TypeInv, EndedOK, [Next]_vars
  PROVE  EndedOK'
<1>. USE DEF EndedOK, TypeInv, TypeOK, Idle, Handling
<1>. USE DEF sessionVars, redisVars
<1>1. ASSUME NEW s \in Server, Exit(s) PROVE EndedOK'
  BY <1>1 DEF Exit
<1>2. ASSUME UNCHANGED <<io, m_SessionMap>>, running \subseteq running' PROVE EndedOK'
  BY <1>2
<1>3. ASSUME NEW s \in running, running' = running,
             \A t \in Server \ {s} : io'[t] = io[t] /\ m_SessionMap'[t] = m_SessionMap[t]
      PROVE  EndedOK'
  BY <1>3
<1>4. CASE Environment
  BY <1>1, <1>2, <1>4
  DEF Environment, LoginRecorded, LoginForgotten, HangUp, Crash, Die, Restart
<1>5. ASSUME NEW s \in Server, BeginStopAll(s), io[s] # Idle \/ s \in running PROVE EndedOK'
  BY <1>3, <1>5 DEF BeginStopAll
<1>6. ASSUME NEW s \in Server, Begin(s) PROVE EndedOK'
  <2>1. ASSUME NEW c \in Conn, Accept(s, c) \/ ShakeUnknown(s, c) PROVE EndedOK'
    BY <1>2, <2>1 DEF Accept, ShakeUnknown
  <2>2. ASSUME NEW c \in Conn, StopSession(s, c) \/ ShakeKnown(s, c) PROVE EndedOK'
    <3>1. s \in running /\ running' = running /\ UNCHANGED m_SessionMap
      BY <2>2 DEF IoIdle, StopSession, ShakeKnown, CanShake
    <3>2. \A t \in Server \ {s} : io'[t] = io[t]
      BY <2>2 DEF StopSession, ShakeKnown
    <3>. QED
      BY <1>3, <3>1, <3>2
  <2>3. CASE Shutdown(s)
    BY <1>5, <2>3 DEF Shutdown, IoIdle
  <2>. QED
    BY <1>6, <2>1, <2>2, <2>3 DEF Begin
<1>7. ASSUME NEW s \in Server, Shake(s) PROVE EndedOK'
  <2>1. io[s].op # "idle" /\ running' = running
    BY <1>7
    DEF Shake, ShakeAlreadyOnline, ShakeRegister, ShakeSet, ShakeSadd, ShakeReply
  <2>2. \A t \in Server \ {s} : io'[t] = io[t] /\ m_SessionMap'[t] = m_SessionMap[t]
    BY <1>7
    DEF Shake, ShakeAlreadyOnline, ShakeRegister, ShakeSet, ShakeSadd, ShakeReply, UserIdMap
  <2>3. s \in running
    BY <2>1
  <2>. QED
    BY <1>3, <2>1, <2>2, <2>3
<1>8. ASSUME NEW s \in Server, Stop(s) PROVE EndedOK'
  <2>1. io[s].op # "idle"
    BY <1>8
    DEF Stop, StopDel, StopErase, StopEraseEnd, StopEraseThrow, EraseEnd, Srem, StopAllDel, StopAllDone
  <2>2. s \in running
    BY <2>1
  <2>3. CASE StopDel(s) \/ StopErase(s)
    BY <1>3, <2>2, <2>3 DEF StopDel, StopErase, EraseEntry
  <2>4. CASE StopEraseEnd(s) \/ StopAllDone(s)
    BY <1>1, <2>4 DEF StopEraseEnd, Die, StopAllDone
  <2>5. CASE StopEraseThrow(s)
    BY <1>5, <2>2, <2>5 DEF StopEraseThrow
  <2>6. ASSUME NEW g \in Group, Srem(s, g) PROVE EndedOK'
    BY <1>3, <2>2, <2>6 DEF Srem
  <2>7. ASSUME NEW u \in User, StopAllDel(s, u) PROVE EndedOK'
    BY <1>3, <2>2, <2>7 DEF StopAllDel
  <2>. QED
    BY <1>8, <2>3, <2>4, <2>5, <2>6, <2>7 DEF Stop
<1>9. CASE UNCHANGED vars
  BY <1>2, <1>9 DEF vars
<1>. QED
  BY <1>4, <1>6, <1>7, <1>8, <1>9 DEF Next, Continue

\* No process that has ended holds a session: findUser finds nobody there.
THEOREM EndedHolds == Spec => []EndedOK
<1>1. Init => EndedOK
  BY DEF Init, EndedOK
<1>2. TypeInv /\ EndedOK /\ [Next]_vars => EndedOK'
  BY EndedStep
<1>. QED
  BY <1>1, <1>2, TypeCorrect, PTL DEF Spec
=============================================================================
