---------------------------- MODULE LoginProofs ----------------------------
(* Theorems of Login, for any users, dialogs, connections and servers.       *)
EXTENDS Login, PresenceProofs, FiniteSetTheorems

-----------------------------------------------------------------------------
(* The login server and its clients do nothing Presence does not allow for.  *)

AddressTyped == \A u \in User : address[u] # None => u \in loginMap

\* A step of the whole is a step of presence, or leaves it alone.
LEMMA LoginPresenceNext ==
  ASSUME login.op # "idle" => login.dialog \in Dialog, [LoginNext]_allVars
  PROVE  [Next]_vars
<1>. USE DEF vars, redisVars
<1>1. ASSUME NEW u \in User, loginMap' = loginMap \cup {u} \/ loginMap' = loginMap \ {u},
             UNCHANGED <<online, onlineGroup, sessionVars, running, gone, io, crashed>>
      PROVE  [Next]_vars
  BY <1>1 DEF Next, Environment, LoginRecorded, LoginForgotten
<1>2. ASSUME NEW d \in Dialog, Press(d) PROVE [Next]_vars
  BY <1>2 DEF Press
<1>3. CASE LoginServer
  <2>1. ASSUME NEW d \in Dialog, BestServer(d) \/ NoServer(d) \/ LoginOnline(d) \/ LoginOffline(d)
        PROVE  [Next]_vars
    BY <2>1 DEF BestServer, NoServer, LoginOnline, LoginOffline
  <2>2. CASE Weigh \/ LoginWrong \/ GiveBack \/ LoginServerDies
    BY <2>2 DEF Weigh, LoginWrong, GiveBack, LoginServerDies
  <2>3. CASE Reserve \/ LoginRight \/ Forget
    <3>1. UserName[login.dialog] \in User
      BY <2>3, LoginAssumption DEF Reserve, LoginRight, Forget
    <3>. QED
      BY <1>1, <2>3, <3>1 DEF Reserve, LoginRight, Forget, HmsetAddress, DelLoginMap
  <2>. QED
    BY <1>3, <2>1, <2>2, <2>3 DEF LoginServer
<1>4. ASSUME NEW d \in Dialog, NEW s \in Server, NEW c \in Conn, Connect(d, s, c)
      PROVE  [Next]_vars
  BY <1>4 DEF Connect, Next, Begin
<1>5. CASE ServerStep
  BY <1>5 DEF ServerStep, Next, Environment, Begin
<1>6. CASE UNCHANGED allVars
  BY <1>6 DEF allVars
<1>. QED
  BY <1>2, <1>3, <1>4, <1>5, <1>6 DEF LoginNext

-----------------------------------------------------------------------------
(* Types.  The login server's handler has a dialog, which waits for it, and a
   server as soon as it passes one to ZINCRBY.                               *)

Named == Server \cup {Nowhere}

ServingOK ==
  /\ login.op # "idle" => login.dialog \in Dialog
  /\ login.op \in {"weigh", "reserve"} => login.server \in Named /\ dialog[login.dialog] = "asking"
  /\ login.op \in {"check", "forget", "giveBack"} => dialog[login.dialog] = "logging"
  /\ login.op = "forget" => login.server = AddressRead(UserName[login.dialog])
  /\ login.op = "giveBack" => login.server \in Named

LoginTyped ==
  /\ DOMAIN serverRank \subseteq Server /\ \A s \in DOMAIN serverRank : serverRank[s] \in Int
  /\ strays \in BOOLEAN
  /\ address \in [User -> Address]
  /\ AddressTyped
  /\ login \in LoginHandler
  /\ dialog \in [Dialog -> DialogStage]
  /\ told \in [Dialog -> Address]
  /\ user_id \in [Dialog -> User \cup {None}]
  /\ via \in [Dialog -> Conn \cup {None}]
  /\ asked \in 0..MaxAsk
  /\ doubled \subseteq User
  /\ budget \in [Server -> Nat]

LoginInv == LoginTyped /\ ServingOK

LEMMA HeldIsNat ==
  ASSUME NEW s \in Server
  PROVE  /\ IsFiniteSet(Reserving(s)) /\ Cardinality(Reserving(s)) \in Nat
         /\ Held(s) \in Nat
<1>1. IsFiniteSet(Reserving(s))
  BY LoginAssumption, FS_Subset DEF Reserving
<1>2. Cardinality(Reserving(s)) \in Nat
  BY <1>1, FS_CardinalityType
<1>. QED
  BY <1>1, <1>2 DEF Held

LEMMA BestIsNamed ==
  ASSUME LoginTyped
  PROVE  Best \subseteq Named
  BY DEF LoginTyped, Best, Named

LEMMA AddressReadIsNamed ==
  ASSUME LoginTyped, NEW u \in User
  PROVE  AddressRead(u) \in Named
  BY DEF LoginTyped, AddressRead, Address, Named

LEMMA ZincrbyTyped ==
  ASSUME LoginTyped, NEW n \in Int, NEW s \in Named, Zincrby(n, s)
  PROVE  /\ DOMAIN serverRank' \subseteq Server
         /\ \A t \in DOMAIN serverRank' : serverRank'[t] \in Int
         /\ strays' \in BOOLEAN
<1>1. CASE s = Nowhere
  BY <1>1 DEF LoginTyped, Zincrby
<1>2. CASE s # Nowhere
  <2>1. s \in Server /\ Score(s) + n \in Int
    BY <1>2 DEF LoginTyped, Named, Score
  <2>2. serverRank' = [t \in DOMAIN serverRank \cup {s} |->
                         IF t = s THEN Score(s) + n ELSE serverRank[t]]
    BY <1>2 DEF Zincrby
  <2>3. DOMAIN serverRank' = DOMAIN serverRank \cup {s}
    BY <2>2
  <2>4. \A t \in DOMAIN serverRank' :
          serverRank'[t] = IF t = s THEN Score(s) + n ELSE serverRank[t]
    BY <2>2
  <2>. QED
    BY <1>2, <2>1, <2>3, <2>4 DEF LoginTyped, Zincrby
<1>. QED
  BY <1>1, <1>2

\* Types are kept by each step of the login server and its clients.
LEMMA LoginServerTyped ==
  ASSUME LoginInv, LoginServer
  PROVE  LoginInv'
<1>. USE LoginAssumption, PresenceAssumption
     DEF LoginInv, ServingOK, LoginHandler, LoginStage, Serving, NotServing, DialogStage
<1>1. ASSUME NEW d \in Dialog, BestServer(d) PROVE LoginInv'
  <2>1. PICK s \in Named : login' = Serving("weigh", d, s)
    BY <1>1, BestIsNamed DEF BestServer
  <2>. QED
    BY <1>1, <2>1 DEF BestServer, LoginTyped, AddressTyped, Named, Address, vars, redisVars
<1>2. ASSUME NEW d \in Dialog, NoServer(d) \/ LoginOnline(d) PROVE LoginInv'
  BY <1>2 DEF NoServer, LoginOnline, LoginTyped, AddressTyped, vars, redisVars
<1>3. ASSUME NEW d \in Dialog, LoginOffline(d) PROVE LoginInv'
  BY <1>3 DEF LoginOffline, LoginTyped, AddressTyped, Address, vars, redisVars
<1>4. CASE Weigh
  <2>1. -Place \in Int
    BY DEF Place
  <2>2. /\ DOMAIN serverRank' \subseteq Server
        /\ \A t \in DOMAIN serverRank' : serverRank'[t] \in Int
        /\ strays' \in BOOLEAN
    BY <1>4, <2>1, ZincrbyTyped DEF Weigh
  <2>. QED
    BY <1>4, <2>2 DEF Weigh, LoginTyped, AddressTyped, vars, redisVars
<1>5. CASE Reserve
  <2>1. UserName[login.dialog] \in User /\ login.server \in Address
    BY <1>5 DEF Reserve, LoginTyped
  <2>2. address' \in [User -> Address] /\ AddressTyped'
    BY <1>5, <2>1 DEF Reserve, HmsetAddress, LoginTyped, AddressTyped
  <2>. QED
    BY <1>5, <2>1, <2>2 DEF Reserve, LoginTyped, Address
<1>6. CASE LoginRight
  <2>1. UserName[login.dialog] \in User
    BY <1>6 DEF LoginRight, LoginTyped
  <2>. QED
    BY <1>6, <2>1 DEF LoginRight, Closes, LoginTyped, AddressTyped, Address
<1>7. CASE LoginWrong
  <2>1. UserName[login.dialog] \in User
    BY <1>7 DEF LoginWrong, LoginTyped
  <2>2. AddressRead(UserName[login.dialog]) \in Named
    BY <2>1, AddressReadIsNamed
  <2>3. AddressRead(UserName[login.dialog])' = AddressRead(UserName[login.dialog]')
    BY <1>7 DEF LoginWrong, AddressRead
  <2>. QED
    BY <1>7, <2>1, <2>2 DEF LoginWrong, LoginTyped, AddressTyped, Address, Named, AddressRead, vars, redisVars
<1>8. CASE Forget
  <2>1. UserName[login.dialog] \in User
    BY <1>8 DEF Forget, LoginTyped
  <2>2. login.server \in Named
    BY <1>8, <2>1, AddressReadIsNamed DEF Forget
  <2>3. address' \in [User -> Address] /\ AddressTyped'
    BY <1>8, <2>1 DEF Forget, DelLoginMap, LoginTyped, AddressTyped, Address
  <2>. QED
    BY <1>8, <2>2, <2>3 DEF Forget, LoginTyped
<1>9. CASE GiveBack
  <2>1. Place \in Int
    BY DEF Place
  <2>2. /\ DOMAIN serverRank' \subseteq Server
        /\ \A t \in DOMAIN serverRank' : serverRank'[t] \in Int
        /\ strays' \in BOOLEAN
    BY <1>9, <2>1, ZincrbyTyped DEF GiveBack
  <2>. QED
    BY <1>9, <2>2 DEF GiveBack, Closes, LoginTyped, AddressTyped, Address, vars, redisVars
<1>10. CASE LoginServerDies
  BY <1>10 DEF LoginServerDies, LoginTyped, AddressTyped, Address, vars, redisVars
<1>. QED
  BY <1>1, <1>2, <1>3, <1>4, <1>5, <1>6, <1>7, <1>8, <1>9, <1>10 DEF LoginServer

LEMMA ServerStepTyped ==
  ASSUME LoginInv, ServerStep
  PROVE  LoginInv'
<1>. DEFINE ended == Stopping' \ Stopping
            started == running' \ running
<1>1. started \subseteq Server
  BY DEF ServerStep, Restart, HangUp, StopSession, ShakeUnknown, ShakeKnown, Crash, Die, Exit,
         Shutdown, BeginStopAll, Continue, Shake, ShakeAlreadyOnline, ShakeRegister, ShakeSet,
         ShakeSadd, ShakeReply, Stop, StopDel, StopErase, StopEraseEnd, StopEraseThrow, Srem,
         StopAllDel, StopAllDone
<1>2. UNCHANGED loginMap
  BY DEF ServerStep, Restart, HangUp, StopSession, ShakeUnknown, ShakeKnown, Crash, Die, Exit,
         Shutdown, BeginStopAll, Continue, Shake, ShakeAlreadyOnline, ShakeRegister, ShakeSet,
         ShakeSadd, ShakeReply, Stop, StopDel, StopErase, StopEraseEnd, StopEraseThrow, Srem,
         StopAllDel, StopAllDone, redisVars
<1>3. /\ serverRank' = [s \in (DOMAIN serverRank \ ended) \cup started |->
                           IF s \in started THEN Places ELSE serverRank[s]]
      /\ budget' = [s \in Server |->
              IF s \in started THEN Places + Place * Held(s)
              ELSE IF s \in ended THEN Place * Held(s) ELSE budget[s]]
      /\ UNCHANGED <<strays, address, login, dialog, told, user_id, via, asked, doubled>>
  BY DEF ServerStep, AfterLife
<1>4. budget' \in [Server -> Nat]
  BY <1>3, HeldIsNat DEF Places, Place, LoginInv, LoginTyped
<1>5. DOMAIN serverRank' \subseteq Server /\ \A s \in DOMAIN serverRank' : serverRank'[s] \in Int
  BY <1>1, <1>3 DEF Places, LoginInv, LoginTyped
<1>. HIDE DEF ended, started
<1>. QED
  BY <1>2, <1>3, <1>4, <1>5 DEF LoginInv, LoginTyped, AddressTyped, ServingOK, AddressRead

LEMMA LoginStepTyped == TypeInv /\ LoginInv /\ [LoginNext]_allVars => LoginInv'
<1>. SUFFICES ASSUME LoginInv, [LoginNext]_allVars PROVE LoginInv'
  OBVIOUS
<1>1. ASSUME NEW d \in Dialog, Press(d) PROVE LoginInv'
  <2>1. doubled' \subseteq User
    BY <1>1, LoginAssumption DEF Press, LoginInv, LoginTyped
  <2>2. asked' \in 0..MaxAsk
    BY <1>1, LoginAssumption DEF Press, LoginInv, LoginTyped
  <2>3. dialog' \in [Dialog -> DialogStage]
    BY <1>1 DEF Press, LoginInv, LoginTyped, DialogStage
  <2>4. ServingOK'
    BY <1>1 DEF Press, LoginInv, ServingOK, AddressRead
  <2>. QED
    BY <1>1, <2>1, <2>2, <2>3, <2>4 DEF Press, LoginInv, LoginTyped, AddressTyped, vars, redisVars
<1>2. CASE LoginServer
  BY <1>2, LoginServerTyped
<1>3. ASSUME NEW d \in Dialog, NEW s \in Server, NEW c \in Conn, Connect(d, s, c)
      PROVE  LoginInv'
  BY <1>3 DEF Connect, Accept, LoginInv, LoginTyped, AddressTyped, ServingOK, AddressRead, redisVars
<1>4. CASE ServerStep
  BY <1>4, ServerStepTyped
<1>5. CASE UNCHANGED allVars
  BY <1>5
  DEF allVars, vars, redisVars, loginVars, LoginInv, LoginTyped, AddressTyped, ServingOK, AddressRead
<1>. QED
  BY <1>1, <1>2, <1>3, <1>4, <1>5 DEF LoginNext

LEMMA LoginStart == LoginInit => LoginInv
<1>. SUFFICES ASSUME LoginInit PROVE LoginInv
  OBVIOUS
<1>1. DOMAIN serverRank = Server /\ \A s \in Server : serverRank[s] \in Int
  BY DEF LoginInit, Places
<1>2. asked \in 0..MaxAsk
  BY LoginAssumption DEF LoginInit
<1>3. login \in LoginHandler /\ ServingOK
  BY DEF LoginInit, LoginHandler, LoginStage, NotServing, Serving, ServingOK, Address
<1>4. budget \in [Server -> Nat]
  BY DEF LoginInit, Places
<1>. QED
  BY <1>1, <1>2, <1>3, <1>4 DEF LoginInit, LoginInv, LoginTyped, AddressTyped, DialogStage, Address

\* The login server and its clients implement the environment of Presence: every
\* theorem of Presence holds with them.
THEOREM LoginImplementsPresence == LoginSpec => Spec
<1>1. LoginInit => Init /\ TypeInv /\ LoginInv
  BY LoginStart, TypeInit DEF LoginInit
<1>2. LoginInv /\ [LoginNext]_allVars => [Next]_vars
  BY LoginPresenceNext DEF LoginInv, ServingOK
<1>3. TypeInv /\ LoginInv /\ [LoginNext]_allVars => TypeInv' /\ LoginInv'
  BY <1>2, TypeStep, LoginStepTyped
<1>. QED
  BY <1>1, <1>2, <1>3, PTL DEF LoginSpec, Spec

\* Every variable of the login server, its clients and the message servers keeps
\* its type, and the login server's handler serves a dialog that waits for it.
THEOREM LoginInvariance == LoginSpec => [](TypeInv /\ LoginInv)
<1>1. LoginInit => LoginInv
  BY LoginStart
<1>2. TypeInv /\ LoginInv /\ [LoginNext]_allVars => LoginInv'
  BY LoginStepTyped
<1>. QED
  BY <1>1, <1>2, LoginImplementsPresence, TypeCorrect, PTL DEF LoginSpec

\* So Login's type invariant holds.
THEOREM LoginTypeCorrect == LoginSpec => []LoginTypeOK
<1>1. TypeInv /\ LoginInv => LoginTypeOK
  BY DEF LoginInv, LoginTyped, AddressTyped, TypeInv, LoginTypeOK
<1>. QED
  BY <1>1, LoginInvariance, PTL

-----------------------------------------------------------------------------
(* The points.                                                               *)

\* The number of reservations of u's place changes by one at most.
LEMMA OneMoreOrLess ==
  ASSUME LoginTyped, NEW s \in Server, NEW u \in User, NEW a \in Address,
         address' = [address EXCEPT ![u] = a]
  PROVE  /\ address[u] # s /\ a = s =>
              Cardinality(Reserving(s)') = Cardinality(Reserving(s)) + 1
         /\ address[u] = s /\ a # s =>
              Cardinality(Reserving(s)') = Cardinality(Reserving(s)) - 1
         /\ (address[u] = s <=> a = s) =>
              Cardinality(Reserving(s)') = Cardinality(Reserving(s))
<1>1. IsFiniteSet(Reserving(s))
  BY HeldIsNat
<1>2. address[u] # s /\ a = s => Reserving(s)' = Reserving(s) \cup {u} /\ u \notin Reserving(s)
  BY DEF LoginTyped, Reserving
<1>3. address[u] = s /\ a # s => Reserving(s)' = Reserving(s) \ {u} /\ u \in Reserving(s)
  BY DEF LoginTyped, Reserving
<1>4. (address[u] = s <=> a = s) => Reserving(s)' = Reserving(s)
  BY DEF LoginTyped, Reserving
<1>. QED
  BY <1>1, <1>2, <1>3, <1>4, FS_AddElement, FS_RemoveElement, ZenonT(30)

\* ZINCRBY adds to one score.
LEMMA ZincrbyScore ==
  ASSUME LoginTyped, NEW n \in Int, NEW s \in Named, Zincrby(n, s), NEW t \in Server
  PROVE  /\ Score(t) \in Int
         /\ Score(t)' = IF t = s THEN Score(t) + n ELSE Score(t)
<1>1. Score(t) \in Int
  BY DEF LoginTyped, Score
<1>2. CASE s = Nowhere
  BY <1>1, <1>2, LoginAssumption DEF Zincrby, Score
<1>3. CASE s # Nowhere
  <2>1. serverRank' = [x \in DOMAIN serverRank \cup {s} |->
                         IF x = s THEN Score(s) + n ELSE serverRank[x]]
    BY <1>3 DEF Zincrby
  <2>. QED
    BY <1>1, <2>1 DEF Score
<1>. QED
  BY <1>2, <1>3, <1>1

LEMMA BudgetServer ==
  ASSUME LoginInv, BudgetKept, LoginServer, NEW s \in Server
  PROVE  Score(s)' + Place * Held(s)' <= budget'[s]
<1>. DEFINE n == Cardinality(Reserving(s))
            inHand == IF login.op \in {"reserve", "giveBack"} /\ login.server = s THEN 1 ELSE 0
<1>1. n \in Nat /\ Held(s) = n + inHand
  BY HeldIsNat DEF Held
<1>2. Held(s)' = n' + inHand'
  BY DEF Held
<1>3. Score(s) \in Int /\ budget[s] \in Nat
  BY DEF LoginInv, LoginTyped, Score
<1>4. Score(s) + 10 * (n + inHand) <= budget[s]
  BY <1>1 DEF BudgetKept, Place
<1>5. budget' = budget
  BY DEF LoginServer, BestServer, NoServer, LoginOnline, LoginOffline, Weigh, Reserve,
         LoginRight, LoginWrong, Forget, GiveBack, LoginServerDies
<1>6. SUFFICES Score(s)' + 10 * (n' + inHand') <= budget[s]
  BY <1>2, <1>5 DEF Place
<1>7. (address' = address => n' = n) /\ (serverRank' = serverRank => Score(s)' = Score(s))
  BY DEF Reserving, Score
<1>8. CASE address' = address /\ serverRank' = serverRank /\ inHand' <= inHand
  BY <1>1, <1>3, <1>4, <1>7, <1>8
<1>9. CASE LoginServerDies
  BY <1>8, <1>9 DEF LoginServerDies, NotServing, Serving
<1>10. ASSUME NEW d \in Dialog, BestServer(d) \/ NoServer(d) \/ LoginOnline(d) \/ LoginOffline(d)
       PROVE  Score(s)' + 10 * (n' + inHand') <= budget[s]
  <2>1. address' = address /\ serverRank' = serverRank
    BY <1>10 DEF BestServer, NoServer, LoginOnline, LoginOffline
  <2>2. inHand' <= inHand
    BY <1>10 DEF BestServer, NoServer, LoginOnline, LoginOffline, NotServing, Serving
  <2>. QED
    BY <1>8, <2>1, <2>2
<1>11. CASE LoginRight
  BY <1>8, <1>11 DEF LoginRight, NotServing, Serving
<1>12. CASE LoginWrong
  BY <1>8, <1>12 DEF LoginWrong, Serving
<1>13. CASE Weigh
  <2>1. login.server \in Named /\ Zincrby(-10, login.server) /\ address' = address
    BY <1>13 DEF Weigh, LoginInv, ServingOK, Place
  <2>2. Score(s)' = IF s = login.server THEN Score(s) + (-10) ELSE Score(s)
    BY <2>1, ZincrbyScore DEF LoginInv
  <2>3. inHand = 0 /\ inHand' = IF s = login.server THEN 1 ELSE 0
    BY <1>13 DEF Weigh, LoginInv, LoginTyped, LoginHandler
  <2>. QED
    BY <1>1, <1>3, <1>4, <1>7, <2>1, <2>2, <2>3
<1>14. CASE GiveBack
  <2>1. login.server \in Named /\ Zincrby(10, login.server) /\ address' = address
    BY <1>14 DEF GiveBack, LoginInv, ServingOK, Place
  <2>2. Score(s)' = IF s = login.server THEN Score(s) + 10 ELSE Score(s)
    BY <2>1, ZincrbyScore DEF LoginInv
  <2>3. inHand' = 0 /\ inHand = IF s = login.server THEN 1 ELSE 0
    BY <1>14 DEF GiveBack, NotServing, Serving
  <2>. QED
    BY <1>1, <1>3, <1>4, <1>7, <2>1, <2>2, <2>3
<1>15. CASE Reserve
  <2>1. UserName[login.dialog] \in User /\ login.server \in Address /\ serverRank' = serverRank
    BY <1>15, LoginAssumption DEF Reserve, LoginInv, LoginTyped, ServingOK, LoginHandler
  <2>2. inHand' = 0 /\ inHand = IF s = login.server THEN 1 ELSE 0
    BY <1>15 DEF Reserve, NotServing, Serving
  <2>3. CASE address' = address
    BY <1>1, <1>3, <1>4, <1>7, <2>1, <2>2, <2>3
  <2>4. CASE address' = [address EXCEPT ![UserName[login.dialog]] = login.server]
    <3>1. n' \in {n - 1, n} \/ (login.server = s /\ n' = n + 1)
      BY <2>1, <2>4, OneMoreOrLess DEF LoginInv
    <3>2. Score(s)' = Score(s)
      BY <1>7, <2>1
    <3>. HIDE DEF n, inHand
    <3>3. CASE login.server = s
      BY <1>1, <1>3, <1>4, <2>2, <3>1, <3>2, <3>3
    <3>4. CASE login.server # s
      BY <1>1, <1>3, <1>4, <2>2, <3>1, <3>2, <3>4
    <3>. QED
      BY <3>3, <3>4
  <2>. QED
    BY <1>15, <2>3, <2>4 DEF Reserve, HmsetAddress
<1>16. CASE Forget
  <2>1. UserName[login.dialog] \in User /\ None \in Address /\ serverRank' = serverRank
    BY <1>16, LoginAssumption DEF Forget, LoginInv, ServingOK, Address
  <2>2. address' = [address EXCEPT ![UserName[login.dialog]] = None]
    BY <1>16 DEF Forget, DelLoginMap
  <2>3. inHand = 0 /\ inHand' = IF s = login.server THEN 1 ELSE 0
    BY <1>16 DEF Forget, LoginInv, LoginTyped, LoginHandler
  <2>4. login.server = s <=> address[UserName[login.dialog]] = s
    BY <1>16, LoginAssumption, PresenceAssumption
    DEF Forget, LoginInv, ServingOK, AddressRead
  <2>5. s # None
    BY PresenceAssumption
  <2>. QED
    <3>1. IF login.server = s THEN n' = n - 1 ELSE n' = n
      BY <2>1, <2>2, <2>4, <2>5, OneMoreOrLess DEF LoginInv
    <3>2. Score(s)' = Score(s)
      BY <1>7, <2>1
    <3>. HIDE DEF n, inHand
    <3>. QED
      BY <1>1, <1>3, <1>4, <2>3, <3>1, <3>2
<1>. HIDE DEF n, inHand
<1>. QED
  BY <1>9, <1>10, <1>11, <1>12, <1>13, <1>14, <1>15, <1>16 DEF LoginServer

LEMMA BudgetLife ==
  ASSUME LoginInv, BudgetKept, ServerStep, NEW s \in Server
  PROVE  Score(s)' + Place * Held(s)' <= budget'[s]
<1>. DEFINE ended == Stopping' \ Stopping
            started == running' \ running
<1>1. /\ serverRank' = [t \in (DOMAIN serverRank \ ended) \cup started |->
                           IF t \in started THEN Places ELSE serverRank[t]]
      /\ budget' = [t \in Server |->
              IF t \in started THEN Places + Place * Held(t)
              ELSE IF t \in ended THEN Place * Held(t) ELSE budget[t]]
      /\ UNCHANGED <<address, login>>
  BY DEF ServerStep, AfterLife
<1>. HIDE DEF ended, started
<1>2. Held(s)' = Held(s) /\ Held(s) \in Nat
  BY <1>1, HeldIsNat DEF Held, Reserving
<1>3. Score(s) \in Int /\ budget[s] \in Nat /\ Score(s) + 10 * Held(s) <= budget[s]
  BY DEF BudgetKept, Place, LoginInv, LoginTyped, Score
<1>4. Score(s)' = IF s \in started THEN 100 ELSE IF s \in ended THEN 0 ELSE Score(s)
  BY <1>1 DEF Score, Places
<1>5. budget'[s] = IF s \in started THEN 100 + 10 * Held(s)
                   ELSE IF s \in ended THEN 10 * Held(s) ELSE budget[s]
  BY <1>1 DEF Places, Place
<1>. QED
  BY <1>2, <1>3, <1>4, <1>5 DEF Place

\* For any users, servers and dialogs: no server gets back more points than were
\* taken from it, whenever it leaves or comes back.
THEOREM BudgetKeptHolds == LoginSpec => []BudgetKept
<1>1. LoginInit => BudgetKept
  <2>. SUFFICES ASSUME LoginInit, NEW s \in Server PROVE Score(s) + Place * Held(s) <= budget[s]
    BY DEF BudgetKept
  <2>1. Reserving(s) = {}
    BY PresenceAssumption DEF LoginInit, Reserving
  <2>2. Held(s) = 0
    BY <2>1, FS_EmptySet DEF LoginInit, Held, NotServing, Serving
  <2>3. Score(s) = 100 /\ budget[s] = 100
    BY DEF LoginInit, Score, Places
  <2>. QED
    BY <2>2, <2>3 DEF Place
<1>2. LoginInv /\ BudgetKept /\ [LoginNext]_allVars => BudgetKept'
  <2>. SUFFICES ASSUME LoginInv, BudgetKept, [LoginNext]_allVars, NEW s \in Server
                PROVE  Score(s)' + Place * Held(s)' <= budget'[s]
    BY DEF BudgetKept
  <2>1. CASE UNCHANGED <<serverRank, address, login, budget>>
    <3>1. Score(s)' = Score(s) /\ Held(s)' = Held(s) /\ budget'[s] = budget[s]
      BY <2>1 DEF Score, Held, Reserving
    <3>. QED
      BY <3>1 DEF BudgetKept
  <2>2. ASSUME NEW d \in Dialog, Press(d) PROVE UNCHANGED <<serverRank, address, login, budget>>
    BY <2>2 DEF Press
  <2>3. ASSUME NEW d \in Dialog, NEW t \in Server, NEW c \in Conn, Connect(d, t, c)
        PROVE  UNCHANGED <<serverRank, address, login, budget>>
    BY <2>3 DEF Connect
  <2>4. CASE UNCHANGED allVars
    BY <2>1, <2>4 DEF allVars, loginVars
  <2>. QED
    BY <2>1, <2>2, <2>3, <2>4, BudgetServer, BudgetLife DEF LoginNext
<1>. QED
  BY <1>1, <1>2, LoginInvariance, PTL DEF LoginSpec

-----------------------------------------------------------------------------
(* What a login leaves behind.                                               *)

\* What the client of a dialog knows, and the connection it has.
ClientsOK ==
  \A d \in Dialog :
    /\ (dialog[d] = "done") <=> (user_id[d] # None)
    /\ user_id[d] \in {None, Nobody, UserName[d]}
    /\ dialog[d] = "logging" => told[d] # None
    /\ via[d] # None => /\ dialog[d] = "done" /\ told[d] # Nowhere
                        /\ phase[via[d]] # "unused" /\ ClientOf[via[d]] = user_id[d]

\* Of two unfinished logins of one user, the second was noticed.
AloneOK ==
  \A d, e \in Dialog :
    d # e /\ UserName[d] = UserName[e] /\ Unfinished(d) /\ Unfinished(e)
      => UserName[d] \in doubled

\* The record of a login under way is there until the login server deletes it.
LoggingOK ==
  \A d \in Dialog :
    /\ dialog[d] = "logging" /\ UserName[d] \notin doubled /\ told[d] # Nowhere
    /\ login.op = "giveBack" => login.dialog # d
    => UserName[d] \in loginMap /\ address[UserName[d]] = told[d]

\* The login server has recorded an empty name.
NamelessTold == \E d \in Dialog : UserName[d] = Nobody /\ told[d] # None

\* Until it has, no session and no handshake is of the empty user id.
NamesOK ==
  /\ \A c \in Conn : m_userId[c] \in {None, ClientOf[c]}
  /\ \/ NamelessTold
     \/ /\ \A c \in Conn : m_userId[c] # Nobody
        /\ \A s \in Server : io[s].op = "exists" => io[s].user # Nobody
        /\ Nobody \notin loginMap

\* Without two logins of one user at a time, nothing but servers is passed around.
StraysOK ==
  doubled = {} =>
    /\ ~ strays /\ login.server # Nowhere
    /\ \A u \in User : address[u] # Nowhere
    /\ \A d \in Dialog : told[d] # Nowhere

Recorded == ClientsOK /\ AloneOK /\ LoggingOK /\ AdmittedRecorded /\ NamesOK /\ StraysOK

LEMMA RecordedStart == LoginInit => Recorded
<1>. SUFFICES ASSUME LoginInit PROVE Recorded
  OBVIOUS
<1>0. \A d \in Dialog : dialog[d] = "idle" /\ user_id[d] = None /\ via[d] = None
  BY DEF LoginInit
<1>1. ClientsOK /\ LoggingOK /\ AdmittedRecorded
  BY <1>0 DEF ClientsOK, LoggingOK, AdmittedRecorded
<1>2. AloneOK
  BY <1>0 DEF AloneOK, Unfinished
<1>3. NamesOK
  <2>1. \A c \in Conn : m_userId[c] = None
    BY DEF LoginInit, Init
  <2>2. \A s \in Server : io[s].op = "idle"
    BY DEF LoginInit, Init, Idle, Handling
  <2>. QED
    BY <2>1, <2>2, LoginAssumption, PresenceAssumption DEF LoginInit, Init, NamesOK
<1>4. StraysOK
  BY LoginAssumption DEF LoginInit, StraysOK, NotServing, Serving
<1>. QED
  BY <1>1, <1>2, <1>3, <1>4 DEF Recorded

\* What the login server's steps leave to the message servers.
LEMMA NamesKept ==
  ASSUME NamesOK, UNCHANGED <<sessionVars, io>>, NamelessTold => NamelessTold',
         Nobody \in loginMap' => Nobody \in loginMap \/ NamelessTold'
  PROVE  NamesOK'
  BY DEF NamesOK, sessionVars

LEMMA PressRecorded ==
  ASSUME LoginInv, Recorded, NEW d \in Dialog, Press(d)
  PROVE  Recorded'
<1>1. /\ dialog[d] = "idle" /\ dialog' = [dialog EXCEPT ![d] = "asking"]
      /\ doubled \subseteq doubled'
      /\ UNCHANGED <<online, onlineGroup, loginMap, sessionVars, io>>
      /\ UNCHANGED <<strays, address, login, told, user_id, via>>
  BY DEF Press, vars, redisVars
<1>2. \A e \in Dialog \ {d} : dialog'[e] = dialog[e] /\ (Unfinished(e)' <=> Unfinished(e))
  BY <1>1 DEF Unfinished, sessionVars
<1>3. dialog'[d] = "asking"
  BY <1>1 DEF LoginInv, LoginTyped
<1>4. ClientsOK'
  BY <1>1, <1>2, <1>3 DEF Recorded, ClientsOK, sessionVars
<1>5. AloneOK'
  <2>. SUFFICES ASSUME NEW e \in Dialog, NEW f \in Dialog, e # f, UserName[e] = UserName[f],
                       Unfinished(e)', Unfinished(f)'
                PROVE  UserName[e] \in doubled'
    BY DEF AloneOK
  <2>1. CASE e # d /\ f # d
    BY <1>1, <1>2, <2>1 DEF Recorded, AloneOK
  <2>2. CASE e = d \/ f = d
    BY <1>2, <2>2 DEF Press
  <2>. QED
    BY <2>1, <2>2
<1>6. LoggingOK'
  BY <1>1, <1>2, <1>3 DEF Recorded, LoggingOK
<1>7. AdmittedRecorded'
  BY <1>1, <1>2, <1>3 DEF Recorded, AdmittedRecorded, sessionVars
<1>8. NamesOK'
  BY <1>1, NamesKept DEF Recorded, NamelessTold
<1>9. StraysOK'
  BY <1>1 DEF Recorded, StraysOK
<1>. QED
  BY <1>4, <1>5, <1>6, <1>7, <1>8, <1>9 DEF Recorded

\* Steps after which no dialog is further than it was, and what is recorded of
\* users is the same.
LEMMA StaysRecorded ==
  ASSUME LoginInv, Recorded,
         UNCHANGED <<sessionVars, io, loginMap, address, told, user_id, via, doubled>>,
         \A d \in Dialog : \/ dialog'[d] = dialog[d]
                          \/ (dialog[d] # "done" /\ dialog'[d] \in {"idle", "lost"}),
         login'.op = "giveBack" => login' = login,
         login.op = "giveBack" =>
           (login' = login \/ (\A d \in Dialog : dialog'[d] # "logging")),
         doubled = {} => ~ strays' /\ login'.server # Nowhere
  PROVE  Recorded'
<1>1. \A d \in Dialog : /\ (dialog'[d] = "done") <=> (dialog[d] = "done")
                        /\ Unfinished(d)' => Unfinished(d)
  BY DEF Unfinished, sessionVars
<1>2. ClientsOK'
  BY <1>1 DEF Recorded, ClientsOK, sessionVars
<1>3. AloneOK'
  BY <1>1 DEF Recorded, AloneOK
<1>4. LoggingOK'
  BY DEF Recorded, LoggingOK
<1>5. AdmittedRecorded'
  BY <1>1 DEF Recorded, AdmittedRecorded, sessionVars
<1>6. NamesOK'
  BY NamesKept DEF Recorded, NamelessTold
<1>7. StraysOK'
  BY DEF Recorded, StraysOK
<1>. QED
  BY <1>2, <1>3, <1>4, <1>5, <1>6, <1>7 DEF Recorded

\* The steps of the login server that only look, only count or die.
LEMMA LookingRecorded ==
  ASSUME LoginInv, Recorded,
         \/ \E d \in Dialog : BestServer(d) \/ NoServer(d) \/ LoginOnline(d) \/ LoginOffline(d)
         \/ Weigh \/ LoginWrong \/ LoginServerDies
  PROVE  Recorded'
<1>. USE DEF NotServing, Serving
<1>1. ASSUME NEW d \in Dialog, BestServer(d) PROVE Recorded'
  <2>1. doubled = {} => login'.server # Nowhere
    BY <1>1, LoginAssumption DEF BestServer, Best, Recorded, StraysOK, LoginInv, LoginTyped
  <2>. QED
    BY <1>1, <2>1, StaysRecorded DEF BestServer, Recorded, StraysOK, vars, redisVars
<1>2. ASSUME NEW d \in Dialog, NoServer(d) \/ LoginOnline(d) PROVE Recorded'
  <2>1. /\ \A e \in Dialog : \/ dialog'[e] = dialog[e]
                            \/ (dialog[e] # "done" /\ dialog'[e] \in {"idle", "lost"})
        /\ UNCHANGED <<sessionVars, io, loginMap, address, told, user_id, via, doubled>>
        /\ UNCHANGED <<login, strays>>
    BY <1>2 DEF NoServer, LoginOnline, LoginInv, LoginTyped, vars, redisVars
  <2>. QED
    BY <2>1, StaysRecorded DEF Recorded, StraysOK
<1>3. ASSUME NEW d \in Dialog, LoginOffline(d) PROVE Recorded'
  BY <1>3, StaysRecorded, LoginAssumption DEF LoginOffline, Recorded, StraysOK, vars, redisVars
<1>4. CASE Weigh
  <2>1. doubled = {} => ~ strays' /\ login'.server # Nowhere
    BY <1>4 DEF Weigh, Zincrby, Recorded, StraysOK, LoginInv, LoginTyped, LoginHandler
  <2>. QED
    BY <1>4, <2>1, StaysRecorded DEF Weigh, LoginInv, LoginTyped, LoginHandler, vars, redisVars
<1>5. CASE LoginWrong
  <2>1. login.dialog \in Dialog /\ UserName[login.dialog] \in User /\ dialog[login.dialog] = "logging"
    BY <1>5, LoginAssumption DEF LoginWrong, LoginInv, ServingOK
  <2>2. doubled = {} => AddressRead(UserName[login.dialog]) # Nowhere
    BY <1>5, <2>1 DEF LoginWrong, AddressRead, Recorded, LoggingOK, StraysOK, ClientsOK
  <2>. QED
    BY <1>5, <2>2, StaysRecorded DEF LoginWrong, Recorded, StraysOK, vars, redisVars
<1>6. CASE LoginServerDies
  <2>1. \A e \in Dialog : \/ dialog'[e] = dialog[e]
                          \/ (dialog[e] # "done" /\ dialog'[e] \in {"idle", "lost"})
    BY <1>6 DEF LoginServerDies
  <2>2. \A e \in Dialog : dialog'[e] # "logging"
    BY <1>6 DEF LoginServerDies
  <2>3. /\ UNCHANGED <<sessionVars, io, loginMap, address, told, user_id, via, doubled>>
        /\ UNCHANGED strays /\ login' = NotServing
    BY <1>6 DEF LoginServerDies, vars, redisVars
  <2>. QED
    BY <2>1, <2>2, <2>3, StaysRecorded, LoginAssumption DEF Recorded, StraysOK
<1>. QED
  BY <1>1, <1>2, <1>3, <1>4, <1>5, <1>6

LEMMA ReserveRecorded ==
  ASSUME LoginInv, Recorded, Reserve
  PROVE  Recorded'
<1>. DEFINE d == login.dialog
            u == UserName[d]
            a == login.server
<1>1. /\ d \in Dialog /\ u \in User /\ dialog[d] = "asking" /\ a \in Named
      /\ UNCHANGED <<sessionVars, io, strays, user_id, via, doubled>>
      /\ login' = NotServing
    BY LoginAssumption DEF Reserve, LoginInv, ServingOK
<1>2. /\ dialog' = [dialog EXCEPT ![d] = "logging"] /\ told' = [told EXCEPT ![d] = a]
      /\ HmsetAddress(u, a)
    BY DEF Reserve
<1>3. /\ dialog'[d] = "logging" /\ told'[d] = a
      /\ \A e \in Dialog \ {d} : dialog'[e] = dialog[e] /\ told'[e] = told[e]
    BY <1>1, <1>2 DEF LoginInv, LoginTyped
<1>4. /\ a # Nowhere => u \in loginMap' /\ address'[u] = a
      /\ \A v \in User \ {u} : address'[v] = address[v] /\ (v \in loginMap' <=> v \in loginMap)
      /\ address'[u] \in {address[u], a}
      /\ loginMap \subseteq loginMap' /\ loginMap' \subseteq loginMap \cup {u}
    BY <1>1, <1>2 DEF HmsetAddress, LoginInv, LoginTyped
<1>. HIDE DEF d, u, a
<1>u. u = UserName[d] /\ a = login.server
  BY DEF u, a, d
<1>5. \A e \in Dialog : Unfinished(e)' <=> Unfinished(e)
  BY <1>1, <1>3 DEF Unfinished, sessionVars
<1>6. ClientsOK'
  BY <1>1, <1>3, LoginAssumption, PresenceAssumption DEF Recorded, ClientsOK, Named, sessionVars
<1>7. AloneOK'
  BY <1>1, <1>5 DEF Recorded, AloneOK
<1>8. \A e \in Dialog \ {d} : Unfinished(e) /\ UserName[e] \notin doubled => UserName[e] # u
  BY <1>1, <1>u DEF Recorded, AloneOK, Unfinished
<1>9. LoggingOK'
  <2>. SUFFICES ASSUME NEW e \in Dialog, dialog'[e] = "logging", UserName[e] \notin doubled,
                       told'[e] # Nowhere
                PROVE  UserName[e] \in loginMap' /\ address'[UserName[e]] = told'[e]
    BY <1>1 DEF LoggingOK
  <2>1. CASE e = d
    BY <1>3, <1>4, <1>u, <2>1
  <2>2. CASE e # d
    <3>1. dialog[e] = "logging" /\ UserName[e] # u /\ login.op # "giveBack"
      BY <1>3, <1>8, <2>2 DEF Unfinished, Reserve
    <3>2. UserName[e] \in loginMap /\ address[UserName[e]] = told[e]
      BY <1>3, <2>2, <3>1 DEF Recorded, LoggingOK
    <3>. QED
      BY <1>3, <1>4, <2>2, <3>1, <3>2, LoginAssumption
  <2>. QED
    BY <2>1, <2>2
<1>10. AdmittedRecorded'
  <2>. SUFFICES ASSUME NEW e \in Dialog, dialog'[e] = "done",
                       user_id[e] \notin doubled \cup {Nobody}, told'[e] # Nowhere
                PROVE  /\ Unfinished(e)' => user_id[e] \in loginMap' /\ address'[user_id[e]] = told'[e]
                       /\ via[e] # None => phase'[via[e]] # "unknown"
    BY <1>1 DEF AdmittedRecorded
  <2>1. e # d /\ dialog[e] = "done" /\ told[e] = told'[e]
    BY <1>3
  <2>2. user_id[e] = UserName[e]
    BY <2>1 DEF Recorded, ClientsOK
  <2>3. Unfinished(e) => UserName[e] # u
    BY <1>8, <2>1, <2>2
  <2>. QED
    BY <1>1, <1>4, <1>5, <2>1, <2>2, <2>3, LoginAssumption
    DEF Recorded, AdmittedRecorded, sessionVars
<1>11. NamesOK'
  <2>1. a # None
    BY <1>1, LoginAssumption, PresenceAssumption DEF Named
  <2>2. NamelessTold => NamelessTold'
    BY <1>3, <2>1 DEF NamelessTold
  <2>3. u = Nobody => NamelessTold'
    BY <1>1, <1>3, <1>u, <2>1 DEF NamelessTold
  <2>. QED
    BY <1>1, <1>4, <2>2, <2>3, NamesKept DEF Recorded
<1>12. StraysOK'
  <2>. SUFFICES ASSUME doubled = {} PROVE StraysOK'
    BY <1>1 DEF StraysOK
  <2>1. a # Nowhere /\ ~ strays /\ (\A v \in User : address[v] # Nowhere)
        /\ (\A e \in Dialog : told[e] # Nowhere)
    BY <1>u DEF Recorded, StraysOK
  <2>2. \A v \in User : address'[v] # Nowhere
    BY <1>4, <2>1
  <2>3. \A e \in Dialog : told'[e] # Nowhere
    BY <1>3, <2>1
  <2>. QED
    BY <1>1, <2>1, <2>2, <2>3, LoginAssumption DEF StraysOK, NotServing, Serving
<1>. QED
  BY <1>6, <1>7, <1>9, <1>10, <1>11, <1>12 DEF Recorded

\* The end of a login: with the dialog's own user, or with nobody.
LEMMA ClosesRecorded ==
  ASSUME LoginInv, Recorded, NEW d \in Dialog, dialog[d] = "logging",
         NEW u \in {Nobody, UserName[d]}, Closes(d, u),
         login.dialog = d, login' = NotServing,
         u = Nobody \/ login.op # "giveBack",
         doubled = {} => ~ strays',
         UNCHANGED <<sessionVars, io, address, told, via, doubled>>,
         loginMap \subseteq loginMap', loginMap' \subseteq loginMap \cup {UserName[d]}
  PROVE  Recorded'
<1>1. /\ dialog'[d] = "done" /\ user_id'[d] = u /\ u # None /\ via[d] = None /\ user_id[d] = None
      /\ \A e \in Dialog \ {d} : dialog'[e] = dialog[e] /\ user_id'[e] = user_id[e]
  <2>1. u # None
    BY LoginAssumption, PresenceAssumption
  <2>2. via[d] = None /\ user_id[d] = None
    BY DEF Recorded, ClientsOK
  <2>. QED
    BY <2>1, <2>2 DEF Closes, LoginInv, LoginTyped
<1>2. \A e \in Dialog : Unfinished(e)' => Unfinished(e)
  BY <1>1 DEF Unfinished, sessionVars
<1>3. ClientsOK'
  BY <1>1, LoginAssumption, PresenceAssumption DEF Recorded, ClientsOK, sessionVars
<1>4. AloneOK'
  BY <1>2 DEF Recorded, AloneOK
<1>5. LoggingOK'
  BY <1>1 DEF Recorded, LoggingOK
<1>6. AdmittedRecorded'
  <2>. SUFFICES ASSUME NEW e \in Dialog, dialog'[e] = "done",
                       user_id'[e] \notin doubled \cup {Nobody}, told[e] # Nowhere
                PROVE  /\ Unfinished(e)' => user_id'[e] \in loginMap' /\ address[user_id'[e]] = told[e]
                       /\ via[e] # None => phase'[via[e]] # "unknown"
    BY DEF AdmittedRecorded
  <2>1. CASE e = d
    BY <1>1, <2>1 DEF Recorded, LoggingOK
  <2>2. CASE e # d
    BY <1>1, <1>2, <2>2 DEF Recorded, AdmittedRecorded, sessionVars
  <2>. QED
    BY <2>1, <2>2
<1>7. NamesOK'
  <2>1. UserName[d] = Nobody => NamelessTold
    BY DEF Recorded, ClientsOK, NamelessTold
  <2>2. NamelessTold => NamelessTold'
    BY DEF NamelessTold
  <2>. QED
    BY <2>1, <2>2, NamesKept DEF Recorded
<1>8. StraysOK'
  BY LoginAssumption DEF Recorded, StraysOK, NotServing, Serving
<1>. QED
  BY <1>3, <1>4, <1>5, <1>6, <1>7, <1>8 DEF Recorded

LEMMA EndRecorded ==
  ASSUME LoginInv, Recorded, LoginRight \/ GiveBack
  PROVE  Recorded'
<1>1. login.dialog \in Dialog /\ UserName[login.dialog] \in User
      /\ dialog[login.dialog] = "logging"
  BY LoginAssumption DEF LoginRight, GiveBack, LoginInv, ServingOK
<1>3. CASE LoginRight
  <2>1. doubled = {} => ~ strays'
    BY <1>3 DEF LoginRight, Recorded, StraysOK
  <2>. QED
    BY <1>1, <1>3, <2>1, ClosesRecorded DEF LoginRight
<1>4. CASE GiveBack
  <2>1. doubled = {} => ~ strays'
    BY <1>4 DEF GiveBack, Zincrby, Recorded, StraysOK
  <2>. QED
    BY <1>1, <1>4, <2>1, ClosesRecorded DEF GiveBack, vars, redisVars
<1>. QED
  BY <1>3, <1>4

LEMMA ForgetRecorded ==
  ASSUME LoginInv, Recorded, Forget
  PROVE  Recorded'
<1>. DEFINE d == login.dialog
            u == UserName[d]
<1>1. /\ d \in Dialog /\ u \in User /\ dialog[d] = "logging"
      /\ UNCHANGED <<sessionVars, io, strays, dialog, told, user_id, via, doubled>>
      /\ login'.op = "giveBack" /\ login'.dialog = d /\ login'.server = login.server
      /\ login.op = "forget"
  BY LoginAssumption DEF Forget, LoginInv, ServingOK, LoginTyped, LoginHandler
<1>2. /\ address'[u] = None /\ loginMap' = loginMap \ {u}
      /\ \A v \in User \ {u} : address'[v] = address[v]
  BY <1>1 DEF Forget, DelLoginMap, LoginInv, LoginTyped
<1>. HIDE DEF d, u
<1>u. u = UserName[d] /\ d = login.dialog
  BY DEF u, d
<1>3. \A e \in Dialog : Unfinished(e)' <=> Unfinished(e)
  BY <1>1 DEF Unfinished, sessionVars
<1>4. \A e \in Dialog \ {d} : Unfinished(e) /\ UserName[e] \notin doubled => UserName[e] # u
  BY <1>1, <1>u DEF Recorded, AloneOK, Unfinished
<1>5. ClientsOK' /\ AloneOK'
  BY <1>1, <1>3 DEF Recorded, ClientsOK, AloneOK, sessionVars
<1>6. LoggingOK'
  <2>. SUFFICES ASSUME NEW e \in Dialog \ {d}, dialog[e] = "logging", UserName[e] \notin doubled,
                       told[e] # Nowhere
                PROVE  UserName[e] \in loginMap' /\ address'[UserName[e]] = told[e]
    BY <1>1 DEF LoggingOK
  <2>1. UserName[e] # u
    BY <1>4 DEF Unfinished
  <2>. QED
    BY <1>1, <1>2, <2>1, LoginAssumption DEF Recorded, LoggingOK
<1>7. AdmittedRecorded'
  <2>. SUFFICES ASSUME NEW e \in Dialog, dialog[e] = "done",
                       user_id[e] \notin doubled \cup {Nobody}, told[e] # Nowhere
                PROVE  /\ Unfinished(e) => user_id[e] \in loginMap' /\ address'[user_id[e]] = told[e]
                       /\ via[e] # None => phase[via[e]] # "unknown"
    BY <1>1, <1>3 DEF AdmittedRecorded, sessionVars
  <2>1. e # d /\ user_id[e] = UserName[e]
    BY <1>1 DEF Recorded, ClientsOK
  <2>2. Unfinished(e) => UserName[e] # u
    BY <1>4, <2>1
  <2>. QED
    BY <1>2, <2>1, <2>2, LoginAssumption DEF Recorded, AdmittedRecorded
<1>8. NamesOK'
  BY <1>1, <1>2, NamesKept DEF Recorded, NamelessTold
<1>9. StraysOK'
  <2>1. \A v \in User : address'[v] \in {address[v], None}
    BY <1>2
  <2>. QED
    BY <1>1, <2>1, LoginAssumption DEF Recorded, StraysOK
<1>. QED
  BY <1>5, <1>6, <1>7, <1>8, <1>9 DEF Recorded

LEMMA ConnectRecorded ==
  ASSUME TypeInv, LoginInv, Recorded, NEW d \in Dialog, NEW s \in Server, NEW c \in Conn,
         Connect(d, s, c)
  PROVE  Recorded'
<1>1. /\ dialog[d] = "done" /\ via[d] = None /\ told[d] = s /\ user_id[d] = ClientOf[c]
      /\ phase[c] = "unused"
      /\ UNCHANGED <<strays, address, login, dialog, told, user_id, doubled, loginMap, m_userId, io>>
  BY DEF Connect, Accept, redisVars
<1>2. /\ phase'[c] = "open" /\ \A x \in Conn \ {c} : phase'[x] = phase[x]
      /\ via'[d] = c /\ \A e \in Dialog \ {d} : via'[e] = via[e]
  <2>1. phase' = [phase EXCEPT ![c] = "open"] /\ via' = [via EXCEPT ![d] = c]
    BY DEF Connect, Accept, Start
  <2>. QED
    BY <2>1 DEF TypeInv, TypeOK, LoginInv, LoginTyped
<1>3. \A e \in Dialog \ {d} : via[e] # None => via[e] \in Conn \ {c}
  BY <1>1 DEF Recorded, ClientsOK, LoginInv, LoginTyped
<1>4. c # None /\ s # Nowhere
  BY LoginAssumption, PresenceAssumption
<1>5. \A e \in Dialog : Unfinished(e)' <=> Unfinished(e)
  BY <1>1, <1>2, <1>3, <1>4 DEF Unfinished
<1>6. ClientsOK'
  BY <1>1, <1>2, <1>3, <1>4 DEF Recorded, ClientsOK
<1>7. AloneOK' /\ LoggingOK'
  BY <1>1, <1>5 DEF Recorded, AloneOK, LoggingOK
<1>8. AdmittedRecorded'
  BY <1>1, <1>2, <1>3, <1>5 DEF Recorded, AdmittedRecorded
<1>9. NamesOK' /\ StraysOK'
  BY <1>1 DEF Recorded, NamesOK, NamelessTold, StraysOK
<1>. QED
  BY <1>6, <1>7, <1>8, <1>9 DEF Recorded

\* What a message server does to a connection that has not come to its handshake.
LEMMA LifeOfConnections ==
  ASSUME IInv, NamesOK, ServerStep, NamelessTold => NamelessTold'
  PROVE  /\ loginMap' = loginMap
         /\ \A c \in Conn :
              /\ phase[c] # "unused" => phase'[c] # "unused"
              /\ phase'[c] = "open" => phase[c] = "open"
              /\ phase'[c] = "unknown" =>
                   \/ phase[c] = "unknown"
                   \/ phase[c] = "open" /\ ClientOf[c] \notin loginMap
         /\ NamesOK'
<1>. DEFINE Goal ==
       /\ loginMap' = loginMap
       /\ \A c \in Conn :
            /\ phase[c] # "unused" => phase'[c] # "unused"
            /\ phase'[c] = "open" => phase[c] = "open"
            /\ phase'[c] = "unknown" =>
                 \/ phase[c] = "unknown"
                 \/ phase[c] = "open" /\ ClientOf[c] \notin loginMap
       /\ NamesOK'
<1>. SUFFICES Goal
  OBVIOUS
<1>. USE PresenceAssumption
     DEF IInv, TypeInv, TypeOK, HandlerNamed, HandlerOK, ShakeOK, IoState, NamesOK, redisVars,
         sessionVars, Stage, Handling, At, StoppingAll, Idle, Phase
<1>1. ASSUME NEW s \in Server, Die(s) PROVE Goal
  BY <1>1 DEF Die, Exit, Close
<1>2. ASSUME NEW s \in Server, BeginStopAll(s) PROVE Goal
  BY <1>2 DEF BeginStopAll, Close
<1>3. ASSUME NEW c \in Conn, HangUp(c) PROVE Goal
  BY <1>3 DEF HangUp
<1>4. ASSUME NEW s \in Server, NEW c \in Conn, StopSession(s, c) PROVE Goal
  BY <1>4 DEF StopSession, Close
<1>5. ASSUME NEW s \in Server, NEW c \in Conn, ShakeUnknown(s, c) PROVE Goal
  BY <1>5 DEF ShakeUnknown, CanShake
<1>6. ASSUME NEW s \in Server, NEW c \in Conn, ShakeKnown(s, c) PROVE Goal
  BY <1>6 DEF ShakeKnown
<1>7. ASSUME NEW s \in Server, Restart(s) PROVE Goal
  BY <1>7 DEF Restart
<1>8. ASSUME NEW s \in Server, Shake(s) PROVE Goal
  <2>1. CASE ShakeAlreadyOnline(s)
    BY <2>1 DEF ShakeAlreadyOnline
  <2>2. CASE ShakeRegister(s)
    BY <2>2 DEF ShakeRegister
  <2>3. CASE ShakeSet(s)
    BY <2>3 DEF ShakeSet
  <2>4. ASSUME NEW g \in Group, ShakeSadd(s, g) PROVE Goal
    BY <2>4 DEF ShakeSadd
  <2>5. CASE ShakeReply(s)
    BY <2>5 DEF ShakeReply
  <2>. QED
    BY ONLY <1>8, <2>1, <2>2, <2>3, <2>4, <2>5 DEF Shake
<1>9. ASSUME NEW s \in Server, Stop(s) PROVE Goal
  <2>1. CASE StopDel(s)
    BY <2>1 DEF StopDel
  <2>4. CASE StopErase(s)
    BY <2>4 DEF StopErase
  <2>5. CASE StopAllDone(s)
    BY <2>5 DEF StopAllDone, Exit
  <2>2. ASSUME NEW g \in Group, Srem(s, g) PROVE Goal
    BY <2>2 DEF Srem
  <2>3. ASSUME NEW u \in User, StopAllDel(s, u) PROVE Goal
    BY <2>3 DEF StopAllDel
  <2>. QED
    BY ONLY <1>1, <1>2, <1>9, <2>1, <2>2, <2>3, <2>4, <2>5 DEF Stop, StopEraseEnd, StopEraseThrow
<1>. HIDE DEF Goal
<1>. QED
  BY ONLY ServerStep, <1>1, <1>2, <1>3, <1>4, <1>5, <1>6, <1>7, <1>8, <1>9
  DEF ServerStep, Crash, Shutdown, Continue

LEMMA LifeRecorded ==
  ASSUME IInv, LoginInv, Recorded, ServerStep
  PROVE  Recorded'
<1>1. UNCHANGED <<strays, address, login, dialog, told, user_id, via, doubled>>
  BY DEF ServerStep
<1>2. /\ loginMap' = loginMap
      /\ \A c \in Conn :
           /\ phase[c] # "unused" => phase'[c] # "unused"
           /\ phase'[c] = "open" => phase[c] = "open"
           /\ phase'[c] = "unknown" =>
                \/ phase[c] = "unknown"
                \/ phase[c] = "open" /\ ClientOf[c] \notin loginMap
      /\ NamesOK'
  BY <1>1, LifeOfConnections DEF Recorded, NamelessTold
<1>3. \A e \in Dialog : via[e] # None => via[e] \in Conn
  BY DEF LoginInv, LoginTyped
<1>4. \A e \in Dialog : Unfinished(e)' => Unfinished(e)
  BY <1>1, <1>2, <1>3 DEF Unfinished
<1>5. ClientsOK' /\ AloneOK' /\ LoggingOK' /\ StraysOK'
  BY <1>1, <1>2, <1>3, <1>4 DEF Recorded, ClientsOK, AloneOK, LoggingOK, StraysOK
<1>6. AdmittedRecorded'
  <2>. SUFFICES ASSUME NEW e \in Dialog, dialog[e] = "done",
                       user_id[e] \notin doubled \cup {Nobody}, told[e] # Nowhere
                PROVE  /\ Unfinished(e)' => user_id[e] \in loginMap' /\ address[user_id[e]] = told[e]
                       /\ via[e] # None => phase'[via[e]] # "unknown"
    BY <1>1 DEF AdmittedRecorded
  <2>1. /\ Unfinished(e) => user_id[e] \in loginMap /\ address[user_id[e]] = told[e]
        /\ via[e] # None => phase[via[e]] # "unknown"
    BY DEF Recorded, AdmittedRecorded
  <2>2. ASSUME via[e] # None, phase'[via[e]] = "unknown" PROVE FALSE
    <3>1. phase[via[e]] = "open" /\ ClientOf[via[e]] \notin loginMap
      BY <1>2, <1>3, <2>1, <2>2
    <3>2. Unfinished(e) /\ ClientOf[via[e]] = user_id[e]
      BY <2>2, <3>1 DEF Unfinished, Recorded, ClientsOK
    <3>. QED
      BY <2>1, <3>1, <3>2
  <2>. QED
    BY <1>2, <1>4, <2>1, <2>2
<1>. QED
  BY <1>2, <1>5, <1>6 DEF Recorded

\* For any users, servers and dialogs: while no user is in two logins at a time,
\* who was let in is recorded with the server she was told until her handshake;
\* who was not never gets a session, as long as no empty name has been recorded;
\* and serverRank holds addresses of servers.
THEOREM LoginsRecordedHolds == LoginSpec => []LoginsRecorded
<1>1. LoginInit => Recorded
  BY RecordedStart
<1>2. IInv /\ TypeInv /\ LoginInv /\ Recorded /\ [LoginNext]_allVars => Recorded'
  <2>. SUFFICES ASSUME IInv, TypeInv, LoginInv, Recorded, [LoginNext]_allVars PROVE Recorded'
    OBVIOUS
  <2>1. CASE LoginServer
    BY <2>1, LookingRecorded, ReserveRecorded, EndRecorded, ForgetRecorded DEF LoginServer
  <2>2. CASE UNCHANGED allVars
    BY <2>2
    DEF allVars, loginVars, vars, redisVars, sessionVars, Recorded, ClientsOK, AloneOK, LoggingOK,
        AdmittedRecorded, NamesOK, NamelessTold, StraysOK, Unfinished
  <2>. QED
    BY <2>1, <2>2, PressRecorded, ConnectRecorded, LifeRecorded DEF LoginNext
<1>3. Recorded /\ LoginInv => LoginsRecorded
  <2>. SUFFICES ASSUME Recorded, LoginInv PROVE LoginsRecorded
    OBVIOUS
  <2>1. RefusedUnnamed
    BY DEF RefusedUnnamed, Recorded, ClientsOK, NamesOK, NamelessTold, LoginInv, LoginTyped
  <2>. QED
    BY <2>1 DEF LoginsRecorded, RankedServers, Recorded, StraysOK
<1>. QED
  BY <1>1, <1>2, <1>3, LoginInvariance, LoginImplementsPresence, Invariance, PTL DEF LoginSpec
=============================================================================
