------------------------------- MODULE Login -------------------------------
(* How a client comes to a message server: the dialog DlgLogin of the desktop
   client, the login server (server/LoginServer/Server.cpp), and the sorted set
   serverRank that message servers enter when they start and leave when they
   are shut down.

   The module extends Presence: loginMap, which changes at will there, is written
   by the login server here, and a connection is accepted from a client that
   was told the server's address.  The login server has one thread; each of its
   Redis commands is a step.  What it reads of user:<u>, and writes there, is
   left out: a password is right or wrong.                                   *)
EXTENDS Presence, Integers, FiniteSets

CONSTANTS
  Dialog,     \* runs of the client program, a dialog each
  UserName,   \* UserName[d]: the name typed into d; nothing checks that it is not empty
  Nowhere,    \* any host:port that is no message server's, such as ":"
  MaxAsk      \* how often the button is pressed in all: a bound of the model

ASSUME LoginAssumption ==
  /\ Nobody \in User
  /\ UserName \in [Dialog -> User]
  /\ Nowhere \notin Server \cup {None}
  /\ None \notin Dialog
  /\ MaxAsk \in Nat
  /\ IsFiniteSet(User)

VARIABLES
  serverRank,  \* the scores of the message servers that are in serverRank
  strays,      \* whether serverRank has members that are no message server's address
  address,     \* address[u]: address:port in loginMap:<u>, None when absent
  login,       \* the handler the login server is in, and how far
  dialog,      \* dialog[d]: how far the dialog d has got
  told,        \* told[d]: m_strMsgAddress:m_nPortMsg
  user_id,     \* user_id[d]: m_userInfo.user_id, None before the dialog closes
  via,         \* via[d]: the connection the client of d opened, None before
  asked,       \* how often the button was pressed
  doubled,     \* history: the users who were in two unfinished logins at a time
  budget       \* history: the points there were for a server when it came or left

loginVars == <<serverRank, strays, address, login, dialog, told, user_id, via,
               asked, doubled, budget>>
allVars == <<vars, loginVars>>

-----------------------------------------------------------------------------
Places == 100   \* the score a server starts with
Place == 10     \* what a reservation costs

Address == Server \cup {Nowhere, None}

LoginStage == {"idle", "weigh", "reserve", "check", "forget", "giveBack"}

LoginHandler == [op : LoginStage, dialog : Dialog \cup {None}, server : Address]

Serving(stage, d, s) == [op |-> stage, dialog |-> d, server |-> s]

NotServing == Serving("idle", None, None)

(* A dialog waits for the answer to MsgServerRequest ("asking") and then to
   LoginRequest ("logging"); "done" has closed with OnOK, "lost" waits in vain or
   has lost the login server.                                                *)
DialogStage == {"idle", "asking", "logging", "done", "lost"}

LoginTypeOK ==
  /\ TypeOK
  /\ DOMAIN serverRank \subseteq Server /\ \A s \in DOMAIN serverRank : serverRank[s] \in Int
  /\ strays \in BOOLEAN
  /\ address \in [User -> Address]
  /\ \A u \in User : address[u] # None => u \in loginMap
  /\ login \in LoginHandler
  /\ dialog \in [Dialog -> DialogStage]
  /\ told \in [Dialog -> Address]
  /\ user_id \in [Dialog -> User \cup {None}]
  /\ via \in [Dialog -> Conn \cup {None}]
  /\ asked \in 0..MaxAsk
  /\ doubled \subseteq User
  /\ budget \in [Server -> Nat]

LoginInit ==
  /\ Init
  /\ serverRank = [s \in Server |-> Places]
  /\ strays = FALSE
  /\ address = [u \in User |-> None]
  /\ login = NotServing
  /\ dialog = [d \in Dialog |-> "idle"]
  /\ told = [d \in Dialog |-> None]
  /\ user_id = [d \in Dialog |-> None]
  /\ via = [d \in Dialog |-> None]
  /\ asked = 0
  /\ doubled = {}
  /\ budget = [s \in Server |-> Places]

-----------------------------------------------------------------------------
(* Redis commands.                                                           *)

Score(s) == IF s \in DOMAIN serverRank THEN serverRank[s] ELSE 0

\* ZINCRBY serverRank <n> <s>, which adds a member that is not there.
Zincrby(n, s) ==
  IF s = Nowhere
  THEN strays' = TRUE /\ UNCHANGED serverRank
  ELSE /\ serverRank' = [t \in DOMAIN serverRank \cup {s} |->
                           IF t = s THEN Score(s) + n ELSE serverRank[t]]
       /\ UNCHANGED strays

\* serverRank after ZREM of the servers in ended, ZADD of those in started.
AfterLife(ended, started) ==
  [s \in (DOMAIN serverRank \ ended) \cup started |->
     IF s \in started THEN Places ELSE serverRank[s]]

\* What ZREVRANGE serverRank 0 0 may return: where scores are equal, the order is
\* that of the names; the scores of strays are left out.
Best ==
  {s \in DOMAIN serverRank : \A t \in DOMAIN serverRank : serverRank[t] <= serverRank[s]}
  \cup (IF strays THEN {Nowhere} ELSE {})

(* HMSET loginMap:<u> address a port p.  CRedis::HMSet joins its arguments with
   blanks, so that the empty address and port of Nowhere go missing: it stores
   another address that is no server's, or Redis refuses the command.        *)
HmsetAddress(u, a) ==
  \/ /\ address' = [address EXCEPT ![u] = a]
     /\ loginMap' = loginMap \cup {u}
  \/ a = Nowhere /\ UNCHANGED <<address, loginMap>>

\* Mutant: the key of another hash.
DelLoginMap_Skipped(u) == UNCHANGED <<address, loginMap>>

\* DEL loginMap:<u>.
DelLoginMap(u) ==
  /\ address' = [address EXCEPT ![u] = None]
  /\ loginMap' = loginMap \ {u}

\* Mutant: the user is looked for in another key.
AddressRead_Lost(u) == Nowhere

\* dataMap["address"] : dataMap["port"] after HGETALL loginMap:<u>, which is ":"
\* without the fields.
AddressRead(u) == IF address[u] = None THEN Nowhere ELSE address[u]

-----------------------------------------------------------------------------
(* DlgLogin.                                                                 *)

\* d has not come to its handshake yet.
Unfinished(d) ==
  \/ dialog[d] \in {"asking", "logging"}
  \/ /\ dialog[d] = "done" /\ user_id[d] # Nobody
     /\ via[d] # None => phase[via[d]] = "open"

\* OnBnClickedBtnlogin: doMsgServerRequest.
Press(d) ==
  /\ dialog[d] = "idle" /\ asked < MaxAsk
  /\ asked' = asked + 1
  /\ dialog' = [dialog EXCEPT ![d] = "asking"]
  /\ doubled' = IF \E e \in Dialog \ {d} : UserName[e] = UserName[d] /\ Unfinished(e)
                THEN doubled \cup {UserName[d]} ELSE doubled
  /\ UNCHANGED <<vars, serverRank, strays, address, login, told, user_id, via, budget>>

\* handleLoginResponse: result is SUCCESS, the dialog closes with the user id of
\* the answer.
Closes(d, u) ==
  /\ dialog' = [dialog EXCEPT ![d] = "done"]
  /\ user_id' = [user_id EXCEPT ![d] = u]

-----------------------------------------------------------------------------
(* LoginServer: Server::onMsgServerRequest.                                  *)

\* ZREVRANGE serverRank 0 0 finds a server ...
BestServer(d) ==
  /\ login = NotServing /\ dialog[d] = "asking"
  /\ \E s \in Best : login' = Serving("weigh", d, s)
  /\ UNCHANGED <<vars, serverRank, strays, address, dialog, told, user_id, via,
                 asked, doubled, budget>>

\* ... or none, and the dialog is not answered.
NoServer(d) ==
  /\ login = NotServing /\ dialog[d] = "asking" /\ Best = {}
  /\ dialog' = [dialog EXCEPT ![d] = "lost"]
  /\ UNCHANGED <<vars, serverRank, strays, address, login, told, user_id, via,
                 asked, doubled, budget>>

\* ZINCRBY serverRank -10.
Weigh ==
  /\ login.op = "weigh"
  /\ Zincrby(-Place, login.server)
  /\ login' = [login EXCEPT !.op = "reserve"]
  /\ UNCHANGED <<vars, address, dialog, told, user_id, via, asked, doubled, budget>>

\* HMSET loginMap:<u>, for an empty name as well, and the answer: the dialog sends
\* LoginRequest at once.
Reserve ==
  /\ login.op = "reserve"
  /\ HmsetAddress(UserName[login.dialog], login.server)
  /\ told' = [told EXCEPT ![login.dialog] = login.server]
  /\ dialog' = [dialog EXCEPT ![login.dialog] = "logging"]
  /\ login' = NotServing
  /\ UNCHANGED <<online, onlineGroup, sessionVars, running, gone, io, crashed,
                 serverRank, strays, user_id, via, asked, doubled, budget>>

-----------------------------------------------------------------------------
(* Server::onLoginRequest.                                                   *)

\* EXISTS online:<u> says yes: ONLYONE_ERROR, and the dialog stays.
LoginOnline(d) ==
  /\ login = NotServing /\ dialog[d] = "logging"
  /\ ExistsOnline(UserName[d])
  /\ dialog' = [dialog EXCEPT ![d] = "idle"]
  /\ UNCHANGED <<vars, serverRank, strays, address, login, told, user_id, via,
                 asked, doubled, budget>>

\* It says no.
LoginOffline(d) ==
  /\ login = NotServing /\ dialog[d] = "logging"
  /\ ~ ExistsOnline(UserName[d])
  /\ login' = Serving("check", d, None)
  /\ UNCHANGED <<vars, serverRank, strays, address, dialog, told, user_id, via,
                 asked, doubled, budget>>

\* The password is right: HSET loginMap:<u> sessionid, and the answer.
LoginRight ==
  /\ login.op = "check"
  /\ loginMap' = loginMap \cup {UserName[login.dialog]}
  /\ Closes(login.dialog, UserName[login.dialog])
  /\ login' = NotServing
  /\ UNCHANGED <<online, onlineGroup, sessionVars, running, gone, io, crashed,
                 serverRank, strays, address, told, via, asked, doubled, budget>>

\* It is wrong: HGETALL loginMap:<u> ...
LoginWrong ==
  /\ login.op = "check"
  /\ login' = Serving("forget", login.dialog, AddressRead(UserName[login.dialog]))
  /\ UNCHANGED <<vars, serverRank, strays, address, dialog, told, user_id, via,
                 asked, doubled, budget>>

\* ... DEL loginMap:<u> ...
Forget ==
  /\ login.op = "forget"
  /\ DelLoginMap(UserName[login.dialog])
  /\ login' = [login EXCEPT !.op = "giveBack"]
  /\ UNCHANGED <<online, onlineGroup, sessionVars, running, gone, io, crashed,
                 serverRank, strays, dialog, told, user_id, via, asked, doubled, budget>>

(* ... ZINCRBY serverRank 10, and the answer.  Nothing is set in it, so that its
   result is SUCCESS and its user id is empty.                               *)
GiveBack ==
  /\ login.op = "giveBack"
  /\ Zincrby(Place, login.server)
  /\ Closes(login.dialog, Nobody)
  /\ login' = NotServing
  /\ UNCHANGED <<vars, address, told, via, asked, doubled, budget>>

\* The login server dies and is started again: who was waiting for it has lost
\* the connection.
LoginServerDies ==
  /\ login' = NotServing
  /\ dialog' = [d \in Dialog |-> IF dialog[d] \in {"asking", "logging"} THEN "lost" ELSE dialog[d]]
  /\ UNCHANGED <<vars, serverRank, strays, address, told, user_id, via, asked,
                 doubled, budget>>

-----------------------------------------------------------------------------
(* Message servers.                                                          *)

\* CClientDlg connects to the server it was told, for the user of the answer.
Connect(d, s, c) ==
  /\ dialog[d] = "done" /\ via[d] = None /\ told[d] = s /\ user_id[d] = ClientOf[c]
  /\ Accept(s, c)
  /\ via' = [via EXCEPT ![d] = c]
  /\ UNCHANGED <<serverRank, strays, address, login, dialog, told, user_id, asked,
                 doubled, budget>>

\* Reservations of places on s: recorded, or still in the hands of the login
\* server, after ZINCRBY -10 or before ZINCRBY 10.
Reserving(s) == {u \in User : address[u] = s}
Held(s) ==
  Cardinality(Reserving(s))
  + IF login.op \in {"reserve", "giveBack"} /\ login.server = s THEN 1 ELSE 0

Stopping == {s \in Server : io[s].op = "stopAll"}

(* The other steps of Presence.  The constructor of Server adds the server to
   serverRank, and ~Server removes it before stop_all.                       *)
ServerStep ==
  /\ \/ \E c \in Conn : HangUp(c)
     \/ \E s \in Server, c \in Conn : StopSession(s, c) \/ ShakeUnknown(s, c) \/ ShakeKnown(s, c)
     \/ \E s \in Server : Crash(s) \/ Restart(s) \/ Shutdown(s) \/ Continue(s)
  /\ LET ended == Stopping' \ Stopping
         started == running' \ running
     IN  /\ serverRank' = AfterLife(ended, started)
         /\ budget' = [s \in Server |->
              IF s \in started THEN Places + Place * Held(s)
              ELSE IF s \in ended THEN Place * Held(s) ELSE budget[s]]
  /\ UNCHANGED <<strays, address, login, dialog, told, user_id, via, asked, doubled>>

-----------------------------------------------------------------------------
LoginServer ==
  \/ \E d \in Dialog : BestServer(d) \/ NoServer(d) \/ LoginOnline(d) \/ LoginOffline(d)
  \/ Weigh \/ Reserve \/ LoginRight \/ LoginWrong \/ Forget \/ GiveBack
  \/ LoginServerDies

LoginNext ==
  \/ \E d \in Dialog : Press(d)
  \/ LoginServer
  \/ \E d \in Dialog, s \in Server, c \in Conn : Connect(d, s, c)
  \/ ServerStep

LoginSpec == LoginInit /\ [][LoginNext]_allVars

-----------------------------------------------------------------------------
(* A server never gets back more points than were taken: its score and what its
   reservations may still return stay within what there was when it last
   entered or left serverRank, though it may leave, and be brought back by
   ZINCRBY, between any two commands of the login server (LoginServer/Server.cpp
   :57-63, 144-152; DemoServer/Server.cpp:29, 48).                           *)
BudgetKept == \A s \in Server : Score(s) + Place * Held(s) <= budget[s]

\* Who was let in is recorded, with the server she was told, until her handshake,
\* and is not a stranger to it ...
AdmittedRecorded ==
  \A d \in Dialog :
    dialog[d] = "done" /\ user_id[d] \notin doubled \cup {Nobody} /\ told[d] # Nowhere =>
      /\ Unfinished(d) => user_id[d] \in loginMap /\ address[user_id[d]] = told[d]
      /\ via[d] # None => phase[via[d]] # "unknown"

\* ... whose password was wrong, and whose client goes on with an empty user id,
\* never gets a session, unless somebody has pressed the button with an empty name,
\* for which the login server records loginMap: as for any other ...
RefusedUnnamed ==
  \A d \in Dialog :
    /\ user_id[d] = Nobody /\ via[d] # None /\ m_userId[via[d]] # None
    => \E e \in Dialog : UserName[e] = Nobody /\ told[e] # None

\* ... and serverRank holds addresses of message servers.
RankedServers == doubled = {} => ~ strays

(* What a login leaves behind is right as long as no user is in two unfinished
   logins at a time: a wrong password in one deletes the loginMap:<u> of the
   other, and the points of the second go to ":" (Server.cpp:141-152); and as long
   as no name is empty (DlgLogin.cpp:108-113, LoginServer/Server.cpp:72-78).  *)
LoginsRecorded == AdmittedRecorded /\ RefusedUnnamed /\ RankedServers
=============================================================================
