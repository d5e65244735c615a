----------------------------- MODULE WebSession -----------------------------
(* Login, registration and sessions of the web server,
   websocket/websocket/server.js, with the browsers' cookies.

   One process; a handler runs until it has to wait for Redis.  It has two
   connections: redisDB (accounts and lists) and redisSession (sessions, in a
   database nothing else uses).  On each, commands are executed and their
   callbacks run in the order they were queued, so a step here executes the
   oldest command of a connection together with its callback.

   All requests share the object sessionObj: req.session of one request is what
   another may have written since.

   cookieSerialize computes opt | {}, which is 0, and so never writes the path
   or the age it is asked for: a cookie belongs to the directory of the URL that
   was requested, "/" or "/data".                                            *)
EXTENDS Naturals, Sequences, FiniteSets, SequencesExt

CONSTANTS
  User, Browser,
  MaxRequests,  \* how many requests are made: a bound
  AtOnce,       \* how many of them are under way at the same time: a bound
  MaxAges,      \* how often a session ages: a bound
  Ranges,       \* how many groups have unread messages, at most: a bound
  None

ASSUME SessionAssumption ==
  /\ {MaxRequests, AtOnce, MaxAges, Ranges} \subseteq Nat
  /\ None \notin User \cup Browser

VARIABLES
  account,     \* account[u]: the request whose password user:<u> has, or 0, or None
  store,       \* store[u]: the session of u in redisSession, or None
  sessionObj,  \* the id in the shared object; ids count up from 1
  lastId,      \* the last id uuid.v4() has given; 1 is one of before the start
  db,          \* the commands queued on redisDB
  pipe,        \* the commands queued on redisSession
  req,         \* req[r]: the request r, see Requests
  jar,         \* jar[b]: the cookies of b
  aged,        \* how often a session has aged
  owner,       \* history: owner[u]: the browser whose request made u's session
  out,         \* history: the browsers whose last login or logout was a logout
  overlapped,  \* history: the browsers that ever had two requests under way
  mixed,       \* history: users with a refresh under way as sessionObj changed
  contested,   \* history: the names that two requests registered at once
  registered,  \* history: the names registered with success, with the request
  racing       \* history: the refreshes past GET when their session was deleted

redis == <<account, store>>
browsers == <<jar, overlapped, aged>>
logs == <<owner, out, mixed, contested, registered, racing>>
sessionVars ==
  <<redis, sessionObj, lastId, db, pipe, req, browsers, logs>>

-----------------------------------------------------------------------------
\* The requests, numbered in the order they are sent.
Request == 1..MaxRequests

\* A request takes at most one new id, and 1 may be in use already.
Ids == 1..(MaxRequests + 1)

(* A session in Redis.  "old": its expire has passed, after 30 minutes; "ttl":
   what TTL tells of the key: none is set, much is left, or less than 10 s.  *)
Session == [id : Ids, old : BOOLEAN, ttl : {"none", "week", "short"}]

\* None is neither an id nor a session.
ASSUME NoneAssumption == None \notin Nat \cup Session

\* A cookie session_id is absent (None), empty (0) or holds an id.
Cookie == Ids \cup {0, None}

(* The cookies of a browser: the user and a session for "/", a session for
   "/data".                                                                  *)
Jar == [user : User \cup {None}, root : Cookie, data : Cookie]

(* A request: its stage, what the browser sent along, how many LRANGEs are to
   come, and what its answer sets: a session cookie, or None, and a user cookie. *)
Stages == {"unsent", "db", "hmset", "get", "ttl", "serve", "answered", "received"}

Requests ==
  [stage : Stages, url : {"login", "register", "chat", "data", "logout"},
   browser : Browser \cup {None}, user : User \cup {None},
   cookie : Cookie, left : 0..Ranges, newSession : Cookie, newUser : User \cup {None}]

Unsent == [stage |-> "unsent", url |-> "login", browser |-> None, user |-> None,
           cookie |-> None, left |-> 0, newSession |-> None, newUser |-> None]

UnderWay(r) == req[r].stage \notin {"unsent", "received"}

SessionTypeOK ==
  /\ account \in [User -> Request \cup {0, None}]
  /\ store \in [User -> Session \cup {None}]
  /\ sessionObj \in 0..lastId /\ lastId \in Ids \cup {0}
  /\ \A i \in 1..Len(db) : db[i] \in [op : {"hgetall", "exists", "hmset", "query", "lrange"},
                                     req : Request]
  /\ \A i \in 1..Len(pipe) :
       pipe[i] \in [op : {"get", "ttl"}, req : Request]
         \cup [op : {"expire", "del"}, user : User]
         \cup [op : {"set"}, user : User, id : Ids, req : Request]
  /\ req \in [Request -> Requests]
  /\ jar \in [Browser -> Jar] /\ aged \in 0..MaxAges
  /\ owner \in [User -> Browser \cup {None}]
  /\ overlapped \subseteq Browser /\ out \subseteq Browser /\ mixed \subseteq User /\ contested \subseteq User
  /\ registered \subseteq User \X Request
  /\ racing \subseteq Request

(* Accounts may exist already, and a browser may be logged in.  NoCookies is
   the jar of a new browser.                                                 *)
NoCookies == [user |-> None, root |-> None, data |-> None]

LoggedIn(b, u) ==
  /\ account[u] # None
  /\ store = [v \in User |-> IF v = u THEN [id |-> 1, old |-> FALSE, ttl |-> "week"] ELSE None]
  /\ jar = [c \in Browser |->
              IF c = b THEN [user |-> u, root |-> 1, data |-> None] ELSE NoCookies]
  /\ owner = [v \in User |-> IF v = u THEN b ELSE None]

SessionInit ==
  /\ account \in [User -> {0, None}]
  /\ \/ /\ store = [u \in User |-> None]
        /\ jar = [b \in Browser |-> NoCookies]
        /\ owner = [u \in User |-> None]
     \/ \E b \in Browser, u \in User : LoggedIn(b, u)
  /\ sessionObj = 1 /\ lastId = 1
  /\ db = <<>> /\ pipe = <<>> /\ aged = 0
  /\ req = [r \in Request |-> Unsent]
  /\ overlapped = {} /\ out = {} /\ mixed = {} /\ contested = {} /\ registered = {} /\ racing = {}

-----------------------------------------------------------------------------
(* What a handler does to its request r: it waits at a stage, or answers.    *)
At(r, stage) == [req EXCEPT ![r].stage = stage]

Answer(r, cookie, user) ==
  [req EXCEPT ![r].stage = "answered", ![r].newSession = cookie, ![r].newUser = user]

\* res.redirect to a page with an error, without cookies.
Redirect(r) == Answer(r, None, None)

DbCmd(op, r) == [op |-> op, req |-> r]

SetSession(u, id, r) == [op |-> "set", user |-> u, id |-> id, req |-> r]
Expire(u) == [op |-> "expire", user |-> u]
Del(u) == [op |-> "del", user |-> u]

\* The requests that wait for the TTL of u.
Refreshing(u) == {r \in Request : req[r].stage = "ttl" /\ req[r].user = u}

(* sessionObj gets a new id.  The requests that wait for a TTL hold the same
   object.                                                                   *)
NewId ==
  /\ lastId' = lastId + 1
  /\ sessionObj' = lastId + 1
  /\ mixed' = mixed \cup {u \in User : Refreshing(u) # {}}

-----------------------------------------------------------------------------
(* A browser sends a request.  The cookie parser takes the first of two cookies
   with one name, and browsers send that of the longer path first.           *)
Sends(r, b, url, u, cookie, stage, answer) ==
  /\ req[r].stage = "unsent"
  /\ \A q \in 1..(r - 1) : req[q].stage # "unsent"
  /\ Cardinality({q \in Request : UnderWay(q)}) < AtOnce
  /\ req' = [req EXCEPT ![r] =
               [stage |-> stage, url |-> url, browser |-> b, user |-> u,
                cookie |-> cookie, left |-> 0, newSession |-> answer, newUser |-> None]]
  /\ overlapped' = overlapped \cup
       {c \in {b} : \E q \in Request : UnderWay(q) /\ req[q].browser = c}

\* POST /login with a user and a password, the right one or not: see Hgetall.
PostLogin(r, b, u) ==
  /\ Sends(r, b, "login", u, None, "db", None)
  /\ db' = Append(db, DbCmd("hgetall", r))
  /\ UNCHANGED <<redis, sessionObj, lastId, pipe, jar, aged, logs>>

\* POST /register.
PostRegister(r, b, u) ==
  /\ Sends(r, b, "register", u, None, "db", None)
  /\ db' = Append(db, DbCmd("exists", r))
  /\ contested' = contested \cup
       {v \in {u} : \E q \in Request :
                      req[q].stage = "db" /\ req[q].url = "register" /\ req[q].user = v}
  /\ UNCHANGED <<redis, sessionObj, lastId, pipe, jar, aged, owner, out, mixed, registered, racing>>

Presented(b, url) ==
  IF url = "data" /\ jar[b].data # None THEN jar[b].data ELSE jar[b].root

Recognised(b, url) == jar[b].user # None /\ Presented(b, url) \notin {None, 0}

\* GET /chat or /data/..., with both cookies: CheckSession asks for the session.
GetPage(r, b, url) ==
  /\ Recognised(b, url)
  /\ Sends(r, b, url, jar[b].user, Presented(b, url), "get", None)
  /\ pipe' = Append(pipe, DbCmd("get", r))
  /\ UNCHANGED <<redis, sessionObj, lastId, db, jar, aged, logs>>

\* Without one of them it redirects to the login page.
GetPageUnknown(r, b, url) ==
  /\ ~Recognised(b, url)
  /\ Sends(r, b, url, jar[b].user, Presented(b, url), "answered", None)
  /\ UNCHANGED <<redis, sessionObj, lastId, db, pipe, jar, aged, logs>>

\* Mutant: only the cookie is cleared.
GetLogout_CookieOnly(r, b) ==
  /\ jar[b].user # None
  /\ Sends(r, b, "logout", jar[b].user, None, "answered", 0)
  /\ UNCHANGED <<redis, sessionObj, lastId, db, pipe, jar, aged, logs>>

\* GET /logout: DeleteSession, then a redirect.
GetLogout(r, b) ==
  /\ jar[b].user # None
  /\ Sends(r, b, "logout", jar[b].user, None, "answered", 0)
  /\ pipe' = Append(pipe, Del(jar[b].user))
  /\ racing' = racing \cup Refreshing(jar[b].user)
  /\ UNCHANGED <<redis, sessionObj, lastId, db, jar, aged, owner, out, mixed, contested, registered>>

-----------------------------------------------------------------------------
\* Mutant: the id of sessionObj is used as it is.
LogsIn_SameId(r) ==
  /\ UNCHANGED <<sessionObj, lastId, mixed>>
  /\ pipe' = pipe \o <<SetSession(req[r].user, sessionObj, r), Expire(req[r].user)>>
  /\ req' = Answer(r, sessionObj, req[r].user)
  /\ owner' = [owner EXCEPT ![req[r].user] = req[r].browser]

\* The end of a login or registration: a session and both cookies.
LogsIn(r) ==
  /\ NewId
  /\ pipe' = pipe \o <<SetSession(req[r].user, lastId + 1, r), Expire(req[r].user)>>
  /\ req' = Answer(r, lastId + 1, req[r].user)
  /\ owner' = [owner EXCEPT ![req[r].user] = req[r].browser]

\* The oldest command on redisDB is c, and its callback runs.
OnDb(c) == db # <<>> /\ Head(db) = c

\* POST /login: the account exists and the password is its own, or not so.
Hgetall(r) ==
  /\ OnDb(DbCmd("hgetall", r))
  /\ db' = Tail(db)
  /\ \/ /\ account[req[r].user] # None
        /\ LogsIn(r)
     \/ /\ req' = Redirect(r)
        /\ UNCHANGED <<sessionObj, lastId, pipe, owner, mixed>>
  /\ UNCHANGED <<redis, browsers, out, contested, registered, racing>>

\* Mutant: the reply of EXISTS is not looked at.
Exists_Unread(r) ==
  /\ OnDb(DbCmd("exists", r))
  /\ db' = Append(Tail(db), DbCmd("hmset", r))
  /\ req' = At(r, "hmset")
  /\ UNCHANGED <<redis, sessionObj, lastId, pipe, browsers, logs>>

\* POST /register: HMSET if the name is free.
Exists(r) ==
  /\ OnDb(DbCmd("exists", r))
  /\ \/ /\ account[req[r].user] = None
        /\ db' = Append(Tail(db), DbCmd("hmset", r))
        /\ req' = At(r, "hmset")
     \/ /\ account[req[r].user] # None
        /\ db' = Tail(db)
        /\ req' = Redirect(r)
  /\ UNCHANGED <<redis, sessionObj, lastId, pipe, browsers, logs>>

Hmset(r) ==
  /\ OnDb(DbCmd("hmset", r))
  /\ db' = Tail(db)
  /\ account' = [account EXCEPT ![req[r].user] = r]
  /\ registered' = registered \cup {<<req[r].user, r>>}
  /\ LogsIn(r)
  /\ UNCHANGED <<store, browsers, out, contested, racing>>

\* Mutant: one LRANGE more than is counted, for the groups with nothing unread.
Query_OneMore(r) ==
  /\ OnDb(DbCmd("query", r))
  /\ \E n \in 0..Ranges :
       /\ req[r].url = "chat" => n = 0
       /\ db' = Tail(db) \o [i \in 1..(n + 1) |-> DbCmd("lrange", r)]
       /\ req' = [req EXCEPT ![r].left = n, ![r].stage = IF n = 0 THEN "answered" ELSE "serve"]
  /\ UNCHANGED <<redis, sessionObj, lastId, pipe, browsers, logs>>

(* The reply the page is rendered from: the user, or a list, in which case the
   answer is sent; or the numbers of unread messages, n of them not 0, and then
   n LRANGEs follow: UnreadGroupMsg answers at once only if n is 0.          *)
Query(r) ==
  /\ OnDb(DbCmd("query", r))
  /\ \E n \in 0..Ranges :
       /\ req[r].url = "chat" => n = 0
       /\ db' = Tail(db) \o [i \in 1..n |-> DbCmd("lrange", r)]
       /\ req' = [req EXCEPT ![r].left = n, ![r].stage = IF n = 0 THEN "answered" ELSE "serve"]
  /\ UNCHANGED <<redis, sessionObj, lastId, pipe, browsers, logs>>

\* Mutant: the last reply but one answers.
Lrange_OffByOne(r) ==
  /\ OnDb(DbCmd("lrange", r))
  /\ db' = Tail(db)
  /\ req' = [req EXCEPT ![r].left = req[r].left - 1,
                        ![r].stage = IF req[r].left <= 2 THEN "answered" ELSE "serve"]
  /\ UNCHANGED <<redis, sessionObj, lastId, pipe, browsers, logs>>

\* queryNum is counted down, and 0 answers.
Lrange(r) ==
  /\ OnDb(DbCmd("lrange", r))
  /\ db' = Tail(db)
  /\ req' = [req EXCEPT ![r].left = req[r].left - 1,
                        ![r].stage = IF req[r].left = 1 THEN "answered" ELSE "serve"]
  /\ UNCHANGED <<redis, sessionObj, lastId, pipe, browsers, logs>>

DbStep == \E r \in Request : Hgetall(r) \/ Exists(r) \/ Hmset(r) \/ Query(r) \/ Lrange(r)

-----------------------------------------------------------------------------
OnPipe(c) == pipe # <<>> /\ Head(pipe) = c

(* CheckSession has let r pass: its page asks redisDB, or, for a list nobody
   knows or a group that is not named, is answered at once.                  *)
Serve(r, cookie) ==
  \/ /\ db' = Append(db, DbCmd("query", r))
     /\ req' = [req EXCEPT ![r].stage = "serve", ![r].newSession = cookie]
  \/ /\ req[r].url = "data"
     /\ req' = Answer(r, cookie, None)
     /\ UNCHANGED db

\* The session is there and has the id that was presented.
Matches(r) == store[req[r].user] # None /\ store[req[r].user].id = req[r].cookie

GetRefused(r) ==
  /\ OnPipe(DbCmd("get", r))
  /\ ~Matches(r)
  /\ pipe' = Tail(pipe)
  /\ req' = Redirect(r)
  /\ UNCHANGED <<redis, sessionObj, lastId, db, browsers, logs>>

\* It matches and is not older than 30 minutes.
GetFresh(r) ==
  /\ OnPipe(DbCmd("get", r))
  /\ Matches(r) /\ ~store[req[r].user].old
  /\ pipe' = Tail(pipe)
  /\ Serve(r, None)
  /\ UNCHANGED <<redis, sessionObj, lastId, browsers, logs>>

\* It is older: UpdateSession makes a new id and asks for the time to live.
GetOld(r) ==
  /\ OnPipe(DbCmd("get", r))
  /\ Matches(r) /\ store[req[r].user].old
  /\ NewId
  /\ pipe' = Append(Tail(pipe), DbCmd("ttl", r))
  /\ req' = At(r, "ttl")
  /\ UNCHANGED <<redis, db, browsers, owner, out, contested, registered, racing>>

\* Mutant: the reply of TTL is not looked at.
LongLived_Always(u) == TRUE

LongLived(u) == store[u] # None /\ store[u].ttl = "week"

\* Mutant: the new id is stored but the cookie is not sent.
TtlRefresh_NoCookie(r) ==
  LET u == req[r].user IN
  /\ OnPipe(DbCmd("ttl", r))
  /\ LongLived(u)
  /\ pipe' = Tail(pipe) \o <<SetSession(u, sessionObj, r), Expire(u)>>
  /\ Serve(r, None)
  /\ owner' = [owner EXCEPT ![u] = req[r].browser]
  /\ UNCHANGED <<redis, sessionObj, lastId, browsers, out, mixed, contested, registered, racing>>

\* Enough time is left: the session is stored anew, with what sessionObj holds now.
TtlRefresh(r) ==
  LET u == req[r].user IN
  /\ OnPipe(DbCmd("ttl", r))
  /\ LongLived(u)
  /\ pipe' = Tail(pipe) \o <<SetSession(u, sessionObj, r), Expire(u)>>
  /\ Serve(r, sessionObj)
  /\ owner' = [owner EXCEPT ![u] = req[r].browser]
  /\ UNCHANGED <<redis, sessionObj, lastId, browsers, out, mixed, contested, registered, racing>>

\* Else the session is deleted and the user has to log in.
TtlTooLate(r) ==
  LET u == req[r].user IN
  /\ OnPipe(DbCmd("ttl", r))
  /\ ~LongLived(u)
  /\ pipe' = Append(Tail(pipe), Del(u))
  /\ req' = Answer(r, 0, None)
  /\ racing' = racing \cup (Refreshing(u) \ {r})
  /\ UNCHANGED <<redis, sessionObj, lastId, db, browsers, owner, out, mixed, contested, registered>>

\* SET, EXPIRE and DEL, whose callbacks only print.
StoreSession(u, session) ==
  /\ pipe' = Tail(pipe)
  /\ store' = [store EXCEPT ![u] = session]
  /\ UNCHANGED <<account, sessionObj, lastId, db, req, browsers, logs>>

Set(r, u, id) ==
  /\ OnPipe(SetSession(u, id, r))
  /\ StoreSession(u, [id |-> id, old |-> FALSE, ttl |-> "none"])

ExecExpire(u) ==
  /\ OnPipe(Expire(u))
  /\ StoreSession(u, IF store[u] = None THEN None ELSE [store[u] EXCEPT !.ttl = "week"])

ExecDel(u) == OnPipe(Del(u)) /\ StoreSession(u, None)

SetStep == \E r \in Request, u \in User, id \in Ids : Set(r, u, id)

PipeStep ==
  \/ \E r \in Request :
       GetRefused(r) \/ GetFresh(r) \/ GetOld(r) \/ TtlRefresh(r) \/ TtlTooLate(r)
  \/ SetStep
  \/ \E u \in User : ExecExpire(u) \/ ExecDel(u)

-----------------------------------------------------------------------------
(* The answer arrives.  Without a path the session cookie is one of "/data" if
   the request was below it, else one of "/".                                *)
Receive(r) ==
  LET b == req[r].browser
      url == req[r].url
      cookie == req[r].newSession
      kept == [jar[b] EXCEPT !.user = IF req[r].newUser = None THEN @ ELSE req[r].newUser]
  IN
  /\ req[r].stage = "answered"
  /\ req' = [req EXCEPT ![r] = [Unsent EXCEPT !.stage = "received", !.url = url]]
  /\ jar' = [jar EXCEPT ![b] =
       IF cookie = None THEN kept
       ELSE IF url = "data" THEN [kept EXCEPT !.data = cookie]
       ELSE [kept EXCEPT !.root = cookie]]
  /\ out' = IF url = "logout" THEN out \cup {b}
            ELSE IF req[r].newUser # None THEN out \ {b} ELSE out
  /\ UNCHANGED <<redis, sessionObj, lastId, db, pipe, overlapped, aged,
                 owner, mixed, contested, registered, racing>>

(* Time passes: 30 minutes, or all but 10 s of the week, or all of it.  Between
   a TTL of 10 s or more and the SET that follows it less passes.            *)
Ages(u, session) ==
  /\ store[u] # None
  /\ store' = [store EXCEPT ![u] = session]
  /\ aged < MaxAges /\ aged' = aged + 1
  /\ UNCHANGED <<account, sessionObj, lastId, db, pipe, req, jar, overlapped, logs>>

HalfHour(u) == store[u] # None /\ ~store[u].old /\ Ages(u, [store[u] EXCEPT !.old = TRUE])

NearEnd(u) == LongLived(u) /\ Ages(u, [store[u] EXCEPT !.ttl = "short"])

SetQueued(u) == \E i \in 1..Len(pipe) : pipe[i].op = "set" /\ pipe[i].user = u

Lapse(u) ==
  /\ store[u] # None /\ store[u].ttl = "short"
  /\ ~SetQueued(u)
  /\ Ages(u, None)

Browse ==
  \E r \in Request, b \in Browser :
    \/ \E u \in User : PostLogin(r, b, u) \/ PostRegister(r, b, u)
    \/ \E url \in {"chat", "data"} : GetPage(r, b, url) \/ GetPageUnknown(r, b, url)
    \/ GetLogout(r, b)

Time == \E u \in User : HalfHour(u) \/ NearEnd(u) \/ Lapse(u)

SessionNext == Browse \/ DbStep \/ PipeStep \/ (\E r \in Request : Receive(r)) \/ Time

SessionSpec == SessionInit /\ [][SessionNext]_sessionVars

-----------------------------------------------------------------------------
Busy(b) == \E r \in Request : UnderWay(r) /\ req[r].browser = b

\* A SET or DEL of the session of u is queued.
Changing(u) == SetQueued(u) \/ \E i \in 1..Len(pipe) : pipe[i] = Del(u)

(* A browser that asks one thing at a time and made the session of u, by login
   or by a refresh, holds its id in one of its two cookies, whatever the others
   do: the answer carried what was stored, though both came from sessionObj.
   (It may still present the other cookie: server.js:32.)                    *)
CookieFollowsStore ==
  \A u \in User, b \in Browser :
    /\ owner[u] = b /\ jar[b].user = u /\ b \notin overlapped
    /\ ~Busy(b) /\ ~Changing(u) /\ store[u] # None
    => store[u].id \in {jar[b].root, jar[b].data}

(* After its logout a browser presents no id the store knows, though
   server.js:395 clears only the cookie of "/", unless a refresh was under way
   when the session was deleted.                                             *)
LogoutHolds ==
  \A b \in out \ overlapped, u \in User :
    /\ jar[b].user = u /\ ~Busy(b) /\ ~Changing(u) /\ store[u] # None
    /\ racing = {} /\ mixed = {}
    => store[u].id \notin {jar[b].root, jar[b].data}

(* Two users have sessions with the same id only if sessionObj was given a new
   id while one of them waited for TTL (server.js:444-450).                  *)
IdsApart ==
  \A u, v \in User :
    /\ u # v /\ store[u] # None /\ store[v] # None
    /\ store[u].id = store[v].id
    => mixed \cap {u, v} # {}

(* A refresh brings a session that was deleted or has lapsed to life again only
   if it was past its GET when the DEL was queued (server.js:448-451).       *)
RevivedOnlyByRace ==
  [][\A r \in Request, u \in User, id \in Ids :
       /\ store[u] = None /\ req[r].url \in {"chat", "data"}
       /\ Set(r, u, id)
       => r \in racing]_sessionVars

(* Who has registered a name keeps it, and the password, unless two requests to
   register it were under way at once: EXISTS and HMSET are two steps
   (server.js:152-162).                                                      *)
RegistrationLasts ==
  \A up \in registered : up[1] \notin contested => account[up[1]] = up[2]

(* A request that has no answer yet waits for a command of its own that is
   queued, or for as many as there are groups to read, and one that has its
   answer waits for nothing: no branch of the handlers forgets to answer or
   answers twice, as long as Redis replies without an error.                 *)
Awaited(r) ==
  CASE req[r].stage \in {"unsent", "answered", "received"} -> 0
    [] req[r].stage = "serve" /\ req[r].left > 0 -> req[r].left
    [] OTHER -> 1

AnsweredOnce ==
  \A r \in Request :
    Awaited(r) = Cardinality({i \in 1..Len(db) : db[i].req = r})
                 + Cardinality({i \in 1..Len(pipe) : pipe[i] \in {DbCmd("get", r), DbCmd("ttl", r)}})
=============================================================================
