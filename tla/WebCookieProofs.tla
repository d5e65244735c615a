-------------------------- MODULE WebCookieProofs ---------------------------
(* Theorems of WebSession about the sessions in Redis and the browsers' cookies:
   what the steps do to them, and the four properties that follow, for any users
   and browsers and any number of requests under way at once.                *)
EXTENDS WebSessionProofs

-----------------------------------------------------------------------------
(* What the steps do to sessions, cookies and what redisSession has queued.  *)

\* Of what is queued the first e commands are taken and k are added.
PipeKeeps(e, k) ==
  /\ Len(pipe) \in Nat /\ e \in {0, 1} /\ e <= Len(pipe)
  /\ Len(pipe') = (Len(pipe) - e) + k
  /\ \A i \in 1..(Len(pipe) - e) : pipe'[i] = pipe[i + e]

\* A jar with what the answer of the request x sets.
JarWith(j, x) ==
  LET kept == [j EXCEPT !.user = IF x.newUser = None THEN @ ELSE x.newUser]
  IN  IF x.newSession = None THEN kept
      ELSE IF x.url = "data" THEN [kept EXCEPT !.data = x.newSession]
      ELSE [kept EXCEPT !.root = x.newSession]

\* The jar of b once the answer of its request r, if it has one, has arrived.
AfterAnswer(b, r) == JarWith(jar[b], req[r])

\* The parts of a step in which b sends r.
Sent(r, b) ==
  /\ r \in Request /\ b \in Browser /\ req[r].stage = "unsent"
  /\ Rest(r) /\ req'[r].browser = b /\ req'[r].newUser = None
  /\ overlapped' = overlapped \cup
       {c \in {b} : \E q \in Request : UnderWay(q) /\ req[q].browser = c}
  /\ UNCHANGED <<store, sessionObj, lastId, jar, owner, out, mixed>>

SentForm(r, b) ==
  /\ Sent(r, b) /\ PipeKeeps(0, 0) /\ racing' = racing
  /\ req'[r].stage = "db" /\ req'[r].url \in {"login", "register"} /\ req'[r].newSession = None

SentUnknown(r, b) ==
  /\ Sent(r, b) /\ PipeKeeps(0, 0) /\ racing' = racing
  /\ req'[r].stage = "answered" /\ req'[r].url \in {"chat", "data"}
  /\ req'[r].newSession = None /\ req'[r].user = jar[b].user

SentPage(r, b) ==
  /\ Sent(r, b) /\ PipeKeeps(0, 1) /\ pipe'[Len(pipe) + 1] = DbCmd("get", r) /\ racing' = racing
  /\ req'[r].stage = "get" /\ req'[r].url \in {"chat", "data"}
  /\ req'[r].newSession = None /\ req'[r].user = jar[b].user
  /\ req'[r].cookie \in {jar[b].root, jar[b].data} \cap Ids

SentLogout(r, b) ==
  /\ Sent(r, b) /\ jar[b].user \in User
  /\ PipeKeeps(0, 1) /\ pipe'[Len(pipe) + 1] = Del(jar[b].user)
  /\ racing' = racing \cup Refreshing(jar[b].user)
  /\ req'[r].stage = "answered" /\ req'[r].url = "logout"
  /\ req'[r].newSession = 0 /\ req'[r].user = jar[b].user

\* A new id.
IdTaken ==
  /\ lastId' = lastId + 1 /\ sessionObj' = lastId + 1
  /\ mixed' = mixed \cup {u \in User : Refreshing(u) # {}}

\* The end of a login or registration.
LoggedInBy(r) ==
  /\ r \in Request /\ req[r].stage \in {"db", "hmset"} /\ req[r].url \in {"login", "register"}
  /\ req[r].user \in User /\ req[r].browser \in Browser
  /\ Rewrites(req', r) /\ IdTaken
  /\ req'[r].stage = "answered"
  /\ req'[r].newSession = lastId + 1 /\ req'[r].newUser = req[r].user
  /\ PipeKeeps(0, 2)
  /\ pipe'[Len(pipe) + 1] = SetSession(req[r].user, lastId + 1, r)
  /\ pipe'[Len(pipe) + 2] = Expire(req[r].user)
  /\ owner' = [owner EXCEPT ![req[r].user] = req[r].browser]
  /\ UNCHANGED <<store, jar, overlapped, out, racing>>

\* A callback of redisDB that changes no session, and one of a GET.
Handled(r, e) ==
  /\ r \in Request /\ Rewrites(req', r) /\ PipeKeeps(e, 0)
  /\ UNCHANGED <<store, sessionObj, lastId, jar, overlapped, owner, out, mixed, racing>>

DbHandled(r) ==
  /\ Handled(r, 0)
  /\ \/ req[r].stage = "db" /\ req'[r].stage \in {"hmset", "answered"}
     \/ req[r].stage = "serve" /\ req'[r].stage \in {"serve", "answered"}
  /\ \/ req'[r].newSession = req[r].newSession /\ req'[r].newUser = req[r].newUser
     \/ req[r].stage = "db" /\ req'[r].newSession = None /\ req'[r].newUser = None

GetHandled(r) ==
  /\ Handled(r, 1) /\ pipe[1] = DbCmd("get", r) /\ req[r].stage = "get"
  /\ req'[r].stage \in {"serve", "answered"} /\ (~Matches(r) => req'[r].stage = "answered")
  /\ req'[r].newSession = None /\ req'[r].newUser \in {None, req[r].newUser}

\* GET finds the session that was presented, but older than 30 minutes.
RefreshBegun(r) ==
  /\ r \in Request /\ Rewrites(req', r) /\ IdTaken
  /\ req[r].stage = "get" /\ pipe[1] = DbCmd("get", r) /\ Matches(r)
  /\ PipeKeeps(1, 1) /\ pipe'[Len(pipe)] = DbCmd("ttl", r)
  /\ req'[r].stage = "ttl"
  /\ req'[r].newSession = req[r].newSession /\ req'[r].newUser = req[r].newUser
  /\ UNCHANGED <<store, jar, overlapped, owner, out, racing>>

\* TTL leaves time enough: it is stored anew.
RefreshDone(r) ==
  /\ r \in Request /\ Rewrites(req', r) /\ req[r].user \in User /\ req[r].browser \in Browser
  /\ req[r].stage = "ttl" /\ pipe[1] = DbCmd("ttl", r) /\ LongLived(req[r].user)
  /\ req[r].url \in {"chat", "data"}
  /\ PipeKeeps(1, 2)
  /\ pipe'[Len(pipe)] = SetSession(req[r].user, sessionObj, r)
  /\ pipe'[Len(pipe) + 1] = Expire(req[r].user)
  /\ req'[r].stage \in {"serve", "answered"}
  /\ req'[r].newSession = sessionObj /\ req'[r].newUser \in {None, req[r].newUser}
  /\ owner' = [owner EXCEPT ![req[r].user] = req[r].browser]
  /\ UNCHANGED <<store, sessionObj, lastId, jar, overlapped, out, mixed, racing>>

\* It does not.
RefreshDenied(r) ==
  /\ r \in Request /\ Rewrites(req', r) /\ req[r].user \in User
  /\ req[r].stage = "ttl" /\ pipe[1] = DbCmd("ttl", r)
  /\ req[r].url \in {"chat", "data"}
  /\ PipeKeeps(1, 1) /\ pipe'[Len(pipe)] = Del(req[r].user)
  /\ req'[r].stage = "answered" /\ req'[r].newSession = 0 /\ req'[r].newUser = None
  /\ racing' = racing \cup (Refreshing(req[r].user) \ {r})
  /\ UNCHANGED <<store, sessionObj, lastId, jar, overlapped, owner, out, mixed>>

\* The session of u, and nothing else but the queue, changes.
OnStore(u, e) ==
  /\ u \in User /\ PipeKeeps(e, 0)
  /\ \A v \in User : v # u => store'[v] = store[v]
  /\ UNCHANGED <<req, sessionObj, lastId, jar, overlapped, owner, out, mixed, racing>>

Stored(u) ==
  /\ OnStore(u, 1)
  /\ pipe[1].op = "set" /\ pipe[1].user = u
  /\ store'[u] # None /\ store'[u].id = pipe[1].id /\ pipe[1].id \in Ids /\ pipe[1].req \in Request

Deleted(u) ==
  /\ OnStore(u, 1) /\ pipe[1].op = "del" /\ pipe[1].user = u
  /\ store'[u] = None

Lapsed(u) == OnStore(u, 0) /\ store'[u] = None /\ ~SetQueued(u)

Timed(u, e) ==
  /\ OnStore(u, e) /\ (e = 1 => pipe[1].op = "expire")
  /\ (store'[u] = None) = (store[u] = None)
  /\ store[u] # None => store'[u].id = store[u].id

\* The answer of r arrives.
Received(r) ==
  /\ r \in Request /\ req[r].stage = "answered" /\ Rest(r) /\ req[r].browser \in Browser
  /\ req'[r].stage = "received" /\ req'[r].url = req[r].url
  /\ req'[r].newSession = None /\ req'[r].newUser = None
  /\ jar' = [jar EXCEPT ![req[r].browser] = AfterAnswer(req[r].browser, r)]
  /\ out' = IF req[r].url = "logout" THEN out \cup {req[r].browser}
            ELSE IF req[r].newUser # None THEN out \ {req[r].browser} ELSE out
  /\ PipeKeeps(0, 0)
  /\ UNCHANGED <<store, sessionObj, lastId, overlapped, owner, mixed, racing>>

Stutters ==
  /\ PipeKeeps(0, 0)
  /\ UNCHANGED <<store, req, sessionObj, lastId, jar, overlapped, owner, out, mixed, racing>>

StepIs ==
  \/ \E r, b : SentForm(r, b) \/ SentUnknown(r, b) \/ SentPage(r, b) \/ SentLogout(r, b)
  \/ \E r : \/ LoggedInBy(r) \/ DbHandled(r) \/ GetHandled(r)
            \/ RefreshBegun(r) \/ RefreshDone(r) \/ RefreshDenied(r) \/ Received(r)
  \/ \E u : Stored(u) \/ Deleted(u) \/ Lapsed(u) \/ Timed(u, 0) \/ Timed(u, 1)
  \/ Stutters

\* The queue as it is, longer, and shorter.
LEMMA StayKeeps ==
  ASSUME Core, pipe' = pipe
  PROVE  PipeKeeps(0, 0)
BY LenProperties DEF PipeKeeps, Core, Typed

LEMMA PushKeeps ==
  ASSUME Core, NEW c \in PipeCommand, pipe' = Append(pipe, c)
  PROVE  PipeKeeps(0, 1) /\ pipe'[Len(pipe) + 1] = c
BY AppendProperties, LenProperties DEF PipeKeeps, Core, Typed

LEMMA PopKeeps ==
  ASSUME Core, NEW c, OnPipe(c), pipe' = Tail(pipe)
  PROVE  PipeKeeps(1, 0) /\ pipe[1] = c
BY PipeHead DEF PipeKeeps, Moves

LEMMA PopPushKeeps ==
  ASSUME Core, NEW c, OnPipe(c), NEW x \in PipeCommand, pipe' = Append(Tail(pipe), x)
  PROVE  PipeKeeps(1, 1) /\ pipe[1] = c /\ pipe'[Len(pipe)] = x
<1>. DEFINE es == <<x>>
<1>1. pipe # <<>> /\ Len(pipe) \in Nat \ {0} /\ pipe[1] = c
  BY PipeHead
<1>2. Moves(pipe, pipe', 1, es)
  BY <1>1, TailAppendMoves DEF Core, Typed
<1>3. Len(es) = 1 /\ es[1] = x /\ (Len(pipe) - 1) + 1 = Len(pipe)
  BY <1>1
<1>. HIDE DEF es
<1>. QED
  BY <1>1, <1>2, <1>3 DEF PipeKeeps, Moves

LEMMA LogsInIs ==
  ASSUME Core, NEW r \in Request, NEW op, op \in {"hgetall", "hmset"}, OnDb(DbCmd(op, r)), LogsIn(r),
         UNCHANGED <<store, jar, overlapped, out, racing>>
  PROVE  LoggedInBy(r)
<1>. DEFINE s == SetSession(req[r].user, lastId + 1, r)
            x == Expire(req[r].user)
            es == <<s, x>>
<1>1. DbFits(DbCmd(op, r), req)
  BY DbHead
<1>2. req[r].stage \in {"db", "hmset"}
  BY <1>1, CommandsTyped DEF DbFits
<1>3. req[r].url \in {"login", "register"} /\ req[r].user \in User /\ req[r].browser \in Browser
  BY <1>2 DEF Core, Fits, RequestFits
<1>4. /\ Rewrites(req', r) /\ req'[r].stage = "answered"
      /\ req'[r].newSession = lastId + 1 /\ req'[r].newUser = req[r].user
      /\ Moves(pipe, pipe', 0, es)
  BY <1>2, LogsInEffect
<1>5. /\ IdTaken /\ owner' = [owner EXCEPT ![req[r].user] = req[r].browser]
  BY DEF LogsIn, NewId, IdTaken
<1>6. Len(es) = 2 /\ es[1] = s /\ es[2] = x /\ Len(pipe) \in Nat
  BY LenProperties DEF Core, Typed
<1>. HIDE DEF es, s, x
<1>7. /\ PipeKeeps(0, 2) /\ pipe'[Len(pipe) + 1] = s /\ pipe'[Len(pipe) + 2] = x
  BY <1>4, <1>6 DEF Moves, PipeKeeps
<1>. QED
  BY <1>2, <1>3, <1>4, <1>5, <1>7 DEF LoggedInBy, s, x

LEMMA TtlRefreshIs ==
  ASSUME Core, NEW r \in Request, TtlRefresh(r)
  PROVE  RefreshDone(r)
<1>. DEFINE u == req[r].user
            s == SetSession(u, sessionObj, r)
            x == Expire(u)
            es == <<s, x>>
<1>1. /\ OnPipe(DbCmd("ttl", r)) /\ pipe' = Tail(pipe) \o es /\ Serve(r, sessionObj)
      /\ owner' = [owner EXCEPT ![u] = req[r].browser] /\ LongLived(u)
      /\ UNCHANGED <<store, sessionObj, lastId, jar, overlapped, out, mixed, racing>>
  BY DEF TtlRefresh, redis, browsers
<1>2. /\ PipeFits(DbCmd("ttl", r), req) /\ pipe # <<>> /\ Len(pipe) \in Nat \ {0}
      /\ pipe[1] = DbCmd("ttl", r)
  BY <1>1, PipeHead
<1>3. req[r].stage = "ttl"
  BY <1>2, CommandsTyped DEF PipeFits
<1>4. /\ u \in User /\ req[r].browser \in Browser /\ req[r].url \in {"chat", "data"}
      /\ sessionObj \in Ids /\ sessionObj \in Cookie
  <2>1. sessionObj \in Ids
    BY SessionAssumption DEF Core, Typed, Ids
  <2>. QED
    BY <1>3, <2>1 DEF Core, Fits, RequestFits, Cookie
<1>5. /\ Rewrites(req', r) /\ req'[r].stage \in {"serve", "answered"}
      /\ req'[r].newSession = sessionObj /\ req'[r].newUser \in {None, req[r].newUser}
  BY <1>1, <1>3, <1>4, ServeEffect
<1>6. s \in PipeCommand /\ x \in PipeCommand
  BY <1>4, CommandsTyped
<1>7. es \in Seq(PipeCommand) /\ Len(es) = 2 /\ es[1] = s /\ es[2] = x
  BY <1>6
<1>. HIDE DEF es, s, x
<1>8. Moves(pipe, pipe', 1, es)
  BY <1>1, <1>2, <1>7, PopMoves DEF Core, Typed
<1>9. (Len(pipe) - 1) + 1 = Len(pipe) /\ (Len(pipe) - 1) + 2 = Len(pipe) + 1
  BY <1>2
<1>10. PipeKeeps(1, 2) /\ pipe'[Len(pipe)] = s /\ pipe'[Len(pipe) + 1] = x
  BY <1>2, <1>7, <1>8, <1>9 DEF Moves, PipeKeeps
<1>. QED
  BY <1>1, <1>2, <1>3, <1>4, <1>5, <1>10 DEF RefreshDone, s, x

LEMMA BrowseIs ==
  ASSUME Core, Browse
  PROVE  \E r, b : SentForm(r, b) \/ SentUnknown(r, b) \/ SentPage(r, b) \/ SentLogout(r, b)
<1>1. PICK r \in Request, b \in Browser :
        \/ \E u \in User : PostLogin(r, b, u) \/ PostRegister(r, b, u)
        \/ \E url \in {"chat", "data"} : GetPage(r, b, url) \/ GetPageUnknown(r, b, url)
        \/ GetLogout(r, b)
  BY DEF Browse
<1>2. ASSUME NEW url, NEW u, NEW cookie, NEW stage, NEW answer,
             Sends(r, b, url, u, cookie, stage, answer),
             UNCHANGED <<store, sessionObj, lastId, jar, owner, out, mixed>>
      PROVE  /\ Sent(r, b)
             /\ req'[r].stage = stage /\ req'[r].url = url /\ req'[r].user = u
             /\ req'[r].cookie = cookie /\ req'[r].newSession = answer
  BY <1>2 DEF Sends, Sent, Rest, Core, Typed
<1>3. ASSUME NEW u \in User, PostLogin(r, b, u) \/ PostRegister(r, b, u) PROVE SentForm(r, b)
  <2>1. PICK url \in {"login", "register"} : Sends(r, b, url, u, None, "db", None)
    BY <1>3 DEF PostLogin, PostRegister
  <2>2. UNCHANGED <<store, sessionObj, lastId, jar, owner, out, mixed, pipe, racing>>
    BY <1>3 DEF PostLogin, PostRegister, redis, logs
  <2>. QED
    BY <1>2, <2>1, <2>2, StayKeeps DEF SentForm
<1>4. ASSUME NEW url \in {"chat", "data"}, GetPage(r, b, url) PROVE SentPage(r, b)
  <2>1. /\ Sends(r, b, url, jar[b].user, Presented(b, url), "get", None)
        /\ UNCHANGED <<store, sessionObj, lastId, jar, owner, out, mixed, racing>>
        /\ pipe' = Append(pipe, DbCmd("get", r))
    BY <1>4 DEF GetPage, redis, logs
  <2>2. Presented(b, url) \in {jar[b].root, jar[b].data} \cap Ids
    <3>1. jar[b] \in Jar
      BY DEF Core, Typed
    <3>2. jar[b].root \in Ids \cup {0, None} /\ jar[b].data \in Ids \cup {0, None}
      BY <3>1 DEF Jar, Cookie
    <3>. QED
      BY <1>4, <3>2 DEF GetPage, Recognised, Presented
  <2>3. DbCmd("get", r) \in PipeCommand
    BY CommandsTyped
  <2>. QED
    BY <1>2, <2>1, <2>2, <2>3, PushKeeps DEF SentPage
<1>5. ASSUME NEW url \in {"chat", "data"}, GetPageUnknown(r, b, url) PROVE SentUnknown(r, b)
  <2>1. /\ Sends(r, b, url, jar[b].user, Presented(b, url), "answered", None)
        /\ UNCHANGED <<store, sessionObj, lastId, jar, owner, out, mixed, racing, pipe>>
    BY <1>5 DEF GetPageUnknown, redis, logs
  <2>. QED
    BY <1>2, <2>1, StayKeeps DEF SentUnknown
<1>6. ASSUME GetLogout(r, b) PROVE SentLogout(r, b)
  <2>1. /\ Sends(r, b, "logout", jar[b].user, None, "answered", 0)
        /\ UNCHANGED <<store, sessionObj, lastId, jar, owner, out, mixed>>
        /\ pipe' = Append(pipe, Del(jar[b].user))
        /\ racing' = racing \cup Refreshing(jar[b].user)
        /\ jar[b].user # None
    BY <1>6 DEF GetLogout, redis
  <2>2. jar[b].user \in User
    BY <2>1 DEF Core, Typed, Jar
  <2>3. Del(jar[b].user) \in PipeCommand
    BY <2>2, CommandsTyped
  <2>. QED
    BY <1>2, <2>1, <2>2, <2>3, PushKeeps DEF SentLogout
<1>. QED
  BY <1>1, <1>3, <1>4, <1>5, <1>6

LEMMA DbIs ==
  ASSUME Core, NEW r \in Request, Hgetall(r) \/ Exists(r) \/ Hmset(r) \/ Query(r) \/ Lrange(r)
  PROVE  LoggedInBy(r) \/ DbHandled(r)
<1>1. Typed
  BY DEF Core
<1>2. ASSUME NEW op, OnDb(DbCmd(op, r))
      PROVE  /\ op \in {"hgetall", "exists"} => req[r].stage = "db"
             /\ op \in {"query", "lrange"} => req[r].stage = "serve"
  <2>1. DbFits(DbCmd(op, r), req)
    BY <1>2, DbHead
  <2>. QED
    BY <2>1, CommandsTyped DEF DbFits
<1>3. ASSUME req' = Redirect(r), req[r].stage = "db", pipe' = pipe,
             UNCHANGED <<store, sessionObj, lastId, jar, overlapped, owner, out, mixed, racing>>
      PROVE  DbHandled(r)
  BY <1>1, <1>3, RedirectEffect, StayKeeps DEF DbHandled, Handled
<1>4. CASE Hgetall(r)
  <2>1. /\ OnDb(DbCmd("hgetall", r)) /\ req[r].stage = "db"
        /\ UNCHANGED <<store, jar, overlapped, out, racing>>
    BY <1>2, <1>4 DEF Hgetall, redis, browsers
  <2>. QED
    BY <1>3, <1>4, <2>1, LogsInIs DEF Hgetall
<1>5. CASE Exists(r)
  <2>1. /\ req[r].stage = "db" /\ pipe' = pipe
        /\ UNCHANGED <<store, sessionObj, lastId, jar, overlapped, owner, out, mixed, racing>>
    BY <1>2, <1>5 DEF Exists, redis, browsers, logs
  <2>2. CASE req' = At(r, "hmset")
    <3>1. "hmset" \in Stages
      BY DEF Stages
    <3>. QED
      BY <1>1, <2>1, <2>2, <3>1, AtEffect, StayKeeps DEF DbHandled, Handled
  <2>. QED
    BY <1>3, <1>5, <2>1, <2>2 DEF Exists
<1>6. CASE Hmset(r)
  <2>1. OnDb(DbCmd("hmset", r)) /\ LogsIn(r) /\ UNCHANGED <<store, jar, overlapped, out, racing>>
    BY <1>6 DEF Hmset, browsers
  <2>. QED
    BY <2>1, LogsInIs
<1>7. CASE Query(r) \/ Lrange(r)
  <2>1. /\ req[r].stage = "serve" /\ pipe' = pipe
        /\ UNCHANGED <<store, sessionObj, lastId, jar, overlapped, owner, out, mixed, racing>>
    BY <1>2, <1>7 DEF Query, Lrange, redis, browsers, logs
  <2>2. PICK n, stage :
          /\ req' = [req EXCEPT ![r].left = n, ![r].stage = stage]
          /\ stage \in {"serve", "answered"}
    <3>1. CASE Query(r)
      BY <3>1 DEF Query
    <3>2. CASE Lrange(r)
      BY <3>2 DEF Lrange
    <3>. QED
      BY <1>7, <3>1, <3>2
  <2>3. /\ \A q \in Request : q # r => req'[q] = req[q]
        /\ req'[r] = [req[r] EXCEPT !.left = n, !.stage = stage]
    BY <1>1, <2>2 DEF Typed
  <2>4. req[r] \in Requests
    BY <1>1 DEF Typed
  <2>5. /\ req'[r].stage = stage
        /\ req'[r].url = req[r].url /\ req'[r].browser = req[r].browser
        /\ req'[r].user = req[r].user /\ req'[r].cookie = req[r].cookie
        /\ req'[r].newSession = req[r].newSession /\ req'[r].newUser = req[r].newUser
    BY <2>3, <2>4 DEF Requests
  <2>6. req' \in [Request -> Requests]
    BY <1>7, DbCore DEF DbStep, Core, Typed
  <2>7. Rewrites(req', r)
    BY <2>3, <2>5, <2>6 DEF Rewrites
  <2>8. Handled(r, 0)
    BY <2>1, <2>7, StayKeeps DEF Handled
  <2>. QED
    BY <2>1, <2>2, <2>5, <2>8 DEF DbHandled
<1>. QED
  BY <1>4, <1>5, <1>6, <1>7

LEMMA PipeIs ==
  ASSUME Core, PipeStep
  PROVE  \/ \E r : GetHandled(r) \/ RefreshBegun(r) \/ RefreshDone(r) \/ RefreshDenied(r)
         \/ \E u : Stored(u) \/ Deleted(u) \/ Timed(u, 1)
<1>1. Typed
  BY DEF Core
<1>2. ASSUME NEW r \in Request, NEW op, OnPipe(DbCmd(op, r)), op \in {"get", "ttl"}
      PROVE  req[r].stage = op
  BY <1>2, PipeHead, CommandsTyped DEF PipeFits
<1>3. ASSUME NEW r \in Request, GetRefused(r) PROVE GetHandled(r)
  <2>1. /\ OnPipe(DbCmd("get", r)) /\ pipe' = Tail(pipe) /\ req' = Redirect(r)
        /\ UNCHANGED <<store, sessionObj, lastId, jar, overlapped, owner, out, mixed, racing>>
    BY <1>3 DEF GetRefused, redis, browsers, logs
  <2>2. PipeKeeps(1, 0) /\ pipe[1] = DbCmd("get", r) /\ req[r].stage = "get"
    BY <1>2, <2>1, PopKeeps
  <2>3. /\ Rewrites(req', r) /\ req'[r].stage = "answered"
        /\ req'[r].newSession = None /\ req'[r].newUser = None
    BY <1>1, <2>1, RedirectEffect
  <2>. QED
    BY <2>1, <2>2, <2>3 DEF GetHandled, Handled
<1>4. ASSUME NEW r \in Request, GetFresh(r) PROVE GetHandled(r)
  <2>1. /\ OnPipe(DbCmd("get", r)) /\ pipe' = Tail(pipe) /\ Serve(r, None) /\ Matches(r)
        /\ UNCHANGED <<store, sessionObj, lastId, jar, overlapped, owner, out, mixed, racing>>
        /\ None \in Cookie
    BY <1>4 DEF GetFresh, redis, browsers, logs, Cookie
  <2>2. PipeKeeps(1, 0) /\ pipe[1] = DbCmd("get", r) /\ req[r].stage = "get"
    BY <1>2, <2>1, PopKeeps
  <2>3. /\ Rewrites(req', r) /\ req'[r].stage \in {"serve", "answered"}
        /\ req'[r].newSession = None /\ req'[r].newUser \in {None, req[r].newUser}
    BY <2>1, <2>2, ServeEffect
  <2>. QED
    BY <2>1, <2>2, <2>3 DEF GetHandled, Handled
<1>5. ASSUME NEW r \in Request, GetOld(r) PROVE RefreshBegun(r)
  <2>1. /\ OnPipe(DbCmd("get", r)) /\ pipe' = Append(Tail(pipe), DbCmd("ttl", r)) /\ req' = At(r, "ttl")
        /\ Matches(r) /\ IdTaken
        /\ UNCHANGED <<store, jar, overlapped, owner, out, racing>>
    BY <1>5 DEF GetOld, redis, browsers, NewId, IdTaken
  <2>2. DbCmd("ttl", r) \in PipeCommand /\ "ttl" \in Stages
    BY CommandsTyped DEF Stages
  <2>3. /\ PipeKeeps(1, 1) /\ pipe[1] = DbCmd("get", r) /\ req[r].stage = "get"
        /\ pipe'[Len(pipe)] = DbCmd("ttl", r)
    BY <1>2, <2>1, <2>2, PopPushKeeps
  <2>4. /\ Rewrites(req', r) /\ req'[r].stage = "ttl"
        /\ req'[r].newSession = req[r].newSession /\ req'[r].newUser = req[r].newUser
    BY <1>1, <2>1, <2>2, AtEffect
  <2>. QED
    BY <2>1, <2>3, <2>4 DEF RefreshBegun
<1>6. ASSUME NEW r \in Request, TtlTooLate(r) PROVE RefreshDenied(r)
  <2>1. /\ OnPipe(DbCmd("ttl", r)) /\ pipe' = Append(Tail(pipe), Del(req[r].user))
        /\ req' = Answer(r, 0, None)
        /\ racing' = racing \cup (Refreshing(req[r].user) \ {r})
        /\ UNCHANGED <<store, sessionObj, lastId, jar, overlapped, owner, out, mixed>>
    BY <1>6 DEF TtlTooLate, redis, browsers
  <2>2. /\ req[r].stage = "ttl" /\ req[r].user \in User /\ req[r].url \in {"chat", "data"}
    BY <1>2, <2>1 DEF Core, Fits, RequestFits
  <2>3. Del(req[r].user) \in PipeCommand /\ 0 \in Cookie /\ None \in User \cup {None}
    BY <2>2, CommandsTyped DEF Cookie
  <2>4. /\ PipeKeeps(1, 1) /\ pipe[1] = DbCmd("ttl", r) /\ pipe'[Len(pipe)] = Del(req[r].user)
    BY <2>1, <2>3, PopPushKeeps
  <2>5. /\ Rewrites(req', r) /\ req'[r].stage = "answered"
        /\ req'[r].newSession = 0 /\ req'[r].newUser = None
    BY <1>1, <2>1, <2>3, AnswerEffect
  <2>. QED
    BY <2>1, <2>2, <2>4, <2>5 DEF RefreshDenied
<1>7. ASSUME NEW u \in User, NEW session, NEW c, OnPipe(c), StoreSession(u, session)
      PROVE  OnStore(u, 1) /\ store'[u] = session /\ pipe[1] = c
  <2>1. /\ pipe' = Tail(pipe) /\ store' = [store EXCEPT ![u] = session]
        /\ UNCHANGED <<req, sessionObj, lastId, jar, overlapped, owner, out, mixed, racing>>
    BY <1>7 DEF StoreSession, browsers, logs
  <2>2. PipeKeeps(1, 0) /\ pipe[1] = c
    BY <1>7, <2>1, PopKeeps
  <2>. QED
    BY <1>1, <2>1, <2>2 DEF OnStore, Typed
<1>8. ASSUME NEW r \in Request, NEW u \in User, NEW id \in Ids, Set(r, u, id) PROVE Stored(u)
  <2>. DEFINE session == [id |-> id, old |-> FALSE, ttl |-> "none"]
  <2>1. session \in Session /\ session.id = id
    BY DEF Session
  <2>2. session # None
    BY <2>1, NoneAssumption
  <2>3. OnPipe(SetSession(u, id, r)) /\ StoreSession(u, session)
    BY <1>8 DEF Set
  <2>. HIDE DEF session
  <2>4. OnStore(u, 1) /\ store'[u] = session /\ pipe[1] = SetSession(u, id, r)
    BY <1>7, <2>3
  <2>. QED
    BY <2>1, <2>2, <2>4, CommandsTyped DEF Stored
<1>9. ASSUME NEW u \in User, ExecExpire(u) PROVE Timed(u, 1)
  <2>. DEFINE session == IF store[u] = None THEN None ELSE [store[u] EXCEPT !.ttl = "week"]
  <2>1. store[u] \in Session \cup {None}
    BY <1>1 DEF Typed
  <2>2. (session = None) = (store[u] = None) /\ (store[u] # None => session.id = store[u].id)
    <3>1. CASE store[u] = None
      BY <3>1
    <3>2. CASE store[u] # None
      <4>1. session \in Session /\ session.id = store[u].id
        BY <2>1, <3>2 DEF Session
      <4>. QED
        BY <3>2, <4>1, NoneAssumption
    <3>. QED
      BY <3>1, <3>2
  <2>3. OnPipe(Expire(u)) /\ StoreSession(u, session)
    BY <1>9 DEF ExecExpire
  <2>. HIDE DEF session
  <2>4. OnStore(u, 1) /\ store'[u] = session /\ pipe[1] = Expire(u)
    BY <1>7, <2>3
  <2>. QED
    BY <2>2, <2>4, CommandsTyped DEF Timed
<1>10. ASSUME NEW u \in User, ExecDel(u) PROVE Deleted(u)
  BY <1>7, <1>10, CommandsTyped DEF ExecDel, Deleted
<1>. QED
  BY <1>3, <1>4, <1>5, <1>6, <1>8, <1>9, <1>10, TtlRefreshIs DEF PipeStep, SetStep

LEMMA ReceiveIs ==
  ASSUME Core, NEW r \in Request, Receive(r)
  PROVE  Received(r)
<1>1. /\ req[r].stage = "answered" /\ req[r].browser \in Browser
      /\ UNCHANGED <<store, sessionObj, lastId, pipe, overlapped, owner, mixed, racing>>
  BY DEF Receive, redis, Core, Fits, RequestFits
<1>2. /\ Rest(r) /\ req'[r] = [Unsent EXCEPT !.stage = "received", !.url = req[r].url]
  BY DEF Receive, Rest, Core, Typed
<1>3. /\ jar' = [jar EXCEPT ![req[r].browser] = AfterAnswer(req[r].browser, r)]
      /\ out' = IF req[r].url = "logout" THEN out \cup {req[r].browser}
                ELSE IF req[r].newUser # None THEN out \ {req[r].browser} ELSE out
  BY DEF Receive, AfterAnswer, JarWith
<1>4. PipeKeeps(0, 0)
  BY <1>1, StayKeeps
<1>. QED
  BY <1>1, <1>2, <1>3, <1>4 DEF Received, Unsent

LEMMA TimeIs ==
  ASSUME Core, Time
  PROVE  \E u : Lapsed(u) \/ Timed(u, 0)
<1>1. Typed
  BY DEF Core
<1>2. ASSUME NEW u \in User, NEW session, Ages(u, session)
      PROVE  OnStore(u, 0) /\ store'[u] = session /\ store[u] \in Session
  <2>1. /\ pipe' = pipe /\ store' = [store EXCEPT ![u] = session] /\ store[u] # None
        /\ UNCHANGED <<req, sessionObj, lastId, jar, overlapped, owner, out, mixed, racing>>
    BY <1>2 DEF Ages, logs
  <2>. QED
    BY <1>1, <2>1, StayKeeps DEF OnStore, Typed
<1>3. ASSUME NEW u \in User, NEW session, session \in Session, session.id = store[u].id,
             Ages(u, session)
      PROVE  Timed(u, 0)
  BY <1>2, <1>3, NoneAssumption DEF Timed
<1>4. ASSUME NEW u \in User, HalfHour(u) PROVE Timed(u, 0)
  <2>. DEFINE session == [store[u] EXCEPT !.old = TRUE]
  <2>1. Ages(u, session)
    BY <1>4 DEF HalfHour
  <2>2. store[u] \in Session
    BY <1>2, <2>1
  <2>3. session \in Session /\ session.id = store[u].id
    BY <2>2 DEF Session
  <2>. HIDE DEF session
  <2>. QED
    BY <1>3, <2>1, <2>3
<1>5. ASSUME NEW u \in User, NearEnd(u) PROVE Timed(u, 0)
  <2>. DEFINE session == [store[u] EXCEPT !.ttl = "short"]
  <2>1. Ages(u, session)
    BY <1>5 DEF NearEnd
  <2>2. store[u] \in Session
    BY <1>2, <2>1
  <2>3. session \in Session /\ session.id = store[u].id
    BY <2>2 DEF Session
  <2>. HIDE DEF session
  <2>. QED
    BY <1>3, <2>1, <2>3
<1>6. ASSUME NEW u \in User, Lapse(u) PROVE Lapsed(u)
  BY <1>2, <1>6 DEF Lapse, Lapsed
<1>. QED
  BY <1>4, <1>5, <1>6 DEF Time

\* Every step is of one of these kinds.
LEMMA StepIsOne == Core /\ [SessionNext]_sessionVars => StepIs
<1>. SUFFICES ASSUME Core, [SessionNext]_sessionVars PROVE StepIs
  OBVIOUS
<1>1. CASE Browse
  BY <1>1, BrowseIs DEF StepIs
<1>2. CASE DbStep
  BY <1>2, DbIs DEF DbStep, StepIs
<1>3. CASE PipeStep
  BY <1>3, PipeIs DEF StepIs
<1>4. ASSUME NEW r \in Request, Receive(r) PROVE StepIs
  BY <1>4, ReceiveIs DEF StepIs
<1>5. CASE Time
  BY <1>5, TimeIs DEF StepIs
<1>6. CASE UNCHANGED sessionVars
  <2>1. /\ pipe' = pipe
        /\ UNCHANGED <<store, req, sessionObj, lastId, jar, overlapped, owner, out, mixed, racing>>
    BY <1>6 DEF sessionVars, redis, browsers, logs
  <2>. QED
    BY <2>1, StayKeeps DEF StepIs, Stutters
<1>. QED
  BY <1>1, <1>2, <1>3, <1>4, <1>5, <1>6 DEF SessionNext

-----------------------------------------------------------------------------
(* Answers.                                                                  *)
\* What an answer may set.
AnswerFits ==
  \A r \in Request :
    /\ req[r].stage \in {"unsent", "db", "hmset", "get", "ttl"} =>
         req[r].newSession = None /\ req[r].newUser = None
    /\ req[r].newUser # None => req[r].url \in {"login", "register"} /\ req[r].newSession \in Ids
    /\ req[r].url = "logout" => req[r].stage \in {"answered", "received"}
    /\ req[r].url = "logout" /\ req[r].stage = "answered" => req[r].newSession = 0
    /\ req[r].url \in {"login", "register"} /\ req[r].newUser = None => req[r].newSession = None
    /\ req[r].newSession \in Ids => req[r].newSession <= lastId

LEMMA AnswerFitsNext == Core /\ Core' /\ AnswerFits /\ StepIs => AnswerFits'
<1>. SUFFICES ASSUME Core, Core', AnswerFits, StepIs PROVE AnswerFits'
  OBVIOUS
<1>. DEFINE Good(x) ==
       /\ x.stage \in {"unsent", "db", "hmset", "get", "ttl"} =>
            x.newSession = None /\ x.newUser = None
       /\ x.newUser # None => x.url \in {"login", "register"} /\ x.newSession \in Ids
       /\ x.url = "logout" => x.stage \in {"answered", "received"}
       /\ x.url = "logout" /\ x.stage = "answered" => x.newSession = 0
       /\ x.url \in {"login", "register"} /\ x.newUser = None => x.newSession = None
       /\ x.newSession \in Ids => x.newSession <= lastId
<1>1. \A r \in Request : Good(req[r])
  BY DEF AnswerFits
<1>2. /\ lastId \in Ids /\ sessionObj \in Ids /\ sessionObj <= lastId /\ lastId \in Nat
      /\ None \notin Ids /\ 0 \notin Ids /\ None # 0
      /\ Ids \subseteq Nat
  BY SessionAssumption, NoneAssumption DEF Core, Typed, Ids
<1>3. \A r \in Request : req[r].newSession \in Ids => req[r].newSession \in Nat
  BY <1>2
<1>4. \A r \in Request : RequestFits(r)
  BY DEF Core, Fits
<1>5. SUFFICES ASSUME NEW r \in Request, Rest(r) \/ req' = req,
                      lastId' = lastId \/ lastId' = lastId + 1,
                      req' # req => Good(req[r])' 
      PROVE  AnswerFits'
  <2>1. ASSUME NEW r, NEW b, SentForm(r, b) \/ SentUnknown(r, b) \/ SentPage(r, b) \/ SentLogout(r, b)
        PROVE  r \in Request /\ Rest(r) /\ lastId' = lastId /\ Good(req[r])'
    BY <1>2, <2>1 DEF SentForm, SentUnknown, SentPage, SentLogout, Sent
  <2>2. ASSUME NEW r, LoggedInBy(r)
        PROVE  r \in Request /\ Rest(r) /\ lastId' = lastId + 1 /\ Good(req[r])'
    <3>1. lastId' \in Ids /\ None \notin User
      BY SessionAssumption DEF Core, Typed
    <3>. QED
      BY <1>2, <2>2, <3>1 DEF LoggedInBy, IdTaken, Rewrites, Rest
  <2>3. ASSUME NEW r, DbHandled(r)
        PROVE  r \in Request /\ Rest(r) /\ lastId' = lastId /\ Good(req[r])'
    BY <1>1, <1>2, <1>4, <2>3 DEF DbHandled, Handled, Rewrites, Rest, RequestFits
  <2>4. ASSUME NEW r, GetHandled(r)
        PROVE  r \in Request /\ Rest(r) /\ lastId' = lastId /\ Good(req[r])'
    BY <1>1, <1>2, <1>4, <2>4 DEF GetHandled, Handled, Rewrites, Rest, RequestFits
  <2>5. ASSUME NEW r, RefreshBegun(r)
        PROVE  r \in Request /\ Rest(r) /\ lastId' = lastId + 1 /\ Good(req[r])'
    BY <1>1, <1>2, <1>4, <2>5 DEF RefreshBegun, IdTaken, Rewrites, Rest, RequestFits
  <2>6. ASSUME NEW r, RefreshDone(r)
        PROVE  r \in Request /\ Rest(r) /\ lastId' = lastId /\ Good(req[r])'
    BY <1>1, <1>2, <2>6 DEF RefreshDone, Rewrites, Rest
  <2>7. ASSUME NEW r, RefreshDenied(r)
        PROVE  r \in Request /\ Rest(r) /\ lastId' = lastId /\ Good(req[r])'
    BY <1>2, <2>7 DEF RefreshDenied, Rewrites, Rest
  <2>8. ASSUME NEW r, Received(r)
        PROVE  r \in Request /\ Rest(r) /\ lastId' = lastId /\ Good(req[r])'
    BY <1>2, <2>8 DEF Received, Rest
  <2>9. ASSUME (\E u : Stored(u) \/ Deleted(u) \/ Lapsed(u) \/ Timed(u, 0) \/ Timed(u, 1)) \/ Stutters
        PROVE  req' = req /\ lastId' = lastId
    BY <2>9 DEF Stored, Deleted, Lapsed, Timed, OnStore, Stutters
  <2>10. ASSUME req' = req, lastId' = lastId PROVE AnswerFits'
    BY <2>10 DEF AnswerFits
  <2>. HIDE DEF Good
  <2>. QED
    BY <1>5, <2>1, <2>2, <2>3, <2>4, <2>5, <2>6, <2>7, <2>8, <2>9, <2>10 DEF StepIs
<1>6. ASSUME NEW q \in Request PROVE Good(req[q])'
  <2>1. CASE req'[q] = req[q]
    BY <1>1, <1>2, <1>3, <1>5, <2>1
  <2>2. CASE req'[q] # req[q]
    <3>1. q = r
      BY <1>5, <2>2 DEF Rest
    <3>2. req' # req
      BY <2>2
    <3>. QED
      BY <1>5, <3>1, <3>2
  <2>. QED
    BY <2>1, <2>2
<1>. QED
  BY <1>6 DEF AnswerFits

-----------------------------------------------------------------------------
(* Ids: those a user holds, in the store, in a SET or in sessionObj while a
   refresh waits for its TTL, are no others' unless sessionObj was changed
   meanwhile, and all of them have been given.                               *)
SetOf(u, id, i) == pipe[i].op = "set" /\ pipe[i].user = u /\ pipe[i].id = id

Holds(u, id) ==
  \/ store[u] # None /\ store[u].id = id
  \/ \E i \in 1..Len(pipe) : SetOf(u, id, i)
  \/ Refreshing(u) # {} /\ sessionObj = id

HeldApart ==
  \A u, v \in User, id \in Ids :
    u # v /\ Holds(u, id) /\ Holds(v, id) => mixed \cap {u, v} # {}

Given ==
  /\ \A u \in User, id \in Ids : Holds(u, id) => id <= lastId
  /\ \A b \in Browser : {jar[b].root, jar[b].data} \cap Ids \subseteq 1..lastId

IdsInv == HeldApart /\ Given

\* What a user holds after a step was held, or is new and the others that hold
\* it are refreshing: w is the user it is for.
HoldsNew(w) ==
  /\ mixed \subseteq mixed' /\ lastId \in Nat /\ lastId' \in {lastId, lastId + 1}
  /\ \A u \in User, id \in Ids :
       Holds(u, id)' => \/ Holds(u, id)
                        \/ id = lastId + 1 /\ lastId' = lastId + 1 /\ (u = w \/ u \in mixed')
  /\ \A b \in Browser : {jar'[b].root, jar'[b].data} \cap Ids \subseteq 1..lastId

LEMMA HoldsNewKeeps ==
  ASSUME IdsInv, NEW w, HoldsNew(w)
  PROVE  IdsInv'
<1>. USE DEF IdsInv
<1>1. \A id \in Ids : id \in Nat \ {0}
  BY SessionAssumption DEF Ids
<1>2. HeldApart'
  <2>. SUFFICES ASSUME NEW u \in User, NEW v \in User, NEW id \in Ids, u # v,
                       Holds(u, id)', Holds(v, id)'
       PROVE  mixed' \cap {u, v} # {}
    BY DEF HeldApart, Holds, SetOf, Refreshing
  <2>1. CASE Holds(u, id) /\ Holds(v, id)
    BY <2>1 DEF HoldsNew, HeldApart
  <2>2. CASE ~(Holds(u, id) /\ Holds(v, id))
    <3>1. id = lastId + 1
      BY <2>2 DEF HoldsNew
    <3>2. ~Holds(u, id) /\ ~Holds(v, id)
      BY <3>1 DEF HoldsNew, Given
    <3>. QED
      BY <3>2 DEF HoldsNew
  <2>. QED
    BY <2>1, <2>2
<1>3. \A u \in User, id \in Ids : Holds(u, id)' => id <= lastId'
  <2>. SUFFICES ASSUME NEW u \in User, NEW id \in Ids, Holds(u, id)' PROVE id <= lastId'
    OBVIOUS
  <2>1. Holds(u, id) => id <= lastId
    BY DEF Given
  <2>. QED
    BY <1>1, <2>1 DEF HoldsNew
<1>4. \A b \in Browser : {jar'[b].root, jar'[b].data} \cap Ids \subseteq 1..lastId'
  BY DEF HoldsNew
<1>. QED
  BY <1>2, <1>3, <1>4 DEF Given, Holds, SetOf, Refreshing

\* How a user comes to hold an id.
LEMMA HoldsStep ==
  ASSUME NEW e, NEW k, PipeKeeps(e, k), k \in Nat, NEW u, NEW id, Holds(u, id)'
  PROVE  \/ store'[u] # None /\ store'[u].id = id
         \/ \E i \in 1..Len(pipe) : SetOf(u, id, i)
         \/ \E i \in (Len(pipe) - e + 1)..(Len(pipe) - e + k) :
              pipe'[i].op = "set" /\ pipe'[i].user = u /\ pipe'[i].id = id
         \/ Refreshing(u)' # {} /\ sessionObj' = id
<1>1. CASE \E i \in 1..Len(pipe') : SetOf(u, id, i)'
  <2>1. PICK i \in 1..Len(pipe') : pipe'[i].op = "set" /\ pipe'[i].user = u /\ pipe'[i].id = id
    BY <1>1 DEF SetOf
  <2>2. CASE i <= Len(pipe) - e
    <3>1. i + e \in 1..Len(pipe) /\ pipe'[i] = pipe[i + e]
      BY <2>2 DEF PipeKeeps
    <3>2. SetOf(u, id, i + e)
      BY <2>1, <3>1 DEF SetOf
    <3>. QED
      BY <3>1, <3>2
  <2>3. CASE ~(i <= Len(pipe) - e)
    <3>1. i \in (Len(pipe) - e + 1)..(Len(pipe) - e + k)
      BY <2>3 DEF PipeKeeps
    <3>. QED
      BY <2>1, <3>1
  <2>. QED
    BY <2>2, <2>3
<1>. QED
  BY <1>1 DEF Holds, SetOf

LEMMA RefreshingKept ==
  ASSUME NEW r \in Request, Rest(r), req'[r].stage # "ttl"
  PROVE  \A u : Refreshing(u)' \subseteq Refreshing(u)
BY DEF Rest, Refreshing

LEMMA IdsNext == Core /\ Core' /\ AnswerFits /\ IdsInv /\ StepIs => IdsInv'
<1>. SUFFICES ASSUME Core, Core', AnswerFits, IdsInv, StepIs PROVE IdsInv'
  OBVIOUS
<1>1. lastId \in Nat /\ lastId \in Ids /\ sessionObj \in Ids /\ sessionObj <= lastId
  BY SessionAssumption DEF Core, Typed, Ids
<1>2. \A b \in Browser : {jar[b].root, jar[b].data} \cap Ids \subseteq 1..lastId
  BY DEF IdsInv, Given
<1>3. \A r, q : Rewrites(req', r) => Rest(r)
  BY DEF Rewrites, Rest
\* A step that only queues what holds nothing, or takes a command.
<1>4. ASSUME NEW e, NEW k, PipeKeeps(e, k), k \in {0, 1},
             k = 1 => pipe'[Len(pipe) - e + 1].op # "set",
             \A u \in User : Refreshing(u)' \subseteq Refreshing(u),
             UNCHANGED <<store, sessionObj, lastId, jar>>, mixed' = mixed
      PROVE  IdsInv'
  <2>1. ASSUME NEW u \in User, NEW id \in Ids, Holds(u, id)' PROVE Holds(u, id)
    <3>1. \/ store'[u] # None /\ store'[u].id = id
          \/ \E i \in 1..Len(pipe) : SetOf(u, id, i)
          \/ \E i \in (Len(pipe) - e + 1)..(Len(pipe) - e + k) :
               pipe'[i].op = "set" /\ pipe'[i].user = u /\ pipe'[i].id = id
          \/ Refreshing(u)' # {} /\ sessionObj' = id
      BY <1>4, <2>1, HoldsStep
    <3>2. ~\E i \in (Len(pipe) - e + 1)..(Len(pipe) - e + k) : pipe'[i].op = "set"
      BY <1>4 DEF PipeKeeps
    <3>. QED
      BY <1>4, <3>1, <3>2 DEF Holds
  <2>2. HoldsNew(None)
    BY <1>1, <1>2, <1>4, <2>1 DEF HoldsNew
  <2>. QED
    BY <2>2, HoldsNewKeeps
<1>5. ASSUME NEW r, NEW b, SentForm(r, b) \/ SentUnknown(r, b) \/ SentPage(r, b) \/ SentLogout(r, b)
      PROVE  IdsInv'
  <2>1. /\ UNCHANGED <<store, sessionObj, lastId, jar>> /\ mixed' = mixed
        /\ \A u \in User : Refreshing(u)' \subseteq Refreshing(u)
    BY <1>5, RefreshingKept DEF SentForm, SentUnknown, SentPage, SentLogout, Sent
  <2>2. CASE SentForm(r, b) \/ SentUnknown(r, b)
    BY <1>4, <2>1, <2>2 DEF SentForm, SentUnknown
  <2>3. CASE SentPage(r, b) \/ SentLogout(r, b)
    <3>1. PipeKeeps(0, 1) /\ pipe'[Len(pipe) + 1].op # "set"
      BY <2>3, CommandsTyped DEF SentPage, SentLogout
    <3>2. Len(pipe) - 0 + 1 = Len(pipe) + 1
      BY <3>1 DEF PipeKeeps
    <3>. QED
      BY <1>4, <2>1, <3>1, <3>2
  <2>. QED
    BY <1>5, <2>2, <2>3
<1>6. ASSUME NEW r, LoggedInBy(r) PROVE IdsInv'
  <2>1. /\ r \in Request /\ PipeKeeps(0, 2) /\ IdTaken /\ UNCHANGED <<store, jar>>
        /\ pipe'[Len(pipe) + 1] = SetSession(req[r].user, lastId + 1, r)
        /\ pipe'[Len(pipe) + 2].op = "expire"
        /\ \A u : Refreshing(u)' \subseteq Refreshing(u)
    BY <1>3, <1>6, RefreshingKept, CommandsTyped DEF LoggedInBy
  <2>2. ASSUME NEW u \in User, NEW id \in Ids, Holds(u, id)'
        PROVE  Holds(u, id) \/ (id = lastId + 1 /\ (u = req[r].user \/ u \in mixed'))
    <3>1. \/ store'[u] # None /\ store'[u].id = id
          \/ \E i \in 1..Len(pipe) : SetOf(u, id, i)
          \/ \E i \in (Len(pipe) - 0 + 1)..(Len(pipe) - 0 + 2) :
               pipe'[i].op = "set" /\ pipe'[i].user = u /\ pipe'[i].id = id
          \/ Refreshing(u)' # {} /\ sessionObj' = id
      BY <2>1, <2>2, HoldsStep
    <3>2. (Len(pipe) - 0 + 1)..(Len(pipe) - 0 + 2) = {Len(pipe) + 1, Len(pipe) + 2}
      BY <2>1 DEF PipeKeeps
    <3>. QED
      BY <2>1, <3>1, <3>2, CommandsTyped DEF Holds, IdTaken
  <2>3. HoldsNew(req[r].user)
    BY <1>1, <1>2, <2>1, <2>2 DEF HoldsNew, IdTaken
  <2>. QED
    BY <2>3, HoldsNewKeeps
<1>7. ASSUME NEW r, DbHandled(r) \/ GetHandled(r) PROVE IdsInv'
  <2>1. PICK e : PipeKeeps(e, 0) /\ UNCHANGED <<store, sessionObj, lastId, jar>> /\ mixed' = mixed
    BY <1>7 DEF DbHandled, GetHandled, Handled
  <2>2. \A u : Refreshing(u)' \subseteq Refreshing(u)
    BY <1>3, <1>7, RefreshingKept DEF DbHandled, GetHandled, Handled
  <2>. QED
    BY <1>4, <2>1, <2>2
<1>8. ASSUME NEW r, RefreshBegun(r) PROVE IdsInv'
  <2>1. /\ r \in Request /\ PipeKeeps(1, 1) /\ IdTaken /\ UNCHANGED <<store, jar>>
        /\ pipe'[Len(pipe)].op = "ttl"
        /\ \A u : Refreshing(u)' \subseteq Refreshing(u) \cup {q \in {r} : req[q].user = u}
    BY <1>3, <1>8, CommandsTyped DEF RefreshBegun, Rest, Refreshing, Rewrites
  <2>2. ASSUME NEW u \in User, NEW id \in Ids, Holds(u, id)'
        PROVE  Holds(u, id) \/ (id = lastId + 1 /\ (u = req[r].user \/ u \in mixed'))
    <3>1. \/ store'[u] # None /\ store'[u].id = id
          \/ \E i \in 1..Len(pipe) : SetOf(u, id, i)
          \/ \E i \in (Len(pipe) - 1 + 1)..(Len(pipe) - 1 + 1) :
               pipe'[i].op = "set" /\ pipe'[i].user = u /\ pipe'[i].id = id
          \/ Refreshing(u)' # {} /\ sessionObj' = id
      BY <2>1, <2>2, HoldsStep
    <3>2. (Len(pipe) - 1 + 1)..(Len(pipe) - 1 + 1) = {Len(pipe)}
      BY <2>1 DEF PipeKeeps
    <3>. QED
      BY <2>1, <3>1, <3>2 DEF Holds, IdTaken
  <2>3. HoldsNew(req[r].user)
    BY <1>1, <1>2, <2>1, <2>2 DEF HoldsNew, IdTaken
  <2>. QED
    BY <2>3, HoldsNewKeeps
<1>9. ASSUME NEW r, RefreshDone(r) PROVE IdsInv'
  <2>1. /\ r \in Request /\ PipeKeeps(1, 2) /\ UNCHANGED <<store, sessionObj, lastId, jar, mixed>>
        /\ pipe'[Len(pipe)] = SetSession(req[r].user, sessionObj, r)
        /\ pipe'[Len(pipe) + 1].op = "expire"
        /\ \A u : Refreshing(u)' \subseteq Refreshing(u)
        /\ r \in Refreshing(req[r].user)
    BY <1>3, <1>9, RefreshingKept, CommandsTyped DEF RefreshDone, Refreshing
  <2>2. ASSUME NEW u \in User, NEW id \in Ids, Holds(u, id)'
        PROVE  Holds(u, id)
    <3>1. \/ store'[u] # None /\ store'[u].id = id
          \/ \E i \in 1..Len(pipe) : SetOf(u, id, i)
          \/ \E i \in (Len(pipe) - 1 + 1)..(Len(pipe) - 1 + 2) :
               pipe'[i].op = "set" /\ pipe'[i].user = u /\ pipe'[i].id = id
          \/ Refreshing(u)' # {} /\ sessionObj' = id
      BY <2>1, <2>2, HoldsStep
    <3>2. (Len(pipe) - 1 + 1)..(Len(pipe) - 1 + 2) = {Len(pipe), Len(pipe) + 1}
      BY <2>1 DEF PipeKeeps
    <3>. QED
      BY <2>1, <3>1, <3>2, CommandsTyped DEF Holds
  <2>3. HoldsNew(None)
    BY <1>1, <1>2, <2>1, <2>2 DEF HoldsNew
  <2>. QED
    BY <2>3, HoldsNewKeeps
<1>10. ASSUME NEW r, RefreshDenied(r) PROVE IdsInv'
  <2>1. /\ PipeKeeps(1, 1) /\ UNCHANGED <<store, sessionObj, lastId, jar>> /\ mixed' = mixed
        /\ pipe'[Len(pipe)].op # "set"
        /\ \A u : Refreshing(u)' \subseteq Refreshing(u)
    BY <1>3, <1>10, RefreshingKept, CommandsTyped DEF RefreshDenied
  <2>2. Len(pipe) - 1 + 1 = Len(pipe)
    BY <2>1 DEF PipeKeeps
  <2>. QED
    BY <1>4, <2>1, <2>2
<1>11. ASSUME NEW r, Received(r) PROVE IdsInv'
  <2>1. /\ r \in Request /\ req[r].browser \in Browser
        /\ PipeKeeps(0, 0) /\ UNCHANGED <<store, sessionObj, lastId, mixed>>
        /\ jar' = [jar EXCEPT ![req[r].browser] = AfterAnswer(req[r].browser, r)]
        /\ \A u : Refreshing(u)' \subseteq Refreshing(u)
    BY <1>11, RefreshingKept DEF Received
  <2>2. ASSUME NEW u \in User, NEW id \in Ids, Holds(u, id)' PROVE Holds(u, id)
    <3>1. \/ store'[u] # None /\ store'[u].id = id
          \/ \E i \in 1..Len(pipe) : SetOf(u, id, i)
          \/ \E i \in (Len(pipe) - 0 + 1)..(Len(pipe) - 0 + 0) :
               pipe'[i].op = "set" /\ pipe'[i].user = u /\ pipe'[i].id = id
          \/ Refreshing(u)' # {} /\ sessionObj' = id
      BY <2>1, <2>2, HoldsStep
    <3>2. (Len(pipe) - 0 + 1)..(Len(pipe) - 0 + 0) = {}
      BY <2>1 DEF PipeKeeps
    <3>. QED
      BY <2>1, <3>1, <3>2 DEF Holds
  <2>3. ASSUME NEW b \in Browser PROVE {jar'[b].root, jar'[b].data} \cap Ids \subseteq 1..lastId
    <3>1. CASE b # req[r].browser
      BY <1>2, <2>1, <3>1 DEF Core, Typed
    <3>2. CASE b = req[r].browser
      <4>1. jar'[b] = AfterAnswer(b, r) /\ jar[b] \in Jar
        BY <2>1, <3>2 DEF Core, Typed
      <4>2. {jar'[b].root, jar'[b].data} \subseteq {jar[b].root, jar[b].data, req[r].newSession}
        BY <4>1 DEF AfterAnswer, JarWith, Jar
      <4>3. req[r].newSession \in Ids => req[r].newSession \in 1..lastId
        BY <1>1, <2>1, SessionAssumption DEF AnswerFits, Ids
      <4>. QED
        BY <1>2, <4>2, <4>3
    <3>. QED
      BY <3>1, <3>2
  <2>4. HoldsNew(None)
    BY <1>1, <2>1, <2>2, <2>3 DEF HoldsNew
  <2>. QED
    BY <2>4, HoldsNewKeeps
<1>12. ASSUME NEW u \in User, NEW e, OnStore(u, e),
              \A id \in Ids : store'[u] # None /\ store'[u].id = id => Holds(u, id)
       PROVE  IdsInv'
  <2>1. ASSUME NEW v \in User, NEW id \in Ids, Holds(v, id)' PROVE Holds(v, id)
    <3>1. \/ store'[v] # None /\ store'[v].id = id
          \/ \E i \in 1..Len(pipe) : SetOf(v, id, i)
          \/ \E i \in (Len(pipe) - e + 1)..(Len(pipe) - e + 0) :
               pipe'[i].op = "set" /\ pipe'[i].user = v /\ pipe'[i].id = id
          \/ Refreshing(v)' # {} /\ sessionObj' = id
      BY <1>12, <2>1, HoldsStep DEF OnStore
    <3>2. (Len(pipe) - e + 1)..(Len(pipe) - e + 0) = {}
      BY <1>12 DEF OnStore, PipeKeeps
    <3>3. CASE store'[v] # None /\ store'[v].id = id
      BY <1>12, <3>3 DEF OnStore, Holds
    <3>. QED
      BY <1>12, <3>1, <3>2, <3>3 DEF Holds, OnStore, Refreshing
  <2>2. HoldsNew(None)
    BY <1>1, <1>2, <1>12, <2>1 DEF HoldsNew, OnStore
  <2>. QED
    BY <2>2, HoldsNewKeeps
<1>13. ASSUME NEW u, Stored(u) PROVE IdsInv'
  <2>1. OnStore(u, 1) /\ u \in User /\ 1 \in 1..Len(pipe) /\ SetOf(u, store'[u].id, 1)
    BY <1>13 DEF Stored, OnStore, PipeKeeps, SetOf
  <2>2. \A id \in Ids : store'[u] # None /\ store'[u].id = id => Holds(u, id)
    BY <2>1 DEF Holds
  <2>. QED
    BY <1>12, <2>1, <2>2
<1>14. ASSUME NEW u, Deleted(u) \/ Lapsed(u) PROVE IdsInv'
  <2>1. PICK e : OnStore(u, e) /\ u \in User /\ store'[u] = None
    BY <1>14 DEF Deleted, Lapsed, OnStore
  <2>. QED
    BY <1>12, <2>1
<1>15. ASSUME NEW u, NEW e, Timed(u, e) PROVE IdsInv'
  <2>1. OnStore(u, e) /\ u \in User
    BY <1>15 DEF Timed, OnStore
  <2>2. \A id \in Ids : store'[u] # None /\ store'[u].id = id => Holds(u, id)
    BY <1>15 DEF Timed, Holds
  <2>. QED
    BY <1>12, <2>1, <2>2
<1>16. CASE Stutters
  BY <1>4, <1>16 DEF Stutters, Refreshing
<1>. QED
  BY <1>5, <1>6, <1>7, <1>8, <1>9, <1>10, <1>11, <1>13, <1>14, <1>15, <1>16 DEF StepIs

LEMMA AnswersAndIdsInit == SessionInit => AnswerFits /\ IdsInv
<1>. SUFFICES ASSUME SessionInit PROVE AnswerFits /\ IdsInv
  OBVIOUS
<1>1. /\ req = [r \in Request |-> Unsent] /\ pipe = <<>> /\ lastId = 1 /\ mixed = {}
  BY DEF SessionInit
<1>2. AnswerFits
  BY <1>1, NoneAssumption DEF AnswerFits, Unsent, Ids
<1>3. \A u \in User, id \in Ids : Holds(u, id) => store[u] # None /\ store[u].id = id
  BY <1>1 DEF Holds, Refreshing, Unsent
<1>4. CASE /\ store = [u \in User |-> None]
           /\ jar = [b \in Browser |-> NoCookies]
  <2>1. \A u \in User, id \in Ids : ~Holds(u, id)
    BY <1>3, <1>4
  <2>2. None \notin Ids
    BY NoneAssumption, SessionAssumption DEF Ids
  <2>3. \A c \in Browser : {jar[c].root, jar[c].data} \cap Ids = {}
    BY <1>4, <2>2 DEF NoCookies
  <2>4. HeldApart
    BY <2>1 DEF HeldApart
  <2>5. \A c \in Browser : {jar[c].root, jar[c].data} \cap Ids \subseteq 1..lastId
    <3>. TAKE c \in Browser
    <3>1. {jar[c].root, jar[c].data} \cap Ids = {}
      BY <2>3
    <3>. QED
      BY <3>1
  <2>. QED
    BY <1>2, <2>1, <2>4, <2>5 DEF IdsInv, Given
<1>5. ASSUME NEW b \in Browser, NEW u \in User, LoggedIn(b, u) PROVE IdsInv
  <2>1. \A v \in User, id \in Ids : Holds(v, id) => v = u /\ id = 1
    BY <1>3, <1>5 DEF LoggedIn
  <2>2. \A c \in Browser : {jar[c].root, jar[c].data} \cap Ids \subseteq {1}
    BY <1>5, NoneAssumption DEF LoggedIn, NoCookies, Ids
  <2>. QED
    BY <1>1, <2>1, <2>2, SessionAssumption DEF IdsInv, HeldApart, Given, Ids
<1>. QED
  BY <1>2, <1>4, <1>5 DEF SessionInit

LEMMA IdsInvariance == SessionSpec => [](Core /\ AnswerFits /\ IdsInv)
<1>1. SessionInit => Core /\ AnswerFits /\ IdsInv
  BY CoreInit, AnswersAndIdsInit
<1>2. Core /\ AnswerFits /\ IdsInv /\ [SessionNext]_sessionVars => (Core /\ AnswerFits /\ IdsInv)'
  BY CoreNext, StepIsOne, AnswerFitsNext, IdsNext
<1>. QED
  BY <1>1, <1>2, PTL DEF SessionSpec

(* Two users never have sessions with one id, though all requests write to one
   sessionObj, unless it was given a new id while one of them waited for TTL. *)
THEOREM IdsApartHolds == SessionSpec => []IdsApart
<1>1. Core /\ IdsInv => IdsApart
  <2>. SUFFICES ASSUME Core, IdsInv, NEW u \in User, NEW v \in User, u # v,
                       store[u] # None, store[v] # None, store[u].id = store[v].id
       PROVE  mixed \cap {u, v} # {}
    BY DEF IdsApart
  <2>1. store[u].id \in Ids
    BY DEF Core, Typed, Session
  <2>. QED
    BY <2>1 DEF IdsInv, HeldApart, Holds
<1>. QED
  BY <1>1, IdsInvariance, PTL

-----------------------------------------------------------------------------
(* Revival: before the SET of a refresh that is not in racing there is no DEL of
   its user, the session is there, and behind its TTL there is no DEL.       *)
DelOf(u, i) == pipe[i].op = "del" /\ pipe[i].user = u

RefreshSafe ==
  \A i \in 1..Len(pipe) :
    /\ pipe[i].op = "ttl" /\ pipe[i].req \notin racing
       => ~\E k \in i..Len(pipe) : DelOf(req[pipe[i].req].user, k)
    /\ pipe[i].op = "set" /\ req[pipe[i].req].url \in {"chat", "data"}
       /\ pipe[i].req \notin racing
       => /\ store[pipe[i].user] # None
          /\ ~\E k \in 1..i : DelOf(pipe[i].user, k)

\* A step after which the refreshes are as safe as before.
KeepsSafe(e, k) ==
  /\ PipeKeeps(e, k) /\ k \in Nat /\ racing \subseteq racing'
  /\ \A q \in Request : req[q].stage = "ttl" => req'[q].user = req[q].user
  /\ \A q \in Request : req[q].stage # "unsent" => req'[q].url = req[q].url
  /\ \A u \in User : store[u] # None /\ store'[u] = None =>
       ~SetQueued(u) \/ (1 \in 1..Len(pipe) /\ DelOf(u, 1))
  /\ \A j \in (Len(pipe) - e + 1)..(Len(pipe) - e + k) :
       /\ pipe'[j].op = "del" =>
            \A q \in Request :
              req'[q].stage = "ttl" /\ req'[q].user = pipe'[j].user => q \in racing'
       /\ pipe'[j].op = "ttl" => k = 1
       /\ pipe'[j].op = "set" /\ req'[pipe'[j].req].url \in {"chat", "data"}
          /\ pipe'[j].req \notin racing'
          => /\ store'[pipe'[j].user] # None
             /\ \A m \in 1..j : ~(pipe'[m].op = "del" /\ pipe'[m].user = pipe'[j].user)

LEMMA KeepsSafeIs ==
  ASSUME Core, Core', RefreshSafe, NEW e, NEW k, KeepsSafe(e, k)
  PROVE  RefreshSafe'
<1>. DEFINE n == Len(pipe) - e
<1>1. /\ \A i \in 1..Len(pipe) : pipe[i] \in PipeCommand /\ PipeFits(pipe[i], req)
      /\ \A i \in 1..Len(pipe') : pipe'[i] \in PipeCommand /\ PipeFits(pipe'[i], req')
  BY ElementOfSeq DEF Core, Typed, Fits
<1>2. /\ n \in Nat /\ e \in {0, 1} /\ k \in Nat /\ Len(pipe) \in Nat
      /\ Len(pipe') = n + k /\ Len(pipe) = n + e
      /\ \A i \in 1..n : pipe'[i] = pipe[i + e] /\ i + e \in 1..Len(pipe)
  BY DEF KeepsSafe, PipeKeeps
<1>. HIDE DEF n
<1>3. SUFFICES ASSUME NEW i \in 1..Len(pipe')
      PROVE  /\ pipe'[i].op = "ttl" /\ pipe'[i].req \notin racing'
                => ~\E m \in i..Len(pipe') :
                      pipe'[m].op = "del" /\ pipe'[m].user = req'[pipe'[i].req].user
             /\ pipe'[i].op = "set" /\ req'[pipe'[i].req].url \in {"chat", "data"}
                /\ pipe'[i].req \notin racing'
                => /\ store'[pipe'[i].user] # None
                   /\ ~\E m \in 1..i : pipe'[m].op = "del" /\ pipe'[m].user = pipe'[i].user
  BY DEF RefreshSafe, DelOf
<1>4. ASSUME pipe'[i].op = "ttl", pipe'[i].req \notin racing',
             NEW m \in i..Len(pipe'), pipe'[m].op = "del", pipe'[m].user = req'[pipe'[i].req].user
      PROVE  FALSE
  <2>1. pipe'[i].req \in Request /\ req'[pipe'[i].req].stage = "ttl"
    BY <1>1, <1>4, PipeCommandParts DEF PipeFits
  <2>2. m \notin n + 1..n + k
    <3>1. ASSUME NEW j \in n + 1..n + k, pipe'[j].op = "del"
          PROVE  \A q \in Request :
                   req'[q].stage = "ttl" /\ req'[q].user = pipe'[j].user => q \in racing'
      BY <3>1 DEF KeepsSafe, n
    <3>. QED
      BY ONLY <1>4, <2>1, <3>1
  <2>3. m \in 1..n
    BY ONLY <1>2, <2>2, i \in 1..Len(pipe'), m \in i..Len(pipe')
  <2>4. /\ i \in 1..n /\ pipe'[i] = pipe[i + e] /\ i + e \in 1..Len(pipe)
        /\ pipe'[m] = pipe[m + e] /\ m + e \in (i + e)..Len(pipe)
    BY <1>2, <2>3
  <2>5. req[pipe[i + e].req].stage = "ttl" /\ pipe[i + e].req \in Request
    BY <1>1, <1>4, <2>1, <2>4 DEF PipeFits
  <2>6. pipe[i + e].req \notin racing /\ req'[pipe[i + e].req].user = req[pipe[i + e].req].user
    BY <1>4, <2>4, <2>5 DEF KeepsSafe
  <2>7. DelOf(req[pipe[i + e].req].user, m + e)
    BY <1>4, <2>4, <2>6 DEF DelOf
  <2>. QED
    BY <1>4, <2>4, <2>6, <2>7 DEF RefreshSafe
<1>5. ASSUME pipe'[i].op = "set", req'[pipe'[i].req].url \in {"chat", "data"},
             pipe'[i].req \notin racing'
      PROVE  /\ store'[pipe'[i].user] # None
             /\ ~\E m \in 1..i : pipe'[m].op = "del" /\ pipe'[m].user = pipe'[i].user
  <2>1. CASE i \notin 1..n
    BY <1>2, <1>5, <2>1 DEF KeepsSafe, n
  <2>2. CASE i \in 1..n
    <3>1. pipe'[i] = pipe[i + e] /\ i + e \in 1..Len(pipe)
      BY <1>2, <2>2
    <3>2. /\ pipe[i + e].req \in Request /\ pipe[i + e].user \in User
          /\ req[pipe[i + e].req].stage # "unsent"
      BY <1>1, <1>5, <3>1, PipeCommandParts DEF PipeFits
    <3>3. /\ pipe[i + e].req \notin racing
          /\ req[pipe[i + e].req].url \in {"chat", "data"}
      BY <1>5, <3>1, <3>2 DEF KeepsSafe
    <3>4. /\ store[pipe[i + e].user] # None
          /\ ~\E m \in 1..(i + e) : DelOf(pipe[i + e].user, m)
      BY <1>5, <3>1, <3>3 DEF RefreshSafe
    <3>5. SetQueued(pipe[i + e].user)
      BY <1>5, <3>1 DEF SetQueued
    <3>6. 1 \in 1..(i + e)
      BY <1>2
    <3>7. store'[pipe[i + e].user] # None
      BY <3>2, <3>4, <3>5, <3>6 DEF KeepsSafe
    <3>8. ASSUME NEW m \in 1..i, pipe'[m].op = "del", pipe'[m].user = pipe'[i].user PROVE FALSE
      <4>1. pipe'[m] = pipe[m + e] /\ m + e \in 1..(i + e)
        BY <1>2, <2>2
      <4>2. DelOf(pipe[i + e].user, m + e)
        BY <3>1, <3>8, <4>1 DEF DelOf
      <4>. QED
        BY <3>4, <4>1, <4>2
    <3>. QED
      BY <3>1, <3>7, <3>8
  <2>. QED
    BY <2>1, <2>2
<1>. QED
  BY <1>4, <1>5

LEMMA RefreshSafeNext == Core /\ Core' /\ RefreshSafe /\ StepIs => RefreshSafe'
<1>. SUFFICES ASSUME Core, Core', RefreshSafe, StepIs PROVE RefreshSafe'
  OBVIOUS
<1>1. SUFFICES \E e, k : KeepsSafe(e, k)
  BY KeepsSafeIs
<1>2. ASSUME NEW e, NEW k, PipeKeeps(e, k)
      PROVE  /\ (Len(pipe) - e + 1)..(Len(pipe) - e + 0) = {}
             /\ (Len(pipe) - e + 1)..(Len(pipe) - e + 1) = {Len(pipe) - e + 1}
             /\ Len(pipe) - 0 + 1 = Len(pipe) + 1 /\ Len(pipe) - 1 + 1 = Len(pipe)
  BY <1>2 DEF PipeKeeps
<1>3. ASSUME NEW r, NEW b, SentForm(r, b) \/ SentUnknown(r, b)
      PROVE  KeepsSafe(0, 0)
  BY <1>2, <1>3 DEF KeepsSafe, SentForm, SentUnknown, Sent, Rest
<1>4. ASSUME NEW r, NEW b, SentPage(r, b)
      PROVE  KeepsSafe(0, 1)
  <2>1. pipe'[Len(pipe) + 1].op = "get" /\ PipeKeeps(0, 1)
    BY <1>4, CommandsTyped DEF SentPage
  <2>. QED
    BY <1>2, <1>4, <2>1 DEF KeepsSafe, SentPage, Sent, Rest
<1>5. ASSUME NEW r, NEW b, SentLogout(r, b)
      PROVE  KeepsSafe(0, 1)
  <2>1. pipe'[Len(pipe) + 1].op = "del" /\ pipe'[Len(pipe) + 1].user = jar[b].user /\ PipeKeeps(0, 1)
    BY <1>5, CommandsTyped DEF SentLogout
  <2>2. \A q \in Request : req'[q].stage = "ttl" /\ req'[q].user = jar[b].user => q \in racing'
    BY <1>5 DEF SentLogout, Sent, Rest, Refreshing
  <2>. QED
    BY <1>2, <1>5, <2>1, <2>2 DEF KeepsSafe, SentLogout, Sent, Rest
<1>6. ASSUME NEW r, LoggedInBy(r)
      PROVE  KeepsSafe(0, 2)
  <2>1. /\ PipeKeeps(0, 2) /\ pipe'[Len(pipe) + 1].op = "set" /\ pipe'[Len(pipe) + 1].req = r
        /\ pipe'[Len(pipe) + 2].op = "expire" /\ req'[r].url \in {"login", "register"}
    BY <1>6, CommandsTyped DEF LoggedInBy, Rewrites
  <2>2. (Len(pipe) - 0 + 1)..(Len(pipe) - 0 + 2) = {Len(pipe) + 1, Len(pipe) + 2}
    BY <2>1 DEF PipeKeeps
  <2>. QED
    BY <1>6, <2>1, <2>2 DEF KeepsSafe, LoggedInBy, Rewrites
<1>7. ASSUME NEW r, DbHandled(r) PROVE KeepsSafe(0, 0)
  BY <1>2, <1>7 DEF KeepsSafe, DbHandled, Handled, Rewrites
<1>8. ASSUME NEW r, GetHandled(r) PROVE KeepsSafe(1, 0)
  BY <1>2, <1>8 DEF KeepsSafe, GetHandled, Handled, Rewrites
<1>9. ASSUME NEW r, RefreshBegun(r) PROVE KeepsSafe(1, 1)
  <2>1. pipe'[Len(pipe)].op = "ttl" /\ PipeKeeps(1, 1)
    BY <1>9, CommandsTyped DEF RefreshBegun
  <2>. QED
    BY <1>2, <1>9, <2>1 DEF KeepsSafe, RefreshBegun, Rewrites
<1>10. ASSUME NEW r, RefreshDone(r) PROVE KeepsSafe(1, 2)
  <2>. DEFINE u == req[r].user
              n == Len(pipe)
  <2>1. /\ PipeKeeps(1, 2) /\ pipe'[n].op = "set" /\ pipe'[n].req = r /\ pipe'[n].user = u
        /\ pipe'[n + 1].op = "expire" /\ store'[u] # None
        /\ pipe[1].op = "ttl" /\ pipe[1].req = r
    BY <1>10, CommandsTyped DEF RefreshDone, LongLived
  <2>2. /\ (n - 1 + 1)..(n - 1 + 2) = {n, n + 1} /\ n \in Nat \ {0}
        /\ \A m \in 1..(n - 1) : pipe'[m] = pipe[m + 1] /\ m + 1 \in 1..n
    BY <2>1 DEF PipeKeeps
  <2>3. ASSUME r \notin racing, NEW m \in 1..n, pipe'[m].op = "del", pipe'[m].user = u PROVE FALSE
    <3>1. m \in 1..(n - 1)
      BY <2>1, <2>2, <2>3
    <3>2. DelOf(u, m + 1)
      BY <2>2, <2>3, <3>1 DEF DelOf
    <3>. QED
      BY <2>1, <2>2, <2>3, <3>1, <3>2 DEF RefreshSafe
  <2>4. pipe[1] \in PipeCommand /\ racing' = racing
    BY <1>10, CommandsTyped DEF RefreshDone
  <2>. HIDE DEF n, u
  <2>5. \A j \in (n - 1 + 1)..(n - 1 + 2) :
          /\ pipe'[j].op \notin {"del", "ttl"}
          /\ pipe'[j].op = "set" /\ pipe'[j].req \notin racing'
             => /\ store'[pipe'[j].user] # None
                /\ \A m \in 1..j : ~(pipe'[m].op = "del" /\ pipe'[m].user = pipe'[j].user)
    BY <2>1, <2>2, <2>3, <2>4
  <2>6. /\ racing \subseteq racing' /\ store' = store
        /\ \A q \in Request : req'[q].user = req[q].user /\ req'[q].url = req[q].url
    BY <1>10 DEF RefreshDone, Rewrites
  <2>. QED
    BY <2>1, <2>5, <2>6 DEF KeepsSafe, n
<1>11. ASSUME NEW r, RefreshDenied(r) PROVE KeepsSafe(1, 1)
  <2>1. pipe'[Len(pipe)].op = "del" /\ pipe'[Len(pipe)].user = req[r].user /\ PipeKeeps(1, 1)
    BY <1>11, CommandsTyped DEF RefreshDenied
  <2>2. \A q \in Request : req'[q].stage = "ttl" /\ req'[q].user = req[r].user => q \in racing'
    BY <1>11 DEF RefreshDenied, Rewrites, Refreshing
  <2>. QED
    BY <1>2, <1>11, <2>1, <2>2 DEF KeepsSafe, RefreshDenied, Rewrites
<1>12. ASSUME NEW r, Received(r) PROVE KeepsSafe(0, 0)
  BY <1>2, <1>12 DEF KeepsSafe, Received, Rest
<1>13. ASSUME NEW u, Stored(u) PROVE KeepsSafe(1, 0)
  BY <1>2, <1>13 DEF KeepsSafe, Stored, OnStore
<1>14. ASSUME NEW u, Deleted(u) PROVE KeepsSafe(1, 0)
  <2>1. 1 \in 1..Len(pipe) /\ DelOf(u, 1)
    BY <1>14 DEF Deleted, OnStore, PipeKeeps, DelOf
  <2>. QED
    BY <1>2, <1>14, <2>1 DEF KeepsSafe, Deleted, OnStore
<1>15. ASSUME NEW u, Lapsed(u) PROVE KeepsSafe(0, 0)
  BY <1>2, <1>15 DEF KeepsSafe, Lapsed, OnStore
<1>16. ASSUME NEW u, NEW e, Timed(u, e) PROVE KeepsSafe(e, 0)
  BY <1>2, <1>16 DEF KeepsSafe, Timed, OnStore
<1>17. CASE Stutters
  <2>1. KeepsSafe(0, 0)
    BY <1>2, <1>17 DEF KeepsSafe, Stutters
  <2>. QED
    BY <2>1
<1>. QED
  BY <1>3, <1>4, <1>5, <1>6, <1>7, <1>8, <1>9, <1>10, <1>11, <1>12, <1>13, <1>14, <1>15, <1>16,
     <1>17 DEF StepIs

(* A refresh stores a session that is gone only if it was past its GET when the
   DEL was queued: no other request brings one to life again, whatever is queued
   between its TTL and its SET (server.js:448-451).                          *)
THEOREM RevivedOnlyByRaceHolds == SessionSpec => RevivedOnlyByRace
<1>. DEFINE Revives == \A r \in Request, u \in User, id \in Ids :
                         /\ store[u] = None /\ req[r].url \in {"chat", "data"}
                         /\ Set(r, u, id)
                         => r \in racing
<1>1. SessionInit => Core /\ RefreshSafe
  BY CoreInit DEF SessionInit, RefreshSafe
<1>2. Core /\ RefreshSafe /\ [SessionNext]_sessionVars => (Core /\ RefreshSafe)'
  BY CoreNext, StepIsOne, RefreshSafeNext
<1>3. Core /\ RefreshSafe => Revives
  <2>. SUFFICES ASSUME Core, RefreshSafe, NEW r \in Request, NEW u \in User, NEW id \in Ids,
                       Set(r, u, id), store[u] = None, req[r].url \in {"chat", "data"}
       PROVE  r \in racing
    OBVIOUS
  <2>1. OnPipe(SetSession(u, id, r))
    BY DEF Set
  <2>2. pipe[1] = SetSession(u, id, r) /\ 1 \in 1..Len(pipe)
    BY <2>1, PipeHead
  <2>. QED
    BY <2>2, CommandsTyped DEF RefreshSafe
<1>. HIDE DEF Revives
<1>4. Core /\ RefreshSafe /\ [SessionNext]_sessionVars => [Revives]_sessionVars
  BY <1>3
<1>5. SessionSpec => [][Revives]_sessionVars
  BY <1>1, <1>2, <1>4, PTL DEF SessionSpec
<1>. QED
  BY <1>5 DEF RevivedOnlyByRace, Revives

-----------------------------------------------------------------------------
(* Cookies: the jars b may have when its answers have arrived.               *)
IsJar(b, j) ==
  \/ ~Busy(b) /\ j = jar[b]
  \/ \E r \in Request : UnderWay(r) /\ req[r].browser = b /\ j = AfterAnswer(b, r)

\* The commands that change the session of u.
Touches(u, i) == pipe[i].op \in {"set", "del"} /\ pipe[i].user = u

\* The session of u has the id once the queued commands are executed.
Becomes(u, id) ==
  \/ \E i \in 1..Len(pipe) :
       SetOf(u, id, i) /\ \A k \in (i + 1)..Len(pipe) : ~Touches(u, k)
  \/ /\ \A k \in 1..Len(pipe) : ~Touches(u, k)
     /\ store[u] # None /\ store[u].id = id

OwnerHolds ==
  \A u \in User, b \in Browser \ overlapped, j \in Jar, id \in Ids :
    owner[u] = b /\ IsJar(b, j) /\ j.user = u /\ Becomes(u, id) => id \in {j.root, j.data}

(* A browser that asks one thing at a time: the request it has under way is its
   only one, presents cookies it has, and what it asks for as a user it asks as
   the one its cookie names.                                                 *)
OneRequest ==
  /\ \A r, q \in Request :
       UnderWay(r) /\ UnderWay(q) /\ req[r].browser = req[q].browser /\ r # q
       => req[r].browser \in overlapped
  /\ \A r \in Request :
       UnderWay(r) /\ req[r].browser \notin overlapped
       => /\ req[r].url \in {"chat", "data", "logout"} => req[r].user = jar[req[r].browser].user
          /\ req[r].stage = "get" =>
               req[r].cookie \in {jar[req[r].browser].root, jar[req[r].browser].data} \cap Ids

\* Requests end or go on, and the cookies are as they were.
LEMMA OneRequestKeeps ==
  ASSUME OneRequest, overlapped \subseteq overlapped', jar' = jar,
         \A q \in Request : UnderWay(q)' =>
           /\ UnderWay(q)
           /\ req'[q].browser = req[q].browser /\ req'[q].url = req[q].url
           /\ req'[q].user = req[q].user /\ req'[q].cookie = req[q].cookie
           /\ req'[q].stage = "get" => req[q].stage = "get"
  PROVE  OneRequest'
BY DEF OneRequest

LEMMA OneRequestNext == Core /\ OneRequest /\ StepIs => OneRequest'
<1>. SUFFICES ASSUME Core, OneRequest, StepIs PROVE OneRequest'
  OBVIOUS
<1>1. ASSUME NEW r, Rewrites(req', r), r \in Request, UnderWay(r), req'[r].stage # "get",
             UNCHANGED <<jar, overlapped>>
      PROVE  OneRequest'
  BY <1>1, OneRequestKeeps DEF Rewrites, UnderWay
<1>2. ASSUME NEW r, NEW b, Sent(r, b),
             req'[r].url \in {"chat", "data", "logout"} => req'[r].user = jar[b].user,
             req'[r].stage = "get" => req'[r].cookie \in {jar[b].root, jar[b].data} \cap Ids
      PROVE  OneRequest'
  <2>1. /\ r \in Request /\ overlapped \subseteq overlapped' /\ jar' = jar /\ ~UnderWay(r)
        /\ req'[r].browser = b
        /\ \A q \in Request : q # r => req'[q] = req[q]
        /\ \A q \in Request : UnderWay(q) /\ req[q].browser = b => b \in overlapped'
    BY <1>2 DEF Sent, Rest, UnderWay
  <2>2. \A p, q \in Request :
          UnderWay(p)' /\ UnderWay(q)' /\ req'[p].browser = req'[q].browser /\ p # q
          => req'[p].browser \in overlapped'
    BY <2>1 DEF OneRequest, UnderWay
  <2>3. \A q \in Request :
          UnderWay(q)' /\ req'[q].browser \notin overlapped'
          => /\ req'[q].url \in {"chat", "data", "logout"} => req'[q].user = jar'[req'[q].browser].user
             /\ req'[q].stage = "get" =>
                  req'[q].cookie \in {jar'[req'[q].browser].root, jar'[req'[q].browser].data} \cap Ids
    BY <1>2, <2>1 DEF OneRequest, UnderWay
  <2>. QED
    BY <2>2, <2>3 DEF OneRequest
<1>3. ASSUME NEW r, NEW b, SentForm(r, b) \/ SentUnknown(r, b) \/ SentPage(r, b) \/ SentLogout(r, b)
      PROVE  OneRequest'
  BY <1>2, <1>3 DEF SentForm, SentUnknown, SentPage, SentLogout
<1>4. ASSUME NEW r, \/ LoggedInBy(r) \/ DbHandled(r) \/ GetHandled(r)
                    \/ RefreshBegun(r) \/ RefreshDone(r) \/ RefreshDenied(r)
      PROVE  OneRequest'
  <2>1. /\ Rewrites(req', r) /\ r \in Request /\ UnderWay(r) /\ req'[r].stage # "get"
        /\ UNCHANGED <<jar, overlapped>>
    BY <1>4 DEF LoggedInBy, DbHandled, GetHandled, Handled, RefreshBegun, RefreshDone,
                RefreshDenied, UnderWay
  <2>. QED
    BY <1>1, <2>1
<1>5. ASSUME NEW r, Received(r) PROVE OneRequest'
  <2>1. /\ r \in Request /\ UnderWay(r) /\ ~UnderWay(r)' /\ overlapped' = overlapped
        /\ \A q \in Request : q # r => req'[q] = req[q]
        /\ \A b \in Browser : b # req[r].browser => jar'[b] = jar[b]
    BY <1>5 DEF Received, Rest, UnderWay, Core, Typed
  <2>2. \A q \in Request : UnderWay(q) => req[q].browser \in Browser
    BY DEF Core, Fits, RequestFits, UnderWay
  <2>3. \A q \in Request : UnderWay(q)' => q # r /\ UnderWay(q)
    BY <2>1 DEF UnderWay
  <2>4. \A q \in Request : UnderWay(q)' /\ req'[q].browser \notin overlapped'
                           => jar'[req[q].browser] = jar[req[q].browser]
    BY <2>1, <2>2, <2>3 DEF OneRequest
  <2>. QED
    BY <2>1, <2>3, <2>4 DEF OneRequest
<1>6. ASSUME UNCHANGED <<req, jar, overlapped>> PROVE OneRequest'
  BY <1>6 DEF OneRequest, UnderWay
<1>. QED
  BY <1>3, <1>4, <1>5, <1>6 DEF StepIs, Stored, Deleted, Lapsed, Timed, OnStore, Stutters

\* A SET that decides what the session of u becomes was queued before.
LEMMA LastSetKept ==
  ASSUME NEW e, NEW k, PipeKeeps(e, k), k \in Nat, NEW u, NEW id,
         \A j \in (Len(pipe) - e + 1)..(Len(pipe) - e + k) :
           ~(pipe'[j].op = "set" /\ pipe'[j].user = u),
         NEW i \in 1..Len(pipe'), SetOf(u, id, i)',
         \A m \in (i + 1)..Len(pipe') : ~Touches(u, m)'
  PROVE  /\ i + e \in 1..Len(pipe) /\ SetOf(u, id, i + e)
         /\ \A m \in (i + e + 1)..Len(pipe) : ~Touches(u, m)
<1>1. i <= Len(pipe) - e
  <2>1. pipe'[i].op = "set" /\ pipe'[i].user = u
    BY DEF SetOf
  <2>. QED
    BY <2>1 DEF PipeKeeps
<1>2. i + e \in 1..Len(pipe) /\ pipe'[i] = pipe[i + e]
  BY <1>1 DEF PipeKeeps
<1>3. ASSUME NEW m \in (i + e + 1)..Len(pipe), Touches(u, m) PROVE FALSE
  <2>1. /\ m - e \in (i + 1)..Len(pipe') /\ m - e \in 1..(Len(pipe) - e)
        /\ (m - e) + e = m
    BY <1>2, <1>3 DEF PipeKeeps
  <2>2. pipe'[m - e] = pipe[m]
    BY <2>1 DEF PipeKeeps
  <2>3. ~(pipe'[m - e].op \in {"set", "del"} /\ pipe'[m - e].user = u)
    BY <2>1 DEF Touches
  <2>. QED
    BY <1>3, <2>2, <2>3 DEF Touches
<1>. QED
  BY <1>2, <1>3 DEF SetOf

LEMMA UntouchedWas ==
  ASSUME NEW e, NEW k, PipeKeeps(e, k), k \in Nat, NEW u,
         \A m \in 1..Len(pipe') : ~Touches(u, m)'
  PROVE  \A m \in (e + 1)..Len(pipe) : ~Touches(u, m)
<1>. SUFFICES ASSUME NEW m \in (e + 1)..Len(pipe), Touches(u, m) PROVE FALSE
  OBVIOUS
<1>1. /\ m - e \in 1..Len(pipe') /\ m - e \in 1..(Len(pipe) - e) /\ (m - e) + e = m
  BY DEF PipeKeeps
<1>2. pipe'[m - e] = pipe[m]
  BY <1>1 DEF PipeKeeps
<1>3. ~(pipe'[m - e].op \in {"set", "del"} /\ pipe'[m - e].user = u)
  BY <1>1 DEF Touches
<1>. QED
  BY <1>2, <1>3 DEF Touches

\* The step changes nothing for u in what it queues, takes or does to the store.
LeavesAlone(u) ==
  \E e, k :
    /\ PipeKeeps(e, k) /\ k \in Nat
    /\ \A j \in (Len(pipe) - e + 1)..(Len(pipe) - e + k) :
         ~(pipe'[j].op = "set" /\ pipe'[j].user = u)
    /\ e = 1 => ~Touches(u, 1)
    /\ store'[u] # None => store[u] # None /\ store'[u].id = store[u].id

LEMMA BecomesKept ==
  ASSUME NEW u, NEW id, LeavesAlone(u), Becomes(u, id)'
  PROVE  Becomes(u, id)
<1>1. PICK e, k :
        /\ PipeKeeps(e, k) /\ k \in Nat
        /\ \A j \in (Len(pipe) - e + 1)..(Len(pipe) - e + k) :
             ~(pipe'[j].op = "set" /\ pipe'[j].user = u)
        /\ e = 1 => ~Touches(u, 1)
        /\ store'[u] # None => store[u] # None /\ store'[u].id = store[u].id
  BY DEF LeavesAlone
<1>2. CASE \E i \in 1..Len(pipe') :
             SetOf(u, id, i)' /\ \A m \in (i + 1)..Len(pipe') : ~Touches(u, m)'
  BY <1>1, <1>2, LastSetKept DEF Becomes
<1>3. CASE /\ \A m \in 1..Len(pipe') : ~Touches(u, m)'
           /\ store'[u] # None /\ store'[u].id = id
  <2>1. \A m \in (e + 1)..Len(pipe) : ~Touches(u, m)
    BY <1>1, <1>3, UntouchedWas
  <2>2. \A m \in 1..Len(pipe) : ~Touches(u, m)
    BY <1>1, <2>1 DEF PipeKeeps
  <2>. QED
    BY <1>1, <1>3, <2>2 DEF Becomes
<1>. QED
  BY <1>2, <1>3 DEF Becomes, SetOf, Touches

\* What is queued last for u decides.
LEMMA LastDecides ==
  ASSUME NEW u, NEW id, NEW n \in 1..Len(pipe'), Len(pipe') \in Nat,
         pipe'[n].op \in {"set", "del"}, pipe'[n].user = u,
         \A m \in (n + 1)..Len(pipe') : pipe'[m].op # "set",
         Becomes(u, id)'
  PROVE  pipe'[n].op = "set" /\ pipe'[n].id = id
<1>1. CASE \E i \in 1..Len(pipe') :
             SetOf(u, id, i)' /\ \A m \in (i + 1)..Len(pipe') : ~Touches(u, m)'
  <2>1. PICK i \in 1..Len(pipe') :
          /\ pipe'[i].op = "set" /\ pipe'[i].id = id
          /\ \A m \in (i + 1)..Len(pipe') : ~(pipe'[m].op \in {"set", "del"} /\ pipe'[m].user = u)
    BY <1>1 DEF SetOf, Touches
  <2>2. n \notin (i + 1)..Len(pipe') /\ i \notin (n + 1)..Len(pipe')
    BY <2>1
  <2>3. i = n
    BY <2>2
  <2>. QED
    BY <2>1, <2>3
<1>2. CASE \A m \in 1..Len(pipe') : ~Touches(u, m)'
  BY <1>2 DEF Touches
<1>. QED
  BY <1>1, <1>2 DEF Becomes, SetOf, Touches

\* The jars b may have, of the other browsers and of the one the step is about.
LEMMA JarOfOther ==
  ASSUME NEW r \in Request, Rest(r), NEW b, jar'[b] = jar[b],
         UnderWay(r) => req[r].browser # b, UnderWay(r)' => req'[r].browser # b,
         NEW j, IsJar(b, j)'
  PROVE  IsJar(b, j)
<1>1. CASE ~Busy(b)' /\ j = jar'[b]
  <2>1. ~Busy(b)
    BY <1>1 DEF Busy, Rest, UnderWay
  <2>. QED
    BY <1>1, <2>1 DEF IsJar
<1>2. CASE \E q \in Request : UnderWay(q)' /\ req'[q].browser = b /\ j = AfterAnswer(b, q)'
  <2>1. PICK q \in Request : UnderWay(q)' /\ req'[q].browser = b /\ j = AfterAnswer(b, q)'
    BY <1>2
  <2>2. q # r /\ req'[q] = req[q]
    BY <2>1 DEF Rest
  <2>3. UnderWay(q) /\ req[q].browser = b /\ AfterAnswer(b, q)' = AfterAnswer(b, q)
    BY <2>1, <2>2 DEF UnderWay, AfterAnswer
  <2>. QED
    BY <2>1, <2>3 DEF IsJar
<1>. QED
  BY <1>1, <1>2 DEF IsJar, Busy, UnderWay, AfterAnswer

LEMMA JarOfHandled ==
  ASSUME NEW r \in Request, Rewrites(req', r), jar' = jar, UnderWay(r), UnderWay(r)',
         req'[r].newSession = req[r].newSession, req'[r].newUser = req[r].newUser,
         NEW b, NEW j, IsJar(b, j)'
  PROVE  IsJar(b, j)
<1>1. JarWith(jar[b], req'[r]) = JarWith(jar[b], req[r])
  BY DEF Rewrites, JarWith
<1>2. \A q \in Request : /\ UnderWay(q)' <=> UnderWay(q)
                         /\ req'[q].browser = req[q].browser
                         /\ JarWith(jar[b], req'[q]) = JarWith(jar[b], req[q])
  BY <1>1 DEF Rewrites, UnderWay
<1>3. \A q \in Request : AfterAnswer(b, q)' = AfterAnswer(b, q)
  BY <1>2 DEF AfterAnswer
<1>. QED
  BY <1>2, <1>3 DEF IsJar, Busy

LEMMA JarOfSender ==
  ASSUME NEW r, NEW b, Sent(r, b), UnderWay(r)', b \notin overlapped', NEW j, IsJar(b, j)'
  PROVE  ~Busy(b) /\ j = AfterAnswer(b, r)'
<1>1. ~Busy(b)
  BY DEF Sent, Busy
<1>2. \A q \in Request : UnderWay(q)' /\ req'[q].browser = b => q = r
  BY <1>1 DEF Sent, Rest, Busy, UnderWay
<1>3. Busy(b)'
  BY DEF Busy, Sent
<1>. QED
  BY <1>1, <1>2, <1>3 DEF IsJar, AfterAnswer

LEMMA JarOfOnly ==
  ASSUME OneRequest', NEW r \in Request, NEW b, UnderWay(r)', req'[r].browser = b,
         b \notin overlapped', NEW j, IsJar(b, j)'
  PROVE  j = AfterAnswer(b, r)'
<1>1. \A q \in Request : UnderWay(q)' /\ req'[q].browser = b => q = r
  BY DEF OneRequest
<1>2. Busy(b)'
  BY DEF Busy
<1>. QED
  BY <1>1, <1>2 DEF IsJar

\* The answer that sets nothing, and those that set a session.
LEMMA JarAfter ==
  ASSUME NEW j \in Jar, NEW x
  PROVE  /\ x.newSession = None /\ x.newUser = None => JarWith(j, x) = j
         /\ x.newUser = None => JarWith(j, x).user = j.user
         /\ x.newUser # None => JarWith(j, x).user = x.newUser
         /\ x.newSession # None => x.newSession \in {JarWith(j, x).root, JarWith(j, x).data}
<1>1. PICK u, s, d : j = [user |-> u, root |-> s, data |-> d]
  BY DEF Jar
<1>. QED
  BY <1>1 DEF JarWith

\* Whatever the owner of a session may come to hold, its id is among it or was.
LEMMA OwnerKeeps ==
  ASSUME OwnerHolds, overlapped \subseteq overlapped',
         \A u \in User, b \in Browser \ overlapped', j \in Jar, id \in Ids :
           owner'[u] = b /\ IsJar(b, j)' /\ j.user = u /\ Becomes(u, id)'
           => \/ owner[u] = b /\ IsJar(b, j) /\ Becomes(u, id)
              \/ id \in {j.root, j.data}
  PROVE  OwnerHolds'
BY DEF OwnerHolds

LEMMA SentOwner ==
  ASSUME Core, Core', OwnerHolds, NEW r, NEW b,
         SentForm(r, b) \/ SentUnknown(r, b) \/ SentPage(r, b) \/ SentLogout(r, b)
  PROVE  OwnerHolds'
<1>1. /\ Sent(r, b) /\ UnderWay(r)' /\ r \in Request /\ Rest(r) /\ req'[r].browser = b /\ ~UnderWay(r)
      /\ jar' = jar /\ owner' = owner /\ store' = store /\ overlapped \subseteq overlapped'
      /\ b \in Browser /\ req'[r].newUser = None
      /\ req'[r].newSession = None \/ SentLogout(r, b)
  BY DEF SentForm, SentUnknown, SentPage, SentLogout, Sent, UnderWay
<1>2. ASSUME NEW k, PipeKeeps(0, k)
      PROVE  /\ (Len(pipe) - 0 + 1)..(Len(pipe) - 0 + 0) = {}
             /\ (Len(pipe) - 0 + 1)..(Len(pipe) - 0 + 1) = {Len(pipe) + 1}
  BY <1>2 DEF PipeKeeps
<1>3. ASSUME NEW u \in User PROVE LeavesAlone(u)
  <2>1. CASE PipeKeeps(0, 0)
    BY <1>1, <1>2, <2>1 DEF LeavesAlone
  <2>2. CASE PipeKeeps(0, 1) /\ pipe'[Len(pipe) + 1].op # "set"
    BY <1>1, <1>2, <2>2 DEF LeavesAlone
  <2>. QED
    BY <2>1, <2>2, CommandsTyped DEF SentForm, SentUnknown, SentPage, SentLogout
<1>4. ASSUME NEW u \in User, NEW id, SentLogout(r, b), jar[b].user = u, Becomes(u, id)' PROVE FALSE
  <2>. DEFINE n == Len(pipe) + 1
  <2>1. /\ n \in 1..Len(pipe') /\ Len(pipe') \in Nat /\ Len(pipe') = n
        /\ pipe'[n].op = "del" /\ pipe'[n].user = u
    BY <1>4, CommandsTyped DEF SentLogout, PipeKeeps
  <2>. HIDE DEF n
  <2>2. \A m \in (n + 1)..Len(pipe') : pipe'[m].op # "set"
    BY <2>1
  <2>. QED
    BY <1>4, <2>1, <2>2, LastDecides
<1>5. ASSUME NEW u \in User, NEW c \in Browser \ overlapped', NEW j \in Jar, NEW id \in Ids,
             owner'[u] = c, IsJar(c, j)', j.user = u, Becomes(u, id)'
      PROVE  owner[u] = c /\ IsJar(c, j) /\ Becomes(u, id)
  <2>1. owner[u] = c /\ Becomes(u, id)
    BY <1>1, <1>3, <1>5, BecomesKept
  <2>2. CASE c # b
    BY <1>1, <1>5, <2>1, <2>2, JarOfOther
  <2>3. CASE c = b
    <3>1. ~Busy(b) /\ j = AfterAnswer(b, r)'
      BY <1>1, <1>5, <2>3, JarOfSender
    <3>2. /\ req'[r].newSession = None => j = jar[b]
          /\ j.user = jar[b].user
      BY <1>1, <3>1, JarAfter DEF AfterAnswer, Core, Typed
    <3>3. req'[r].newSession = None
      BY <1>1, <1>4, <1>5, <3>2
    <3>. QED
      BY <2>1, <2>3, <3>1, <3>2, <3>3 DEF IsJar
  <2>. QED
    BY <2>2, <2>3
<1>. QED
  BY <1>1, <1>5, OwnerKeeps

\* The handler of r makes the session id of its user, w, and gives it to its browser.
LEMMA MakesOwner ==
  ASSUME Core, Core', OwnerHolds, OneRequest', NEW r \in Request, Rest(r), UnderWay(r), UnderWay(r)',
         NEW b \in Browser, req[r].browser = b, req'[r].browser = b,
         NEW w \in User, owner' = [owner EXCEPT ![w] = b], jar' = jar, overlapped' = overlapped,
         \A u \in User : u # w => LeavesAlone(u),
         NEW s, \A id : Becomes(w, id)' => id = s, s # None, req'[r].newSession = s,
         JarWith(jar[b], req'[r]).user = w \/ b \in overlapped
  PROVE  OwnerHolds'
<1>1. ASSUME NEW u \in User, NEW c \in Browser \ overlapped', NEW j \in Jar, NEW id \in Ids,
             owner'[u] = c, IsJar(c, j)', j.user = u, Becomes(u, id)'
      PROVE  \/ owner[u] = c /\ IsJar(c, j) /\ Becomes(u, id)
             \/ id \in {j.root, j.data}
  <2>1. owner'[w] = b /\ \A v \in User : v # w => owner'[v] = owner[v]
    BY DEF Core, Typed
  <2>2. jar[b] \in Jar
    BY DEF Core, Typed
  <2>3. CASE c # b
    <3>1. u # w
      BY <1>1, <2>1, <2>3
    <3>2. owner[u] = c /\ Becomes(u, id)
      BY <1>1, <2>1, <3>1, BecomesKept
    <3>. QED
      BY <1>1, <2>3, <3>2, JarOfOther
  <2>4. CASE c = b
    <3>1. j = AfterAnswer(b, r)'
      BY <1>1, <2>4, JarOfOnly
    <3>2. j = JarWith(jar[b], req'[r])
      BY <3>1 DEF AfterAnswer
    <3>3. u = w /\ id = s
      BY <1>1, <2>4, <3>2
    <3>. QED
      BY <2>2, <3>2, <3>3, JarAfter
  <2>. QED
    BY <2>3, <2>4
<1>. QED
  BY <1>1, OwnerKeeps

LEMMA LoggedInOwner ==
  ASSUME Core, Core', OwnerHolds, OneRequest', NEW r, LoggedInBy(r),
         NEW w, w = req[r].user, NEW b, b = req[r].browser, NEW s, s = lastId + 1
  PROVE  OwnerHolds'
<1>. DEFINE n == Len(pipe) + 1
<1>1. /\ r \in Request /\ Rest(r) /\ UnderWay(r) /\ UnderWay(r)' /\ b \in Browser
      /\ req'[r].browser = b /\ w \in User /\ owner' = [owner EXCEPT ![w] = b]
      /\ jar' = jar /\ overlapped' = overlapped /\ store' = store
      /\ req'[r].newSession = s /\ req'[r].newUser = w
      /\ PipeKeeps(0, 2)
  BY DEF LoggedInBy, Rewrites, Rest, UnderWay
<1>2. /\ n \in 1..Len(pipe') /\ Len(pipe') \in Nat /\ Len(pipe') = n + 1
      /\ (Len(pipe) - 0 + 1)..(Len(pipe) - 0 + 2) = {n, n + 1}
      /\ pipe'[n].op = "set" /\ pipe'[n].user = w /\ pipe'[n].id = s
      /\ pipe'[n + 1].op = "expire"
  BY CommandsTyped DEF LoggedInBy, PipeKeeps
<1>3. w # None /\ s # None /\ jar[b] \in Jar
  BY <1>1, SessionAssumption, NoneAssumption DEF Core, Typed, Ids
<1>. HIDE DEF n
<1>4. ASSUME NEW u \in User, u # w PROVE LeavesAlone(u)
  BY <1>1, <1>2, <1>4 DEF LeavesAlone
<1>5. ASSUME NEW id, Becomes(w, id)' PROVE id = s
  <2>1. \A m \in (n + 1)..Len(pipe') : pipe'[m].op # "set"
    BY <1>2
  <2>. QED
    BY <1>2, <1>5, <2>1, LastDecides
<1>6. JarWith(jar[b], req'[r]).user = w
  BY <1>1, <1>3, JarAfter
<1>. QED
  BY <1>1, <1>3, <1>4, <1>5, <1>6, MakesOwner

LEMMA RefreshDoneOwner ==
  ASSUME Core, Core', AnswerFits, OwnerHolds, OneRequest, OneRequest', NEW r, RefreshDone(r),
         NEW w, w = req[r].user, NEW b, b = req[r].browser, NEW s, s = sessionObj
  PROVE  OwnerHolds'
<1>. DEFINE n == Len(pipe)
<1>1. /\ r \in Request /\ Rest(r) /\ UnderWay(r) /\ UnderWay(r)' /\ b \in Browser
      /\ req'[r].browser = b /\ w \in User /\ owner' = [owner EXCEPT ![w] = b]
      /\ jar' = jar /\ overlapped' = overlapped /\ store' = store
      /\ req'[r].newSession = s /\ req'[r].newUser \in {None, req[r].newUser}
      /\ PipeKeeps(1, 2) /\ req[r].stage = "ttl" /\ req[r].url \in {"chat", "data"}
  BY DEF RefreshDone, Rewrites, Rest, UnderWay
<1>2. /\ n \in 1..Len(pipe') /\ Len(pipe') \in Nat /\ Len(pipe') = n + 1
      /\ (n - 1 + 1)..(n - 1 + 2) = {n, n + 1}
      /\ pipe'[n].op = "set" /\ pipe'[n].user = w /\ pipe'[n].id = s
      /\ pipe'[n + 1].op = "expire" /\ pipe[1].op = "ttl"
  BY CommandsTyped DEF RefreshDone, PipeKeeps
<1>3. s # None /\ jar[b] \in Jar /\ req'[r].newUser = None
  BY <1>1, SessionAssumption, NoneAssumption DEF Core, Typed, Ids, AnswerFits
<1>4. ASSUME NEW u \in User, u # w PROVE LeavesAlone(u)
  <2>1. PipeKeeps(1, 2) /\ 2 \in Nat /\ ~Touches(u, 1)
    BY <1>1, <1>2 DEF Touches
  <2>2. \A j \in (Len(pipe) - 1 + 1)..(Len(pipe) - 1 + 2) :
          ~(pipe'[j].op = "set" /\ pipe'[j].user = u)
    BY <1>2, <1>4
  <2>. QED
    BY <1>1, <2>1, <2>2 DEF LeavesAlone
<1>. HIDE DEF n
<1>5. ASSUME NEW id, Becomes(w, id)' PROVE id = s
  <2>1. \A m \in (n + 1)..Len(pipe') : pipe'[m].op # "set"
    BY <1>2
  <2>. QED
    BY <1>2, <1>5, <2>1, LastDecides
<1>6. JarWith(jar[b], req'[r]).user = w \/ b \in overlapped
  BY <1>1, <1>3, JarAfter DEF OneRequest
<1>. QED
  BY <1>1, <1>3, <1>4, <1>5, <1>6, MakesOwner

\* No browser can hold more than before, and no session becomes what it would not.
LEMMA OwnerQuiet ==
  ASSUME OwnerHolds, owner' = owner, overlapped' = overlapped,
         \A u \in User, id \in Ids : Becomes(u, id)' => Becomes(u, id),
         \A b \in Browser \ overlapped', j \in Jar : IsJar(b, j)' => IsJar(b, j)
  PROVE  OwnerHolds'
BY OwnerKeeps

LEMMA JarsSame ==
  ASSUME UNCHANGED <<req, jar>>, NEW b, NEW j, IsJar(b, j)'
  PROVE  IsJar(b, j)
BY DEF IsJar, Busy, UnderWay, AfterAnswer

LEMMA HandledOwner ==
  ASSUME Core, AnswerFits, OwnerHolds, NEW r, DbHandled(r) \/ GetHandled(r) \/ RefreshBegun(r)
  PROVE  OwnerHolds'
<1>1. /\ r \in Request /\ Rewrites(req', r) /\ UnderWay(r) /\ UnderWay(r)'
      /\ UNCHANGED <<store, jar, overlapped, owner>>
  BY DEF DbHandled, GetHandled, Handled, RefreshBegun, UnderWay
<1>2. req'[r].newSession = req[r].newSession /\ req'[r].newUser = req[r].newUser
  BY <1>1 DEF DbHandled, GetHandled, RefreshBegun, AnswerFits
<1>3. ASSUME NEW u \in User PROVE LeavesAlone(u)
  <2>1. CASE DbHandled(r)
    <3>1. PipeKeeps(0, 0) /\ (Len(pipe) - 0 + 1)..(Len(pipe) - 0 + 0) = {}
      BY <2>1 DEF DbHandled, Handled, PipeKeeps
    <3>. QED
      BY <1>1, <3>1 DEF LeavesAlone
  <2>2. CASE GetHandled(r)
    <3>1. PipeKeeps(1, 0) /\ (Len(pipe) - 1 + 1)..(Len(pipe) - 1 + 0) = {} /\ ~Touches(u, 1)
      BY <2>2, CommandsTyped DEF GetHandled, Handled, PipeKeeps, Touches
    <3>. QED
      BY <1>1, <3>1 DEF LeavesAlone
  <2>3. CASE RefreshBegun(r)
    <3>1. /\ PipeKeeps(1, 1) /\ (Len(pipe) - 1 + 1)..(Len(pipe) - 1 + 1) = {Len(pipe)}
          /\ ~Touches(u, 1) /\ pipe'[Len(pipe)].op # "set"
      BY <2>3, CommandsTyped DEF RefreshBegun, PipeKeeps, Touches
    <3>. QED
      BY <1>1, <3>1 DEF LeavesAlone
  <2>. QED
    BY <2>1, <2>2, <2>3
<1>. QED
  BY <1>1, <1>2, <1>3, JarOfHandled, BecomesKept, OwnerQuiet

LEMMA DeniedOwner ==
  ASSUME Core, OwnerHolds, OneRequest, OneRequest', NEW r, RefreshDenied(r),
         NEW w, w = req[r].user, NEW b, b = req[r].browser
  PROVE  OwnerHolds'
<1>. DEFINE n == Len(pipe)
<1>1. /\ r \in Request /\ Rest(r) /\ UnderWay(r) /\ UnderWay(r)' /\ req[r].url \in {"chat", "data"}
      /\ req'[r].browser = b /\ w \in User /\ req'[r].newUser = None
      /\ UNCHANGED <<store, jar, overlapped, owner>>
  BY DEF RefreshDenied, Rewrites, Rest, UnderWay
<1>2. /\ PipeKeeps(1, 1) /\ n \in 1..Len(pipe') /\ Len(pipe') \in Nat /\ Len(pipe') = n
      /\ (n - 1 + 1)..(n - 1 + 1) = {n} /\ pipe[1].op = "ttl"
      /\ pipe'[n].op = "del" /\ pipe'[n].user = w
  BY CommandsTyped DEF RefreshDenied, PipeKeeps
<1>3. ASSUME NEW u PROVE LeavesAlone(u)
  <2>1. 1 \in Nat /\ ~Touches(u, 1) /\ ~(pipe'[n].op = "set" /\ pipe'[n].user = u)
    BY <1>2 DEF Touches
  <2>. QED
    BY <1>1, <1>2, <2>1 DEF LeavesAlone
<1>. HIDE DEF n
<1>4. ASSUME NEW id, Becomes(w, id)' PROVE FALSE
  <2>1. \A m \in (n + 1)..Len(pipe') : pipe'[m].op # "set"
    BY <1>2
  <2>. QED
    BY <1>2, <1>4, <2>1, LastDecides
<1>5. ASSUME NEW u \in User, NEW c \in Browser \ overlapped', NEW j \in Jar, NEW id \in Ids,
             owner'[u] = c, IsJar(c, j)', j.user = u, Becomes(u, id)'
      PROVE  owner[u] = c /\ IsJar(c, j) /\ Becomes(u, id)
  <2>1. u # w /\ owner[u] = c /\ Becomes(u, id)
    BY <1>1, <1>3, <1>4, <1>5, BecomesKept
  <2>2. CASE c # b
    BY <1>1, <1>5, <2>1, <2>2, JarOfOther
  <2>3. CASE c = b
    <3>1. j = AfterAnswer(b, r)'
      BY <1>1, <1>5, <2>3, JarOfOnly
    <3>2. j = JarWith(jar[b], req'[r]) /\ jar[b] \in Jar
      BY <1>1, <1>5, <2>3, <3>1 DEF AfterAnswer, Core, Typed
    <3>3. j.user = jar[b].user
      BY <1>1, <3>2, JarAfter
    <3>4. jar[b].user = w
      BY <1>1, <1>5, <2>3 DEF OneRequest
    <3>. QED
      BY <1>5, <2>1, <3>3, <3>4
  <2>. QED
    BY <2>2, <2>3
<1>. QED
  BY <1>1, <1>5, OwnerKeeps

LEMMA StoreOwner ==
  ASSUME Core, OwnerHolds, NEW w,
         Stored(w) \/ Deleted(w) \/ Lapsed(w) \/ Timed(w, 0) \/ Timed(w, 1)
  PROVE  OwnerHolds'
<1>1. /\ w \in User /\ UNCHANGED <<req, jar, overlapped, owner>>
      /\ \A v \in User : v # w => store'[v] = store[v]
      /\ PipeKeeps(0, 0) \/ PipeKeeps(1, 0)
  BY DEF Stored, Deleted, Lapsed, Timed, OnStore
<1>2. (Len(pipe) - 0 + 1)..(Len(pipe) - 0 + 0) = {} /\ (Len(pipe) - 1 + 1)..(Len(pipe) - 1 + 0) = {}
  BY <1>1 DEF PipeKeeps
<1>3. \A e, u : PipeKeeps(e, 0) /\ (e = 1 => ~Touches(u, 1))
                /\ (store'[u] # None => store[u] # None /\ store'[u].id = store[u].id)
                => LeavesAlone(u)
  BY <1>2 DEF LeavesAlone, PipeKeeps
<1>4. ASSUME NEW u \in User, u # w PROVE LeavesAlone(u)
  <2>1. PICK e : OnStore(w, e) /\ (e = 1 => ~Touches(u, 1))
    BY <1>4 DEF Stored, Deleted, Lapsed, Timed, Touches
  <2>. QED
    BY <1>1, <1>3, <1>4, <2>1 DEF OnStore
<1>5. CASE Lapsed(w) \/ Timed(w, 0) \/ Timed(w, 1)
  <2>1. LeavesAlone(w)
    BY <1>3, <1>5 DEF Lapsed, Timed, OnStore, Touches
  <2>2. \A u \in User : LeavesAlone(u)
    BY <1>4, <2>1
  <2>. QED
    BY <1>1, <2>2, JarsSame, BecomesKept, OwnerQuiet
<1>6. CASE Stored(w) \/ Deleted(w)
  <2>1. /\ PipeKeeps(1, 0) /\ 0 \in Nat
        /\ store'[w] # None => SetOf(w, store'[w].id, 1) /\ 1 \in 1..Len(pipe)
    BY <1>6 DEF Stored, Deleted, OnStore, SetOf, PipeKeeps
  <2>2. ASSUME NEW id, Becomes(w, id)' PROVE Becomes(w, id)
    <3>1. CASE \E i \in 1..Len(pipe') :
                 SetOf(w, id, i)' /\ \A m \in (i + 1)..Len(pipe') : ~Touches(w, m)'
      BY <1>2, <2>1, <3>1, LastSetKept DEF Becomes
    <3>2. CASE /\ \A m \in 1..Len(pipe') : ~Touches(w, m)'
               /\ store'[w] # None /\ store'[w].id = id
      <4>1. \A m \in (1 + 1)..Len(pipe) : ~Touches(w, m)
        BY <2>1, <3>2, UntouchedWas
      <4>. QED
        BY <2>1, <3>2, <4>1 DEF Becomes
    <3>. QED
      BY <2>2, <3>1, <3>2 DEF Becomes, SetOf, Touches
  <2>3. ASSUME NEW u \in User, NEW id \in Ids, Becomes(u, id)' PROVE Becomes(u, id)
    BY <1>4, <2>2, <2>3, BecomesKept
  <2>. QED
    BY <1>1, <2>3, JarsSame, OwnerQuiet
<1>. QED
  BY <1>5, <1>6

LEMMA ReceivedOwner ==
  ASSUME Core, OwnerHolds, OneRequest, NEW r, Received(r), NEW b, b = req[r].browser
  PROVE  OwnerHolds'
<1>1. /\ r \in Request /\ Rest(r) /\ UnderWay(r) /\ ~UnderWay(r)' /\ b \in Browser
      /\ UNCHANGED <<store, overlapped, owner>> /\ PipeKeeps(0, 0)
      /\ jar'[b] = AfterAnswer(b, r)
      /\ \A c \in Browser : c # b => jar'[c] = jar[c]
  BY DEF Received, UnderWay, Core, Typed
<1>2. ASSUME NEW u \in User PROVE LeavesAlone(u)
  <2>1. (Len(pipe) - 0 + 1)..(Len(pipe) - 0 + 0) = {}
    BY <1>1 DEF PipeKeeps
  <2>. QED
    BY <1>1, <2>1 DEF LeavesAlone
<1>3. ASSUME NEW c \in Browser \ overlapped', NEW j \in Jar, IsJar(c, j)' PROVE IsJar(c, j)
  <2>1. CASE c # b
    BY <1>1, <1>3, <2>1, JarOfOther
  <2>2. CASE c = b
    <3>1. \A q \in Request : UnderWay(q)' => req'[q].browser # b
      <4>1. \A q \in Request : UnderWay(q)' => q # r /\ req'[q] = req[q] /\ UnderWay(q)
        BY <1>1 DEF Rest, UnderWay
      <4>. QED
        BY <1>1, <2>2, <4>1 DEF OneRequest
    <3>2. j = AfterAnswer(b, r)
      BY <1>1, <1>3, <2>2, <3>1 DEF IsJar
    <3>. QED
      BY <1>1, <2>2, <3>2 DEF IsJar
  <2>. QED
    BY <2>1, <2>2
<1>. QED
  BY <1>1, <1>2, <1>3, BecomesKept, OwnerQuiet

LEMMA OwnerNext ==
  Core /\ Core' /\ AnswerFits /\ OneRequest /\ OneRequest' /\ OwnerHolds /\ StepIs => OwnerHolds'
<1>. SUFFICES ASSUME Core, Core', AnswerFits, OneRequest, OneRequest', OwnerHolds, StepIs
     PROVE  OwnerHolds'
  OBVIOUS
<1>1. CASE \E r, b : SentForm(r, b) \/ SentUnknown(r, b) \/ SentPage(r, b) \/ SentLogout(r, b)
  BY <1>1, SentOwner
<1>2. ASSUME NEW r, LoggedInBy(r) PROVE OwnerHolds'
  BY <1>2, LoggedInOwner
<1>3. ASSUME NEW r, RefreshDone(r) PROVE OwnerHolds'
  BY <1>3, RefreshDoneOwner
<1>4. ASSUME NEW r, RefreshDenied(r) PROVE OwnerHolds'
  BY <1>4, DeniedOwner
<1>5. ASSUME NEW r, Received(r) PROVE OwnerHolds'
  BY <1>5, ReceivedOwner
<1>6. CASE Stutters
  <2>1. PipeKeeps(0, 0) /\ UNCHANGED <<store, req, jar, overlapped, owner>>
    BY <1>6 DEF Stutters
  <2>2. (Len(pipe) - 0 + 1)..(Len(pipe) - 0 + 0) = {}
    BY <2>1 DEF PipeKeeps
  <2>3. \A u \in User : LeavesAlone(u)
    BY <2>1, <2>2 DEF LeavesAlone
  <2>. QED
    BY <2>1, <2>3, JarsSame, BecomesKept, OwnerQuiet
<1>. QED
  BY <1>1, <1>2, <1>3, <1>4, <1>5, <1>6, HandledOwner, StoreOwner DEF StepIs

LEMMA OwnerInit == SessionInit => OneRequest /\ OwnerHolds
<1>. SUFFICES ASSUME SessionInit PROVE OneRequest /\ OwnerHolds
  OBVIOUS
<1>1. Core /\ pipe = <<>> /\ Len(pipe) = 0 /\ \A r \in Request : ~UnderWay(r)
  BY CoreInit DEF SessionInit, UnderWay, Unsent
<1>2. \A b, j : IsJar(b, j) => j = jar[b]
  BY <1>1 DEF IsJar, Busy
<1>3. \A u, id : Becomes(u, id) => store[u] # None /\ store[u].id = id
  BY <1>1 DEF Becomes
<1>4. ASSUME NEW u \in User, NEW b \in Browser, owner[u] = b, store[u] # None
      PROVE  store[u].id = jar[b].root
  <2>1. PICK c \in Browser, v \in User : LoggedIn(c, v)
    BY <1>4 DEF SessionInit
  <2>2. u = v /\ b = c
    BY <1>4, <2>1, SessionAssumption DEF LoggedIn
  <2>. QED
    BY <2>1, <2>2 DEF LoggedIn
<1>. QED
  BY <1>1, <1>2, <1>3, <1>4 DEF OneRequest, OwnerHolds

LEMMA CookieInvariance ==
  SessionSpec => [](Core /\ AnswerFits /\ IdsInv /\ OneRequest /\ OwnerHolds)
<1>1. SessionInit => Core /\ AnswerFits /\ IdsInv /\ OneRequest /\ OwnerHolds
  BY CoreInit, AnswersAndIdsInit, OwnerInit
<1>2. Core /\ AnswerFits /\ IdsInv /\ OneRequest /\ OwnerHolds /\ [SessionNext]_sessionVars
      => (Core /\ AnswerFits /\ IdsInv /\ OneRequest /\ OwnerHolds)'
  BY CoreNext, StepIsOne, AnswerFitsNext, IdsNext, OneRequestNext, OwnerNext
<1>. QED
  BY <1>1, <1>2, PTL DEF SessionSpec

\* Nothing that is queued touches a session that is not being changed.
LEMMA NotChanging ==
  ASSUME Core, NEW u, ~Changing(u), NEW i \in 1..Len(pipe)
  PROVE  ~Touches(u, i)
<1>1. pipe[i] \in PipeCommand
  BY ElementOfSeq DEF Core, Typed
<1>. QED
  BY <1>1, PipeCommandParts DEF Changing, SetQueued, Touches

(* A browser that asks one thing at a time holds the id of the session it made
   in one of its cookies, whatever the requests of the others do to sessionObj
   between the SET and the answer (server.js:427-452).                       *)
THEOREM CookieFollowsStoreHolds == SessionSpec => []CookieFollowsStore
<1>1. Core /\ OwnerHolds => CookieFollowsStore
  <2>. SUFFICES ASSUME Core, OwnerHolds, NEW u \in User, NEW b \in Browser,
                       owner[u] = b, jar[b].user = u, b \notin overlapped,
                       ~Busy(b), ~Changing(u), store[u] # None
       PROVE  store[u].id \in {jar[b].root, jar[b].data}
    BY DEF CookieFollowsStore
  <2>1. store[u].id \in Ids /\ jar[b] \in Jar
    BY DEF Core, Typed, Session
  <2>2. Becomes(u, store[u].id)
    BY NotChanging DEF Becomes
  <2>3. IsJar(b, jar[b])
    BY DEF IsJar
  <2>. QED
    BY <2>1, <2>2, <2>3 DEF OwnerHolds
<1>. QED
  BY <1>1, CookieInvariance, PTL

-----------------------------------------------------------------------------
(* Logout.  b has logged out, or its logout is on its way.                   *)
LeftBy(b) == b \in out \/ \E r \in Request : UnderWay(r) /\ req[r].browser = b /\ req[r].url = "logout"

CookieIds(b) == {jar[b].root, jar[b].data} \cap Ids

\* Whoever reads the session of u at place e of the queue finds no id of b.
HiddenAt(b, u, e) ==
  /\ store[u] # None /\ store[u].id \in CookieIds(b) => \E k \in 1..(e - 1) : DelOf(u, k)
  /\ \A i \in 1..(e - 1) : \A id \in CookieIds(b) :
       SetOf(u, id, i) => \E k \in (i + 1)..(e - 1) : DelOf(u, k)

LoggedOut(b, u) ==
  /\ HiddenAt(b, u, Len(pipe) + 1)
  /\ \A e \in 1..Len(pipe) :
       pipe[e].op = "get" /\ req[pipe[e].req].browser = b => HiddenAt(b, u, e)
  /\ Refreshing(u) # {} => sessionObj \notin CookieIds(b)
  /\ \A r \in Request :
       UnderWay(r) /\ req[r].browser = b /\ req[r].url \in {"chat", "data"}
       => req[r].stage \in {"get", "answered"} /\ req[r].newSession = None

LogoutInv ==
  racing = {} /\ mixed = {} =>
    \A b \in Browser \ overlapped, u \in User :
      LeftBy(b) /\ jar[b].user = u => LoggedOut(b, u)

\* A step after which b, logged out as u, still is.
KeepsOut(b, u, e, k) ==
  /\ PipeKeeps(e, k) /\ k \in Nat /\ CookieIds(b)' \subseteq CookieIds(b)
  /\ \A q \in Request : req[q].stage = "get" => req'[q].browser = req[q].browser
  /\ \A m \in (Len(pipe) - e + 1)..(Len(pipe) - e + k) :
       pipe'[m].op = "set" /\ pipe'[m].user = u => pipe'[m].id \notin CookieIds(b)
  /\ store'[u] # None /\ store'[u].id \in CookieIds(b) =>
       /\ e = 1 => ~DelOf(u, 1)
       /\ \/ store[u] # None /\ store[u].id = store'[u].id
          \/ e = 1 /\ SetOf(u, store'[u].id, 1)
  /\ Refreshing(u)' # {} => sessionObj' \notin CookieIds(b)
  /\ \A q \in Request :
       \/ req'[q] = req[q]
       \/ UnderWay(q)' /\ req'[q].browser = b /\ req'[q].url \in {"chat", "data"}
          => req'[q].stage \in {"get", "answered"} /\ req'[q].newSession = None

\* What a reader at place p finds, who would find it at place s before the step.
LEMMA HiddenKept ==
  ASSUME NEW b, NEW u, NEW e, NEW k, KeepsOut(b, u, e, k),
         NEW p \in 1..(Len(pipe) - e + k + 1),
         NEW s, s = IF p <= Len(pipe) - e + 1 THEN p + e ELSE Len(pipe) + 1,
         HiddenAt(b, u, s)
  PROVE  HiddenAt(b, u, p)'
<1>. DEFINE n == Len(pipe) - e
<1>1. /\ n \in Nat /\ e \in {0, 1} /\ k \in Nat /\ Len(pipe) \in Nat /\ Len(pipe) = n + e
      /\ \A i \in 1..n : pipe'[i] = pipe[i + e]
      /\ s \in Nat /\ p \in Nat /\ s <= n + e + 1 /\ s <= p + e
      /\ p <= n + 1 => s = p + e
      /\ p > n + 1 => s = n + e + 1
  BY DEF KeepsOut, PipeKeeps
<1>2. /\ CookieIds(b)' \subseteq CookieIds(b)
      /\ \A m \in (n + 1)..(n + k) :
           pipe'[m].op = "set" /\ pipe'[m].user = u => pipe'[m].id \notin CookieIds(b)
      /\ store'[u] # None /\ store'[u].id \in CookieIds(b) =>
           /\ e = 1 => ~DelOf(u, 1)
           /\ \/ store[u] # None /\ store[u].id = store'[u].id
              \/ e = 1 /\ SetOf(u, store'[u].id, 1)
  BY DEF KeepsOut
<1>. HIDE DEF n
\* A DEL among the old commands that is not taken is where the reader sees it.
<1>3. ASSUME NEW d \in 1..(s - 1), DelOf(u, d), e = 1 => d # 1
      PROVE  /\ d - e \in 1..(p - 1) /\ d - e \in Nat
             /\ pipe'[d - e].op = "del" /\ pipe'[d - e].user = u
  <2>1. d - e \in 1..n /\ d - e \in 1..(p - 1) /\ (d - e) + e = d
    BY <1>1, <1>3
  <2>2. pipe'[d - e] = pipe[d]
    BY <1>1, <2>1
  <2>. QED
    BY <1>3, <2>1, <2>2 DEF DelOf
<1>4. ASSUME store'[u] # None, store'[u].id \in CookieIds(b)'
      PROVE  \E d \in 1..(p - 1) : pipe'[d].op = "del" /\ pipe'[d].user = u
  <2>0. store'[u].id \in CookieIds(b)
    BY <1>2, <1>4
  <2>1. CASE store[u] # None /\ store[u].id = store'[u].id
    <3>1. PICK d \in 1..(s - 1) : DelOf(u, d)
      BY <2>0, <2>1 DEF HiddenAt
    <3>2. e = 1 => d # 1
      BY <1>2, <1>4, <2>0, <3>1
    <3>. QED
      BY <1>3, <3>1, <3>2
  <2>2. CASE e = 1 /\ SetOf(u, store'[u].id, 1)
    <3>1. CASE s <= 1
      BY <1>1, <2>2, <3>1
    <3>2. CASE ~(s <= 1)
      <4>1. 1 \in 1..(s - 1)
        BY <1>1, <3>2
      <4>2. PICK d \in (1 + 1)..(s - 1) : DelOf(u, d)
        BY <2>0, <2>2, <4>1 DEF HiddenAt
      <4>. QED
        BY <1>1, <1>3, <4>2
    <3>. QED
      BY <3>1, <3>2
  <2>. QED
    BY <1>2, <1>4, <2>0, <2>1, <2>2
<1>5. ASSUME NEW i \in 1..(p - 1), NEW id \in CookieIds(b)',
             pipe'[i].op = "set", pipe'[i].user = u, pipe'[i].id = id
      PROVE  \E d \in (i + 1)..(p - 1) : pipe'[d].op = "del" /\ pipe'[d].user = u
  <2>1. i \in 1..n
    BY <1>1, <1>2, <1>5, SMTT(30)
  <2>2. pipe'[i] = pipe[i + e] /\ i + e \in 1..(s - 1)
    <3>1. pipe'[i] = pipe[i + e]
      BY <1>1, <2>1
    <3>2. i + e \in 1..(s - 1)
      <4>1. /\ n \in Nat /\ e \in {0, 1} /\ p \in Nat /\ s \in Nat
            /\ p <= n + 1 => s = p + e
            /\ p > n + 1 => s = n + e + 1
        BY <1>1
      <4>. QED
        BY ONLY <2>1, <4>1, i \in 1..(p - 1)
    <3>. QED
      BY <3>1, <3>2
  <2>3. SetOf(u, id, i + e) /\ id \in CookieIds(b)
    BY <1>2, <1>5, <2>2 DEF SetOf
  <2>4. PICK d \in (i + e + 1)..(s - 1) : DelOf(u, d)
    BY <2>2, <2>3 DEF HiddenAt
  <2>5. d \in 1..(s - 1) /\ (e = 1 => d # 1) /\ i + 1 <= d - e
    BY <1>1, <2>4
  <2>. QED
    BY <1>3, <2>4, <2>5
<1>. QED
  BY <1>4, <1>5 DEF HiddenAt, SetOf, DelOf

LEMMA LoggedOutKept ==
  ASSUME Core, Core', NEW b, NEW u, NEW e, NEW k, KeepsOut(b, u, e, k), LoggedOut(b, u)
  PROVE  LoggedOut(b, u)'
<1>1. /\ Len(pipe) \in Nat /\ e \in {0, 1} /\ e <= Len(pipe) /\ k \in Nat
      /\ Len(pipe') = Len(pipe) - e + k
      /\ \A i \in 1..(Len(pipe) - e) : pipe'[i] = pipe[i + e]
  BY DEF KeepsOut, PipeKeeps
<1>2. HiddenAt(b, u, Len(pipe) + 1)'
  <2>1. ASSUME NEW p, p = Len(pipe') + 1 PROVE HiddenAt(b, u, p)'
    <3>1. /\ p \in 1..(Len(pipe) - e + k + 1)
          /\ Len(pipe) + 1 = IF p <= Len(pipe) - e + 1 THEN p + e ELSE Len(pipe) + 1
      BY <1>1, <2>1
    <3>2. HiddenAt(b, u, Len(pipe) + 1)
      BY DEF LoggedOut
    <3>. QED
      BY <3>1, <3>2, HiddenKept
  <2>. QED
    BY <2>1 DEF HiddenAt, SetOf, DelOf
<1>3. ASSUME NEW p \in 1..Len(pipe'), pipe'[p].op = "get", req'[pipe'[p].req].browser = b
      PROVE  HiddenAt(b, u, p)'
  <2>1. CASE p <= Len(pipe) - e
    <3>1. pipe'[p] = pipe[p + e] /\ p + e \in 1..Len(pipe)
      BY <1>1, <2>1
    <3>2. pipe[p + e] \in PipeCommand /\ PipeFits(pipe[p + e], req)
      BY <3>1, ElementOfSeq DEF Core, Typed, Fits
    <3>3. pipe[p + e].req \in Request /\ req[pipe[p + e].req].stage = "get"
      BY <1>3, <3>1, <3>2, PipeCommandParts DEF PipeFits
    <3>4. req[pipe[p + e].req].browser = b
      BY <1>3, <3>1, <3>3 DEF KeepsOut
    <3>5. HiddenAt(b, u, p + e)
      BY <1>3, <3>1, <3>4 DEF LoggedOut
    <3>6. /\ p \in 1..(Len(pipe) - e + k + 1)
          /\ p + e = IF p <= Len(pipe) - e + 1 THEN p + e ELSE Len(pipe) + 1
      BY <1>1, <2>1
    <3>. QED
      BY <3>5, <3>6, HiddenKept
  <2>2. CASE ~(p <= Len(pipe) - e)
    <3>1. /\ p \in 1..(Len(pipe) - e + k + 1)
          /\ Len(pipe) + 1 = IF p <= Len(pipe) - e + 1 THEN p + e ELSE Len(pipe) + 1
      BY <1>1, <2>2
    <3>2. HiddenAt(b, u, Len(pipe) + 1)
      BY DEF LoggedOut
    <3>. QED
      BY <3>1, <3>2, HiddenKept
  <2>. QED
    BY <2>1, <2>2
<1>4. Refreshing(u)' # {} => sessionObj' \notin CookieIds(b)'
  BY DEF KeepsOut
<1>5. ASSUME NEW q \in Request, UnderWay(q)', req'[q].browser = b, req'[q].url \in {"chat", "data"}
      PROVE  req'[q].stage \in {"get", "answered"} /\ req'[q].newSession = None
  BY <1>5 DEF KeepsOut, LoggedOut, UnderWay
<1>. QED
  BY <1>2, <1>3, <1>4, <1>5 DEF LoggedOut

\* What has raced or been mixed up, and who has had two requests, stays recorded.
LEMMA HistoryGrows ==
  StepIs => racing \subseteq racing' /\ mixed \subseteq mixed' /\ overlapped \subseteq overlapped'
BY DEF StepIs, SentForm, SentUnknown, SentPage, SentLogout, Sent, LoggedInBy, DbHandled, GetHandled,
       Handled, RefreshBegun, RefreshDone, RefreshDenied, IdTaken, Received, Stored, Deleted, Lapsed,
       Timed, OnStore, Stutters

\* The queue behind a step.
LEMMA Places ==
  ASSUME NEW e, NEW k, PipeKeeps(e, k)
  PROVE  /\ (Len(pipe) - e + 1)..(Len(pipe) - e + 0) = {}
         /\ (Len(pipe) - 0 + 1)..(Len(pipe) - 0 + 1) = {Len(pipe) + 1}
         /\ (Len(pipe) - 0 + 1)..(Len(pipe) - 0 + 2) = {Len(pipe) + 1, Len(pipe) + 2}
         /\ (Len(pipe) - 1 + 1)..(Len(pipe) - 1 + 1) = {Len(pipe)}
         /\ (Len(pipe) - 1 + 1)..(Len(pipe) - 1 + 2) = {Len(pipe), Len(pipe) + 1}
<1>1. Len(pipe) \in Nat /\ e \in {0, 1}
  BY DEF PipeKeeps
<1>2. \A n \in Int : /\ (n + 1)..(n + 0) = {} /\ (n + 1)..(n + 1) = {n + 1}
                     /\ (n + 1)..(n + 2) = {n + 1, n + 2}
  OBVIOUS
<1>3. /\ Len(pipe) - e \in Int /\ Len(pipe) - 0 = Len(pipe) /\ Len(pipe) - 1 \in Int
      /\ Len(pipe) - 1 + 1 = Len(pipe) /\ Len(pipe) - 1 + 2 = Len(pipe) + 1 /\ Len(pipe) \in Int
  BY <1>1
<1>. QED
  BY <1>2, <1>3

LEMMA SentOut ==
  ASSUME Core, Core', NEW r, NEW c,
         SentForm(r, c) \/ SentUnknown(r, c) \/ SentPage(r, c) \/ SentLogout(r, c),
         NEW b, NEW u, b = c => ~SentLogout(r, c), LoggedOut(b, u)
  PROVE  LoggedOut(b, u)'
<1>1. /\ Sent(r, c) /\ r \in Request /\ Rest(r) /\ req[r].stage = "unsent"
      /\ UNCHANGED <<store, sessionObj, jar>>
      /\ req'[r].browser = c /\ req'[r].stage # "ttl"
      /\ SentLogout(r, c) \/ (req'[r].stage \in {"db", "get", "answered"} /\ req'[r].newSession = None)
  BY DEF SentForm, SentUnknown, SentPage, SentLogout, Sent
<1>2. /\ CookieIds(b)' \subseteq CookieIds(b)
      /\ store'[u] # None /\ store'[u].id \in CookieIds(b) => store[u] # None /\ store[u].id = store'[u].id
      /\ Refreshing(u)' # {} => sessionObj' \notin CookieIds(b)
  BY <1>1, RefreshingKept DEF CookieIds, LoggedOut
<1>3. \A q \in Request :
       /\ req[q].stage = "get" => req'[q].browser = req[q].browser
       /\ \/ req'[q] = req[q]
          \/ UnderWay(q)' /\ req'[q].browser = b /\ req'[q].url \in {"chat", "data"}
             => req'[q].stage \in {"get", "answered"} /\ req'[q].newSession = None
  <2>1. req'[r].url \in {"chat", "data"} /\ req'[r].browser = b
        => req'[r].stage \in {"get", "answered"} /\ req'[r].newSession = None
    BY <1>1 DEF SentForm, SentUnknown, SentPage, SentLogout
  <2>. QED
    BY <1>1, <2>1 DEF Rest
<1>4. \E k \in {0, 1} : /\ PipeKeeps(0, k) /\ k \in Nat
                        /\ k = 1 => pipe'[Len(pipe) + 1].op # "set"
  BY CommandsTyped DEF SentForm, SentUnknown, SentPage, SentLogout
<1>5. \E k : KeepsOut(b, u, 0, k)
  <2>1. PICK k \in {0, 1} : /\ PipeKeeps(0, k) /\ k \in Nat
                            /\ k = 1 => pipe'[Len(pipe) + 1].op # "set"
    BY <1>4
  <2>2. \A m \in (Len(pipe) - 0 + 1)..(Len(pipe) - 0 + k) : pipe'[m].op # "set"
    BY <2>1, Places
  <2>3. KeepsOut(b, u, 0, k)
    BY <1>2, <1>3, <2>1, <2>2 DEF KeepsOut
  <2>. QED
    BY <2>3
<1>. QED
  BY <1>5, LoggedOutKept

\* A logout hides what the store has, and asks one thing at a time.
LEMMA LogoutOut ==
  ASSUME Core, Core', NEW r, NEW b, SentLogout(r, b), b \notin overlapped', racing' = {},
         NEW u, u = jar[b].user, NEW n, n = Len(pipe) + 1
  PROVE  LoggedOut(b, u)'
<1>1. /\ Sent(r, b) /\ r \in Request /\ Rest(r) /\ ~Busy(b) /\ req'[r].url = "logout"
      /\ req'[r].stage = "answered" /\ Refreshing(u) = {}
  BY DEF SentLogout, Sent, Busy
<1>2. /\ n \in Nat /\ Len(pipe') = n /\ n \in 1..n
      /\ pipe'[n].op = "del" /\ pipe'[n].user = u
  BY CommandsTyped DEF SentLogout, PipeKeeps
<1>3. HiddenAt(b, u, Len(pipe) + 1)'
  <2>1. \A m \in 1..(n + 1 - 1) : m # n => n \in (m + 1)..(n + 1 - 1)
    BY <1>2
  <2>2. n \in 1..(n + 1 - 1)
    BY <1>2
  <2>3. \A id : ~SetOf(u, id, n)'
    BY <1>2 DEF SetOf
  <2>4. ASSUME NEW p, p = n + 1 PROVE HiddenAt(b, u, p)'
    BY <1>2, <2>1, <2>2, <2>3, <2>4 DEF HiddenAt, SetOf, DelOf
  <2>. QED
    BY <1>2, <2>4 DEF HiddenAt, SetOf, DelOf
<1>4. ASSUME NEW q \in Request, UnderWay(q)', req'[q].browser = b PROVE q = r
  BY <1>1, <1>4 DEF Busy, UnderWay, Rest
<1>5. ASSUME NEW p \in 1..Len(pipe'), pipe'[p].op = "get", req'[pipe'[p].req].browser = b
      PROVE  FALSE
  <2>1. pipe'[p] \in PipeCommand /\ PipeFits(pipe'[p], req')
    BY ElementOfSeq DEF Core, Typed, Fits
  <2>2. pipe'[p].req \in Request /\ req'[pipe'[p].req].stage = "get"
    BY <1>5, <2>1, PipeCommandParts DEF PipeFits
  <2>. QED
    BY <1>1, <1>4, <1>5, <2>2 DEF UnderWay
<1>6. Refreshing(u)' = {}
  BY <1>1 DEF Refreshing, Rest
<1>7. ASSUME NEW q \in Request, UnderWay(q)', req'[q].browser = b, req'[q].url \in {"chat", "data"}
      PROVE  FALSE
  BY <1>1, <1>4, <1>7
<1>. QED
  BY <1>3, <1>5, <1>6, <1>7 DEF LoggedOut

\* A request of a browser that has logged out is a GET that finds nothing of it.
LEMMA LeftRequests ==
  ASSUME Core, OneRequest, NEW b \in Browser \ overlapped, NEW u, jar[b].user = u, LoggedOut(b, u),
         NEW r \in Request, UnderWay(r), req[r].browser = b, req[r].url \in {"chat", "data"}
  PROVE  /\ req[r].stage \in {"get", "answered"}
         /\ pipe[1] = DbCmd("get", r) /\ req[r].stage = "get" /\ 1 \in 1..Len(pipe) => ~Matches(r)
<1>1. req[r].stage \in {"get", "answered"}
  BY DEF LoggedOut
<1>2. ASSUME pipe[1] = DbCmd("get", r), req[r].stage = "get", 1 \in 1..Len(pipe), Matches(r)
      PROVE  FALSE
  <2>1. /\ req[r].user = u /\ req[r].cookie \in CookieIds(b)
        /\ pipe[1].op = "get" /\ req[pipe[1].req].browser = b
    BY <1>2, CommandsTyped DEF OneRequest, CookieIds
  <2>2. HiddenAt(b, u, 1) /\ 1..(1 - 1) = {}
    BY <1>2, <2>1 DEF LoggedOut
  <2>3. store[u] # None /\ store[u].id \in CookieIds(b)
    BY <1>2, <2>1 DEF Matches
  <2>. QED
    BY <2>2, <2>3 DEF HiddenAt
<1>. QED
  BY <1>1, <1>2

LEMMA HandlerOut ==
  ASSUME Core, Core', AnswerFits, IdsInv, OneRequest, NEW r,
         \/ LoggedInBy(r) \/ DbHandled(r) \/ GetHandled(r)
         \/ RefreshBegun(r) \/ RefreshDone(r) \/ RefreshDenied(r),
         NEW b \in Browser \ overlapped, NEW u \in User, jar[b].user = u, LoggedOut(b, u), mixed' = {}
  PROVE  LoggedOut(b, u)'
<1>1. /\ r \in Request /\ Rewrites(req', r) /\ UnderWay(r) /\ UNCHANGED <<store, jar>>
      /\ \A q \in Request : q # r => req'[q] = req[q]
      /\ req'[r].browser = req[r].browser /\ req'[r].url = req[r].url /\ req'[r].user = req[r].user
  BY DEF LoggedInBy, DbHandled, GetHandled, Handled, RefreshBegun, RefreshDone, RefreshDenied,
         UnderWay, Rewrites
<1>2. /\ CookieIds(b)' \subseteq CookieIds(b)
      /\ store'[u] # None /\ store'[u].id \in CookieIds(b) => store[u] # None /\ store[u].id = store'[u].id
      /\ \A q \in Request : req[q].stage = "get" => req'[q].browser = req[q].browser
  BY <1>1 DEF CookieIds
<1>3. lastId + 1 \notin CookieIds(b)
  <2>1. CookieIds(b) \subseteq 1..lastId
    BY DEF IdsInv, Given, CookieIds
  <2>2. lastId \in Nat
    BY SessionAssumption DEF Core, Typed, Ids
  <2>. QED
    BY <2>1, <2>2
<1>4. /\ req[r].browser = b /\ req[r].url \in {"chat", "data"} =>
           /\ req[r].stage \in {"get", "answered"}
           /\ pipe[1] = DbCmd("get", r) /\ req[r].stage = "get" /\ 1 \in 1..Len(pipe) => ~Matches(r)
  BY <1>1, LeftRequests
<1>5. \A e, k : PipeKeeps(e, k) /\ e = 1 => 1 \in 1..Len(pipe)
  BY DEF PipeKeeps
<1>6. \A q \in Request :
        \/ req'[q] = req[q]
        \/ UnderWay(q)' /\ req'[q].browser = b /\ req'[q].url \in {"chat", "data"}
           => req'[q].stage \in {"get", "answered"} /\ req'[q].newSession = None
  <2>1. CASE LoggedInBy(r)
    BY <1>1, <2>1 DEF LoggedInBy
  <2>2. CASE DbHandled(r)
    <3>1. req[r].stage = "db" => req[r].url \notin {"chat", "data"}
      BY <1>1 DEF Core, Fits, RequestFits
    <3>. QED
      BY <1>1, <1>4, <2>2, <3>1 DEF DbHandled
  <2>3. CASE GetHandled(r)
    <3>1. PipeKeeps(1, 0)
      BY <2>3 DEF GetHandled, Handled
    <3>. QED
      BY <1>1, <1>4, <1>5, <2>3, <3>1 DEF GetHandled
  <2>4. CASE RefreshBegun(r)
    <3>1. PipeKeeps(1, 1)
      BY <2>4 DEF RefreshBegun
    <3>2. req[r].url \in {"chat", "data"}
      BY <1>1, <2>4 DEF RefreshBegun, Core, Fits, RequestFits
    <3>. QED
      BY <1>1, <1>4, <1>5, <2>4, <3>1, <3>2 DEF RefreshBegun
  <2>5. CASE RefreshDone(r)
    BY <1>1, <1>4, <2>5 DEF RefreshDone
  <2>6. CASE RefreshDenied(r)
    BY <1>1, <1>4, <2>6 DEF RefreshDenied
  <2>. QED
    BY <2>1, <2>2, <2>3, <2>4, <2>5, <2>6
<1>7. Refreshing(u)' # {} => sessionObj' \notin CookieIds(b)
  <2>1. CASE RefreshBegun(r) \/ LoggedInBy(r)
    <3>1. sessionObj' = lastId + 1
      BY <2>1 DEF RefreshBegun, LoggedInBy, IdTaken
    <3>. QED
      BY <1>3, <3>1
  <2>2. CASE DbHandled(r) \/ GetHandled(r) \/ RefreshDone(r) \/ RefreshDenied(r)
    <3>1. sessionObj' = sessionObj /\ Rest(r) /\ req'[r].stage # "ttl"
      BY <1>1, <2>2 DEF DbHandled, GetHandled, Handled, RefreshDone, RefreshDenied, Rest
    <3>2. Refreshing(u)' \subseteq Refreshing(u)
      BY <1>1, <3>1, RefreshingKept
    <3>. QED
      BY <3>1, <3>2 DEF LoggedOut
  <2>. QED
    BY <2>1, <2>2
<1>8. \E e, k : /\ PipeKeeps(e, k) /\ k \in Nat /\ (e = 1 => ~DelOf(u, 1))
                /\ \A m \in (Len(pipe) - e + 1)..(Len(pipe) - e + k) :
                     pipe'[m].op = "set" /\ pipe'[m].user = u => pipe'[m].id \notin CookieIds(b)
  <2>1. CASE LoggedInBy(r)
    <3>1. /\ PipeKeeps(0, 2) /\ pipe'[Len(pipe) + 1].id = lastId + 1
          /\ pipe'[Len(pipe) + 2].op = "expire"
      BY <2>1, CommandsTyped DEF LoggedInBy
    <3>. QED
      BY <1>3, <3>1, Places
  <2>2. CASE DbHandled(r)
    <3>1. PipeKeeps(0, 0)
      BY <2>2 DEF DbHandled, Handled
    <3>. QED
      BY <3>1, Places
  <2>3. CASE GetHandled(r)
    <3>1. PipeKeeps(1, 0) /\ pipe[1].op = "get"
      BY <2>3, CommandsTyped DEF GetHandled, Handled
    <3>. QED
      BY <3>1, Places DEF DelOf
  <2>4. CASE RefreshBegun(r)
    <3>1. PipeKeeps(1, 1) /\ pipe[1].op = "get" /\ pipe'[Len(pipe)].op = "ttl"
      BY <2>4, CommandsTyped DEF RefreshBegun
    <3>. QED
      BY <3>1, Places DEF DelOf
  <2>5. CASE RefreshDone(r)
    <3>1. /\ PipeKeeps(1, 2) /\ pipe[1].op = "ttl" /\ pipe'[Len(pipe) + 1].op = "expire"
          /\ pipe'[Len(pipe)].user = req[r].user /\ pipe'[Len(pipe)].id = sessionObj
          /\ req[r].stage = "ttl"
      BY <2>5, CommandsTyped DEF RefreshDone
    <3>2. req[r].user = u => sessionObj \notin CookieIds(b)
      BY <1>1, <3>1 DEF LoggedOut, Refreshing
    <3>3. \A m \in {Len(pipe), Len(pipe) + 1} :
            pipe'[m].op = "set" /\ pipe'[m].user = u => pipe'[m].id \notin CookieIds(b)
      BY <3>1, <3>2
    <3>. QED
      BY <3>1, <3>3, Places, SMTT(30) DEF DelOf
  <2>6. CASE RefreshDenied(r)
    <3>1. PipeKeeps(1, 1) /\ pipe[1].op = "ttl" /\ pipe'[Len(pipe)].op = "del"
      BY <2>6, CommandsTyped DEF RefreshDenied
    <3>. QED
      BY <3>1, Places DEF DelOf
  <2>. QED
    BY <2>1, <2>2, <2>3, <2>4, <2>5, <2>6
<1>9. \E e, k : KeepsOut(b, u, e, k)
  BY <1>2, <1>6, <1>7, <1>8 DEF KeepsOut
<1>. QED
  BY <1>9, LoggedOutKept

LEMMA StoreOut ==
  ASSUME Core, Core', NEW w,
         Stored(w) \/ Deleted(w) \/ Lapsed(w) \/ Timed(w, 0) \/ Timed(w, 1) \/ Stutters,
         NEW b, NEW u \in User, LoggedOut(b, u)
  PROVE  LoggedOut(b, u)'
<1>. DEFINE Fine(e) ==
       /\ PipeKeeps(e, 0)
       /\ store'[u] # None => /\ e = 1 => ~DelOf(u, 1)
                              /\ \/ store[u] # None /\ store[u].id = store'[u].id
                                 \/ e = 1 /\ SetOf(u, store'[u].id, 1)
<1>1. UNCHANGED <<req, jar, sessionObj>>
  BY DEF Stored, Deleted, Lapsed, Timed, OnStore, Stutters
<1>2. /\ CookieIds(b)' \subseteq CookieIds(b)
      /\ Refreshing(u)' # {} => sessionObj' \notin CookieIds(b)
  BY <1>1 DEF CookieIds, Refreshing, LoggedOut
<1>3. \E e : Fine(e)
  <2>1. CASE Stored(w)
    <3>1. Fine(1)
      BY <2>1 DEF Stored, OnStore, DelOf, SetOf
    <3>. QED
      BY <3>1
  <2>2. CASE Deleted(w)
    <3>1. Fine(1)
      BY <2>2 DEF Deleted, OnStore, DelOf
    <3>. QED
      BY <3>1
  <2>3. CASE Lapsed(w)
    <3>1. Fine(0)
      BY <2>3 DEF Lapsed, OnStore
    <3>. QED
      BY <3>1
  <2>4. ASSUME NEW e, Timed(w, e), e \in {0, 1} PROVE Fine(e)
    BY <2>4 DEF Timed, OnStore, DelOf
  <2>5. CASE Stutters
    <3>1. Fine(0)
      BY <2>5 DEF Stutters
    <3>. QED
      BY <3>1
  <2>. HIDE DEF Fine
  <2>. QED
    BY <2>1, <2>2, <2>3, <2>4, <2>5
<1>4. PICK e : Fine(e)
  BY <1>3
<1>5. (Len(pipe) - e + 1)..(Len(pipe) - e + 0) = {} /\ 0 \in Nat
  BY <1>4, Places
<1>6. KeepsOut(b, u, e, 0)
  BY <1>1, <1>2, <1>4, <1>5 DEF KeepsOut
<1>. QED
  BY <1>6, LoggedOutKept

LEMMA ReceivedOut ==
  ASSUME Core, Core', AnswerFits, OneRequest, NEW r, Received(r),
         NEW b \in Browser \ overlapped, NEW u \in User, LeftBy(b)', jar'[b].user = u
  PROVE  /\ LeftBy(b) /\ jar[b].user = u
         /\ LoggedOut(b, u) => LoggedOut(b, u)'
<1>1. /\ r \in Request /\ Rest(r) /\ UnderWay(r) /\ ~UnderWay(r)' /\ req'[r].stage = "received"
      /\ UNCHANGED <<store, sessionObj>> /\ PipeKeeps(0, 0) /\ req[r].stage = "answered"
      /\ req'[r].newSession = None
      /\ \A c \in Browser : c # req[r].browser => jar'[c] = jar[c]
      /\ req[r].browser = b => jar'[b] = JarWith(jar[b], req[r])
      /\ jar[b] \in Jar
  BY DEF Received, UnderWay, Core, Typed, AfterAnswer
<1>2. /\ \A q \in Request : q # r => req'[q] = req[q]
      /\ \A q \in Request : UnderWay(q)' => q # r /\ UnderWay(q) /\ req'[q] = req[q]
  BY <1>1 DEF Rest, UnderWay
<1>3. CASE req[r].browser # b
  <2>1. jar'[b] = jar[b] /\ (b \in out' <=> b \in out)
    BY <1>1, <1>3 DEF Received
  <2>. QED
    <3>1. LeftBy(b)
      BY <1>2, <2>1 DEF LeftBy
    <3>2. CookieIds(b)' \subseteq CookieIds(b)
      BY <2>1 DEF CookieIds
    <3>3. Refreshing(u)' \subseteq Refreshing(u)
      BY <1>1, RefreshingKept
    <3>4. ASSUME LoggedOut(b, u) PROVE KeepsOut(b, u, 0, 0)
      <4>1. Refreshing(u)' # {} => sessionObj' \notin CookieIds(b)
        BY <1>1, <3>3, <3>4 DEF LoggedOut
      <4>2. (Len(pipe) - 0 + 1)..(Len(pipe) - 0 + 0) = {}
        BY <1>1, Places
      <4>. QED
        BY <1>1, <1>2, <3>2, <4>1, <4>2 DEF KeepsOut
    <3>. QED
      BY <2>1, <3>1, <3>4, LoggedOutKept
<1>4. CASE req[r].browser = b
  <2>1. \A q \in Request : UnderWay(q)' => req'[q].browser # b
    BY <1>1, <1>2, <1>4 DEF OneRequest
  <2>2. b \in out'
    BY <2>1 DEF LeftBy
  <2>3. req[r].newUser = None
    BY <2>2, <1>1, <1>4 DEF Received, AnswerFits
  <2>4. LeftBy(b)
    <3>1. CASE req[r].url = "logout"
      BY <1>1, <1>4, <3>1 DEF LeftBy
    <3>2. CASE req[r].url # "logout"
      BY <2>2, <2>3, <3>2 DEF Received, LeftBy
    <3>. QED
      BY <3>1, <3>2
  <2>5. jar[b].user = u
    BY <1>1, <1>4, <2>3, JarAfter
  <2>6. ASSUME LoggedOut(b, u) PROVE LoggedOut(b, u)'
    <3>1. req[r].newSession \in {None, 0}
      <4>1. CASE req[r].url \in {"login", "register"}
        BY <1>1, <2>3, <4>1 DEF AnswerFits
      <4>2. CASE req[r].url = "logout"
        BY <1>1, <4>2 DEF AnswerFits
      <4>3. CASE req[r].url \in {"chat", "data"}
        BY <1>1, <1>4, <2>6, <4>3 DEF LoggedOut
      <4>. QED
        BY <1>1, <4>1, <4>2, <4>3 DEF Core, Typed, Requests
    <3>2. CookieIds(b)' \subseteq CookieIds(b)
      <4>1. {jar'[b].root, jar'[b].data} \subseteq {jar[b].root, jar[b].data, 0}
        BY <1>1, <1>4, <3>1, ZenonT(30) DEF JarWith, Jar
      <4>2. 0 \notin Ids
        BY SessionAssumption DEF Ids
      <4>. QED
        BY <4>1, <4>2 DEF CookieIds
    <3>3. Refreshing(u)' \subseteq Refreshing(u)
      BY <1>1, RefreshingKept
    <3>4. Refreshing(u)' # {} => sessionObj' \notin CookieIds(b)
      BY <1>1, <2>6, <3>3 DEF LoggedOut
    <3>5. (Len(pipe) - 0 + 1)..(Len(pipe) - 0 + 0) = {}
      BY <1>1, Places
    <3>6. KeepsOut(b, u, 0, 0)
      BY <1>1, <1>2, <3>2, <3>4, <3>5 DEF KeepsOut
    <3>. QED
      BY <2>6, <3>6, LoggedOutKept
  <2>. QED
    BY <2>4, <2>5, <2>6
<1>. QED
  BY <1>3, <1>4

LEMMA LogoutNext ==
  Core /\ Core' /\ AnswerFits /\ IdsInv /\ OneRequest /\ LogoutInv /\ StepIs => LogoutInv'
<1>. SUFFICES ASSUME Core, Core', AnswerFits, IdsInv, OneRequest, LogoutInv, StepIs,
                     racing' = {}, mixed' = {}, NEW b \in Browser \ overlapped', NEW u \in User,
                     LeftBy(b)', jar'[b].user = u
     PROVE  LoggedOut(b, u)'
  BY DEF LogoutInv
<1>1. racing = {} /\ mixed = {} /\ b \in Browser \ overlapped
  BY HistoryGrows
<1>2. LeftBy(b) /\ jar[b].user = u => LoggedOut(b, u)
  BY <1>1 DEF LogoutInv
<1>3. ASSUME NEW r, NEW c,
             SentForm(r, c) \/ SentUnknown(r, c) \/ SentPage(r, c) \/ SentLogout(r, c)
      PROVE  LoggedOut(b, u)'
  <2>1. /\ jar' = jar /\ out' = out /\ r \in Request /\ Rest(r) /\ req'[r].browser = c
        /\ req'[r].url = "logout" => SentLogout(r, c)
    BY <1>3 DEF SentForm, SentUnknown, SentPage, SentLogout, Sent
  <2>2. CASE b = c /\ SentLogout(r, c)
    BY <2>1, <2>2, LogoutOut
  <2>3. CASE ~(b = c /\ SentLogout(r, c))
    <3>1. LeftBy(b)
      BY <2>1, <2>3 DEF LeftBy, Rest, UnderWay
    <3>. QED
      BY <1>2, <1>3, <2>1, <2>3, <3>1, SentOut
  <2>. QED
    BY <2>2, <2>3
<1>4. ASSUME NEW r, \/ LoggedInBy(r) \/ DbHandled(r) \/ GetHandled(r)
                    \/ RefreshBegun(r) \/ RefreshDone(r) \/ RefreshDenied(r)
      PROVE  LoggedOut(b, u)'
  <2>1. /\ Rewrites(req', r) /\ r \in Request /\ UnderWay(r) /\ UNCHANGED <<jar, out>>
    BY <1>4 DEF LoggedInBy, DbHandled, GetHandled, Handled, RefreshBegun, RefreshDone,
                RefreshDenied, UnderWay
  <2>2. LeftBy(b)
    BY <2>1 DEF LeftBy, Rewrites, UnderWay
  <2>. QED
    BY <1>1, <1>2, <1>4, <2>1, <2>2, HandlerOut
<1>5. ASSUME NEW r, Received(r) PROVE LoggedOut(b, u)'
  BY <1>1, <1>2, <1>5, ReceivedOut
<1>6. ASSUME NEW w, Stored(w) \/ Deleted(w) \/ Lapsed(w) \/ Timed(w, 0) \/ Timed(w, 1) \/ Stutters
      PROVE  LoggedOut(b, u)'
  <2>1. UNCHANGED <<req, jar, out>>
    BY <1>6 DEF Stored, Deleted, Lapsed, Timed, OnStore, Stutters
  <2>2. LeftBy(b)
    BY <2>1 DEF LeftBy, UnderWay
  <2>. QED
    BY <1>2, <1>6, <2>1, <2>2, StoreOut
<1>. QED
  BY <1>3, <1>4, <1>5, <1>6 DEF StepIs

(* After its logout a browser that asks one thing at a time presents no id the
   store has, though the cookie of "/data" is left to it (server.js:395), unless
   a refresh was past its GET when a session was deleted, or sessionObj was given
   a new id meanwhile.                                                       *)
THEOREM LogoutHoldsAlways == SessionSpec => []LogoutHolds
<1>1. SessionInit => LogoutInv
  BY DEF SessionInit, LogoutInv, LeftBy, UnderWay, Unsent
<1>2. (Core /\ AnswerFits /\ IdsInv /\ OneRequest /\ OwnerHolds)
      /\ (Core /\ AnswerFits /\ IdsInv /\ OneRequest /\ OwnerHolds)'
      /\ LogoutInv /\ [SessionNext]_sessionVars => LogoutInv'
  BY StepIsOne, LogoutNext
<1>3. Core /\ LogoutInv => LogoutHolds
  <2>. SUFFICES ASSUME Core, LogoutInv, NEW b \in out \ overlapped, NEW u \in User,
                       jar[b].user = u, ~Changing(u), store[u] # None, racing = {}, mixed = {},
                       store[u].id \in {jar[b].root, jar[b].data}
       PROVE  FALSE
    BY DEF LogoutHolds
  <2>1. LoggedOut(b, u) /\ store[u].id \in CookieIds(b) /\ Len(pipe) \in Nat
    BY LenProperties DEF LogoutInv, LeftBy, CookieIds, Core, Typed, Session
  <2>2. PICK k \in 1..(Len(pipe) + 1 - 1) : DelOf(u, k)
    BY <2>1 DEF LoggedOut, HiddenAt
  <2>3. k \in 1..Len(pipe) /\ Touches(u, k)
    BY <2>1, <2>2 DEF DelOf, Touches
  <2>. QED
    BY <2>3, NotChanging
<1>. QED
  BY <1>1, <1>2, <1>3, CookieInvariance, PTL DEF SessionSpec
=============================================================================
