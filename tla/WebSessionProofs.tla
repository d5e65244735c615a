-------------------------- MODULE WebSessionProofs --------------------------
(* Theorems of WebSession, for any users and browsers, any number of requests
   under way at once and any number of lists to read.                        *)
EXTENDS WebSession, TLAPS, SequenceTheorems, FiniteSetTheorems

-----------------------------------------------------------------------------
(* Queues: what is left of one when its head is taken and others are added.  *)

\* p is the queue q without its first d commands and with the commands cs added.
Moves(q, p, d, cs) ==
  /\ Len(p) = (Len(q) - d) + Len(cs)
  /\ \A i \in 1..(Len(q) - d) : p[i] = q[i + d]
  /\ \A i \in 1..Len(cs) : p[(Len(q) - d) + i] = cs[i]

LEMMA StayMoves ==
  ASSUME NEW S, NEW q \in Seq(S)
  PROVE  Moves(q, q, 0, <<>>)
BY DEF Moves

LEMMA PushMoves ==
  ASSUME NEW S, NEW q \in Seq(S), NEW cs \in Seq(S)
  PROVE  q \o cs \in Seq(S) /\ Moves(q, q \o cs, 0, cs)
<1>1. /\ q \o cs \in Seq(S)
      /\ Len(q \o cs) = Len(q) + Len(cs)
      /\ \A i \in 1..Len(q) + Len(cs) :
           (q \o cs)[i] = IF i <= Len(q) THEN q[i] ELSE cs[i - Len(q)]
  BY ConcatProperties
<1>. QED
  BY <1>1 DEF Moves

LEMMA PopMoves ==
  ASSUME NEW S, NEW q \in Seq(S), q # <<>>, NEW cs \in Seq(S)
  PROVE  /\ Tail(q) \o cs \in Seq(S)
         /\ Moves(q, Tail(q) \o cs, 1, cs)
         /\ Head(q) = q[1] /\ Len(q) \in Nat \ {0}
<1>1. /\ Tail(q) \in Seq(S)
      /\ Len(Tail(q)) = Len(q) - 1
      /\ \A i \in 1..Len(Tail(q)) : Tail(q)[i] = q[i + 1]
  BY HeadTailProperties
<1>2. /\ Tail(q) \o cs \in Seq(S)
      /\ Len(Tail(q) \o cs) = Len(Tail(q)) + Len(cs)
      /\ \A i \in 1..Len(Tail(q)) + Len(cs) :
           (Tail(q) \o cs)[i] = IF i <= Len(Tail(q)) THEN Tail(q)[i] ELSE cs[i - Len(Tail(q))]
  BY <1>1, ConcatProperties
<1>3. Len(q) \in Nat \ {0}
  BY EmptySeq
<1>. QED
  BY <1>1, <1>2, <1>3 DEF Moves

\* The same for a single command, or none.
LEMMA AppendMoves ==
  ASSUME NEW S, NEW q \in Seq(S), NEW c \in S
  PROVE  Append(q, c) \in Seq(S) /\ Moves(q, Append(q, c), 0, <<c>>)
BY AppendProperties DEF Moves

LEMMA TailMoves ==
  ASSUME NEW S, NEW q \in Seq(S), q # <<>>
  PROVE  /\ Tail(q) \in Seq(S) /\ Moves(q, Tail(q), 1, <<>>)
         /\ Head(q) = q[1] /\ Head(q) \in S /\ Len(q) \in Nat \ {0}
<1>1. Len(q) \in Nat \ {0}
  BY EmptySeq
<1>. QED
  BY <1>1, HeadTailProperties DEF Moves

LEMMA TailAppendMoves ==
  ASSUME NEW S, NEW q \in Seq(S), q # <<>>, NEW c \in S
  PROVE  Append(Tail(q), c) \in Seq(S) /\ Moves(q, Append(Tail(q), c), 1, <<c>>)
<1>1. Tail(q) \in Seq(S) /\ Moves(q, Tail(q), 1, <<>>) /\ Len(q) \in Nat \ {0}
  BY TailMoves
<1>2. Append(Tail(q), c) \in Seq(S) /\ Moves(Tail(q), Append(Tail(q), c), 0, <<c>>)
  BY <1>1, AppendMoves
<1>. QED
  BY <1>1, <1>2 DEF Moves

-----------------------------------------------------------------------------
(* Counting the commands of a kind in a queue.                               *)

Positions(q, T) == {i \in 1..Len(q) : q[i] \in T}

LEMMA PositionsFinite ==
  ASSUME NEW S, NEW q \in Seq(S), NEW T
  PROVE  IsFiniteSet(Positions(q, T)) /\ Cardinality(Positions(q, T)) \in Nat
<1>1. IsFiniteSet(1..Len(q))
  BY FS_Interval, LenProperties
<1>2. Positions(q, T) \in SUBSET (1..Len(q))
  BY DEF Positions
<1>. QED
  BY <1>1, <1>2, FS_Subset, FS_CardinalityType

\* A set of positions moved by k.
LEMMA ShiftCount ==
  ASSUME NEW A \in SUBSET Int, IsFiniteSet(A), NEW B \in SUBSET Int, NEW k \in Int,
         \A i \in A : i + k \in B, \A j \in B : j - k \in A
  PROVE  IsFiniteSet(B) /\ Cardinality(B) = Cardinality(A)
<1>. DEFINE f == [i \in A |-> i + k]
<1>1. f \in [A -> B]
  OBVIOUS
<1>2. \A i, j \in A : f[i] = f[j] => i = j
  OBVIOUS
<1>3. \A j \in B : \E i \in A : f[i] = j
  <2>. TAKE j \in B
  <2>1. j - k \in A /\ f[j - k] = j
    OBVIOUS
  <2>. QED
    BY <2>1
<1>. HIDE DEF f
<1>4. f \in Injection(A, B) /\ f \in Surjection(A, B)
  BY <1>1, <1>2, <1>3 DEF Injection, IsInjective, Surjection
<1>5. ExistsBijection(A, B)
  BY <1>4 DEF ExistsBijection, Bijection
<1>. QED
  BY <1>5, FS_Bijection

\* What a queue gains and loses.
LEMMA CountMoves ==
  ASSUME NEW S, NEW q \in Seq(S), NEW p \in Seq(S), NEW cs \in Seq(S), NEW d \in {0, 1},
         d <= Len(q), Moves(q, p, d, cs), NEW T
  PROVE  Cardinality(Positions(p, T)) + (IF d = 1 /\ q[1] \in T THEN 1 ELSE 0)
           = Cardinality(Positions(q, T)) + Cardinality(Positions(cs, T))
<1>. DEFINE n == Len(q) - d
            X == {i \in Positions(p, T) : i <= n}
            Y == {i \in Positions(p, T) : i > n}
            Q == Positions(q, T)
            R == {i \in Q : i > d}
            C == Positions(cs, T)
<1>1. /\ n \in Nat /\ Len(p) = n + Len(cs) /\ Len(cs) \in Nat /\ Len(q) \in Nat
      /\ \A i \in 1..n : p[i] = q[i + d]
      /\ \A i \in 1..Len(cs) : p[n + i] = cs[i]
  BY LenProperties DEF Moves
<1>2. /\ IsFiniteSet(Positions(p, T)) /\ IsFiniteSet(Q) /\ IsFiniteSet(C)
      /\ Cardinality(Positions(p, T)) \in Nat /\ Cardinality(Q) \in Nat /\ Cardinality(C) \in Nat
  BY PositionsFinite
<1>3. /\ IsFiniteSet(X) /\ IsFiniteSet(Y) /\ IsFiniteSet(R)
      /\ Cardinality(X) \in Nat /\ Cardinality(Y) \in Nat /\ Cardinality(R) \in Nat
  <2>1. X \in SUBSET Positions(p, T) /\ Y \in SUBSET Positions(p, T) /\ R \in SUBSET Q
    OBVIOUS
  <2>. HIDE DEF X, Y, R, Q
  <2>. QED
    BY <1>2, <2>1, FS_Subset, FS_CardinalityType
<1>4. Cardinality(R) = Cardinality(X)
  <2>1. X \in SUBSET Int /\ R \in SUBSET Int /\ d \in Int
    BY DEF Positions
  <2>2. \A i \in X : i + d \in R
    BY <1>1 DEF Positions
  <2>3. \A j \in R : j - d \in X
    BY <1>1 DEF Positions
  <2>. HIDE DEF X, R
  <2>. QED
    BY <1>3, <2>1, <2>2, <2>3, ShiftCount
<1>5. Cardinality(Y) = Cardinality(C)
  <2>1. Y \in SUBSET Int /\ C \in SUBSET Int /\ n \in Int
    BY <1>1 DEF Positions
  <2>2. \A i \in C : i + n \in Y
    <3>. TAKE i \in C
    <3>1. i \in 1..Len(cs) /\ cs[i] \in T /\ i + n = n + i
      BY <1>1 DEF Positions
    <3>2. p[i + n] \in T /\ i + n \in 1..Len(p) /\ i + n > n
      BY <1>1, <3>1
    <3>. QED
      BY <3>2 DEF Positions
  <2>3. \A j \in Y : j - n \in C
    <3>. TAKE j \in Y
    <3>1. j \in 1..Len(p) /\ p[j] \in T /\ j > n
      BY DEF Positions
    <3>2. j - n \in 1..Len(cs) /\ n + (j - n) = j
      BY <1>1, <3>1
    <3>. QED
      BY <1>1, <3>1, <3>2 DEF Positions
  <2>. HIDE DEF Y, C, n
  <2>. QED
    BY <1>2, <2>1, <2>2, <2>3, ShiftCount
<1>6. Cardinality(Positions(p, T)) = Cardinality(X) + Cardinality(Y)
  <2>1. Positions(p, T) = X \cup Y /\ X \cap Y = {}
    BY <1>1 DEF Positions
  <2>. HIDE DEF X, Y
  <2>2. Cardinality(X \cup Y) = Cardinality(X) + Cardinality(Y) - Cardinality(X \cap Y)
    BY <1>3, FS_Union
  <2>3. Cardinality(X \cap Y) = 0
    BY <2>1, FS_EmptySet
  <2>. QED
    BY <1>3, <2>1, <2>2, <2>3
<1>7. Cardinality(Q) = Cardinality(R) + (IF d = 1 /\ q[1] \in T THEN 1 ELSE 0)
  <2>1. CASE d = 1 /\ q[1] \in T
    <3>1. Q = R \cup {1} /\ 1 \notin R
      BY <1>1, <2>1 DEF Positions
    <3>. HIDE DEF Q, R
    <3>2. Cardinality(R \cup {1}) = Cardinality(R) + 1
      BY <1>3, <3>1, FS_AddElement
    <3>. QED
      BY <1>3, <2>1, <3>1, <3>2
  <2>2. CASE ~(d = 1 /\ q[1] \in T)
    <3>1. Q = R
      BY <1>1, <2>2 DEF Positions
    <3>2. Cardinality(Q) = Cardinality(R)
      BY <3>1
    <3>. QED
      BY <1>3, <2>2, <3>2
  <2>. QED
    BY <2>1, <2>2
<1>. HIDE DEF n, X, Y, Q, R, C
<1>8. Cardinality(Positions(p, T)) + (IF d = 1 /\ q[1] \in T THEN 1 ELSE 0)
        = Cardinality(Q) + Cardinality(C)
  BY <1>2, <1>3, <1>4, <1>5, <1>6, <1>7
<1>. QED
  BY <1>8 DEF Q, C

LEMMA IntervalCount ==
  ASSUME NEW n \in Nat
  PROVE  Cardinality(1..n) = n
<1>1. Cardinality(1..n) = IF 1 > n THEN 0 ELSE n - 1 + 1
  BY FS_Interval
<1>. QED
  BY <1>1

\* The commands of a kind among none, one, or n alike.
LEMMA CountSmall ==
  /\ \A T : Cardinality(Positions(<<>>, T)) = 0
  /\ \A T, c : Cardinality(Positions(<<c>>, T)) = IF c \in T THEN 1 ELSE 0
  /\ \A T, c, e : c \notin T /\ e \notin T => Cardinality(Positions(<<c, e>>, T)) = 0
  /\ \A T, c : \A n \in Nat :
       Cardinality(Positions([i \in 1..n |-> c], T)) = IF c \in T THEN n ELSE 0
<1>. USE FS_EmptySet, FS_Singleton
<1>1. ASSUME NEW T PROVE Cardinality(Positions(<<>>, T)) = 0
  <2>1. Positions(<<>>, T) = {}
    BY DEF Positions
  <2>. QED
    BY <2>1
<1>2. ASSUME NEW T, NEW c PROVE Cardinality(Positions(<<c>>, T)) = IF c \in T THEN 1 ELSE 0
  <2>1. Positions(<<c>>, T) = IF c \in T THEN {1} ELSE {}
    BY DEF Positions
  <2>. QED
    BY <2>1
<1>3. ASSUME NEW T, NEW c, NEW e, c \notin T, e \notin T
      PROVE  Cardinality(Positions(<<c, e>>, T)) = 0
  <2>1. Positions(<<c, e>>, T) = {}
    BY <1>3 DEF Positions
  <2>. QED
    BY <2>1
<1>4. ASSUME NEW T, NEW c, NEW n \in Nat
      PROVE  Cardinality(Positions([i \in 1..n |-> c], T)) = IF c \in T THEN n ELSE 0
  <2>1. Positions([i \in 1..n |-> c], T) = IF c \in T THEN 1..n ELSE {}
    BY DEF Positions
  <2>2. Cardinality(1..n) = n
    BY IntervalCount
  <2>. QED
    BY <2>1, <2>2
<1>. QED
  BY <1>1, <1>2, <1>3, <1>4

-----------------------------------------------------------------------------
(* The inductive invariant, part by part.                                    *)

DbCommand == [op : {"hgetall", "exists", "hmset", "query", "lrange"}, req : Request]

PipeCommand ==
  [op : {"get", "ttl"}, req : Request] \cup [op : {"expire", "del"}, user : User]
    \cup [op : {"set"}, user : User, id : Ids, req : Request]

Typed ==
  /\ account \in [User -> Request \cup {0, None}]
  /\ store \in [User -> Session \cup {None}]
  /\ lastId \in Ids /\ sessionObj \in 1..lastId
  /\ db \in Seq(DbCommand) /\ pipe \in Seq(PipeCommand)
  /\ req \in [Request -> Requests]
  /\ jar \in [Browser -> Jar] /\ aged \in 0..MaxAges
  /\ owner \in [User -> Browser \cup {None}]
  /\ overlapped \subseteq Browser /\ out \subseteq Browser
  /\ mixed \subseteq User /\ contested \subseteq User
  /\ registered \subseteq User \X Request /\ racing \subseteq Request

(* Who a request is from and what it asks is known while a handler needs it,
   and only lists are counted.                                               *)
RequestFits(r) ==
  /\ req[r].stage \notin {"unsent", "received"} => req[r].browser \in Browser
  /\ req[r].stage \in {"db", "hmset", "get", "ttl", "serve"} => req[r].user \in User
  /\ req[r].stage = "db" => req[r].url \in {"login", "register"}
  /\ req[r].stage = "hmset" => req[r].url = "register"
  /\ req[r].stage \in {"get", "ttl", "serve"} => req[r].url \in {"chat", "data"}
  /\ req[r].stage # "serve" => req[r].left = 0

\* A queued command is the one its request waits for, the requests being rs.
DbFits(c, rs) ==
  /\ c.op = "hgetall" => rs[c.req].stage = "db" /\ rs[c.req].url = "login"
  /\ c.op = "exists" => rs[c.req].stage = "db" /\ rs[c.req].url = "register"
  /\ c.op = "hmset" => rs[c.req].stage = "hmset"
  /\ c.op = "query" => rs[c.req].stage = "serve" /\ rs[c.req].left = 0
  /\ c.op = "lrange" => rs[c.req].stage = "serve" /\ rs[c.req].left > 0

PipeFits(c, rs) ==
  /\ c.op = "get" => rs[c.req].stage = "get"
  /\ c.op = "ttl" => rs[c.req].stage = "ttl"
  /\ c.op = "set" => rs[c.req].stage \in {"serve", "answered", "received"}

Fits ==
  /\ \A r \in Request : RequestFits(r)
  /\ \A i \in 1..Len(db) : DbFits(db[i], req)
  /\ \A i \in 1..Len(pipe) : PipeFits(pipe[i], req)

\* The requests that may have taken an id.
Spent == {r \in Request : req[r].stage \notin {"unsent", "db", "hmset", "get"}}

Budget == lastId <= 1 + Cardinality(Spent)

\* The commands of r among those on redisDB, and on redisSession.
Of(r) == {c \in DbCommand : c.req = r}

Asks(r) == {DbCmd("get", r), DbCmd("ttl", r)}

WaitsOnce ==
  \A r \in Request :
    Awaited(r) = Cardinality(Positions(db, Of(r))) + Cardinality(Positions(pipe, Asks(r)))

Core == Typed /\ Fits /\ Budget /\ WaitsOnce

-----------------------------------------------------------------------------
(* Commands.                                                                 *)

\* What the commands the handlers queue are.
LEMMA CommandsTyped ==
  /\ \A op \in {"hgetall", "exists", "hmset", "query", "lrange"}, r \in Request :
       DbCmd(op, r) \in DbCommand
  /\ \A op \in {"get", "ttl"}, r \in Request : DbCmd(op, r) \in PipeCommand
  /\ \A op, r : DbCmd(op, r).op = op /\ DbCmd(op, r).req = r
  /\ \A u \in User : Expire(u) \in PipeCommand /\ Del(u) \in PipeCommand
  /\ \A u : Expire(u).op = "expire" /\ Expire(u).user = u
  /\ \A u : Del(u).op = "del" /\ Del(u).user = u
  /\ \A u \in User, id \in Ids, r \in Request : SetSession(u, id, r) \in PipeCommand
  /\ \A u, id, r : /\ SetSession(u, id, r).op = "set" /\ SetSession(u, id, r).user = u
                   /\ SetSession(u, id, r).id = id /\ SetSession(u, id, r).req = r
BY DEF DbCommand, PipeCommand, DbCmd, Expire, Del, SetSession

\* What a queued command is made of.
LEMMA PipeCommandParts ==
  ASSUME NEW c \in PipeCommand
  PROVE  /\ c.op \in {"get", "ttl", "expire", "del", "set"}
         /\ c.op \in {"get", "ttl"} => c.req \in Request /\ c = DbCmd(c.op, c.req)
         /\ c.op = "expire" => c.user \in User /\ c = Expire(c.user)
         /\ c.op = "del" => c.user \in User /\ c = Del(c.user)
         /\ c.op = "set" => /\ c.user \in User /\ c.id \in Ids /\ c.req \in Request
                            /\ c = SetSession(c.user, c.id, c.req)
BY DEF PipeCommand, DbCmd, Expire, Del, SetSession

\* A command is one of the requests that wait for a reply, or none of them.
LEMMA AsksIs ==
  ASSUME NEW c \in PipeCommand, NEW r \in Request
  PROVE  c \in Asks(r) <=> (c.op \in {"get", "ttl"} /\ c.req = r)
BY PipeCommandParts, CommandsTyped DEF Asks

\* AnsweredOnce counts these.
LEMMA AnsweredOnceIs == Typed /\ WaitsOnce => AnsweredOnce
<1>. SUFFICES ASSUME Typed, WaitsOnce, NEW r \in Request
     PROVE  Awaited(r) = Cardinality({i \in 1..Len(db) : db[i].req = r})
              + Cardinality({i \in 1..Len(pipe) : pipe[i] \in {DbCmd("get", r), DbCmd("ttl", r)}})
  BY DEF AnsweredOnce
<1>1. Positions(db, Of(r)) = {i \in 1..Len(db) : db[i].req = r}
  BY ElementOfSeq DEF Positions, Of, Typed
<1>2. Positions(pipe, Asks(r))
        = {i \in 1..Len(pipe) : pipe[i] \in {DbCmd("get", r), DbCmd("ttl", r)}}
  BY DEF Positions, Asks
<1>. QED
  BY <1>1, <1>2 DEF WaitsOnce

-----------------------------------------------------------------------------
(* A request that waits for one command has no other one queued.             *)

LEMMA OneElement ==
  ASSUME NEW A, IsFiniteSet(A), Cardinality(A) = 1, NEW x \in A, NEW y \in A
  PROVE  x = y
<1>1. PICK z : A = {z}
  BY FS_Singleton
<1>. QED
  BY <1>1

LEMMA LastOnDb ==
  ASSUME Core, db # <<>>, Awaited(db[1].req) = 1
  PROVE  \A i \in 2..Len(db) : db[i].req # db[1].req
<1>. DEFINE r == db[1].req
<1>1. Len(db) \in Nat \ {0} /\ \A i \in 1..Len(db) : db[i] \in DbCommand
  BY EmptySeq, ElementOfSeq DEF Core, Typed
<1>2. r \in Request
  BY <1>1 DEF DbCommand
<1>3. /\ IsFiniteSet(Positions(db, Of(r))) /\ Cardinality(Positions(db, Of(r))) \in Nat
      /\ Cardinality(Positions(pipe, Asks(r))) \in Nat
  BY PositionsFinite DEF Core, Typed
<1>4. 1 \in Positions(db, Of(r))
  BY <1>1 DEF Positions, Of
<1>5. Cardinality(Positions(db, Of(r))) # 0
  BY <1>3, <1>4, FS_EmptySet
<1>6. Cardinality(Positions(db, Of(r))) = 1
  BY <1>2, <1>3, <1>5 DEF Core, WaitsOnce
<1>7. ASSUME NEW i \in 2..Len(db), db[i].req = r PROVE FALSE
  <2>1. i \in Positions(db, Of(r)) /\ i # 1
    BY <1>1, <1>7 DEF Positions, Of
  <2>. QED
    BY <1>3, <1>4, <1>6, <2>1, OneElement
<1>. QED
  BY <1>7

LEMMA LastOnPipe ==
  ASSUME Core, pipe # <<>>, NEW r \in Request, pipe[1] \in Asks(r)
  PROVE  /\ \A i \in 2..Len(pipe) : pipe[i].op \in {"get", "ttl"} => pipe[i].req # r
         /\ \A i \in 1..Len(db) : db[i].req # r
         /\ Awaited(r) = 1
<1>1. /\ Len(pipe) \in Nat \ {0}
      /\ \A i \in 1..Len(pipe) : pipe[i] \in PipeCommand
      /\ \A i \in 1..Len(db) : db[i] \in DbCommand
  BY EmptySeq, ElementOfSeq DEF Core, Typed
<1>2. pipe[1].op \in {"get", "ttl"} /\ pipe[1].req = r
  BY <1>1, AsksIs
<1>3. req[r].stage \in {"get", "ttl"}
  BY <1>1, <1>2 DEF Core, Fits, PipeFits
<1>4. \A i \in 1..Len(db) : db[i].req # r
  BY <1>1, <1>3 DEF Core, Fits, DbFits, DbCommand
<1>5. Awaited(r) = 1
  BY <1>3 DEF Awaited
<1>6. Positions(db, Of(r)) = {}
  BY <1>4 DEF Positions, Of
<1>7. /\ IsFiniteSet(Positions(pipe, Asks(r)))
      /\ Cardinality(Positions(pipe, Asks(r))) \in Nat
  BY PositionsFinite DEF Core, Typed
<1>8. Cardinality(Positions(pipe, Asks(r))) = 1
  <2>1. Cardinality(Positions(db, Of(r))) = 0
    BY <1>6, FS_EmptySet
  <2>2. Awaited(r) = Cardinality(Positions(db, Of(r))) + Cardinality(Positions(pipe, Asks(r)))
    BY DEF Core, WaitsOnce
  <2>. QED
    BY <1>5, <1>7, <2>1, <2>2
<1>9. 1 \in Positions(pipe, Asks(r))
  BY <1>1 DEF Positions
<1>10. ASSUME NEW i \in 2..Len(pipe), pipe[i].op \in {"get", "ttl"}, pipe[i].req = r PROVE FALSE
  <2>1. pipe[i] \in Asks(r)
    BY <1>1, <1>10, AsksIs
  <2>2. i \in Positions(pipe, Asks(r)) /\ i # 1
    BY <1>1, <2>1 DEF Positions
  <2>. QED
    BY <1>7, <1>8, <1>9, <2>2, OneElement
<1>. QED
  BY <1>4, <1>5, <1>10

(* A step of the handler of r: it takes the first d commands of redisDB and e of
   redisSession, all its own, adds cs and es, and leaves its request in a state
   that fits them and what else is queued.                                   *)
Handles(r, d, cs, e, es) ==
  /\ d <= Len(db) /\ Moves(db, db', d, cs) /\ cs \in Seq(DbCommand)
  /\ e <= Len(pipe) /\ Moves(pipe, pipe', e, es) /\ es \in Seq(PipeCommand)
  /\ \A q \in Request : q # r => req'[q] = req[q]
  /\ d = 1 => db[1].req = r
  /\ e = 1 /\ pipe[1].op \in {"get", "ttl"} => pipe[1].req = r
  /\ \A i \in 1..Len(cs) : cs[i].req = r /\ DbFits(cs[i], req')
  /\ \A i \in 1..Len(es) :
       /\ es[i].op \in {"get", "ttl"} => es[i].req = r
       /\ PipeFits(es[i], req')
  /\ RequestFits(r)'
  /\ \A i \in (d + 1)..Len(db) : db[i].req = r => DbFits(db[i], req')
  /\ \A i \in (e + 1)..Len(pipe) :
       pipe[i].op \in {"get", "ttl", "set"} /\ pipe[i].req = r => PipeFits(pipe[i], req')
  /\ Awaited(r)' + d + (IF e = 1 /\ pipe[1] \in Asks(r) THEN 1 ELSE 0)
       = Awaited(r) + Len(cs) + Cardinality(Positions(es, Asks(r)))

LEMMA HandlerStep ==
  ASSUME Core, Typed', NEW r \in Request, NEW d, NEW cs, NEW e, NEW es,
         d \in {0, 1}, e \in {0, 1}, Handles(r, d, cs, e, es)
  PROVE  Fits' /\ WaitsOnce'
<1>. USE DEF Handles
<1>1. /\ Len(db) \in Nat /\ Len(pipe) \in Nat /\ Len(cs) \in Nat /\ Len(es) \in Nat
      /\ \A i \in 1..Len(db) : db[i] \in DbCommand
      /\ \A i \in 1..Len(pipe) : pipe[i] \in PipeCommand
      /\ \A i \in 1..Len(cs) : cs[i] \in DbCommand
      /\ \A i \in 1..Len(es) : es[i] \in PipeCommand
  BY LenProperties, ElementOfSeq DEF Core, Typed
<1>2. ASSUME NEW i \in 1..Len(db') PROVE DbFits(db'[i], req')
  <2>1. CASE i <= Len(db) - d
    <3>1. i + d \in (d + 1)..Len(db) /\ i + d \in 1..Len(db) /\ db'[i] = db[i + d]
      BY <1>1, <2>1 DEF Moves
    <3>2. DbFits(db[i + d], req) /\ db[i + d].req \in Request
      BY <1>1, <3>1 DEF Core, Fits, DbCommand
    <3>. QED
      BY <3>1, <3>2 DEF DbFits
  <2>2. CASE ~(i <= Len(db) - d)
    <3>1. i - (Len(db) - d) \in 1..Len(cs) /\ (Len(db) - d) + (i - (Len(db) - d)) = i
      BY <1>1, <2>2 DEF Moves
    <3>2. db'[i] = cs[i - (Len(db) - d)]
      BY <3>1 DEF Moves
    <3>. QED
      BY <3>1, <3>2
  <2>. QED
    BY <2>1, <2>2
<1>3. ASSUME NEW i \in 1..Len(pipe') PROVE PipeFits(pipe'[i], req')
  <2>1. CASE i <= Len(pipe) - e
    <3>1. i + e \in (e + 1)..Len(pipe) /\ i + e \in 1..Len(pipe) /\ pipe'[i] = pipe[i + e]
      BY <1>1, <2>1 DEF Moves
    <3>2. /\ PipeFits(pipe[i + e], req)
          /\ pipe[i + e].op \in {"get", "ttl", "set"} => pipe[i + e].req \in Request
      BY <1>1, <3>1, PipeCommandParts DEF Core, Fits
    <3>. QED
      BY <3>1, <3>2 DEF PipeFits
  <2>2. CASE ~(i <= Len(pipe) - e)
    <3>1. i - (Len(pipe) - e) \in 1..Len(es) /\ (Len(pipe) - e) + (i - (Len(pipe) - e)) = i
      BY <1>1, <2>2 DEF Moves
    <3>2. pipe'[i] = es[i - (Len(pipe) - e)]
      BY <3>1 DEF Moves
    <3>. QED
      BY <3>1, <3>2
  <2>. QED
    BY <2>1, <2>2
<1>4. \A q \in Request : RequestFits(q)'
  BY DEF Core, Fits, RequestFits
<1>5. Fits'
  BY <1>2, <1>3, <1>4 DEF Fits
<1>6. ASSUME NEW q \in Request
      PROVE  Awaited(q)' = Cardinality(Positions(db', Of(q))) + Cardinality(Positions(pipe', Asks(q)))
  <2>1. /\ Cardinality(Positions(db', Of(q))) + (IF d = 1 /\ db[1] \in Of(q) THEN 1 ELSE 0)
             = Cardinality(Positions(db, Of(q))) + Cardinality(Positions(cs, Of(q)))
        /\ Cardinality(Positions(pipe', Asks(q))) + (IF e = 1 /\ pipe[1] \in Asks(q) THEN 1 ELSE 0)
             = Cardinality(Positions(pipe, Asks(q))) + Cardinality(Positions(es, Asks(q)))
    BY CountMoves DEF Core, Typed
  <2>2. /\ Cardinality(Positions(db', Of(q))) \in Nat /\ Cardinality(Positions(db, Of(q))) \in Nat
        /\ Cardinality(Positions(pipe', Asks(q))) \in Nat /\ Cardinality(Positions(pipe, Asks(q))) \in Nat
        /\ Cardinality(Positions(es, Asks(q))) \in Nat
    BY PositionsFinite DEF Core, Typed
  <2>3. Awaited(q) = Cardinality(Positions(db, Of(q))) + Cardinality(Positions(pipe, Asks(q)))
    BY DEF Core, WaitsOnce
  <2>4. CASE q = r
    <3>1. Positions(cs, Of(q)) = 1..Len(cs)
      BY <1>1, <2>4 DEF Positions, Of
    <3>3. Cardinality(Positions(cs, Of(q))) = Len(cs)
      BY <1>1, <3>1, IntervalCount
    <3>4. (IF d = 1 /\ db[1] \in Of(q) THEN 1 ELSE 0) = d
      BY <1>1, <2>4 DEF Of
    <3>5. Awaited(q)' + d + (IF e = 1 /\ pipe[1] \in Asks(q) THEN 1 ELSE 0)
            = Awaited(q) + Len(cs) + Cardinality(Positions(es, Asks(q)))
      BY <2>4
    <3>6. Awaited(q)' \in Nat
      BY <2>4, SessionAssumption DEF Awaited, Typed, Requests
    <3>. DEFINE x == IF e = 1 /\ pipe[1] \in Asks(q) THEN 1 ELSE 0
                dbNow == Cardinality(Positions(db', Of(q)))
                dbWas == Cardinality(Positions(db, Of(q)))
                pipeNow == Cardinality(Positions(pipe', Asks(q)))
                pipeWas == Cardinality(Positions(pipe, Asks(q)))
                asked == Cardinality(Positions(es, Asks(q)))
    <3>7. dbNow + d = dbWas + Len(cs) /\ pipeNow + x = pipeWas + asked
      BY <2>1, <3>3, <3>4
    <3>8. x \in Nat /\ Awaited(q) = dbWas + pipeWas
      BY <2>3
    <3>. HIDE DEF x, dbNow, dbWas, pipeNow, pipeWas, asked
    <3>9. Awaited(q)' + d + x = dbWas + pipeWas + Len(cs) + asked
      BY <3>5, <3>8 DEF x, asked
    <3>10. dbNow \in Nat /\ dbWas \in Nat /\ pipeNow \in Nat /\ pipeWas \in Nat /\ asked \in Nat
      BY <2>2 DEF dbNow, dbWas, pipeNow, pipeWas, asked
    <3>11. Awaited(q)' = dbNow + pipeNow
      BY <1>1, <3>6, <3>7, <3>8, <3>9, <3>10
    <3>. QED
      BY <3>11 DEF dbNow, pipeNow
  <2>5. CASE q # r
    <3>1. Positions(cs, Of(q)) = {} /\ (d = 1 => db[1] \notin Of(q))
      BY <2>5 DEF Positions, Of
    <3>2. Positions(es, Asks(q)) = {}
      BY <1>1, <2>5, AsksIs DEF Positions
    <3>3. e = 1 => pipe[1] \notin Asks(q)
      BY <1>1, <2>5, AsksIs
    <3>4. Cardinality(Positions(cs, Of(q))) = 0 /\ Cardinality(Positions(es, Asks(q))) = 0
      BY <3>1, <3>2, FS_EmptySet
    <3>5. Awaited(q)' = Awaited(q)
      BY <2>5 DEF Awaited
    <3>. QED
      BY <2>1, <2>2, <2>3, <3>1, <3>3, <3>4, <3>5
  <2>. QED
    BY <2>4, <2>5
<1>. QED
  BY <1>5, <1>6 DEF WaitsOnce

-----------------------------------------------------------------------------
(* Ids: a request that has taken none leaves one for it.                     *)

LEMMA RequestsFinite ==
  ASSUME NEW T \in SUBSET Request
  PROVE  IsFiniteSet(T) /\ Cardinality(T) \in Nat
<1>1. IsFiniteSet(Request)
  BY FS_Interval, SessionAssumption DEF Request
<1>. QED
  BY <1>1, FS_Subset, FS_CardinalityType

LEMMA SpentFinite == IsFiniteSet(Spent) /\ Cardinality(Spent) \in Nat
BY RequestsFinite DEF Spent

LEMMA FreshId ==
  ASSUME Core, NEW r \in Request, r \notin Spent
  PROVE  lastId + 1 \in Ids
<1>1. IsFiniteSet(Request) /\ Cardinality(Request) = MaxRequests
  BY IntervalCount, FS_Interval, SessionAssumption DEF Request
<1>2. Cardinality(Spent \cup {r}) = Cardinality(Spent) + 1
  BY SpentFinite, FS_AddElement
<1>3. Spent \cup {r} \in SUBSET Request
  BY DEF Spent
<1>4. Cardinality(Spent \cup {r}) <= MaxRequests
  BY <1>1, <1>3, FS_Subset
<1>. QED
  BY <1>2, <1>4, SpentFinite, SessionAssumption DEF Core, Typed, Budget, Ids

LEMMA BudgetKeeps ==
  ASSUME Core, Typed', lastId' = lastId, Spent \subseteq Spent'
  PROVE  Budget'
<1>1. IsFiniteSet(Spent') /\ Cardinality(Spent') \in Nat
  BY RequestsFinite DEF Spent
<1>2. Cardinality(Spent) <= Cardinality(Spent')
  BY <1>1, FS_Subset
<1>. QED
  BY <1>1, <1>2, SpentFinite DEF Core, Budget, Typed, Ids

LEMMA BudgetSpends ==
  ASSUME Core, Typed', NEW r \in Request, r \notin Spent, lastId' = lastId + 1,
         Spent \cup {r} \subseteq Spent'
  PROVE  Budget'
<1>1. IsFiniteSet(Spent') /\ Cardinality(Spent') \in Nat
  BY RequestsFinite DEF Spent
<1>2. Cardinality(Spent \cup {r}) <= Cardinality(Spent')
  BY <1>1, FS_Subset
<1>3. Cardinality(Spent \cup {r}) = Cardinality(Spent) + 1
  BY SpentFinite, FS_AddElement
<1>. QED
  BY <1>1, <1>2, <1>3, SpentFinite DEF Core, Budget, Typed, Ids

-----------------------------------------------------------------------------
(* What a handler is given.                                                  *)

LEMMA DbHead ==
  ASSUME Core, NEW r \in Request, NEW op, OnDb(DbCmd(op, r))
  PROVE  /\ db # <<>> /\ Len(db) \in Nat \ {0}
         /\ db[1] = DbCmd(op, r) /\ db[1].op = op /\ db[1].req = r
         /\ DbFits(DbCmd(op, r), req)
         /\ Tail(db) \in Seq(DbCommand) /\ Moves(db, Tail(db), 1, <<>>)
         /\ Moves(pipe, pipe, 0, <<>>)
<1>1. db \in Seq(DbCommand) /\ pipe \in Seq(PipeCommand)
  BY DEF Core, Typed
<1>2. /\ Tail(db) \in Seq(DbCommand) /\ Moves(db, Tail(db), 1, <<>>)
      /\ Head(db) = db[1] /\ Len(db) \in Nat \ {0}
  BY <1>1, TailMoves DEF OnDb
<1>. QED
  BY <1>1, <1>2, StayMoves, CommandsTyped DEF OnDb, Core, Fits

LEMMA PipeHead ==
  ASSUME Core, NEW c, OnPipe(c)
  PROVE  /\ pipe # <<>> /\ Len(pipe) \in Nat \ {0}
         /\ pipe[1] = c /\ c \in PipeCommand
         /\ PipeFits(c, req)
         /\ Tail(pipe) \in Seq(PipeCommand) /\ Moves(pipe, Tail(pipe), 1, <<>>)
         /\ Moves(db, db, 0, <<>>)
<1>1. db \in Seq(DbCommand) /\ pipe \in Seq(PipeCommand)
  BY DEF Core, Typed
<1>2. /\ Tail(pipe) \in Seq(PipeCommand) /\ Moves(pipe, Tail(pipe), 1, <<>>)
      /\ Head(pipe) = pipe[1] /\ Head(pipe) \in PipeCommand /\ Len(pipe) \in Nat \ {0}
  BY <1>1, TailMoves DEF OnPipe
<1>. QED
  BY <1>1, <1>2, StayMoves DEF OnPipe, Core, Fits

\* Only the request r is written to, and only what its handler decides.
Rewrites(rs, r) ==
  /\ rs \in [Request -> Requests]
  /\ \A q \in Request : q # r => rs[q] = req[q]
  /\ rs[r].url = req[r].url /\ rs[r].browser = req[r].browser
  /\ rs[r].user = req[r].user /\ rs[r].cookie = req[r].cookie

\* What a handler writes to its request.
LEMMA AtEffect ==
  ASSUME Typed, NEW r \in Request, NEW stage \in Stages
  PROVE  /\ Rewrites(At(r, stage), r)
         /\ At(r, stage)[r].stage = stage /\ At(r, stage)[r].left = req[r].left
         /\ At(r, stage)[r].newSession = req[r].newSession
         /\ At(r, stage)[r].newUser = req[r].newUser
<1>1. req[r] \in Requests
  BY DEF Typed
<1>2. [req[r] EXCEPT !.stage = stage] \in Requests
  BY <1>1 DEF Requests
<1>. QED
  BY <1>1, <1>2 DEF At, Typed, Rewrites, Requests

LEMMA AnswerEffect ==
  ASSUME Typed, NEW r \in Request, NEW cookie \in Cookie, NEW user \in User \cup {None}
  PROVE  /\ Rewrites(Answer(r, cookie, user), r)
         /\ Answer(r, cookie, user)[r].stage = "answered"
         /\ Answer(r, cookie, user)[r].left = req[r].left
         /\ Answer(r, cookie, user)[r].newSession = cookie
         /\ Answer(r, cookie, user)[r].newUser = user
<1>. DEFINE new == [req[r] EXCEPT !.stage = "answered", !.newSession = cookie, !.newUser = user]
<1>1. req[r] \in Requests /\ "answered" \in Stages
  BY DEF Typed, Stages
<1>2. new \in Requests
  BY <1>1 DEF Requests
<1>3. Answer(r, cookie, user) = [req EXCEPT ![r] = new]
  BY DEF Answer, Typed
<1>. QED
  BY <1>1, <1>2, <1>3 DEF Typed, Rewrites, Requests

LEMMA RedirectEffect ==
  ASSUME Typed, NEW r \in Request
  PROVE  /\ Rewrites(Redirect(r), r)
         /\ Redirect(r)[r].stage = "answered"
         /\ Redirect(r)[r].left = req[r].left
         /\ Redirect(r)[r].newSession = None
         /\ Redirect(r)[r].newUser = None
<1>1. None \in Cookie /\ None \in User \cup {None}
  BY DEF Cookie
<1>. QED
  BY <1>1, AnswerEffect DEF Redirect

-----------------------------------------------------------------------------
(* Browsers send requests.                                                   *)

\* b sends a request r of the kinds there are.
SendsFit(r, b, url, u, cookie, stage, answer) ==
  /\ r \in Request /\ b \in Browser
  /\ url \in {"login", "register", "chat", "data", "logout"}
  /\ u \in User \cup {None} /\ cookie \in Cookie
  /\ stage \in {"db", "get", "answered"} /\ answer \in {None, 0}
  /\ Sends(r, b, url, u, cookie, stage, answer)

LEMMA SendsCore ==
  ASSUME Core, NEW r, NEW b, NEW url, NEW u, NEW cookie, NEW stage, NEW answer,
         SendsFit(r, b, url, u, cookie, stage, answer)
  PROVE  /\ req' \in [Request -> Requests]
         /\ req'[r] = [stage |-> stage, url |-> url, browser |-> b, user |-> u,
                       cookie |-> cookie, left |-> 0, newSession |-> answer, newUser |-> None]
         /\ \A q \in Request : q # r => req'[q] = req[q]
         /\ overlapped' \subseteq Browser
         /\ Spent \subseteq Spent'
         /\ Awaited(r) = 0
         /\ \A i \in 1..Len(db) : db[i].req # r
         /\ \A i \in 1..Len(pipe) : pipe[i].op \in {"get", "ttl", "set"} => pipe[i].req # r
<1>. USE DEF SendsFit
<1>1. req[r].stage = "unsent"
  BY DEF Sends
<1>2. req' \in [Request -> Requests]
  BY SessionAssumption DEF Sends, Core, Typed, Requests, Stages, Cookie
<1>3. \A q \in Request : q # r => req'[q] = req[q]
  BY DEF Sends, Core, Typed
<1>4. Spent \subseteq Spent'
  BY <1>1, <1>3 DEF Spent
<1>5. overlapped' \subseteq Browser
  BY DEF Sends, Core, Typed
<1>6. \A i \in 1..Len(db) : db[i] \in DbCommand /\ DbFits(db[i], req)
  BY ElementOfSeq DEF Core, Typed, Fits
<1>7. \A i \in 1..Len(pipe) : PipeFits(pipe[i], req)
  BY DEF Core, Fits
<1>. QED
  BY <1>1, <1>2, <1>3, <1>4, <1>5, <1>6, <1>7 DEF Sends, Core, Typed, Awaited, DbFits, PipeFits, DbCommand

LEMMA BrowseCore ==
  ASSUME Core, Browse
  PROVE  Core'
<1>. USE SessionAssumption
<1>1. ASSUME NEW r \in Request, NEW b \in Browser, NEW u \in User, NEW op, NEW url,
             \/ op = "hgetall" /\ url = "login"
             \/ op = "exists" /\ url = "register",
             Sends(r, b, url, u, None, "db", None),
             db' = Append(db, DbCmd(op, r)), pipe' = pipe,
             UNCHANGED <<account, store, sessionObj, lastId, jar, aged, owner, out, mixed,
                         registered, racing>>,
             contested' \subseteq contested \cup {u}
      PROVE  Core'
  <2>4. /\ req' \in [Request -> Requests]
        /\ req'[r] = [stage |-> "db", url |-> url, browser |-> b, user |-> u,
                      cookie |-> None, left |-> 0, newSession |-> None, newUser |-> None]
        /\ \A q \in Request : q # r => req'[q] = req[q]
        /\ overlapped' \subseteq Browser /\ Spent \subseteq Spent' /\ Awaited(r) = 0
        /\ \A i \in 1..Len(db) : db[i].req # r
        /\ \A i \in 1..Len(pipe) : pipe[i].op \in {"get", "ttl", "set"} => pipe[i].req # r
    <3>1. SendsFit(r, b, url, u, None, "db", None)
      BY <1>1 DEF Cookie, SendsFit
    <3>. QED
      BY <3>1, SendsCore
  <2>5. /\ DbCmd(op, r) \in DbCommand /\ DbCmd(op, r).op = op /\ DbCmd(op, r).req = r
        /\ db \in Seq(DbCommand) /\ pipe \in Seq(PipeCommand)
    BY <1>1, CommandsTyped DEF Core, Typed
  <2>6. db' \in Seq(DbCommand) /\ Moves(db, db', 0, <<DbCmd(op, r)>>) /\ Moves(pipe, pipe', 0, <<>>)
    BY <1>1, <2>5, AppendMoves, StayMoves
  <2>7. Typed'
    BY <1>1, <2>4, <2>5, <2>6 DEF Core, Typed
  <2>8. DbFits(DbCmd(op, r), req') /\ RequestFits(r)' /\ Awaited(r)' = 1
    BY <1>1, <2>4, <2>5 DEF DbFits, RequestFits, Awaited
  <2>9. Fits' /\ WaitsOnce'
    <3>. DEFINE cs == <<DbCmd(op, r)>>
    <3>1. /\ cs \in Seq(DbCommand) /\ Len(cs) = 1 /\ <<>> \in Seq(PipeCommand)
          /\ \A i \in 1..Len(cs) : cs[i].req = r /\ DbFits(cs[i], req')
      BY <2>5, <2>8
    <3>2. Len(db) \in Nat /\ Len(pipe) \in Nat
      BY <2>5, LenProperties
    <3>3. Moves(db, db', 0, cs)
      BY <2>6
    <3>. HIDE DEF cs
    <3>4. Awaited(r)' + 0 + (IF 0 = 1 /\ pipe[1] \in Asks(r) THEN 1 ELSE 0)
            = Awaited(r) + Len(cs) + Cardinality(Positions(<<>>, Asks(r)))
      BY <2>4, <2>8, <3>1, CountSmall
    <3>5. Handles(r, 0, cs, 0, <<>>)
      BY <2>4, <2>6, <2>8, <3>1, <3>2, <3>3, <3>4 DEF Handles
    <3>. QED
      BY <2>7, <3>5, HandlerStep
  <2>. QED
    BY <1>1, <2>4, <2>7, <2>9, BudgetKeeps DEF Core
<1>2. ASSUME NEW r \in Request, NEW b \in Browser, NEW url, NEW u \in User \cup {None},
             NEW cookie \in Cookie, url \in {"chat", "data"},
             Sends(r, b, url, u, cookie, "answered", None),
             UNCHANGED <<redis, sessionObj, lastId, db, pipe, jar, aged, logs>>
      PROVE  Core'
  <2>1. SendsFit(r, b, url, u, cookie, "answered", None)
    BY <1>2 DEF SendsFit
  <2>2. /\ req' \in [Request -> Requests]
        /\ req'[r] = [stage |-> "answered", url |-> url, browser |-> b, user |-> u,
                      cookie |-> cookie, left |-> 0, newSession |-> None, newUser |-> None]
        /\ \A q \in Request : q # r => req'[q] = req[q]
        /\ overlapped' \subseteq Browser /\ Spent \subseteq Spent' /\ Awaited(r) = 0
        /\ \A i \in 1..Len(db) : db[i].req # r
        /\ \A i \in 1..Len(pipe) : pipe[i].op \in {"get", "ttl", "set"} => pipe[i].req # r
    BY <2>1, SendsCore
  <2>3. Typed'
    BY <1>2, <2>2 DEF Core, Typed, redis, logs
  <2>4. RequestFits(r)' /\ Awaited(r)' = 0
    BY <1>2, <2>2 DEF RequestFits, Awaited
  <2>5. /\ Moves(db, db', 0, <<>>) /\ Moves(pipe, pipe', 0, <<>>)
        /\ Len(db) \in Nat /\ Len(pipe) \in Nat
    BY <1>2, StayMoves, LenProperties DEF Core, Typed
  <2>6. Handles(r, 0, <<>>, 0, <<>>)
    BY <1>2, <2>2, <2>4, <2>5, CountSmall DEF Handles
  <2>. QED
    BY <1>2, <2>2, <2>3, <2>6, HandlerStep, BudgetKeeps DEF Core
<1>3. ASSUME NEW r \in Request, NEW b \in Browser, NEW url, NEW u \in User, NEW cookie \in Cookie,
             NEW stage, NEW answer, NEW c,
             \/ /\ url \in {"chat", "data"} /\ stage = "get" /\ answer = None
                /\ c = DbCmd("get", r)
             \/ /\ url = "logout" /\ stage = "answered" /\ answer = 0 /\ cookie = None
                /\ c = Del(u),
             Sends(r, b, url, u, cookie, stage, answer),
             pipe' = Append(pipe, c), racing' \subseteq racing \cup Request,
             UNCHANGED <<redis, sessionObj, lastId, db, jar, aged, owner, out, mixed, contested,
                         registered>>
      PROVE  Core'
  <2>1. SendsFit(r, b, url, u, cookie, stage, answer)
    BY <1>3 DEF SendsFit
  <2>2. /\ req' \in [Request -> Requests]
        /\ req'[r] = [stage |-> stage, url |-> url, browser |-> b, user |-> u,
                      cookie |-> cookie, left |-> 0, newSession |-> answer, newUser |-> None]
        /\ \A q \in Request : q # r => req'[q] = req[q]
        /\ overlapped' \subseteq Browser /\ Spent \subseteq Spent' /\ Awaited(r) = 0
        /\ \A i \in 1..Len(db) : db[i].req # r
        /\ \A i \in 1..Len(pipe) : pipe[i].op \in {"get", "ttl", "set"} => pipe[i].req # r
    BY <2>1, SendsCore
  <2>3. /\ c \in PipeCommand
        /\ (c.op = "get" /\ c.req = r /\ stage = "get") \/ (c.op = "del" /\ stage = "answered")
        /\ pipe \in Seq(PipeCommand)
    BY <1>3, CommandsTyped DEF Core, Typed
  <2>4. pipe' \in Seq(PipeCommand) /\ Moves(pipe, pipe', 0, <<c>>)
    BY <1>3, <2>3, AppendMoves
  <2>5. Typed'
    BY <1>3, <2>2, <2>4 DEF Core, Typed, redis
  <2>6. RequestFits(r)' /\ PipeFits(c, req') /\ Awaited(r)' = IF stage = "get" THEN 1 ELSE 0
    BY <1>3, <2>2, <2>3 DEF RequestFits, PipeFits, Awaited
  <2>7. Moves(db, db', 0, <<>>) /\ Len(db) \in Nat /\ Len(pipe) \in Nat
    BY <1>3, StayMoves, LenProperties DEF Core, Typed
  <2>8. Cardinality(Positions(<<c>>, Asks(r))) = IF stage = "get" THEN 1 ELSE 0
    BY <2>3, CountSmall, AsksIs
  <2>9. Handles(r, 0, <<>>, 0, <<c>>)
    <3>. DEFINE es == <<c>>
    <3>1. /\ es \in Seq(PipeCommand) /\ Len(es) = 1
          /\ \A i \in 1..Len(es) : /\ es[i].op \in {"get", "ttl"} => es[i].req = r
                                   /\ PipeFits(es[i], req')
      BY <2>3, <2>6
    <3>2. Moves(pipe, pipe', 0, es)
      BY <2>4
    <3>3. Awaited(r)' + 0 + 0 = Awaited(r) + 0 + Cardinality(Positions(es, Asks(r)))
      BY <2>2, <2>6, <2>8
    <3>. HIDE DEF es
    <3>4. Handles(r, 0, <<>>, 0, es)
      BY <2>2, <2>6, <2>7, <3>1, <3>2, <3>3 DEF Handles
    <3>. QED
      BY <3>4 DEF es
  <2>. QED
    BY <1>3, <2>2, <2>5, <2>9, HandlerStep, BudgetKeeps DEF Core
<1>4. PICK r \in Request, b \in Browser :
        \/ \E u \in User : PostLogin(r, b, u) \/ PostRegister(r, b, u)
        \/ \E url \in {"chat", "data"} : GetPage(r, b, url) \/ GetPageUnknown(r, b, url)
        \/ GetLogout(r, b)
  BY DEF Browse
<1>5. /\ jar[b].user \in User \cup {None}
      /\ \A url : Presented(b, url) \in Cookie
  BY DEF Core, Typed, Jar, Presented
<1>6. ASSUME NEW u \in User, PostLogin(r, b, u) PROVE Core'
  BY <1>1, <1>6 DEF PostLogin, redis, logs
<1>7. ASSUME NEW u \in User, PostRegister(r, b, u) PROVE Core'
  BY <1>1, <1>7 DEF PostRegister, redis
<1>8. ASSUME NEW url \in {"chat", "data"}, GetPage(r, b, url) PROVE Core'
  <2>1. /\ Sends(r, b, url, jar[b].user, Presented(b, url), "get", None)
        /\ pipe' = Append(pipe, DbCmd("get", r))
        /\ racing' \subseteq racing \cup Request
        /\ UNCHANGED <<redis, sessionObj, lastId, db, jar, aged, owner, out, mixed, contested,
                       registered>>
    BY <1>8 DEF GetPage, logs, Core, Typed
  <2>2. jar[b].user \in User
    BY <1>5, <1>8 DEF GetPage, Recognised
  <2>. QED
    BY <1>3, <1>5, <2>1, <2>2
<1>9. ASSUME NEW url \in {"chat", "data"}, GetPageUnknown(r, b, url) PROVE Core'
  BY <1>2, <1>5, <1>9 DEF GetPageUnknown
<1>10. ASSUME GetLogout(r, b) PROVE Core'
  <2>1. /\ Sends(r, b, "logout", jar[b].user, None, "answered", 0)
        /\ pipe' = Append(pipe, Del(jar[b].user))
        /\ racing' \subseteq racing \cup Request
        /\ UNCHANGED <<redis, sessionObj, lastId, db, jar, aged, owner, out, mixed, contested,
                       registered>>
        /\ jar[b].user \in User /\ None \in Cookie
    BY <1>5, <1>10 DEF GetLogout, Refreshing, Cookie
  <2>. QED
    BY <1>3, <2>1
<1>. QED
  BY <1>4, <1>6, <1>7, <1>8, <1>9, <1>10

-----------------------------------------------------------------------------
(* The callbacks of redisDB.                                                 *)

\* A login or registration takes a new id and queues a SET and an EXPIRE.
LEMMA LogsInEffect ==
  ASSUME Core, NEW r \in Request, req[r].stage \in {"db", "hmset"}, LogsIn(r)
  PROVE  /\ lastId' = lastId + 1 /\ lastId' \in Ids /\ sessionObj' = lastId'
         /\ mixed' \subseteq User
         /\ owner' \in [User -> Browser \cup {None}]
         /\ Rewrites(req', r)
         /\ req'[r].stage = "answered" /\ req'[r].left = req[r].left
         /\ req'[r].newSession = lastId + 1 /\ req'[r].newUser = req[r].user
         /\ pipe' \in Seq(PipeCommand)
         /\ Moves(pipe, pipe', 0, <<SetSession(req[r].user, lastId + 1, r), Expire(req[r].user)>>)
         /\ SetSession(req[r].user, lastId + 1, r) \in PipeCommand
         /\ Expire(req[r].user) \in PipeCommand
         /\ r \notin Spent
<1>1. r \notin Spent /\ req[r].user \in User /\ req[r].browser \in Browser
  BY DEF Spent, Core, Fits, RequestFits
<1>2. lastId + 1 \in Ids
  BY <1>1, FreshId
<1>3. lastId + 1 \in Cookie /\ req[r].user \in User \cup {None}
  BY <1>1, <1>2 DEF Cookie
<1>4. /\ Rewrites(req', r)
      /\ req'[r].stage = "answered" /\ req'[r].left = req[r].left
      /\ req'[r].newSession = lastId + 1 /\ req'[r].newUser = req[r].user
  BY <1>3, AnswerEffect DEF LogsIn, Core
<1>5. /\ SetSession(req[r].user, lastId + 1, r) \in PipeCommand
      /\ Expire(req[r].user) \in PipeCommand
  BY <1>1, <1>2, CommandsTyped
<1>6. /\ pipe' \in Seq(PipeCommand)
      /\ Moves(pipe, pipe', 0, <<SetSession(req[r].user, lastId + 1, r), Expire(req[r].user)>>)
  <2>. DEFINE es == <<SetSession(req[r].user, lastId + 1, r), Expire(req[r].user)>>
  <2>1. es \in Seq(PipeCommand) /\ pipe \in Seq(PipeCommand) /\ pipe' = pipe \o es
    BY <1>5 DEF LogsIn, Core, Typed
  <2>. HIDE DEF es
  <2>2. pipe' \in Seq(PipeCommand) /\ Moves(pipe, pipe', 0, es)
    BY <2>1, PushMoves
  <2>. QED
    BY <2>2 DEF es
<1>7. mixed' \subseteq User /\ owner' \in [User -> Browser \cup {None}]
  BY <1>1 DEF LogsIn, NewId, Core, Typed
<1>. QED
  BY <1>1, <1>2, <1>4, <1>5, <1>6, <1>7 DEF LogsIn, NewId

\* The SET and EXPIRE of r fit as soon as r is served or answered, and are no
\* commands a request waits for.
LEMMA StoresFit ==
  ASSUME NEW s \in PipeCommand, NEW x \in PipeCommand, NEW r \in Request,
         s.op = "set", s.req = r, x.op = "expire",
         req'[r].stage \in {"serve", "answered"}
  PROVE  /\ <<s, x>> \in Seq(PipeCommand) /\ Len(<<s, x>>) = 2
         /\ \A i \in 1..2 : /\ <<s, x>>[i].op \notin {"get", "ttl"}
                            /\ PipeFits(<<s, x>>[i], req')
         /\ Cardinality(Positions(<<s, x>>, Asks(r))) = 0
<1>1. s \notin Asks(r) /\ x \notin Asks(r)
  BY AsksIs
<1>2. Cardinality(Positions(<<s, x>>, Asks(r))) = 0
  BY <1>1, CountSmall
<1>. QED
  BY <1>2 DEF PipeFits

\* Both ends of /login and /register: the command of r is taken from redisDB.
LEMMA LogsInHandles ==
  ASSUME Core, NEW r \in Request, NEW op \in {"hgetall", "hmset"},
         OnDb(DbCmd(op, r)), db' = Tail(db), LogsIn(r)
  PROVE  /\ Handles(r, 1, <<>>, 0, <<SetSession(req[r].user, lastId + 1, r), Expire(req[r].user)>>)
         /\ Spent \cup {r} \subseteq Spent'
<1>1. /\ db # <<>> /\ Len(db) \in Nat \ {0}
      /\ db[1] = DbCmd(op, r) /\ db[1].op = op /\ db[1].req = r
      /\ DbFits(DbCmd(op, r), req)
      /\ Moves(db, db', 1, <<>>)
  BY DbHead
<1>2. DbCmd(op, r).op = op /\ DbCmd(op, r).req = r
  BY CommandsTyped
<1>3. req[r].stage \in {"db", "hmset"} /\ Awaited(r) = 1
  BY <1>1, <1>2 DEF DbFits, Awaited
<1>. DEFINE s == SetSession(req[r].user, lastId + 1, r)
            x == Expire(req[r].user)
            es == <<s, x>>
<1>4. /\ req'[r].stage = "answered" /\ req'[r].left = req[r].left
      /\ req'[r].browser = req[r].browser
      /\ \A q \in Request : q # r => req'[q] = req[q]
      /\ s \in PipeCommand /\ x \in PipeCommand /\ Moves(pipe, pipe', 0, es)
      /\ s.op = "set" /\ s.req = r /\ x.op = "expire"
  BY <1>3, LogsInEffect, CommandsTyped DEF Rewrites
<1>5. /\ es \in Seq(PipeCommand) /\ Len(es) = 2
      /\ \A i \in 1..2 : es[i].op \notin {"get", "ttl"} /\ PipeFits(es[i], req')
      /\ Cardinality(Positions(es, Asks(r))) = 0
  <2>. HIDE DEF s, x
  <2>. QED
    BY <1>4, StoresFit
<1>6. RequestFits(r)' /\ Awaited(r)' = 0
  BY <1>3, <1>4 DEF RequestFits, Awaited, Core, Fits
<1>7. \A i \in 2..Len(db) : db[i].req # r
  BY <1>1, <1>3, LastOnDb
<1>8. \A i \in 1..Len(pipe) : pipe[i].op \in {"get", "ttl", "set"} => pipe[i].req # r
  BY <1>3 DEF Core, Fits, PipeFits
<1>9. Len(pipe) \in Nat
  BY LenProperties DEF Core, Typed
<1>. HIDE DEF es
<1>10. Handles(r, 1, <<>>, 0, es)
  BY <1>1, <1>3, <1>4, <1>5, <1>6, <1>7, <1>8, <1>9 DEF Handles
<1>11. Spent \cup {r} \subseteq Spent'
  BY <1>4 DEF Spent
<1>. QED
  BY <1>10, <1>11 DEF es

LEMMA HgetallCore ==
  ASSUME Core, NEW r \in Request, Hgetall(r)
  PROVE  Core'
<1>1. OnDb(DbCmd("hgetall", r)) /\ db' = Tail(db)
  BY DEF Hgetall
<1>2. /\ db # <<>> /\ Len(db) \in Nat \ {0}
      /\ db[1] = DbCmd("hgetall", r) /\ db[1].op = "hgetall" /\ db[1].req = r
      /\ DbFits(DbCmd("hgetall", r), req)
      /\ db' \in Seq(DbCommand) /\ Moves(db, db', 1, <<>>) /\ Moves(pipe, pipe, 0, <<>>)
  BY <1>1, DbHead
<1>3. req[r].stage = "db" /\ Awaited(r) = 1
  BY <1>2, CommandsTyped DEF DbFits, Awaited
<1>4. UNCHANGED <<account, store, jar, overlapped, aged, out, contested, registered, racing>>
  BY DEF Hgetall, redis, browsers
<1>5. CASE LogsIn(r)
  <2>1. Handles(r, 1, <<>>, 0, <<SetSession(req[r].user, lastId + 1, r), Expire(req[r].user)>>)
    BY <1>1, <1>5, LogsInHandles
  <2>2. Spent \cup {r} \subseteq Spent'
    BY <1>1, <1>5, LogsInHandles
  <2>3. Typed' /\ r \notin Spent /\ lastId' = lastId + 1
    <3>1. /\ lastId' = lastId + 1 /\ lastId' \in Ids /\ sessionObj' = lastId'
          /\ mixed' \subseteq User /\ owner' \in [User -> Browser \cup {None}]
          /\ req' \in [Request -> Requests] /\ pipe' \in Seq(PipeCommand)
          /\ r \notin Spent
      BY <1>3, <1>5, LogsInEffect DEF Rewrites
    <3>2. sessionObj' \in 1..lastId'
      BY <3>1, SessionAssumption DEF Ids
    <3>. QED
      BY <1>2, <1>4, <3>1, <3>2 DEF Core, Typed
  <2>. QED
    BY <2>1, <2>2, <2>3, HandlerStep, BudgetSpends DEF Core
<1>6. CASE req' = Redirect(r) /\ UNCHANGED <<sessionObj, lastId, pipe, owner, mixed>>
  <2>1. /\ req' \in [Request -> Requests]
        /\ req'[r].stage = "answered" /\ req'[r].left = req[r].left
        /\ req'[r].browser = req[r].browser
        /\ \A q \in Request : q # r => req'[q] = req[q]
    BY <1>6, RedirectEffect DEF Core, Rewrites
  <2>2. Typed'
    BY <1>2, <1>4, <1>6, <2>1 DEF Core, Typed
  <2>3. RequestFits(r)' /\ Awaited(r)' = 0 /\ Spent \subseteq Spent'
    BY <1>3, <2>1 DEF RequestFits, Awaited, Core, Fits, Spent
  <2>4. \A i \in 2..Len(db) : db[i].req # r
    BY <1>2, <1>3, LastOnDb
  <2>5. \A i \in 1..Len(pipe) : pipe[i].op \in {"get", "ttl", "set"} => pipe[i].req # r
    BY <1>3 DEF Core, Fits, PipeFits
  <2>6. Len(pipe) \in Nat
    BY LenProperties DEF Core, Typed
  <2>7. Handles(r, 1, <<>>, 0, <<>>)
    BY <1>2, <1>3, <1>6, <2>1, <2>3, <2>4, <2>5, <2>6, CountSmall DEF Handles
  <2>. QED
    BY <1>6, <2>2, <2>3, <2>7, HandlerStep, BudgetKeeps DEF Core
<1>. QED
  BY <1>5, <1>6 DEF Hgetall

LEMMA HmsetCore ==
  ASSUME Core, NEW r \in Request, Hmset(r)
  PROVE  Core'
<1>1. OnDb(DbCmd("hmset", r)) /\ db' = Tail(db) /\ LogsIn(r)
  BY DEF Hmset
<1>2. DbFits(DbCmd("hmset", r), req) /\ db' \in Seq(DbCommand)
  BY <1>1, DbHead
<1>3. req[r].stage = "hmset"
  BY <1>2, CommandsTyped DEF DbFits
<1>4. req[r].user \in User
  BY <1>3 DEF Core, Fits, RequestFits
<1>5. /\ UNCHANGED <<store, jar, overlapped, aged, out, contested, racing>>
      /\ account' \in [User -> Request \cup {0, None}]
      /\ registered' \subseteq User \X Request
  BY <1>4 DEF Hmset, browsers, Core, Typed
<1>6. Handles(r, 1, <<>>, 0, <<SetSession(req[r].user, lastId + 1, r), Expire(req[r].user)>>)
  BY <1>1, LogsInHandles
<1>7. Spent \cup {r} \subseteq Spent'
  BY <1>1, LogsInHandles
<1>8. Typed' /\ r \notin Spent /\ lastId' = lastId + 1
  <2>1. /\ lastId' = lastId + 1 /\ lastId' \in Ids /\ sessionObj' = lastId'
        /\ mixed' \subseteq User /\ owner' \in [User -> Browser \cup {None}]
        /\ req' \in [Request -> Requests] /\ pipe' \in Seq(PipeCommand)
        /\ r \notin Spent
    BY <1>1, <1>3, LogsInEffect DEF Rewrites
  <2>2. sessionObj' \in 1..lastId'
    BY <2>1, SessionAssumption DEF Ids
  <2>. QED
    BY <1>2, <1>5, <2>1, <2>2 DEF Core, Typed
<1>. QED
  BY <1>6, <1>7, <1>8, HandlerStep, BudgetSpends DEF Core

LEMMA ExistsCore ==
  ASSUME Core, NEW r \in Request, Exists(r)
  PROVE  Core'
<1>1. /\ OnDb(DbCmd("exists", r))
      /\ UNCHANGED <<account, store, sessionObj, lastId, pipe, jar, overlapped, aged, owner, out,
                     mixed, contested, registered, racing>>
  BY DEF Exists, redis, browsers, logs
<1>2. /\ db # <<>> /\ Len(db) \in Nat \ {0}
      /\ db[1] = DbCmd("exists", r) /\ db[1].op = "exists" /\ db[1].req = r
      /\ DbFits(DbCmd("exists", r), req)
      /\ Tail(db) \in Seq(DbCommand) /\ Moves(db, Tail(db), 1, <<>>) /\ Moves(pipe, pipe, 0, <<>>)
  BY <1>1, DbHead
<1>3. req[r].stage = "db" /\ req[r].url = "register" /\ Awaited(r) = 1
  BY <1>2, CommandsTyped DEF DbFits, Awaited
<1>4. \A i \in 2..Len(db) : db[i].req # r
  BY <1>2, <1>3, LastOnDb
<1>5. \A i \in 1..Len(pipe) : pipe[i].op \in {"get", "ttl", "set"} => pipe[i].req # r
  BY <1>3 DEF Core, Fits, PipeFits
<1>6. Len(pipe) \in Nat
  BY LenProperties DEF Core, Typed
<1>7. CASE db' = Append(Tail(db), DbCmd("hmset", r)) /\ req' = At(r, "hmset")
  <2>1. /\ DbCmd("hmset", r) \in DbCommand /\ DbCmd("hmset", r).op = "hmset"
        /\ DbCmd("hmset", r).req = r
    BY CommandsTyped
  <2>2. db' \in Seq(DbCommand) /\ Moves(db, db', 1, <<DbCmd("hmset", r)>>)
    BY <1>2, <1>7, <2>1, TailAppendMoves DEF Core, Typed
  <2>3. /\ Rewrites(req', r) /\ req'[r].stage = "hmset" /\ req'[r].left = req[r].left
    BY <1>7, AtEffect DEF Core, Stages
  <2>4. Typed'
    BY <1>1, <2>2, <2>3 DEF Core, Typed, Rewrites
  <2>5. RequestFits(r)' /\ Awaited(r)' = 1 /\ DbFits(DbCmd("hmset", r), req') /\ Spent \subseteq Spent'
    BY <1>3, <2>1, <2>3 DEF RequestFits, Awaited, DbFits, Core, Fits, Rewrites, Spent
  <2>6. Handles(r, 1, <<DbCmd("hmset", r)>>, 0, <<>>)
    <3>. DEFINE cs == <<DbCmd("hmset", r)>>
    <3>1. /\ cs \in Seq(DbCommand) /\ Len(cs) = 1
          /\ \A i \in 1..Len(cs) : cs[i].req = r /\ DbFits(cs[i], req')
      BY <2>1, <2>5
    <3>2. Moves(db, db', 1, cs)
      BY <2>2
    <3>. HIDE DEF cs
    <3>3. Handles(r, 1, cs, 0, <<>>)
      BY <1>1, <1>2, <1>3, <1>4, <1>5, <1>6, <2>3, <2>5, <3>1, <3>2, CountSmall
      DEF Handles, Rewrites
    <3>. QED
      BY <3>3 DEF cs
  <2>. QED
    BY <1>1, <2>4, <2>5, <2>6, HandlerStep, BudgetKeeps DEF Core
<1>8. CASE db' = Tail(db) /\ req' = Redirect(r)
  <2>1. Rewrites(req', r) /\ req'[r].stage = "answered" /\ req'[r].left = req[r].left
    BY <1>8, RedirectEffect DEF Core
  <2>2. Typed'
    BY <1>1, <1>2, <1>8, <2>1 DEF Core, Typed, Rewrites
  <2>3. RequestFits(r)' /\ Awaited(r)' = 0 /\ Spent \subseteq Spent'
    BY <1>3, <2>1 DEF RequestFits, Awaited, Core, Fits, Spent, Rewrites
  <2>4. Handles(r, 1, <<>>, 0, <<>>)
    BY <1>1, <1>2, <1>3, <1>4, <1>5, <1>6, <1>8, <2>1, <2>3, CountSmall DEF Handles, Rewrites
  <2>. QED
    BY <1>1, <2>2, <2>3, <2>4, HandlerStep, BudgetKeeps DEF Core
<1>. QED
  BY <1>7, <1>8 DEF Exists

\* While r is served its SET stays where it is, and it asks redisSession nothing.
LEMMA ServedPipe ==
  ASSUME Core, NEW r \in Request, Rewrites(req', r),
         req[r].stage = "serve", req'[r].stage \in {"serve", "answered"}
  PROVE  \A i \in 1..Len(pipe) : PipeFits(pipe[i], req')
<1>1. \A i \in 1..Len(pipe) : pipe[i] \in PipeCommand /\ PipeFits(pipe[i], req)
  BY ElementOfSeq DEF Core, Typed, Fits
<1>2. \A i \in 1..Len(pipe) : pipe[i].op \in {"get", "ttl", "set"} => pipe[i].req \in Request
  BY <1>1, PipeCommandParts
<1>. QED
  BY <1>1, <1>2 DEF PipeFits, Rewrites

LEMMA QueryCore ==
  ASSUME Core, NEW r \in Request, Query(r)
  PROVE  Core'
<1>1. /\ OnDb(DbCmd("query", r))
      /\ UNCHANGED <<account, store, sessionObj, lastId, pipe, jar, overlapped, aged, owner, out,
                     mixed, contested, registered, racing>>
  BY DEF Query, redis, browsers, logs
<1>2. PICK n \in 0..Ranges :
        /\ db' = Tail(db) \o [i \in 1..n |-> DbCmd("lrange", r)]
        /\ req' = [req EXCEPT ![r].left = n, ![r].stage = IF n = 0 THEN "answered" ELSE "serve"]
  BY DEF Query
<1>3. n \in Nat
  BY SessionAssumption
<1>4. /\ db # <<>> /\ Len(db) \in Nat \ {0}
      /\ db[1] = DbCmd("query", r) /\ db[1].op = "query" /\ db[1].req = r
      /\ DbFits(DbCmd("query", r), req) /\ Moves(pipe, pipe, 0, <<>>)
  BY <1>1, DbHead
<1>5. req[r].stage = "serve" /\ req[r].left = 0 /\ Awaited(r) = 1
  BY <1>4, CommandsTyped DEF DbFits, Awaited
<1>6. \A i \in 2..Len(db) : db[i].req # r
  BY <1>4, <1>5, LastOnDb
<1>7. \A i \in 1..Len(pipe) : pipe[i].op \in {"get", "ttl"} => pipe[i].req # r
  BY <1>5 DEF Core, Fits, PipeFits
<1>8. Len(pipe) \in Nat
  BY LenProperties DEF Core, Typed
<1>. DEFINE new == [req[r] EXCEPT !.left = n, !.stage = IF n = 0 THEN "answered" ELSE "serve"]
            cs == [i \in 1..n |-> DbCmd("lrange", r)]
<1>9. Rewrites(req', r) /\ req'[r].stage = (IF n = 0 THEN "answered" ELSE "serve") /\ req'[r].left = n
  <2>1. req[r] \in Requests
    BY DEF Core, Typed
  <2>2. new \in Requests
    BY <2>1 DEF Requests, Stages
  <2>3. req' = [req EXCEPT ![r] = new]
    BY <1>2 DEF Core, Typed
  <2>. QED
    BY <2>1, <2>2, <2>3 DEF Rewrites, Core, Typed, Requests
<1>10. DbCmd("lrange", r) \in DbCommand /\ DbCmd("lrange", r).op = "lrange" /\ DbCmd("lrange", r).req = r
  BY CommandsTyped
<1>11. /\ cs \in Seq(DbCommand) /\ Len(cs) = n
       /\ \A i \in 1..Len(cs) : cs[i].req = r /\ DbFits(cs[i], req')
  BY <1>3, <1>9, <1>10 DEF DbFits
<1>12. db' \in Seq(DbCommand) /\ Moves(db, db', 1, cs)
  <2>. HIDE DEF cs
  <2>1. db' = Tail(db) \o cs
    BY <1>2 DEF cs
  <2>. QED
    BY <1>4, <1>11, <2>1, PopMoves DEF Core, Typed
<1>13. Typed'
  BY <1>1, <1>9, <1>12 DEF Core, Typed, Rewrites
<1>14. RequestFits(r)' /\ Awaited(r)' = n /\ Spent \subseteq Spent'
  BY <1>3, <1>5, <1>9 DEF RequestFits, Awaited, Core, Fits, Rewrites, Spent
<1>15. Handles(r, 1, cs, 0, <<>>)
  <2>. HIDE DEF cs
  <2>1. \A i \in 1..Len(pipe) : PipeFits(pipe[i], req')
    BY <1>5, <1>9, ServedPipe
  <2>. QED
    BY <1>1, <1>3, <1>4, <1>5, <1>6, <1>8, <1>9, <1>11, <1>12, <1>14, <2>1, CountSmall
    DEF Handles, Rewrites
<1>. QED
  BY <1>1, <1>13, <1>14, <1>15, HandlerStep, BudgetKeeps DEF Core

LEMMA LrangeCore ==
  ASSUME Core, NEW r \in Request, Lrange(r)
  PROVE  Core'
<1>1. /\ OnDb(DbCmd("lrange", r)) /\ db' = Tail(db)
      /\ UNCHANGED <<account, store, sessionObj, lastId, pipe, jar, overlapped, aged, owner, out,
                     mixed, contested, registered, racing>>
  BY DEF Lrange, redis, browsers, logs
<1>2. /\ db # <<>> /\ Len(db) \in Nat \ {0}
      /\ db[1] = DbCmd("lrange", r) /\ db[1].op = "lrange" /\ db[1].req = r
      /\ DbFits(DbCmd("lrange", r), req) /\ Moves(pipe, pipe, 0, <<>>)
      /\ db' \in Seq(DbCommand) /\ Moves(db, db', 1, <<>>)
  BY <1>1, DbHead
<1>. DEFINE n == req[r].left
<1>3. req[r].stage = "serve" /\ n > 0 /\ n \in 0..Ranges /\ n \in Nat
  BY <1>2, CommandsTyped, SessionAssumption DEF DbFits, Core, Typed, Requests
<1>4. Awaited(r) = n
  BY <1>3 DEF Awaited
<1>. DEFINE new == [req[r] EXCEPT !.left = n - 1, !.stage = IF n = 1 THEN "answered" ELSE "serve"]
<1>5. Rewrites(req', r) /\ req'[r].stage = (IF n = 1 THEN "answered" ELSE "serve") /\ req'[r].left = n - 1
  <2>1. req[r] \in Requests
    BY DEF Core, Typed
  <2>2. n - 1 \in 0..Ranges
    <3>. HIDE DEF n
    <3>. QED
      BY <1>3, SessionAssumption
  <2>3. new \in Requests
    BY <2>1, <2>2 DEF Requests, Stages
  <2>4. req' = [req EXCEPT ![r] = new]
    BY DEF Lrange, Core, Typed
  <2>. QED
    BY <2>1, <2>3, <2>4 DEF Rewrites, Core, Typed, Requests
<1>. HIDE DEF n
<1>6. \A i \in 2..Len(db) : db[i].req = r => DbFits(db[i], req')
  <2>1. CASE n = 1
    <3>1. \A i \in 2..Len(db) : db[i].req # r
      BY <1>2, <1>4, <2>1, LastOnDb
    <3>. QED
      BY <3>1
  <2>2. CASE n # 1
    <3>1. \A i \in 2..Len(db) : db[i].req = r => db[i].op = "lrange"
      <4>1. \A i \in 1..Len(db) : db[i] \in DbCommand /\ DbFits(db[i], req)
        BY ElementOfSeq DEF Core, Typed, Fits
      <4>. QED
        BY <1>3, <4>1 DEF DbCommand, DbFits, n
    <3>. QED
      BY <1>3, <1>5, <2>2, <3>1 DEF DbFits
  <2>. QED
    BY <2>1, <2>2
<1>7. \A i \in 1..Len(pipe) : PipeFits(pipe[i], req')
  BY <1>3, <1>5, ServedPipe
<1>8. Len(pipe) \in Nat
  BY LenProperties DEF Core, Typed
<1>9. Typed'
  BY <1>1, <1>2, <1>5 DEF Core, Typed, Rewrites
<1>10. RequestFits(r)' /\ Awaited(r)' = n - 1 /\ Spent \subseteq Spent'
  BY <1>3, <1>5 DEF RequestFits, Awaited, Core, Fits, Rewrites, Spent
<1>11. Handles(r, 1, <<>>, 0, <<>>)
  BY <1>1, <1>2, <1>3, <1>4, <1>5, <1>6, <1>7, <1>8, <1>10, CountSmall DEF Handles, Rewrites
<1>. QED
  BY <1>1, <1>9, <1>10, <1>11, HandlerStep, BudgetKeeps DEF Core

-----------------------------------------------------------------------------
(* The callbacks of redisSession.                                            *)

\* The commands cs are those r waits for from now on.
AsksDb(r, cs) ==
  /\ cs \in Seq(DbCommand) /\ Moves(db, db', 0, cs)
  /\ Awaited(r)' = Len(cs) /\ Len(cs) \in Nat
  /\ \A i \in 1..Len(cs) : cs[i].req = r /\ DbFits(cs[i], req')

\* CheckSession lets r pass: its page asks redisDB, or is answered.
LEMMA ServeEffect ==
  ASSUME Core, NEW r \in Request, NEW cookie \in Cookie, req[r].stage \in {"get", "ttl"},
         Serve(r, cookie)
  PROVE  /\ Rewrites(req', r) /\ req'[r].stage \in {"serve", "answered"}
         /\ req'[r].newSession = cookie
         /\ RequestFits(r)'
         /\ db' \in Seq(DbCommand)
         /\ \E cs : AsksDb(r, cs)
         /\ req'[r].newUser \in {None, req[r].newUser}
<1>1. db \in Seq(DbCommand) /\ req[r].left = 0 /\ RequestFits(r) /\ req[r] \in Requests
  BY DEF Core, Typed, Fits, RequestFits
<1>2. CASE db' = Append(db, DbCmd("query", r))
           /\ req' = [req EXCEPT ![r].stage = "serve", ![r].newSession = cookie]
  <2>. DEFINE new == [req[r] EXCEPT !.stage = "serve", !.newSession = cookie]
              cs == <<DbCmd("query", r)>>
  <2>1. new \in Requests
    BY <1>1 DEF Requests, Stages
  <2>2. req' = [req EXCEPT ![r] = new]
    BY <1>2 DEF Core, Typed
  <2>3. /\ Rewrites(req', r) /\ req'[r].stage = "serve" /\ req'[r].left = 0
        /\ req'[r].newSession = cookie /\ req'[r].newUser = req[r].newUser
    BY <1>1, <2>1, <2>2 DEF Core, Typed, Requests, Rewrites
  <2>4. /\ DbCmd("query", r) \in DbCommand /\ DbCmd("query", r).op = "query"
        /\ DbCmd("query", r).req = r
    BY CommandsTyped
  <2>5. db' \in Seq(DbCommand) /\ Moves(db, db', 0, cs)
    BY <1>1, <1>2, <2>4, AppendMoves
  <2>6. /\ cs \in Seq(DbCommand) /\ Len(cs) = 1
        /\ \A i \in 1..Len(cs) : cs[i].req = r /\ DbFits(cs[i], req')
    BY <2>3, <2>4 DEF DbFits
  <2>7. Awaited(r)' = 1 /\ RequestFits(r)'
    BY <1>1, <2>3 DEF Awaited, RequestFits, Rewrites
  <2>. HIDE DEF cs
  <2>8. AsksDb(r, cs)
    BY <2>5, <2>6, <2>7 DEF AsksDb
  <2>. QED
    BY <2>3, <2>5, <2>7, <2>8
<1>3. CASE req' = Answer(r, cookie, None) /\ UNCHANGED db
  <2>1. /\ Rewrites(req', r) /\ req'[r].stage = "answered" /\ req'[r].left = 0
        /\ req'[r].newSession = cookie /\ req'[r].newUser = None
    BY <1>1, <1>3, AnswerEffect DEF Core
  <2>2. Awaited(r)' = 0 /\ RequestFits(r)'
    BY <1>1, <2>1 DEF Awaited, RequestFits, Rewrites
  <2>3. Moves(db, db', 0, <<>>) /\ <<>> \in Seq(DbCommand) /\ Len(<<>>) = 0
    BY <1>1, <1>3, StayMoves
  <2>4. AsksDb(r, <<>>)
    BY <2>2, <2>3 DEF AsksDb
  <2>. QED
    BY <1>1, <1>3, <2>1, <2>2, <2>4
<1>. QED
  BY <1>2, <1>3 DEF Serve

\* The reply to the one command r waits for: what else the handler has to do.
Replies(r, op, cs, es) ==
  /\ OnPipe(DbCmd(op, r)) /\ op \in {"get", "ttl"}
  /\ Rewrites(req', r) /\ RequestFits(r)'
  /\ cs \in Seq(DbCommand) /\ Moves(db, db', 0, cs)
  /\ \A i \in 1..Len(cs) : cs[i].req = r /\ DbFits(cs[i], req')
  /\ es \in Seq(PipeCommand) /\ Moves(pipe, pipe', 1, es)
  /\ \A i \in 1..Len(es) : /\ es[i].op \in {"get", "ttl"} => es[i].req = r
                           /\ PipeFits(es[i], req')
  /\ Awaited(r)' = Len(cs) + Cardinality(Positions(es, Asks(r)))

LEMMA PipeReply ==
  ASSUME Core, Typed', NEW r \in Request, NEW op, NEW cs, NEW es, Replies(r, op, cs, es)
  PROVE  Fits' /\ WaitsOnce'
<1>. USE DEF Replies
<1>1. /\ pipe # <<>> /\ Len(pipe) \in Nat \ {0} /\ pipe[1] = DbCmd(op, r)
      /\ PipeFits(DbCmd(op, r), req)
  BY PipeHead
<1>2. /\ DbCmd(op, r).op = op /\ DbCmd(op, r).req = r /\ DbCmd(op, r) \in Asks(r)
      /\ req[r].stage \in {"get", "ttl"}
  BY <1>1, CommandsTyped DEF Asks, PipeFits
<1>3. /\ \A i \in 2..Len(pipe) : pipe[i].op \in {"get", "ttl"} => pipe[i].req # r
      /\ \A i \in 1..Len(db) : db[i].req # r
      /\ Awaited(r) = 1
  BY <1>1, <1>2, LastOnPipe
<1>4. \A i \in 1..Len(pipe) : pipe[i].op = "set" => pipe[i].req # r
  BY <1>2 DEF Core, Fits, PipeFits
<1>5. Len(db) \in Nat /\ Len(cs) \in Nat /\ Cardinality(Positions(es, Asks(r))) \in Nat
  BY LenProperties, PositionsFinite DEF Core, Typed
<1>6. Awaited(r)' + 0 + (IF 1 = 1 /\ pipe[1] \in Asks(r) THEN 1 ELSE 0)
        = Awaited(r) + Len(cs) + Cardinality(Positions(es, Asks(r)))
  BY <1>1, <1>2, <1>3, <1>5
<1>7. Handles(r, 0, cs, 1, es)
  BY <1>1, <1>2, <1>3, <1>4, <1>5, <1>6 DEF Handles, Rewrites
<1>. QED
  BY <1>7, HandlerStep

LEMMA GetRefusedCore ==
  ASSUME Core, NEW r \in Request, GetRefused(r)
  PROVE  Core'
<1>1. /\ OnPipe(DbCmd("get", r)) /\ pipe' = Tail(pipe) /\ req' = Redirect(r)
      /\ UNCHANGED <<account, store, sessionObj, lastId, db, jar, overlapped, aged, owner, out,
                     mixed, contested, registered, racing>>
  BY DEF GetRefused, redis, browsers, logs
<1>2. /\ PipeFits(DbCmd("get", r), req) /\ pipe' \in Seq(PipeCommand)
      /\ Moves(pipe, pipe', 1, <<>>) /\ Moves(db, db', 0, <<>>)
  BY <1>1, PipeHead
<1>3. req[r].stage = "get"
  BY <1>2, CommandsTyped DEF PipeFits
<1>4. Rewrites(req', r) /\ req'[r].stage = "answered" /\ req'[r].left = req[r].left
  BY <1>1, RedirectEffect DEF Core
<1>5. Typed'
  BY <1>1, <1>2, <1>4 DEF Core, Typed, Rewrites
<1>6. RequestFits(r)' /\ Awaited(r)' = 0 /\ Spent \subseteq Spent'
  BY <1>3, <1>4 DEF RequestFits, Awaited, Core, Fits, Rewrites, Spent
<1>7. Cardinality(Positions(<<>>, Asks(r))) = 0 /\ Len(<<>>) = 0
  BY CountSmall
<1>8. Fits' /\ WaitsOnce'
  <2>1. Replies(r, "get", <<>>, <<>>)
    BY <1>1, <1>2, <1>4, <1>6, <1>7 DEF Replies
  <2>. QED
    BY <1>5, <2>1, PipeReply
<1>. QED
  BY <1>1, <1>5, <1>6, <1>8, BudgetKeeps DEF Core

LEMMA GetFreshCore ==
  ASSUME Core, NEW r \in Request, GetFresh(r)
  PROVE  Core'
<1>1. /\ OnPipe(DbCmd("get", r)) /\ pipe' = Tail(pipe) /\ Serve(r, None)
      /\ UNCHANGED <<account, store, sessionObj, lastId, jar, overlapped, aged, owner, out,
                     mixed, contested, registered, racing>>
  BY DEF GetFresh, redis, browsers, logs
<1>2. /\ PipeFits(DbCmd("get", r), req) /\ pipe' \in Seq(PipeCommand)
      /\ Moves(pipe, pipe', 1, <<>>)
  BY <1>1, PipeHead
<1>3. req[r].stage = "get" /\ None \in Cookie
  BY <1>2, CommandsTyped DEF PipeFits, Cookie
<1>4. /\ Rewrites(req', r) /\ req'[r].stage \in {"serve", "answered"}
      /\ RequestFits(r)' /\ db' \in Seq(DbCommand)
  BY <1>1, <1>3, ServeEffect
<1>5. PICK cs : AsksDb(r, cs)
  BY <1>1, <1>3, ServeEffect
<1>6. Typed' /\ Spent \subseteq Spent'
  BY <1>1, <1>2, <1>3, <1>4 DEF Core, Typed, Rewrites, Spent
<1>7. Cardinality(Positions(<<>>, Asks(r))) = 0 /\ Len(<<>>) = 0
  BY CountSmall
<1>8. Fits' /\ WaitsOnce'
  <2>1. Replies(r, "get", cs, <<>>)
    BY <1>1, <1>2, <1>4, <1>5, <1>7 DEF Replies, AsksDb
  <2>. QED
    BY <1>6, <2>1, PipeReply
<1>. QED
  BY <1>1, <1>6, <1>8, BudgetKeeps DEF Core

LEMMA GetOldCore ==
  ASSUME Core, NEW r \in Request, GetOld(r)
  PROVE  Core'
<1>1. /\ OnPipe(DbCmd("get", r)) /\ pipe' = Append(Tail(pipe), DbCmd("ttl", r))
      /\ NewId /\ req' = At(r, "ttl")
      /\ UNCHANGED <<account, store, db, jar, overlapped, aged, owner, out, contested, registered,
                     racing>>
  BY DEF GetOld, redis, browsers
<1>2. /\ PipeFits(DbCmd("get", r), req) /\ Moves(db, db', 0, <<>>) /\ pipe # <<>>
  BY <1>1, PipeHead
<1>3. req[r].stage = "get" /\ r \notin Spent
  BY <1>2, CommandsTyped DEF PipeFits, Spent
<1>4. lastId + 1 \in Ids
  BY <1>3, FreshId
<1>5. Rewrites(req', r) /\ req'[r].stage = "ttl" /\ req'[r].left = req[r].left
  BY <1>1, AtEffect DEF Core, Stages
<1>6. DbCmd("ttl", r) \in PipeCommand /\ DbCmd("ttl", r).op = "ttl" /\ DbCmd("ttl", r).req = r
  BY CommandsTyped
<1>7. pipe' \in Seq(PipeCommand) /\ Moves(pipe, pipe', 1, <<DbCmd("ttl", r)>>)
  BY <1>1, <1>2, <1>6, TailAppendMoves DEF Core, Typed
<1>8. lastId' = lastId + 1 /\ lastId' \in Ids /\ sessionObj' \in 1..lastId' /\ mixed' \subseteq User
  BY <1>1, <1>4, SessionAssumption DEF NewId, Ids, Core, Typed
<1>9. Typed' /\ Spent \cup {r} \subseteq Spent'
  BY <1>1, <1>5, <1>7, <1>8 DEF Core, Typed, Rewrites, Spent
<1>10. RequestFits(r)' /\ Awaited(r)' = 1 /\ PipeFits(DbCmd("ttl", r), req')
  BY <1>3, <1>5, <1>6 DEF RequestFits, Awaited, Core, Fits, Rewrites, PipeFits
<1>11. Cardinality(Positions(<<DbCmd("ttl", r)>>, Asks(r))) = 1
  BY CountSmall DEF Asks
<1>12. Fits' /\ WaitsOnce'
  <2>. DEFINE es == <<DbCmd("ttl", r)>>
  <2>1. /\ es \in Seq(PipeCommand) /\ Len(es) = 1
        /\ \A i \in 1..Len(es) : /\ es[i].op \in {"get", "ttl"} => es[i].req = r
                                 /\ PipeFits(es[i], req')
    BY <1>6, <1>10
  <2>2. Moves(pipe, pipe', 1, es) /\ Awaited(r)' = Len(<<>>) + Cardinality(Positions(es, Asks(r)))
    BY <1>7, <1>10, <1>11
  <2>. HIDE DEF es
  <2>. QED
    <3>1. Replies(r, "get", <<>>, es)
      BY <1>1, <1>2, <1>5, <1>10, <2>1, <2>2 DEF Replies
    <3>. QED
      BY <1>9, <3>1, PipeReply
<1>. QED
  BY <1>3, <1>8, <1>9, <1>12, BudgetSpends DEF Core

LEMMA TtlRefreshCore ==
  ASSUME Core, NEW r \in Request, TtlRefresh(r)
  PROVE  Core'
<1>. DEFINE u == req[r].user
            s == SetSession(u, sessionObj, r)
            x == Expire(u)
            es == <<s, x>>
<1>1. /\ OnPipe(DbCmd("ttl", r)) /\ pipe' = Tail(pipe) \o es /\ Serve(r, sessionObj)
      /\ owner' = [owner EXCEPT ![u] = req[r].browser]
      /\ UNCHANGED <<account, store, sessionObj, lastId, jar, overlapped, aged, out, mixed,
                     contested, registered, racing>>
  BY DEF TtlRefresh, redis, browsers
<1>2. PipeFits(DbCmd("ttl", r), req) /\ pipe # <<>>
  BY <1>1, PipeHead
<1>3. req[r].stage = "ttl"
  BY <1>2, CommandsTyped DEF PipeFits
<1>4. u \in User /\ req[r].browser \in Browser /\ sessionObj \in Ids /\ sessionObj \in Cookie
  BY <1>3, SessionAssumption DEF Core, Typed, Fits, RequestFits, Ids, Cookie
<1>5. /\ Rewrites(req', r) /\ req'[r].stage \in {"serve", "answered"}
      /\ RequestFits(r)' /\ db' \in Seq(DbCommand)
  BY <1>1, <1>3, <1>4, ServeEffect
<1>6. PICK cs : AsksDb(r, cs)
  BY <1>1, <1>3, <1>4, ServeEffect
<1>7. /\ s \in PipeCommand /\ s.op = "set" /\ s.req = r
      /\ x \in PipeCommand /\ x.op = "expire"
  BY <1>4, CommandsTyped
<1>. HIDE DEF s, x
<1>8. /\ es \in Seq(PipeCommand) /\ Len(es) = 2
      /\ \A i \in 1..2 : es[i].op \notin {"get", "ttl"} /\ PipeFits(es[i], req')
      /\ Cardinality(Positions(es, Asks(r))) = 0
  BY <1>5, <1>7, StoresFit
<1>. HIDE DEF es
<1>9. pipe' \in Seq(PipeCommand) /\ Moves(pipe, pipe', 1, es)
  BY <1>1, <1>2, <1>8, PopMoves DEF Core, Typed
<1>10. Typed' /\ Spent \subseteq Spent'
  BY <1>1, <1>3, <1>4, <1>5, <1>9 DEF Core, Typed, Rewrites, Spent
<1>11. Replies(r, "ttl", cs, es)
  BY <1>1, <1>5, <1>6, <1>8, <1>9 DEF Replies, AsksDb
<1>12. Fits' /\ WaitsOnce'
  BY <1>10, <1>11, PipeReply
<1>. QED
  BY <1>1, <1>10, <1>12, BudgetKeeps DEF Core

LEMMA TtlTooLateCore ==
  ASSUME Core, NEW r \in Request, TtlTooLate(r)
  PROVE  Core'
<1>. DEFINE u == req[r].user
            c == Del(u)
            es == <<c>>
<1>1. /\ OnPipe(DbCmd("ttl", r)) /\ pipe' = Append(Tail(pipe), c) /\ req' = Answer(r, 0, None)
      /\ racing' \subseteq racing \cup Request
      /\ UNCHANGED <<account, store, sessionObj, lastId, db, jar, overlapped, aged, owner, out, mixed,
                     contested, registered>>
  BY DEF TtlTooLate, redis, browsers, Refreshing
<1>2. PipeFits(DbCmd("ttl", r), req) /\ pipe # <<>> /\ Moves(db, db', 0, <<>>)
  BY <1>1, PipeHead
<1>3. req[r].stage = "ttl"
  BY <1>2, CommandsTyped DEF PipeFits
<1>4. u \in User
  BY <1>3 DEF Core, Fits, RequestFits
<1>5. c \in PipeCommand /\ c.op = "del"
  BY <1>4, CommandsTyped
<1>6. Rewrites(req', r) /\ req'[r].stage = "answered" /\ req'[r].left = req[r].left
  <2>1. 0 \in Cookie /\ None \in User \cup {None}
    BY DEF Cookie
  <2>. QED
    BY <1>1, <2>1, AnswerEffect DEF Core
<1>. HIDE DEF c
<1>7. pipe' \in Seq(PipeCommand) /\ Moves(pipe, pipe', 1, es)
  BY <1>1, <1>2, <1>5, TailAppendMoves DEF Core, Typed
<1>8. /\ es \in Seq(PipeCommand) /\ Len(es) = 1
      /\ \A i \in 1..Len(es) : es[i].op \notin {"get", "ttl"} /\ PipeFits(es[i], req')
  BY <1>5 DEF PipeFits
<1>9. Cardinality(Positions(es, Asks(r))) = 0
  BY <1>5, CountSmall, AsksIs
<1>10. RequestFits(r)' /\ Awaited(r)' = 0
  BY <1>3, <1>6 DEF RequestFits, Awaited, Core, Fits, Rewrites
<1>11. Typed' /\ Spent \subseteq Spent'
  BY <1>1, <1>3, <1>6, <1>7 DEF Core, Typed, Rewrites, Spent
<1>. HIDE DEF es
<1>12. Replies(r, "ttl", <<>>, es)
  BY <1>1, <1>2, <1>6, <1>7, <1>8, <1>9, <1>10 DEF Replies
<1>13. Fits' /\ WaitsOnce'
  BY <1>11, <1>12, PipeReply
<1>. QED
  BY <1>1, <1>11, <1>13, BudgetKeeps DEF Core

\* Steps no request waits for.
LEMMA QuietStep ==
  ASSUME Core, Typed', UNCHANGED <<req, db, lastId>>,
         pipe' = pipe \/ (pipe # <<>> /\ pipe' = Tail(pipe) /\ Head(pipe).op \notin {"get", "ttl"})
  PROVE  Core'
<1>1. pipe \in Seq(PipeCommand) /\ pipe' \in Seq(PipeCommand)
  BY DEF Core, Typed
<1>2. PICK e \in {0, 1} :
        /\ e <= Len(pipe) /\ Moves(pipe, pipe', e, <<>>) /\ Len(pipe) \in Nat
        /\ e = 1 => pipe[1] \in PipeCommand /\ pipe[1].op \notin {"get", "ttl"}
  <2>1. CASE pipe' = pipe
    <3>1. Len(pipe) \in Nat /\ Moves(pipe, pipe', 0, <<>>)
      BY <1>1, <2>1, LenProperties, StayMoves
    <3>. QED
      BY <3>1
  <2>2. CASE pipe # <<>> /\ pipe' = Tail(pipe) /\ Head(pipe).op \notin {"get", "ttl"}
    <3>1. /\ Moves(pipe, pipe', 1, <<>>) /\ Head(pipe) = pipe[1] /\ Head(pipe) \in PipeCommand
          /\ Len(pipe) \in Nat \ {0}
      BY <1>1, <2>2, TailMoves
    <3>. QED
      BY <2>2, <3>1
  <2>. QED
    BY <2>1, <2>2
<1>3. \A i \in 1..Len(pipe') : PipeFits(pipe'[i], req')
  <2>. TAKE i \in 1..Len(pipe')
  <2>1. i + e \in 1..Len(pipe) /\ pipe'[i] = pipe[i + e]
    BY <1>2 DEF Moves
  <2>. QED
    BY <2>1 DEF Core, Fits
<1>4. Fits'
  BY <1>3 DEF Core, Fits, RequestFits
<1>5. ASSUME NEW q \in Request
      PROVE  Cardinality(Positions(pipe', Asks(q))) = Cardinality(Positions(pipe, Asks(q)))
  <2>. DEFINE none == <<>>
  <2>1. /\ none \in Seq(PipeCommand) /\ Cardinality(Positions(none, Asks(q))) = 0
        /\ Moves(pipe, pipe', e, none) /\ e \in {0, 1} /\ e <= Len(pipe)
    BY <1>2, CountSmall
  <2>. HIDE DEF none
  <2>2. Cardinality(Positions(pipe', Asks(q))) + (IF e = 1 /\ pipe[1] \in Asks(q) THEN 1 ELSE 0)
          = Cardinality(Positions(pipe, Asks(q))) + Cardinality(Positions(none, Asks(q)))
    BY <1>1, <2>1, CountMoves
  <2>3. e = 1 => pipe[1] \notin Asks(q)
    BY <1>2, AsksIs
  <2>4. /\ Cardinality(Positions(pipe', Asks(q))) \in Nat
        /\ Cardinality(Positions(pipe, Asks(q))) \in Nat
    BY <1>1, PositionsFinite
  <2>. QED
    BY <2>1, <2>2, <2>3, <2>4
<1>6. WaitsOnce'
  BY <1>5 DEF Core, WaitsOnce, Awaited
<1>7. Spent' = Spent
  BY DEF Spent
<1>. QED
  BY <1>4, <1>6, <1>7, BudgetKeeps DEF Core

LEMMA StoreCore ==
  ASSUME Core, NEW c, OnPipe(c), c.op \in {"set", "expire", "del"}, NEW u \in User, NEW session,
         session \in Session \cup {None}, StoreSession(u, session)
  PROVE  Core'
<1>1. pipe # <<>> /\ Head(pipe).op \notin {"get", "ttl"} /\ Tail(pipe) \in Seq(PipeCommand)
  BY PipeHead DEF OnPipe
<1>2. /\ UNCHANGED <<account, sessionObj, lastId, db, req, jar, overlapped, aged, owner, out, mixed,
                     contested, registered, racing>>
      /\ pipe' = Tail(pipe) /\ store' = [store EXCEPT ![u] = session]
  BY DEF StoreSession, browsers, logs
<1>3. Typed'
  BY <1>1, <1>2 DEF Core, Typed
<1>. QED
  BY <1>1, <1>2, <1>3, QuietStep

LEMMA PipeCore ==
  ASSUME Core, PipeStep
  PROVE  Core'
<1>1. ASSUME NEW r \in Request,
             GetRefused(r) \/ GetFresh(r) \/ GetOld(r) \/ TtlRefresh(r) \/ TtlTooLate(r)
      PROVE  Core'
  BY <1>1, GetRefusedCore, GetFreshCore, GetOldCore, TtlRefreshCore, TtlTooLateCore
<1>2. ASSUME NEW r \in Request, NEW u \in User, NEW id \in Ids, Set(r, u, id) PROVE Core'
  <2>1. [id |-> id, old |-> FALSE, ttl |-> "none"] \in Session \cup {None}
    BY DEF Session
  <2>2. /\ OnPipe(SetSession(u, id, r)) /\ SetSession(u, id, r).op = "set"
        /\ StoreSession(u, [id |-> id, old |-> FALSE, ttl |-> "none"])
    BY <1>2, CommandsTyped DEF Set
  <2>. DEFINE c == SetSession(u, id, r)
              session == [id |-> id, old |-> FALSE, ttl |-> "none"]
  <2>3. /\ OnPipe(c) /\ c.op \in {"set", "expire", "del"} /\ StoreSession(u, session)
        /\ session \in Session \cup {None}
    BY <2>1, <2>2
  <2>. HIDE DEF c, session
  <2>. QED
    BY <2>3, StoreCore
<1>3. ASSUME NEW u \in User, ExecExpire(u) PROVE Core'
  <2>1. (IF store[u] = None THEN None ELSE [store[u] EXCEPT !.ttl = "week"]) \in Session \cup {None}
    BY DEF Core, Typed, Session
  <2>. QED
    BY <1>3, <2>1, StoreCore, CommandsTyped DEF ExecExpire
<1>4. ASSUME NEW u \in User, ExecDel(u) PROVE Core'
  BY <1>4, StoreCore, CommandsTyped DEF ExecDel
<1>. QED
  BY <1>1, <1>2, <1>3, <1>4 DEF PipeStep, SetStep

LEMMA DbCore ==
  ASSUME Core, DbStep
  PROVE  Core'
BY HgetallCore, ExistsCore, HmsetCore, QueryCore, LrangeCore DEF DbStep

-----------------------------------------------------------------------------
(* Answers arrive, and time passes.                                          *)

LEMMA ReceiveCore ==
  ASSUME Core, NEW r \in Request, Receive(r)
  PROVE  Core'
<1>. DEFINE b == req[r].browser
            new == [Unsent EXCEPT !.stage = "received", !.url = req[r].url]
<1>1. /\ req[r].stage = "answered" /\ req' = [req EXCEPT ![r] = new]
      /\ UNCHANGED <<account, store, sessionObj, lastId, db, pipe, overlapped, aged, owner, mixed,
                     contested, registered, racing>>
  BY DEF Receive, redis
<1>2. req[r] \in Requests /\ b \in Browser /\ jar[b] \in Jar
  BY <1>1 DEF Core, Typed, Fits, RequestFits
<1>3. new \in Requests /\ new.stage = "received" /\ new.left = 0
  <2>1. Unsent \in Requests
    BY SessionAssumption DEF Unsent, Requests, Stages, Cookie
  <2>2. req[r].url \in {"login", "register", "chat", "data", "logout"}
    BY <1>2 DEF Requests
  <2>3. Unsent.left = 0
    BY DEF Unsent
  <2>. QED
    BY <2>1, <2>2, <2>3 DEF Requests, Stages
<1>4. jar' \in [Browser -> Jar]
  <2>. DEFINE kept == [jar[b] EXCEPT !.user = IF req[r].newUser = None THEN @ ELSE req[r].newUser]
              j == IF req[r].newSession = None THEN kept
                   ELSE IF req[r].url = "data" THEN [kept EXCEPT !.data = req[r].newSession]
                   ELSE [kept EXCEPT !.root = req[r].newSession]
  <2>1. kept \in Jar
    BY <1>2 DEF Requests, Jar
  <2>2. j \in Jar
    <3>. HIDE DEF kept
    <3>. QED
      BY <1>2, <2>1 DEF Requests, Jar
  <2>3. jar' = [jar EXCEPT ![b] = j]
    BY DEF Receive
  <2>. HIDE DEF j
  <2>. QED
    BY <2>2, <2>3 DEF Core, Typed
<1>5. out' \subseteq Browser
  BY <1>2 DEF Receive, Core, Typed
<1>. HIDE DEF new
<1>6. /\ req' \in [Request -> Requests] /\ req'[r].stage = "received" /\ req'[r].left = 0
      /\ \A q \in Request : q # r => req'[q] = req[q]
  BY <1>1, <1>3 DEF Core, Typed
<1>7. Typed' /\ Spent \subseteq Spent'
  BY <1>1, <1>4, <1>5, <1>6 DEF Core, Typed, Spent
<1>8. RequestFits(r)' /\ Awaited(r)' = 0 /\ Awaited(r) = 0
  BY <1>1, <1>6 DEF RequestFits, Awaited
<1>9. /\ \A i \in 1..Len(db) : db[i].req # r
      /\ \A i \in 1..Len(pipe) : pipe[i].op \in {"get", "ttl"} => pipe[i].req # r
  <2>1. \A i \in 1..Len(db) : db[i] \in DbCommand
    BY ElementOfSeq DEF Core, Typed
  <2>. QED
    BY <1>1, <2>1 DEF Core, Fits, DbFits, PipeFits, DbCommand
<1>10. \A i \in 1..Len(pipe) : pipe[i].op = "set" /\ pipe[i].req = r => PipeFits(pipe[i], req')
  BY <1>6 DEF PipeFits
<1>11. /\ Moves(db, db', 0, <<>>) /\ Moves(pipe, pipe', 0, <<>>)
       /\ Len(db) \in Nat /\ Len(pipe) \in Nat
  BY <1>1, StayMoves, LenProperties DEF Core, Typed
<1>12. Handles(r, 0, <<>>, 0, <<>>)
  BY <1>6, <1>8, <1>9, <1>10, <1>11, CountSmall DEF Handles
<1>. QED
  BY <1>1, <1>7, <1>12, HandlerStep, BudgetKeeps DEF Core

LEMMA AgesCore ==
  ASSUME Core, NEW u \in User, NEW session, session \in Session \cup {None}, Ages(u, session)
  PROVE  Core'
<1>1. /\ UNCHANGED <<account, sessionObj, lastId, db, pipe, req, jar, overlapped, owner, out, mixed,
                     contested, registered, racing>>
      /\ store' \in [User -> Session \cup {None}] /\ aged' \in 0..MaxAges
  BY SessionAssumption DEF Ages, logs, Core, Typed
<1>2. Typed'
  BY <1>1 DEF Core, Typed
<1>. QED
  BY <1>1, <1>2, QuietStep

LEMMA TimeCore ==
  ASSUME Core, Time
  PROVE  Core'
<1>1. \A u \in User : store[u] # None => store[u] \in Session
  BY DEF Core, Typed
<1>2. ASSUME NEW u \in User, HalfHour(u) PROVE Core'
  <2>1. [store[u] EXCEPT !.old = TRUE] \in Session \cup {None}
    BY <1>1, <1>2 DEF HalfHour, Session
  <2>. QED
    BY <1>2, <2>1, AgesCore DEF HalfHour
<1>3. ASSUME NEW u \in User, NearEnd(u) PROVE Core'
  <2>1. [store[u] EXCEPT !.ttl = "short"] \in Session \cup {None}
    BY <1>1, <1>3 DEF NearEnd, LongLived, Session
  <2>. QED
    BY <1>3, <2>1, AgesCore DEF NearEnd
<1>4. ASSUME NEW u \in User, Lapse(u) PROVE Core'
  BY <1>4, AgesCore DEF Lapse
<1>. QED
  BY <1>2, <1>3, <1>4 DEF Time

-----------------------------------------------------------------------------
(* The core of the invariant holds from the start and in every step.         *)

LEMMA CoreInit == SessionInit => Core
<1>. SUFFICES ASSUME SessionInit PROVE Core
  OBVIOUS
<1>. USE SessionAssumption
<1>1. /\ account \in [User -> {0, None}] /\ sessionObj = 1 /\ lastId = 1
      /\ db = <<>> /\ pipe = <<>> /\ aged = 0 /\ req = [r \in Request |-> Unsent]
      /\ overlapped = {} /\ out = {} /\ mixed = {} /\ contested = {} /\ registered = {} /\ racing = {}
  BY DEF SessionInit
<1>2. 1 \in Ids /\ 1 \in 1..lastId
  BY <1>1 DEF Ids
<1>3. NoCookies \in Jar /\ \A u \in User : [user |-> u, root |-> 1, data |-> None] \in Jar
  BY <1>2 DEF NoCookies, Jar, Cookie
<1>4. [id |-> 1, old |-> FALSE, ttl |-> "week"] \in Session
  BY <1>2 DEF Session
<1>5. /\ store \in [User -> Session \cup {None}] /\ jar \in [Browser -> Jar]
      /\ owner \in [User -> Browser \cup {None}]
  <2>1. CASE /\ store = [u \in User |-> None]
             /\ jar = [b \in Browser |-> NoCookies]
             /\ owner = [u \in User |-> None]
    BY <1>3, <2>1
  <2>2. ASSUME NEW b \in Browser, NEW u \in User, LoggedIn(b, u)
        PROVE  /\ store \in [User -> Session \cup {None}] /\ jar \in [Browser -> Jar]
               /\ owner \in [User -> Browser \cup {None}]
    BY <1>3, <1>4, <2>2 DEF LoggedIn
  <2>. QED
    BY <2>1, <2>2 DEF SessionInit
<1>6. Unsent \in Requests
  BY DEF Unsent, Requests, Stages, Cookie
<1>7. Typed
  BY <1>1, <1>2, <1>5, <1>6 DEF Typed
<1>8. \A r \in Request : req[r].stage = "unsent" /\ req[r].left = 0
  BY <1>1 DEF Unsent
<1>9. Fits
  BY <1>1, <1>8 DEF Fits, RequestFits
<1>10. Budget
  BY <1>1, SpentFinite DEF Budget
<1>11. WaitsOnce
  BY <1>1, <1>8, CountSmall DEF WaitsOnce, Awaited
<1>. QED
  BY <1>7, <1>9, <1>10, <1>11 DEF Core

LEMMA CoreNext == Core /\ [SessionNext]_sessionVars => Core'
<1>. SUFFICES ASSUME Core, [SessionNext]_sessionVars PROVE Core'
  OBVIOUS
<1>1. CASE Browse
  BY <1>1, BrowseCore
<1>2. CASE DbStep
  BY <1>2, DbCore
<1>3. CASE PipeStep
  BY <1>3, PipeCore
<1>4. ASSUME NEW r \in Request, Receive(r) PROVE Core'
  BY <1>4, ReceiveCore
<1>5. CASE Time
  BY <1>5, TimeCore
<1>6. CASE UNCHANGED sessionVars
  <2>1. UNCHANGED <<account, store, sessionObj, lastId, db, pipe, req, jar, overlapped, aged, owner,
                    out, mixed, contested, registered, racing>>
    BY <1>6 DEF sessionVars, redis, browsers, logs
  <2>2. Typed'
    BY <2>1 DEF Core, Typed
  <2>. QED
    BY <2>1, <2>2, QuietStep
<1>. QED
  BY <1>1, <1>2, <1>3, <1>4, <1>5, <1>6 DEF SessionNext

LEMMA CoreInvariance == SessionSpec => []Core
BY CoreInit, CoreNext, PTL DEF SessionSpec

LEMMA TypedIs == Typed => SessionTypeOK
<1>. SUFFICES ASSUME Typed PROVE SessionTypeOK
  OBVIOUS
<1>1. /\ \A i \in 1..Len(db) : db[i] \in DbCommand
      /\ \A i \in 1..Len(pipe) : pipe[i] \in PipeCommand
  BY ElementOfSeq DEF Typed
<1>2. sessionObj \in 0..lastId /\ lastId \in Ids \cup {0}
  BY SessionAssumption DEF Typed, Ids
<1>. QED
  BY <1>1, <1>2 DEF Typed, SessionTypeOK, DbCommand, PipeCommand

(* Types: a request holds a user, a browser and cookies its handler can use, and
   the ids the requests take never exceed one for each of them.              *)
THEOREM SessionTypeCorrect == SessionSpec => []SessionTypeOK
<1>1. Core => SessionTypeOK
  BY TypedIs DEF Core
<1>. QED
  BY <1>1, CoreInvariance, PTL

(* Every request is answered exactly once if Redis replies: what it waits for is
   queued, once, or as often as it counts lists, on one of the two connections.
   No branch of the handlers of server.js forgets to answer or does so twice. *)
THEOREM AnsweredOnceHolds == SessionSpec => []AnsweredOnce
<1>1. Core => AnsweredOnce
  BY AnsweredOnceIs DEF Core
<1>. QED
  BY <1>1, CoreInvariance, PTL

-----------------------------------------------------------------------------
(* Registration: of the commands for a name that is not contested every HMSET
   comes before every EXISTS, no two are alike, and the name is free as long as
   an HMSET is queued.                                                       *)
Registers(c) == c.op \in {"exists", "hmset"}

RegistersApart ==
  \A i, j \in 1..Len(db) :
    /\ i < j /\ Registers(db[i]) /\ Registers(db[j])
    /\ req[db[i].req].user = req[db[j].req].user
    /\ req[db[i].req].user \notin contested
    => db[i].op = "hmset" /\ db[j].op = "exists"

FreeAtHmset ==
  \A i \in 1..Len(db) :
    db[i].op = "hmset" /\ req[db[i].req].user \notin contested
    => account[req[db[i].req].user] = None

RegistersInv == RegistersApart /\ FreeAtHmset /\ RegistrationLasts

\* The other requests are as they were.
Rest(r) == \A q \in Request : q # r => req'[q] = req[q]

\* Steps that queue no command of a registration and leave the accounts alone.
DbQuiet(d, cs) ==
  /\ d \in {0, 1} /\ d <= Len(db) /\ Moves(db, db', d, cs)
  /\ Len(db) \in Nat /\ Len(cs) \in Nat
  /\ \A i \in 1..Len(cs) : ~Registers(cs[i])
  /\ UNCHANGED <<account, registered>> /\ contested \subseteq contested'
  /\ \A q \in Request : req[q].stage \in {"db", "hmset"} => req'[q].user = req[q].user

\* What there is to know of the commands of registrations.
LEMMA RegisterCommands ==
  ASSUME Core, NEW i \in 1..Len(db), Registers(db[i])
  PROVE  /\ db[i].req \in Request /\ req[db[i].req].stage \in {"db", "hmset"}
         /\ req[db[i].req].user \in User
         /\ db[i].op = "exists" =>
              req[db[i].req].stage = "db" /\ req[db[i].req].url = "register"
<1>1. db[i] \in DbCommand /\ DbFits(db[i], req)
  BY ElementOfSeq DEF Core, Typed, Fits
<1>2. db[i].req \in Request /\ req[db[i].req].stage \in {"db", "hmset"}
  BY <1>1 DEF Registers, DbCommand, DbFits
<1>. QED
  BY <1>1, <1>2 DEF DbFits, Core, Fits, RequestFits

LEMMA RegistersQuiet ==
  ASSUME Core, RegistersInv, NEW d, NEW cs, DbQuiet(d, cs)
  PROVE  RegistersInv'
<1>1. ASSUME NEW i \in 1..Len(db'), Registers(db'[i])
      PROVE  /\ i + d \in 1..Len(db) /\ db'[i] = db[i + d] /\ Registers(db[i + d])
             /\ req'[db'[i].req].user = req[db[i + d].req].user
  <2>1. i <= Len(db) - d
    <3>1. ASSUME ~(i <= Len(db) - d) PROVE FALSE
      <4>1. /\ i - (Len(db) - d) \in 1..Len(cs)
            /\ (Len(db) - d) + (i - (Len(db) - d)) = i
        BY <3>1 DEF DbQuiet, Moves
      <4>2. db'[i] = cs[i - (Len(db) - d)]
        BY <4>1 DEF DbQuiet, Moves
      <4>. QED
        BY <1>1, <4>1, <4>2 DEF DbQuiet
    <3>. QED
      BY <3>1
  <2>2. i + d \in 1..Len(db) /\ db'[i] = db[i + d]
    BY <2>1 DEF DbQuiet, Moves
  <2>3. Registers(db[i + d])
    BY <1>1, <2>2
  <2>. QED
    BY <2>2, <2>3, RegisterCommands DEF DbQuiet
<1>2. RegistersApart'
  <2>. SUFFICES ASSUME NEW i \in 1..Len(db'), NEW j \in 1..Len(db'), i < j,
                       Registers(db'[i]), Registers(db'[j]),
                       req'[db'[i].req].user = req'[db'[j].req].user,
                       req'[db'[i].req].user \notin contested'
       PROVE  db'[i].op = "hmset" /\ db'[j].op = "exists"
    BY DEF RegistersApart, Registers
  <2>1. i + d < j + d
    BY DEF DbQuiet
  <2>2. /\ i + d \in 1..Len(db) /\ db'[i] = db[i + d] /\ Registers(db[i + d])
        /\ req'[db'[i].req].user = req[db[i + d].req].user
        /\ j + d \in 1..Len(db) /\ db'[j] = db[j + d] /\ Registers(db[j + d])
        /\ req'[db'[j].req].user = req[db[j + d].req].user
    BY <1>1
  <2>3. req[db[i + d].req].user \notin contested
    BY <2>2 DEF DbQuiet
  <2>. QED
    BY <2>1, <2>2, <2>3 DEF RegistersInv, RegistersApart
<1>3. FreeAtHmset'
  <2>. SUFFICES ASSUME NEW i \in 1..Len(db'), db'[i].op = "hmset",
                       req'[db'[i].req].user \notin contested'
       PROVE  account'[req'[db'[i].req].user] = None
    BY DEF FreeAtHmset
  <2>1. Registers(db'[i])
    BY DEF Registers
  <2>. QED
    BY <1>1, <2>1 DEF RegistersInv, FreeAtHmset, DbQuiet
<1>4. RegistrationLasts'
  BY DEF RegistersInv, RegistrationLasts, DbQuiet
<1>. QED
  BY <1>2, <1>3, <1>4 DEF RegistersInv

LEMMA PostRegisterRegisters ==
  ASSUME Core, RegistersInv, NEW r \in Request, NEW b \in Browser, NEW u \in User,
         PostRegister(r, b, u)
  PROVE  RegistersInv'
<1>. DEFINE n == Len(db)
            c == DbCmd("exists", r)
<1>1. /\ UNCHANGED <<account, registered>> /\ contested \subseteq contested'
      /\ \A q \in Request : req[q].stage = "db" /\ req[q].url = "register" /\ req[q].user = u
                            => u \in contested'
      /\ req[r].stage = "unsent"
      /\ req'[r].user = u /\ \A q \in Request : q # r => req'[q] = req[q]
  BY DEF PostRegister, redis, Sends, Core, Typed
<1>2. /\ n \in Nat /\ Len(db') = n + 1 /\ db'[n + 1] = c
      /\ \A i \in 1..n : db'[i] = db[i]
      /\ c.op = "exists" /\ c.req = r
  BY CommandsTyped, AppendProperties, LenProperties DEF PostRegister, Core, Typed
<1>3. \A i \in 1..n : Registers(db[i]) =>
         db[i].req \in Request /\ db[i].req # r /\ req'[db[i].req] = req[db[i].req]
  BY <1>1, RegisterCommands
<1>. HIDE DEF n, c
<1>4. RegistersApart'
  <2>. SUFFICES ASSUME NEW i \in 1..Len(db'), NEW j \in 1..Len(db'), i < j,
                       Registers(db'[i]), Registers(db'[j]),
                       req'[db'[i].req].user = req'[db'[j].req].user,
                       req'[db'[i].req].user \notin contested'
       PROVE  db'[i].op = "hmset" /\ db'[j].op = "exists"
    BY DEF RegistersApart, Registers
  <2>1. i \in 1..n /\ db'[i] = db[i]
    BY <1>2
  <2>2. CASE j \in 1..n
    BY <1>1, <1>2, <1>3, <2>1, <2>2 DEF RegistersInv, RegistersApart, n
  <2>3. CASE j \notin 1..n
    <3>1. db'[j] = c /\ req'[db'[j].req].user = u
      BY <1>1, <1>2, <2>3
    <3>2. req[db[i].req].user = u /\ Registers(db[i])
      BY <1>3, <2>1, <3>1
    <3>3. db[i].op # "exists"
      BY <1>1, <2>1, <3>1, <3>2, RegisterCommands DEF n
    <3>. QED
      BY <1>2, <2>1, <3>1, <3>2, <3>3 DEF Registers
  <2>. QED
    BY <2>2, <2>3
<1>5. FreeAtHmset'
  <2>. SUFFICES ASSUME NEW i \in 1..Len(db'), db'[i].op = "hmset",
                       req'[db'[i].req].user \notin contested'
       PROVE  account'[req'[db'[i].req].user] = None
    BY DEF FreeAtHmset
  <2>1. i \in 1..n /\ db'[i] = db[i] /\ Registers(db[i])
    BY <1>2 DEF Registers
  <2>. QED
    BY <1>1, <1>3, <2>1 DEF RegistersInv, FreeAtHmset, n
<1>6. RegistrationLasts'
  BY <1>1 DEF RegistersInv, RegistrationLasts
<1>. QED
  BY <1>4, <1>5, <1>6 DEF RegistersInv

\* EXISTS finds the name free, and HMSET is queued.
LEMMA ExistsRegisters ==
  ASSUME Core, RegistersInv, NEW r \in Request, Exists(r), account[req[r].user] = None,
         db' = Append(Tail(db), DbCmd("hmset", r)), req' = At(r, "hmset")
  PROVE  RegistersInv'
<1>. DEFINE n == Len(db)
            c == DbCmd("hmset", r)
<1>1. /\ db # <<>> /\ n \in Nat \ {0}
      /\ db[1].op = "exists" /\ db[1].req = r
  BY DbHead DEF Exists
<1>2. UNCHANGED <<account, registered, contested>>
  BY DEF Exists, redis, logs
<1>3. \A q \in Request : req'[q].user = req[q].user
  <2>1. Typed /\ "hmset" \in Stages
    BY DEF Core, Stages
  <2>2. Rewrites(req', r)
    BY <2>1, AtEffect
  <2>. QED
    BY <2>2 DEF Rewrites
<1>4. /\ Len(db') = n /\ db'[n] = c
      /\ \A i \in 1..(n - 1) : db'[i] = db[i + 1]
      /\ c.op = "hmset" /\ c.req = r
  <2>1. c \in DbCommand /\ c.op = "hmset" /\ c.req = r
    BY CommandsTyped
  <2>2. Moves(db, db', 1, <<c>>)
    BY <1>1, <2>1, TailAppendMoves DEF Core, Typed
  <2>3. (n - 1) + 1 = n /\ Len(<<c>>) = 1 /\ <<c>>[1] = c
    BY <1>1
  <2>. HIDE DEF c
  <2>. QED
    BY <1>1, <2>1, <2>2, <2>3 DEF Moves
<1>5. \A i \in 1..n : Registers(db[i]) => db[i].req \in Request
  BY RegisterCommands
<1>. HIDE DEF n, c
<1>6. RegistersApart'
  <2>. SUFFICES ASSUME NEW i \in 1..Len(db'), NEW j \in 1..Len(db'), i < j,
                       Registers(db'[i]), Registers(db'[j]),
                       req'[db'[i].req].user = req'[db'[j].req].user,
                       req'[db'[i].req].user \notin contested'
       PROVE  db'[i].op = "hmset" /\ db'[j].op = "exists"
    BY DEF RegistersApart, Registers
  <2>1. i + 1 \in 1..n /\ 1 \in 1..n /\ 1 < i + 1 /\ db'[i] = db[i + 1] /\ Registers(db[i + 1])
    BY <1>1, <1>4
  <2>2. CASE j # n
    <3>1. j + 1 \in 1..n /\ i + 1 < j + 1 /\ db'[j] = db[j + 1] /\ Registers(db[j + 1])
      BY <1>1, <1>4, <2>2
    <3>. QED
      BY <1>2, <1>3, <1>5, <2>1, <3>1 DEF RegistersInv, RegistersApart, n
  <2>3. CASE j = n
    <3>1. req[db[i + 1].req].user = req[db[1].req].user /\ Registers(db[1])
      BY <1>1, <1>3, <1>4, <1>5, <2>1, <2>3 DEF Registers
    <3>2. db[1].op = "hmset"
      BY <1>2, <1>3, <1>5, <2>1, <3>1 DEF RegistersInv, RegistersApart, n
    <3>. QED
      BY <1>1, <3>2
  <2>. QED
    BY <2>2, <2>3
<1>7. FreeAtHmset'
  <2>. SUFFICES ASSUME NEW i \in 1..Len(db'), db'[i].op = "hmset",
                       req'[db'[i].req].user \notin contested'
       PROVE  account'[req'[db'[i].req].user] = None
    BY DEF FreeAtHmset
  <2>1. CASE i = n
    BY <1>2, <1>3, <1>4, <2>1
  <2>2. CASE i # n
    <3>1. i + 1 \in 1..n /\ db'[i] = db[i + 1] /\ Registers(db[i + 1])
      BY <1>1, <1>4, <2>2 DEF Registers
    <3>. QED
      BY <1>2, <1>3, <1>5, <3>1 DEF RegistersInv, FreeAtHmset, n
  <2>. QED
    BY <2>1, <2>2
<1>8. RegistrationLasts'
  BY <1>2 DEF RegistersInv, RegistrationLasts
<1>. QED
  BY <1>6, <1>7, <1>8 DEF RegistersInv

LEMMA HmsetRegisters ==
  ASSUME Core, RegistersInv, NEW r \in Request, Hmset(r)
  PROVE  RegistersInv'
<1>. DEFINE n == Len(db)
            u == req[r].user
<1>1. /\ db # <<>> /\ n \in Nat \ {0}
      /\ db[1].op = "hmset" /\ db[1].req = r
      /\ Moves(db, db', 1, <<>>)
  BY DbHead DEF Hmset
<1>2. 1 \in 1..n /\ Registers(db[1])
  BY <1>1 DEF Registers
<1>3. req[r].stage \in {"db", "hmset"} /\ u \in User
  BY <1>1, <1>2, RegisterCommands
<1>4. \A q \in Request : req'[q].user = req[q].user
  BY <1>3, LogsInEffect DEF Hmset, Rewrites
<1>5. /\ account' = [account EXCEPT ![u] = r]
      /\ registered' = registered \cup {<<u, r>>} /\ contested' = contested
  BY DEF Hmset
<1>6. Len(db') = n - 1 /\ \A i \in 1..(n - 1) : db'[i] = db[i + 1]
  BY <1>1 DEF Moves
<1>7. \A i \in 1..n : Registers(db[i]) => db[i].req \in Request
  BY RegisterCommands
<1>. HIDE DEF n
<1>8. RegistersApart'
  <2>. SUFFICES ASSUME NEW i \in 1..Len(db'), NEW j \in 1..Len(db'), i < j,
                       Registers(db'[i]), Registers(db'[j]),
                       req'[db'[i].req].user = req'[db'[j].req].user,
                       req'[db'[i].req].user \notin contested'
       PROVE  db'[i].op = "hmset" /\ db'[j].op = "exists"
    BY DEF RegistersApart, Registers
  <2>1. /\ i + 1 \in 1..n /\ j + 1 \in 1..n /\ i + 1 < j + 1
        /\ db'[i] = db[i + 1] /\ db'[j] = db[j + 1]
    BY <1>1, <1>6
  <2>. QED
    BY <1>4, <1>5, <1>7, <2>1 DEF RegistersInv, RegistersApart, n
<1>9. FreeAtHmset'
  <2>. SUFFICES ASSUME NEW i \in 1..Len(db'), db'[i].op = "hmset",
                       req'[db'[i].req].user \notin contested'
       PROVE  account'[req'[db'[i].req].user] = None
    BY DEF FreeAtHmset
  <2>1. /\ i + 1 \in 1..n /\ 1 < i + 1 /\ db'[i] = db[i + 1] /\ Registers(db[i + 1])
        /\ req'[db'[i].req].user = req[db[i + 1].req].user
    BY <1>1, <1>4, <1>6, <1>7 DEF Registers
  <2>2. req[db[i + 1].req].user # u
    BY <1>1, <1>2, <1>5, <2>1 DEF RegistersInv, RegistersApart, n
  <2>. QED
    BY <1>5, <1>7, <2>1, <2>2 DEF RegistersInv, FreeAtHmset, n, Core, Typed
<1>10. RegistrationLasts'
  <2>. SUFFICES ASSUME NEW up \in registered', up[1] \notin contested'
       PROVE  account'[up[1]] = up[2]
    BY DEF RegistrationLasts
  <2>1. account'[u] = r
    BY <1>3, <1>5 DEF Core, Typed
  <2>2. CASE up = <<u, r>>
    BY <2>1, <2>2
  <2>3. CASE up # <<u, r>>
    <3>1. up \in registered /\ up[1] \in User /\ up[2] \in Request /\ account[up[1]] = up[2]
      BY <1>5, <2>3 DEF RegistersInv, RegistrationLasts, Core, Typed
    <3>2. account[up[1]] # None
      BY <3>1, NoneAssumption DEF Request
    <3>3. up[1] # u
      BY <1>1, <1>2, <1>5, <3>2 DEF RegistersInv, FreeAtHmset, n
    <3>. QED
      BY <1>5, <3>1, <3>3 DEF Core, Typed
  <2>. QED
    BY <2>2, <2>3
<1>. QED
  BY <1>8, <1>9, <1>10 DEF RegistersInv

\* What the quiet steps have in common.
QuietFor(r) ==
  /\ r \in Request /\ UNCHANGED <<account, registered>> /\ contested \subseteq contested'
  /\ Rewrites(req', r) \/ (req[r].stage \notin {"db", "hmset"} /\ Rest(r))

LEMMA QuietUsers ==
  ASSUME NEW r, QuietFor(r)
  PROVE  /\ UNCHANGED <<account, registered>> /\ contested \subseteq contested'
         /\ \A q \in Request : req[q].stage \in {"db", "hmset"} => req'[q].user = req[q].user
BY DEF QuietFor, Rest, Rewrites

\* redisDB is left as it is, or loses its head.
LEMMA QuietSame ==
  ASSUME Core, RegistersInv, NEW r, QuietFor(r), db' = db
  PROVE  RegistersInv'
<1>1. Moves(db, db', 0, <<>>) /\ Len(db) \in Nat
  BY StayMoves, LenProperties DEF Core, Typed
<1>2. DbQuiet(0, <<>>)
  BY <1>1, QuietUsers DEF DbQuiet
<1>. QED
  BY <1>2, RegistersQuiet

LEMMA QuietTail ==
  ASSUME Core, RegistersInv, NEW r, QuietFor(r), db # <<>>, db' = Tail(db)
  PROVE  RegistersInv'
<1>1. Moves(db, db', 1, <<>>) /\ Len(db) \in Nat \ {0}
  BY TailMoves DEF Core, Typed
<1>2. DbQuiet(1, <<>>)
  BY <1>1, QuietUsers DEF DbQuiet
<1>. QED
  BY <1>2, RegistersQuiet

\* The page of r asks redisDB.
LEMMA QuietServe ==
  ASSUME Core, RegistersInv, NEW r \in Request, NEW cookie \in Cookie, req[r].stage \in {"get", "ttl"},
         Serve(r, cookie), UNCHANGED <<account, registered, contested>>
  PROVE  RegistersInv'
<1>1. Rewrites(req', r) /\ req'[r].stage \in {"serve", "answered"}
  BY ServeEffect
<1>2. PICK cs : AsksDb(r, cs)
  BY ServeEffect
<1>3. /\ Len(db) \in Nat
      /\ \A i \in 1..Len(cs) : cs[i] \in DbCommand
  BY <1>2, LenProperties, ElementOfSeq DEF Core, Typed, AsksDb
<1>4. \A i \in 1..Len(cs) : ~Registers(cs[i])
  BY <1>1, <1>2 DEF AsksDb, Registers, DbFits
<1>5. QuietFor(r)
  BY <1>1 DEF QuietFor
<1>6. DbQuiet(0, cs)
  BY <1>2, <1>3, <1>4, <1>5, QuietUsers DEF DbQuiet, AsksDb
<1>. QED
  BY <1>6, RegistersQuiet

LEMMA RegistersBrowse ==
  ASSUME Core, RegistersInv, Browse
  PROVE  RegistersInv'
<1>1. PICK r \in Request, b \in Browser :
        \/ \E u \in User : PostLogin(r, b, u) \/ PostRegister(r, b, u)
        \/ \E url \in {"chat", "data"} : GetPage(r, b, url) \/ GetPageUnknown(r, b, url)
        \/ GetLogout(r, b)
  BY DEF Browse
<1>2. ASSUME NEW url, NEW u, NEW cookie, NEW stage, NEW answer,
             Sends(r, b, url, u, cookie, stage, answer),
             UNCHANGED <<account, registered, contested>>
      PROVE  QuietFor(r)
  BY <1>2 DEF Sends, QuietFor, Rest, Core, Typed
<1>3. ASSUME NEW u \in User, PostLogin(r, b, u) PROVE RegistersInv'
  <2>. DEFINE c == DbCmd("hgetall", r)
              cs == <<c>>
  <2>1. QuietFor(r)
    BY <1>2, <1>3 DEF PostLogin, redis, logs
  <2>2. c \in DbCommand /\ c.op = "hgetall"
    BY CommandsTyped
  <2>3. Moves(db, db', 0, cs) /\ Len(db) \in Nat
    BY <1>3, <2>2, AppendMoves, LenProperties DEF PostLogin, Core, Typed
  <2>4. Len(cs) = 1 /\ \A i \in 1..Len(cs) : ~Registers(cs[i])
    BY <2>2 DEF Registers
  <2>. HIDE DEF cs
  <2>5. DbQuiet(0, cs)
    BY <2>1, <2>3, <2>4, QuietUsers DEF DbQuiet
  <2>. QED
    BY <2>5, RegistersQuiet
<1>4. ASSUME NEW u \in User, PostRegister(r, b, u) PROVE RegistersInv'
  BY <1>4, PostRegisterRegisters
<1>5. ASSUME NEW url \in {"chat", "data"}, GetPage(r, b, url) PROVE RegistersInv'
  <2>1. QuietFor(r) /\ db' = db
    BY <1>2, <1>5 DEF GetPage, redis, logs
  <2>. QED
    BY <2>1, QuietSame
<1>6. ASSUME NEW url \in {"chat", "data"}, GetPageUnknown(r, b, url) PROVE RegistersInv'
  <2>1. QuietFor(r) /\ db' = db
    BY <1>2, <1>6 DEF GetPageUnknown, redis, logs
  <2>. QED
    BY <2>1, QuietSame
<1>7. ASSUME GetLogout(r, b) PROVE RegistersInv'
  <2>1. QuietFor(r) /\ db' = db
    BY <1>2, <1>7 DEF GetLogout, redis
  <2>. QED
    BY <2>1, QuietSame
<1>. QED
  BY <1>1, <1>3, <1>4, <1>5, <1>6, <1>7

LEMMA RegistersDb ==
  ASSUME Core, RegistersInv, NEW r \in Request,
         Hgetall(r) \/ Exists(r) \/ Hmset(r) \/ Query(r) \/ Lrange(r)
  PROVE  RegistersInv'
<1>1. Typed
  BY DEF Core
<1>2. CASE Hgetall(r)
  <2>1. db # <<>> /\ db' = Tail(db) /\ UNCHANGED <<account, registered, contested>>
    BY <1>2 DEF Hgetall, OnDb, redis
  <2>2. DbFits(DbCmd("hgetall", r), req)
    BY <1>2, DbHead DEF Hgetall
  <2>3. req[r].stage = "db"
    BY <2>2, CommandsTyped DEF DbFits
  <2>4. Rewrites(req', r)
    BY <1>1, <1>2, <2>3, LogsInEffect, RedirectEffect DEF Hgetall
  <2>. QED
    BY <2>1, <2>4, QuietTail DEF QuietFor
<1>3. CASE Exists(r)
  <2>1. CASE /\ account[req[r].user] = None
             /\ db' = Append(Tail(db), DbCmd("hmset", r))
             /\ req' = At(r, "hmset")
    BY <1>3, <2>1, ExistsRegisters
  <2>2. CASE db' = Tail(db) /\ req' = Redirect(r)
    <3>1. db # <<>> /\ UNCHANGED <<account, registered, contested>>
      BY <1>3 DEF Exists, OnDb, redis, logs
    <3>2. Rewrites(req', r)
      BY <1>1, <2>2, RedirectEffect
    <3>. QED
      BY <2>2, <3>1, <3>2, QuietTail DEF QuietFor
  <2>. QED
    BY <1>3, <2>1, <2>2 DEF Exists
<1>4. CASE Hmset(r)
  BY <1>4, HmsetRegisters
<1>5. CASE Query(r)
  <2>1. PICK n \in 0..Ranges : db' = Tail(db) \o [i \in 1..n |-> DbCmd("lrange", r)]
    BY <1>5 DEF Query
  <2>. DEFINE cs == [i \in 1..n |-> DbCmd("lrange", r)]
  <2>2. DbCmd("lrange", r) \in DbCommand /\ DbCmd("lrange", r).op = "lrange"
    BY CommandsTyped
  <2>3. n \in Nat /\ cs \in Seq(DbCommand) /\ Len(cs) = n /\ \A i \in 1..Len(cs) : ~Registers(cs[i])
    BY <2>2, SessionAssumption DEF Registers
  <2>4. db # <<>> /\ UNCHANGED <<account, registered, contested>>
    BY <1>5 DEF Query, OnDb, redis, logs
  <2>5. DbFits(DbCmd("query", r), req)
    BY <1>5, DbHead DEF Query
  <2>6. req[r].stage = "serve" /\ \A q \in Request : q # r => req'[q] = req[q]
    <3>1. req[r].stage = "serve"
      BY <2>5, CommandsTyped DEF DbFits
    <3>2. PICK m : req' = [req EXCEPT ![r].left = m, ![r].stage = IF m = 0 THEN "answered" ELSE "serve"]
      BY <1>5 DEF Query
    <3>. QED
      BY <1>1, <3>1, <3>2 DEF Typed
  <2>7. QuietFor(r)
    BY <2>4, <2>6 DEF QuietFor, Rest
  <2>. HIDE DEF cs
  <2>8. Moves(db, db', 1, cs) /\ Len(db) \in Nat \ {0}
    BY <2>1, <2>3, <2>4, PopMoves DEF Core, Typed, cs
  <2>9. DbQuiet(1, cs)
    BY <2>3, <2>7, <2>8, QuietUsers DEF DbQuiet
  <2>. QED
    BY <2>9, RegistersQuiet
<1>6. CASE Lrange(r)
  <2>1. db # <<>> /\ db' = Tail(db) /\ UNCHANGED <<account, registered, contested>>
    BY <1>6 DEF Lrange, OnDb, redis, logs
  <2>2. DbFits(DbCmd("lrange", r), req)
    BY <1>6, DbHead DEF Lrange
  <2>3. req[r].stage = "serve" /\ \A q \in Request : q # r => req'[q] = req[q]
    BY <1>6, <2>2, CommandsTyped DEF DbFits, Lrange, Core, Typed
  <2>4. QuietFor(r)
    BY <2>1, <2>3 DEF QuietFor, Rest
  <2>. QED
    BY <2>1, <2>4, QuietTail
<1>. QED
  BY <1>2, <1>3, <1>4, <1>5, <1>6

LEMMA RegistersPipe ==
  ASSUME Core, RegistersInv, PipeStep
  PROVE  RegistersInv'
<1>1. Typed
  BY DEF Core
<1>2. ASSUME NEW r \in Request, NEW op, OnPipe(DbCmd(op, r)), op \in {"get", "ttl"}
      PROVE  req[r].stage = op
  BY <1>2, PipeHead, CommandsTyped DEF PipeFits
<1>3. ASSUME NEW r \in Request, GetRefused(r) PROVE RegistersInv'
  <2>1. UNCHANGED <<account, registered, contested, db>> /\ Rewrites(req', r)
    BY <1>1, <1>3, RedirectEffect DEF GetRefused, redis, logs
  <2>. QED
    BY <2>1, QuietSame DEF QuietFor
<1>4. ASSUME NEW r \in Request, GetFresh(r) PROVE RegistersInv'
  <2>1. /\ UNCHANGED <<account, registered, contested>> /\ Serve(r, None) /\ None \in Cookie
        /\ OnPipe(DbCmd("get", r))
    BY <1>4 DEF GetFresh, redis, logs, Cookie
  <2>. QED
    BY <1>2, <2>1, QuietServe
<1>5. ASSUME NEW r \in Request, GetOld(r) PROVE RegistersInv'
  <2>1. "ttl" \in Stages
    BY DEF Stages
  <2>2. UNCHANGED <<account, registered, contested, db>> /\ Rewrites(req', r)
    BY <1>1, <1>5, <2>1, AtEffect DEF GetOld, redis
  <2>. QED
    BY <2>2, QuietSame DEF QuietFor
<1>6. ASSUME NEW r \in Request, TtlRefresh(r) PROVE RegistersInv'
  <2>1. /\ UNCHANGED <<account, registered, contested>> /\ Serve(r, sessionObj)
        /\ OnPipe(DbCmd("ttl", r))
    BY <1>6 DEF TtlRefresh, redis
  <2>2. sessionObj \in Cookie
    BY SessionAssumption DEF Core, Typed, Ids, Cookie
  <2>. QED
    BY <1>2, <2>1, <2>2, QuietServe
<1>7. ASSUME NEW r \in Request, TtlTooLate(r) PROVE RegistersInv'
  <2>1. 0 \in Cookie /\ None \in User \cup {None}
    BY DEF Cookie
  <2>2. UNCHANGED <<account, registered, contested, db>> /\ Rewrites(req', r)
    BY <1>1, <1>7, <2>1, AnswerEffect DEF TtlTooLate, redis
  <2>. QED
    BY <2>2, QuietSame DEF QuietFor
<1>8. ASSUME NEW u, NEW session, StoreSession(u, session) PROVE RegistersInv'
  <2>1. UNCHANGED <<account, registered, contested, db, req>>
    BY <1>8 DEF StoreSession, logs
  <2>. QED
    BY <2>1 DEF RegistersInv, RegistersApart, FreeAtHmset, RegistrationLasts, Registers
<1>. QED
  BY <1>3, <1>4, <1>5, <1>6, <1>7, <1>8 DEF PipeStep, SetStep, Set, ExecExpire, ExecDel

LEMMA RegistersNext == Core /\ RegistersInv /\ [SessionNext]_sessionVars => RegistersInv'
<1>. SUFFICES ASSUME Core, RegistersInv, [SessionNext]_sessionVars PROVE RegistersInv'
  OBVIOUS
<1>1. CASE Browse
  BY <1>1, RegistersBrowse
<1>2. CASE DbStep
  BY <1>2, RegistersDb DEF DbStep
<1>3. CASE PipeStep
  BY <1>3, RegistersPipe
<1>4. ASSUME NEW r \in Request, Receive(r) PROVE RegistersInv'
  <2>1. /\ UNCHANGED <<account, registered, contested, db>> /\ req[r].stage = "answered"
        /\ \A q \in Request : q # r => req'[q] = req[q]
    BY <1>4 DEF Receive, redis, Core, Typed
  <2>2. QuietFor(r)
    BY <2>1 DEF QuietFor, Rest
  <2>. QED
    BY <2>1, <2>2, QuietSame
<1>5. CASE Time \/ UNCHANGED sessionVars
  <2>1. UNCHANGED <<account, registered, contested, db, req>>
    BY <1>5 DEF Time, HalfHour, NearEnd, Lapse, Ages, logs, sessionVars, redis
  <2>. QED
    BY <2>1 DEF RegistersInv, RegistersApart, FreeAtHmset, RegistrationLasts, Registers
<1>. QED
  BY <1>1, <1>2, <1>3, <1>4, <1>5 DEF SessionNext

(* Who has registered a name keeps it and the password, unless two requests to
   register the name were under way at once: between EXISTS and HMSET only such
   a request can take it (server.js:152-162).                                *)
THEOREM RegistrationLastsHolds == SessionSpec => []RegistrationLasts
<1>1. SessionInit => RegistersInv
  BY DEF SessionInit, RegistersInv, RegistersApart, FreeAtHmset, RegistrationLasts
<1>2. RegistersInv => RegistrationLasts
  BY DEF RegistersInv
<1>. QED
  BY <1>1, <1>2, CoreInvariance, RegistersNext, PTL DEF SessionSpec

=============================================================================
