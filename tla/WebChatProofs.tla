--------------------------- MODULE WebChatProofs ---------------------------
(* Theorems of WebChat and WebUnread, for any users, groups, connections and
   requests, and any number of messages and crashes.                         *)
EXTENDS WebChatInv, TLAPS, SequenceTheorems, FiniteSetTheorems

-----------------------------------------------------------------------------
\* The fields of the commands and of the callbacks.
LEMMA CmdFields ==
  ASSUME NEW c \in Commands
  PROVE  /\ c.op \in UserOps \cup MemberOps \cup MsgOps \cup SeqOps \cup {"incr"}
         /\ c.op \in UserOps \cup MemberOps => c.user \in User
         /\ c.op \in MemberOps => c.group \in Group
         /\ c.op \in MsgOps => c.msg \in Message
         /\ c.op = "publish" => c.to \in {Here, There}
         /\ c.op \in SeqOps \cup {"incr"} => c.id \in 1..MaxMoves
         /\ c.op = "incr" => c.users \subseteq User
BY DEF Commands, UserOps, MemberOps, MsgOps, SeqOps

LEMMA CallFields ==
  ASSUME NEW r \in Calls
  PROVE  /\ r.call \in {"join", "leave", "got", "pushed", "pushed group", "sorted", "differ"}
         /\ r.call \in {"join", "leave", "pushed"} => r.user \in User
         /\ r.call \in {"join", "leave"} => r.groups \subseteq Group
         /\ r.call = "got" => r.msg \in Message /\ r.server \in {Here, There, None}
         /\ r.call \in {"pushed", "pushed group"} => r.length \in Nat
         /\ r.call \in GroupCalls => r.id \in 1..MaxMoves
         /\ r.call = "sorted" => r.here \subseteq User
         /\ r.call = "differ" => r.users \subseteq User
BY DEF Calls, GroupCalls

LEMMA CmdsGrow ==
  ASSUME NEW s \in Nat, NEW l \in Nat, NEW t \in Nat, NEW m \in Nat, s <= t, l <= m
  PROVE  CmdsTo(s, l) \subseteq CmdsTo(t, m) /\ CallsTo(s, l) \subseteq CallsTo(t, m)
<1>1. ASSUME NEW c \in CmdsTo(s, l)
      PROVE  c \in CmdsTo(t, m)
  <2>1. /\ c \in Commands
        /\ c.op \in MsgOps => c.msg.id <= s
        /\ c.op \in SeqOps \cup {"incr"} => c.id <= l
    BY DEF CmdsTo
  <2>2. c.op \in MsgOps => c.msg.id \in 1..MaxMoves
    BY <2>1, CmdFields DEF Message
  <2>3. c.op \in SeqOps \cup {"incr"} => c.id \in 1..MaxMoves
    BY <2>1, CmdFields
  <2>4. /\ c.op \in MsgOps => c.msg.id <= t
        /\ c.op \in SeqOps \cup {"incr"} => c.id <= m
    BY <2>1, <2>2, <2>3, WebAssumption
  <2>. QED
    BY <2>1, <2>4 DEF CmdsTo
<1>2. ASSUME NEW r \in CallsTo(s, l)
      PROVE  r \in CallsTo(t, m)
  <2>1. /\ r \in Calls
        /\ r.call = "got" => r.msg.id <= s
        /\ r.call \in GroupCalls => r.id <= l
    BY DEF CallsTo
  <2>2. r.call = "got" => r.msg.id \in 1..MaxMoves
    BY <2>1, CallFields DEF Message
  <2>3. r.call \in GroupCalls => r.id \in 1..MaxMoves
    BY <2>1, CallFields
  <2>4. r.call = "got" => r.msg.id <= t
    BY <2>1, <2>2, WebAssumption
  <2>5. r.call \in GroupCalls => r.id <= m
    BY <2>1, <2>3, WebAssumption
  <2>. QED
    BY <2>1, <2>4, <2>5 DEF CallsTo
<1>. QED
  BY <1>1, <1>2

LEMMA CmdsMade ==
  ASSUME NEW s \in Nat, NEW l \in Nat, s <= MaxMoves, l <= MaxMoves
  PROVE  /\ \A op \in UserOps, u \in User : UserCmd(op, u) \in CmdsTo(s, l)
         /\ \A op \in MemberOps, u \in User, g \in Group : GroupCmd(op, u, g) \in CmdsTo(s, l)
         /\ \A m \in Message : m.id <= s =>
              MsgCmd("get", m) \in CmdsTo(s, l) /\ MsgCmd("lpush", m) \in CmdsTo(s, l)
         /\ \A m \in Message, d \in {Here, There} : m.id <= s =>
              [op |-> "publish", msg |-> m, to |-> d] \in CmdsTo(s, l)
         /\ \A op \in SeqOps, i \in 1..l : SeqCmd(op, i) \in CmdsTo(s, l)
         /\ \A i \in 1..l, us \in SUBSET User :
              [op |-> "incr", id |-> i, users |-> us] \in CmdsTo(s, l)
<1>0. \A i \in 1..l : i \in 1..MaxMoves /\ i <= l
  BY WebAssumption
<1>1. \A op \in UserOps, u \in User : UserCmd(op, u) \in CmdsTo(s, l)
  BY DEF UserCmd, CmdsTo, Commands, UserOps, MsgOps, SeqOps
<1>2. \A op \in MemberOps, u \in User, g \in Group : GroupCmd(op, u, g) \in CmdsTo(s, l)
  BY DEF GroupCmd, CmdsTo, Commands, MemberOps, MsgOps, SeqOps
<1>3. \A m \in Message : m.id <= s =>
        MsgCmd("get", m) \in CmdsTo(s, l) /\ MsgCmd("lpush", m) \in CmdsTo(s, l)
  BY DEF MsgCmd, CmdsTo, Commands, MsgOps, SeqOps
<1>4. \A m \in Message, d \in {Here, There} : m.id <= s =>
        [op |-> "publish", msg |-> m, to |-> d] \in CmdsTo(s, l)
  BY DEF CmdsTo, Commands, MsgOps, SeqOps
<1>5. \A op \in SeqOps, i \in 1..l : SeqCmd(op, i) \in CmdsTo(s, l)
  BY <1>0 DEF SeqCmd, CmdsTo, Commands, MsgOps, SeqOps
<1>6. \A i \in 1..l, us \in SUBSET User :
        [op |-> "incr", id |-> i, users |-> us] \in CmdsTo(s, l)
  BY <1>0 DEF CmdsTo, Commands, MsgOps, SeqOps
<1>. QED
  BY <1>1, <1>2, <1>3, <1>4, <1>5, <1>6

LEMMA CallsMade ==
  ASSUME NEW s \in Nat, NEW l \in Nat, s <= MaxMoves, l <= MaxMoves
  PROVE  /\ \A call \in {"join", "leave"}, u \in User, gs \in SUBSET Group :
              [call |-> call, user |-> u, groups |-> gs] \in CallsTo(s, l)
         /\ \A m \in Message, d \in {Here, There, None} : m.id <= s =>
              [call |-> "got", msg |-> m, server |-> d] \in CallsTo(s, l)
         /\ \A u \in User, n \in Nat : [call |-> "pushed", user |-> u, length |-> n] \in CallsTo(s, l)
         /\ \A i \in 1..l, n \in Nat :
              [call |-> "pushed group", id |-> i, length |-> n] \in CallsTo(s, l)
         /\ \A i \in 1..l, us \in SUBSET User :
              /\ [call |-> "sorted", id |-> i, here |-> us] \in CallsTo(s, l)
              /\ [call |-> "differ", id |-> i, users |-> us] \in CallsTo(s, l)
<1>0. \A i \in 1..l : i \in 1..MaxMoves /\ i <= l
  BY WebAssumption
<1>1. \A call \in {"join", "leave"}, u \in User, gs \in SUBSET Group :
        [call |-> call, user |-> u, groups |-> gs] \in CallsTo(s, l)
  BY DEF CallsTo, Calls, GroupCalls
<1>2. \A m \in Message, d \in {Here, There, None} : m.id <= s =>
        [call |-> "got", msg |-> m, server |-> d] \in CallsTo(s, l)
  BY DEF CallsTo, Calls, GroupCalls
<1>3. \A u \in User, n \in Nat : [call |-> "pushed", user |-> u, length |-> n] \in CallsTo(s, l)
  BY DEF CallsTo, Calls, GroupCalls
<1>4. \A i \in 1..l, n \in Nat : [call |-> "pushed group", id |-> i, length |-> n] \in CallsTo(s, l)
  BY <1>0 DEF CallsTo, Calls, GroupCalls
<1>5. \A i \in 1..l, us \in SUBSET User :
        /\ [call |-> "sorted", id |-> i, here |-> us] \in CallsTo(s, l)
        /\ [call |-> "differ", id |-> i, users |-> us] \in CallsTo(s, l)
  BY <1>0 DEF CallsTo, Calls, GroupCalls
<1>. QED
  BY <1>1, <1>2, <1>3, <1>4, <1>5

-----------------------------------------------------------------------------
\* Type correctness.
LEMMA MessageStored == Message \subseteq Stored /\ \A u \in User : Foreign(u) \in Stored
BY WebAssumption DEF Message, Stored, Foreign, Text

LEMMA Counts ==
  ASSUME PastTyped
  PROVE  S \in Nat /\ L \in Nat /\ moves \in Nat /\ S <= MaxMoves /\ L <= MaxMoves
<1>1. S \in Nat /\ L \in Nat
  BY LenProperties DEF PastTyped, S, L
<1>. QED
  BY <1>1, WebAssumption DEF PastTyped

\* What is queued fits what has been sent, also when more has been sent meanwhile.
LEMMA LinesGrow ==
  ASSUME NEW s \in Nat, NEW l \in Nat, NEW t \in Nat, NEW m \in Nat, s <= t, l <= m,
         NEW p \in Seq(CmdsTo(s, l)), NEW q \in Seq(CallsTo(s, l))
  PROVE  p \in Seq(CmdsTo(t, m)) /\ q \in Seq(CallsTo(t, m))
BY CmdsGrow, SeqMonotonic

LEMMA PipeGrows ==
  ASSUME NEW C, NEW p \in Seq(C), NEW a \in C, NEW b \in C, NEW c \in C
  PROVE  /\ Append(p, a) \in Seq(C)
         /\ p \o <<a, b>> \in Seq(C)
         /\ p \o <<a, b, c>> \in Seq(C)
<1>1. <<a, b>> \in Seq(C) /\ <<a, b, c>> \in Seq(C)
  OBVIOUS
<1>. QED
  BY <1>1, ConcatProperties, AppendProperties

LEMMA MessageTyped ==
  ASSUME Typed, Move, NEW u \in User
  PROVE  /\ S + 1 \in 1..MaxMoves /\ L + 1 \in 1..MaxMoves
         /\ moves' \in 0..MaxMoves /\ moves' = moves + 1
         /\ [id |-> S + 1, to |-> u, text |-> "utf8"] \in Message
<1>1. /\ S + 1 \in 1..MaxMoves /\ L + 1 \in 1..MaxMoves
      /\ moves' \in 0..MaxMoves /\ moves' = moves + 1
  BY Counts, WebAssumption DEF Typed, PastTyped, Move
<1>. QED
  BY <1>1 DEF Message, Text

LEMMA ConnectTyped ==
  ASSUME Typed, NEW k \in Sock, Connect(k)
  PROVE  Typed'
BY DEF Typed, NodeTyped, LinesTyped, StoreTyped, PastTyped, Connect, lines, presence, lists,
       history, S, L

LEMMA DisconnectStrangerTyped ==
  ASSUME Typed, NEW k \in Sock, DisconnectStranger(k)
  PROVE  Typed'
BY DEF Typed, NodeTyped, LinesTyped, StoreTyped, PastTyped, DisconnectStranger, lines, presence,
       lists, history, S, L

LEMMA HandleShakeTyped ==
  ASSUME Typed, NEW k \in Sock, HandleShake(k)
  PROVE  Typed'
<1>1. UserOf[k] \in User
  BY WebAssumption
<1>2. NodeTyped'
  BY <1>1 DEF Typed, NodeTyped, HandleShake
<1>3. UserCmd("set", UserOf[k]) \in CmdsTo(S, L) /\ UserCmd("smembers to join", UserOf[k]) \in CmdsTo(S, L)
  BY <1>1, Counts, CmdsMade DEF Typed, UserOps
<1>4. pipe' \in Seq(CmdsTo(S, L))
  BY <1>3, PipeGrows DEF Typed, LinesTyped, HandleShake
<1>5. S' = S /\ L' = L
  BY DEF HandleShake, history, S, L
<1>6. LinesTyped'
  BY <1>4, <1>5 DEF Typed, LinesTyped, HandleShake
<1>7. StoreTyped' /\ PastTyped'
  BY <1>5 DEF Typed, StoreTyped, PastTyped, HandleShake, presence, lists, history
<1>. QED
  BY <1>2, <1>6, <1>7 DEF Typed

\* The history of the groups after a disconnection and after a crash.
LEMMA LogMarked ==
  ASSUME NEW log \in Seq(GroupEntry), NEW u \in User
  PROVE  /\ [i \in DOMAIN log |-> [log[i] EXCEPT !.leaving = @ \cup {u}]] \in Seq(GroupEntry)
         /\ Len([i \in DOMAIN log |-> [log[i] EXCEPT !.leaving = @ \cup {u}]]) = Len(log)
<1>1. /\ DOMAIN log = 1..Len(log) /\ Len(log) \in Nat
      /\ \A i \in 1..Len(log) : log[i] \in GroupEntry
  BY LenProperties, ElementOfSeq
<1>2. \A e \in GroupEntry : [e EXCEPT !.leaving = @ \cup {u}] \in GroupEntry
  BY DEF GroupEntry
<1>. DEFINE A == [i \in DOMAIN log |-> [log[i] EXCEPT !.leaving = @ \cup {u}]]
<1>3. A \in [1..Len(log) -> GroupEntry]
  BY <1>1, <1>2
<1>. HIDE DEF A
<1>4. A \in Seq(GroupEntry) /\ Len(A) = Len(log)
  BY <1>1, <1>3
<1>. QED
  BY <1>4 DEF A

LEMMA LogCut ==
  ASSUME NEW log \in Seq(GroupEntry), NEW cut
  PROVE  /\ [i \in DOMAIN log |-> [log[i] EXCEPT !.cut = @ \/ i \in cut]] \in Seq(GroupEntry)
         /\ Len([i \in DOMAIN log |-> [log[i] EXCEPT !.cut = @ \/ i \in cut]]) = Len(log)
<1>1. /\ DOMAIN log = 1..Len(log) /\ Len(log) \in Nat
      /\ \A i \in 1..Len(log) : log[i] \in GroupEntry
  BY LenProperties, ElementOfSeq
<1>2. \A e \in GroupEntry, i \in Nat : [e EXCEPT !.cut = @ \/ i \in cut] \in GroupEntry
  BY DEF GroupEntry
<1>. DEFINE A == [i \in DOMAIN log |-> [log[i] EXCEPT !.cut = @ \/ i \in cut]]
<1>3. A \in [1..Len(log) -> GroupEntry]
  BY <1>1, <1>2
<1>. HIDE DEF A
<1>4. A \in Seq(GroupEntry) /\ Len(A) = Len(log)
  BY <1>1, <1>3
<1>. QED
  BY <1>4 DEF A

LEMMA DisconnectTyped ==
  ASSUME Typed, NEW k \in Sock, Disconnect(k)
  PROVE  Typed'
<1>1. PICK u \in User : u = socketMap[k]
  BY DEF Typed, NodeTyped, Disconnect
<1>2. NodeTyped'
  BY <1>1 DEF Typed, NodeTyped, Disconnect
<1>3. UserCmd("del", u) \in CmdsTo(S, L) /\ UserCmd("smembers to leave", u) \in CmdsTo(S, L)
  BY <1>1, Counts, CmdsMade DEF Typed, UserOps
<1>4. pipe' \in Seq(CmdsTo(S, L))
  BY <1>1, <1>3, PipeGrows DEF Typed, LinesTyped, Disconnect
<1>5. groupLog' \in Seq(GroupEntry) /\ S' = S /\ L' = L
  BY <1>1, LogMarked DEF Disconnect, Typed, PastTyped, S, L
<1>6. LinesTyped'
  BY <1>4, <1>5 DEF Typed, LinesTyped, Disconnect
<1>7. left' \in [User -> 0..MaxMoves]
  <2>1. Len(sent) \in 0..MaxMoves
    BY Counts, WebAssumption DEF Typed, S
  <2>2. left' = [left EXCEPT ![u] = Len(sent)] /\ left \in [User -> 0..MaxMoves]
    BY <1>1 DEF Disconnect, Typed, PastTyped
  <2>. QED
    BY <2>1, <2>2
<1>8. StoreTyped' /\ PastTyped'
  BY <1>5, <1>7 DEF Typed, StoreTyped, PastTyped, Disconnect, presence, lists
<1>. QED
  BY <1>2, <1>6, <1>8 DEF Typed

LEMMA PeerMessageTyped ==
  ASSUME Typed, NEW k \in Sock, NEW u \in User, PeerMessage(k, u)
  PROVE  Typed'
<1>. DEFINE m == [id |-> S + 1, to |-> u, text |-> "utf8"]
<1>1. /\ S + 1 \in 1..MaxMoves /\ moves' \in 0..MaxMoves /\ moves' = moves + 1
      /\ m \in Message /\ m.id = S + 1
  BY MessageTyped DEF PeerMessage
<1>2. sent' \in Seq(User) /\ S' = S + 1 /\ L' = L
  BY AppendProperties DEF Typed, PastTyped, PeerMessage, S, L
<1>3. pipe' = Append(pipe, MsgCmd("get", m))
  BY DEF PeerMessage, S
<1>. HIDE DEF m
<1>4. MsgCmd("get", m) \in CmdsTo(S + 1, L)
  BY <1>1, Counts, CmdsMade DEF Typed
<1>5. pipe \in Seq(CmdsTo(S + 1, L)) /\ replies \in Seq(CallsTo(S + 1, L))
  BY Counts, LinesGrow DEF Typed, LinesTyped
<1>6. LinesTyped'
  BY <1>2, <1>3, <1>4, <1>5, PipeGrows DEF Typed, LinesTyped, PeerMessage
<1>7. NodeTyped' /\ StoreTyped'
  BY DEF Typed, NodeTyped, StoreTyped, PeerMessage, node, presence, lists
<1>8. PastTyped'
  BY <1>1, <1>2, Counts DEF Typed, PastTyped, PeerMessage
<1>. QED
  BY <1>6, <1>7, <1>8 DEF Typed

LEMMA TouchingUsers ==
  ASSUME LinesTyped, PastTyped, NEW ops \in SUBSET PresenceOps, NEW calls \in SUBSET {"join", "leave"}
  PROVE  Touching(ops, calls) \subseteq User
<1>1. \A i \in 1..Len(pipe) : pipe[i] \in Commands
  BY ElementOfSeq DEF LinesTyped, CmdsTo
<1>2. \A i \in 1..Len(replies) : replies[i] \in Calls
  BY ElementOfSeq DEF LinesTyped, CallsTo
<1>3. \A i \in 1..Len(pipe) : pipe[i].op \in ops => pipe[i].user \in User
  BY <1>1, CmdFields DEF PresenceOps, UserOps, MemberOps
<1>4. \A i \in 1..Len(replies) : replies[i].call \in calls => replies[i].user \in User
  BY <1>2, CallFields
<1>. QED
  BY <1>3, <1>4 DEF Touching

LEMMA NewMade ==
  ASSUME NEW s \in Nat, NEW l \in Nat, s <= MaxMoves, l + 1 \in 1..MaxMoves
  PROVE  /\ SeqCmd("sort", l + 1) \in CmdsTo(s, l + 1)
         /\ SeqCmd("lpush group", l + 1) \in CmdsTo(s, l + 1)
         /\ SeqCmd("sdiff", l + 1) \in CmdsTo(s, l + 1)
<1>. DEFINE n == l + 1
<1>1. n \in Nat /\ n <= MaxMoves /\ n \in 1..n
  BY WebAssumption
<1>. HIDE DEF n
<1>2. \A op \in SeqOps, i \in 1..n : SeqCmd(op, i) \in CmdsTo(s, n)
  BY <1>1, CmdsMade
<1>3. /\ SeqCmd("sort", n) \in CmdsTo(s, n)
      /\ SeqCmd("lpush group", n) \in CmdsTo(s, n)
      /\ SeqCmd("sdiff", n) \in CmdsTo(s, n)
  BY <1>1, <1>2 DEF SeqOps
<1>. QED
  BY <1>3 DEF n

LEMMA GroupMessageTyped ==
  ASSUME Typed, NEW k \in Sock, NEW g \in Group, GroupMessage(k, g)
  PROVE  Typed'
<1>1. /\ L + 1 \in 1..MaxMoves /\ moves' \in 0..MaxMoves /\ moves' = moves + 1
  BY MessageTyped, WebAssumption DEF GroupMessage
<1>2. Touching(LeaveOps, {"leave"}) \subseteq User
  BY TouchingUsers DEF LeaveOps, PresenceOps, Typed
<1>3. [group |-> g, live |-> {}, counted |-> {},
       leaving |-> Touching(LeaveOps, {"leave"}), cut |-> FALSE] \in GroupEntry
  BY <1>2 DEF GroupEntry
<1>4. groupLog' \in Seq(GroupEntry) /\ S' = S /\ L' = L + 1
  BY <1>3, AppendProperties DEF Typed, PastTyped, GroupMessage, S, L
<1>0. S \in Nat /\ L \in Nat /\ S <= MaxMoves
  BY Counts DEF Typed
<1>5. /\ SeqCmd("sort", L + 1) \in CmdsTo(S, L + 1)
      /\ SeqCmd("lpush group", L + 1) \in CmdsTo(S, L + 1)
      /\ SeqCmd("sdiff", L + 1) \in CmdsTo(S, L + 1)
  BY <1>0, <1>1, NewMade
<1>6. pipe \in Seq(CmdsTo(S, L + 1)) /\ replies \in Seq(CallsTo(S, L + 1))
  <2>1. pipe \in Seq(CmdsTo(S, L)) /\ replies \in Seq(CallsTo(S, L))
    BY DEF Typed, LinesTyped
  <2>. QED
    BY <1>0, <2>1, LinesGrow
<1>7. pipe' = pipe \o <<SeqCmd("sort", L + 1), SeqCmd("lpush group", L + 1), SeqCmd("sdiff", L + 1)>>
  BY DEF GroupMessage, L
<1>8. LinesTyped'
  <2>1. pipe' \in Seq(CmdsTo(S, L + 1))
    BY <1>5, <1>6, <1>7, PipeGrows
  <2>2. replies' = replies /\ channel' = channel /\ channel \in Seq(Message)
    BY DEF Typed, LinesTyped, GroupMessage
  <2>. QED
    BY <1>4, <1>6, <2>1, <2>2 DEF LinesTyped
<1>9. NodeTyped' /\ StoreTyped'
  BY DEF Typed, NodeTyped, StoreTyped, GroupMessage, node, presence, lists
<1>10. PastTyped'
  <2>1. S + L <= moves /\ moves \in Nat
    BY Counts DEF Typed, PastTyped
  <2>2. S' + L' <= moves'
    BY <1>0, <1>1, <1>4, <2>1
  <2>. QED
    BY <1>1, <1>4, <2>2 DEF Typed, PastTyped, GroupMessage
<1>. QED
  BY <1>8, <1>9, <1>10 DEF Typed

-----------------------------------------------------------------------------
\* Redis.
LEMMA HeadTyped ==
  ASSUME LinesTyped, PastTyped, pipe # <<>>
  PROVE  /\ Head(pipe) \in Commands /\ Head(pipe) = pipe[1]
         /\ Head(pipe).op \in MsgOps => Head(pipe).msg \in Message /\ Head(pipe).msg.id <= S
         /\ Head(pipe).op \in SeqOps \cup {"incr"} =>
              Head(pipe).id \in 1..L /\ groupLog[Head(pipe).id] \in GroupEntry
         /\ Tail(pipe) \in Seq(CmdsTo(S, L))
<1>1. Head(pipe) \in CmdsTo(S, L) /\ Tail(pipe) \in Seq(CmdsTo(S, L))
  BY HeadTailProperties DEF LinesTyped
<1>2. /\ Head(pipe) \in Commands
      /\ Head(pipe).op \in MsgOps => Head(pipe).msg.id <= S
      /\ Head(pipe).op \in SeqOps \cup {"incr"} => Head(pipe).id <= L
  BY <1>1 DEF CmdsTo
<1>3. Head(pipe).op \in SeqOps \cup {"incr"} => Head(pipe).id \in 1..L
  <2>1. Head(pipe).op \in SeqOps \cup {"incr"} => Head(pipe).id \in 1..MaxMoves
    BY <1>2, CmdFields
  <2>. QED
    BY <1>2, <2>1, Counts, WebAssumption
<1>4. \A i \in 1..L : groupLog[i] \in GroupEntry
  BY ElementOfSeq DEF PastTyped, L
<1>. QED
  BY <1>1, <1>2, <1>3, <1>4, CmdFields

LEMMA DoneTyped ==
  ASSUME Typed, pipe # <<>>, NEW reply \in Seq(CallsTo(S, L)), Done(reply),
         channel' \in Seq(Message), StoreTyped'
  PROVE  Typed'
<1>1. S' = S /\ L' = L
  BY DEF Done, history, S, L
<1>2. pipe' \in Seq(CmdsTo(S, L))
  BY HeadTyped DEF Done, Typed
<1>3. replies' \in Seq(CallsTo(S, L))
  BY ConcatProperties DEF Done, Typed, LinesTyped
<1>4. LinesTyped'
  BY <1>1, <1>2, <1>3 DEF LinesTyped
<1>5. NodeTyped' /\ PastTyped'
  BY <1>1 DEF Typed, NodeTyped, PastTyped, Done, node, history
<1>. QED
  BY <1>4, <1>5 DEF Typed

LEMMA NoReply ==
  <<>> \in Seq(CallsTo(S, L))
OBVIOUS

LEMMA OneReply ==
  ASSUME NEW C, NEW r \in C
  PROVE  <<r>> \in Seq(C)
OBVIOUS

LEMMA ExecPresenceTyped ==
  ASSUME Typed, ExecPresence
  PROVE  Typed'
<1>1. pipe # <<>> /\ Done(<<>>)
  BY DEF ExecPresence, Executes
<1>2. channel' \in Seq(Message) /\ StoreTyped'
  BY DEF Typed, LinesTyped, StoreTyped, ExecPresence, lists
<1>. QED
  BY <1>1, <1>2, NoReply, DoneTyped

LEMMA GroupsTyped ==
  ASSUME NEW u \in User
  PROVE  GroupSet[u] \in SUBSET Group
BY WebAssumption

LEMMA ExecSmembersTyped ==
  ASSUME Typed, ExecSmembers
  PROVE  Typed'
<1>. DEFINE u == Head(pipe).user
            r == [call |-> IF Head(pipe).op = "smembers to join" THEN "join" ELSE "leave",
                  user |-> u, groups |-> GroupSet[u]]
<1>1. pipe # <<>> /\ Done(<<r>>) /\ Head(pipe).op \in {"smembers to join", "smembers to leave"}
  BY DEF ExecSmembers, Executes
<1>2. u \in User
  BY <1>1, HeadTyped, CmdFields DEF Typed, UserOps
<1>3. r \in CallsTo(S, L)
  BY <1>2, GroupsTyped, Counts, CallsMade DEF Typed
<1>4. channel' \in Seq(Message) /\ StoreTyped'
  BY DEF Typed, LinesTyped, StoreTyped, ExecSmembers, presence, lists
<1>. HIDE DEF r
<1>. QED
  BY <1>1, <1>3, <1>4, OneReply, DoneTyped

LEMMA ExecMembershipTyped ==
  ASSUME Typed, ExecMembership
  PROVE  Typed'
<1>1. pipe # <<>> /\ Done(<<>>) /\ Head(pipe).op \in MemberOps
  BY DEF ExecMembership, Executes, MemberOps
<1>2. Head(pipe).user \in User /\ Head(pipe).group \in Group
  BY <1>1, HeadTyped, CmdFields DEF Typed
<1>3. onlineGroup' \in [Group -> SUBSET User]
  BY <1>2 DEF Typed, StoreTyped, ExecMembership
<1>4. channel' \in Seq(Message) /\ StoreTyped'
  BY <1>3 DEF Typed, LinesTyped, StoreTyped, ExecMembership, lists
<1>. QED
  BY <1>1, <1>4, NoReply, DoneTyped

LEMMA ExecGetTyped ==
  ASSUME Typed, ExecGet
  PROVE  Typed'
<1>. DEFINE m == Head(pipe).msg
            r == [call |-> "got", msg |-> m, server |-> online[m.to]]
<1>1. pipe # <<>> /\ Done(<<r>>) /\ Head(pipe).op \in MsgOps
  BY DEF ExecGet, Executes, MsgOps
<1>2. m \in Message /\ m.id <= S
  BY <1>1, HeadTyped DEF Typed
<1>3. online[m.to] \in {Here, There, None}
  BY <1>2 DEF Typed, StoreTyped, Message
<1>4. r \in CallsTo(S, L)
  BY <1>2, <1>3, Counts, CallsMade DEF Typed
<1>5. channel' \in Seq(Message) /\ StoreTyped'
  BY DEF Typed, LinesTyped, StoreTyped, ExecGet, presence, lists
<1>. HIDE DEF r
<1>. QED
  BY <1>1, <1>4, <1>5, OneReply, DoneTyped

LEMMA ExecPublishTyped ==
  ASSUME Typed, ExecPublish
  PROVE  Typed'
<1>1. pipe # <<>> /\ pipe' = Tail(pipe) /\ Head(pipe).op \in MsgOps
  BY DEF ExecPublish, Executes, MsgOps
<1>2. Head(pipe).msg \in Message /\ pipe' \in Seq(CmdsTo(S, L))
  BY <1>1, HeadTyped DEF Typed
<1>3. channel' \in Seq(Message) /\ elsewhere' \subseteq Message
  <2>1. /\ channel' = channel \/ channel' = Append(channel, Head(pipe).msg)
        /\ elsewhere' = elsewhere \/ elsewhere' = elsewhere \cup {Head(pipe).msg}
    BY DEF ExecPublish
  <2>2. channel \in Seq(Message) /\ elsewhere \subseteq Message
    BY DEF Typed, LinesTyped, StoreTyped
  <2>3. channel' \in Seq(Message)
    <3>. DEFINE h == Head(pipe).msg
    <3>1. h \in Message /\ (channel' = channel \/ channel' = Append(channel, h))
      BY <1>2, <2>1
    <3>. HIDE DEF h
    <3>. QED
      BY <2>2, <3>1, AppendProperties
  <2>. QED
    BY <1>2, <2>1, <2>2, <2>3
<1>4. S' = S /\ L' = L /\ replies' = replies
  <2>1. sent' = sent /\ groupLog' = groupLog /\ replies' = replies
    BY DEF ExecPublish
  <2>. QED
    BY <2>1 DEF S, L
<1>5. StoreTyped' /\ NodeTyped' /\ PastTyped'
  BY <1>3, <1>4 DEF Typed, StoreTyped, NodeTyped, PastTyped, ExecPublish, presence, node
<1>6. LinesTyped'
  BY <1>2, <1>3, <1>4 DEF Typed, LinesTyped
<1>. QED
  BY <1>5, <1>6 DEF Typed

LEMMA PushTyped ==
  ASSUME NEW M, NEW l \in Seq(M), NEW m \in M
  PROVE  <<m>> \o l \in Seq(M) /\ Len(l) + 1 \in Nat
<1>1. <<m>> \in Seq(M)
  OBVIOUS
<1>. QED
  BY <1>1, ConcatProperties, LenProperties

LEMMA LtrimTyped ==
  ASSUME NEW M, NEW l \in Seq(M)
  PROVE  Ltrim(l) \in Seq(M)
<1>1. Keep \in Nat /\ Len(l) \in Nat
  BY WebAssumption, LenProperties
<1>. DEFINE n == IF Len(l) <= Keep THEN Len(l) ELSE Keep + 1
<1>2. n \in Int /\ n <= Len(l)
  BY <1>1
<1>. HIDE DEF n
<1>3. \A i \in 1..n : l[i] \in M
  BY <1>1, <1>2, ElementOfSeq
<1>4. SubSeq(l, 1, n) \in Seq(M)
  BY <1>2, <1>3, SubSeqProperties
<1>. QED
  BY <1>4 DEF Ltrim, n

LEMMA ExecLpushTyped ==
  ASSUME Typed, ExecLpush
  PROVE  Typed'
<1>. DEFINE m == Head(pipe).msg
            r == [call |-> "pushed", user |-> m.to, length |-> Len(unread[m.to]) + 1]
<1>1. pipe # <<>> /\ Done(<<r>>) /\ Head(pipe).op \in MsgOps
  BY DEF ExecLpush, Executes, MsgOps
<1>2. m \in Message /\ m.to \in User
  BY <1>1, HeadTyped DEF Typed, Message
<1>3. unread \in [User -> Seq(Stored)] /\ unread[m.to] \in Seq(Stored)
  BY <1>2 DEF Typed, StoreTyped
<1>4. <<m>> \o unread[m.to] \in Seq(Stored) /\ Len(unread[m.to]) + 1 \in Nat
  BY <1>2, <1>3, MessageStored, PushTyped
<1>5. unread' \in [User -> Seq(Stored)]
  <2>1. unread' = [unread EXCEPT ![m.to] = <<m>> \o unread[m.to]]
    BY DEF ExecLpush
  <2>. HIDE DEF m
  <2>. QED
    BY <1>2, <1>3, <1>4, <2>1
<1>6. r \in CallsTo(S, L)
  BY <1>2, <1>4, Counts, CallsMade DEF Typed
<1>7. channel' \in Seq(Message) /\ StoreTyped'
  BY <1>5 DEF Typed, LinesTyped, StoreTyped, ExecLpush, presence
<1>. HIDE DEF r
<1>. QED
  BY <1>1, <1>6, <1>7, OneReply, DoneTyped

LEMMA ExecLtrimTyped ==
  ASSUME Typed, ExecLtrim
  PROVE  Typed'
<1>1. pipe # <<>> /\ Done(<<>>) /\ Head(pipe).op \in UserOps
  BY DEF ExecLtrim, Executes, UserOps
<1>2. Head(pipe).user \in User
  BY <1>1, HeadTyped, CmdFields DEF Typed
<1>3. unread' \in [User -> Seq(Stored)]
  BY <1>2, LtrimTyped DEF Typed, StoreTyped, ExecLtrim
<1>4. channel' \in Seq(Message) /\ StoreTyped'
  BY <1>3 DEF Typed, LinesTyped, StoreTyped, ExecLtrim, presence
<1>. QED
  BY <1>1, <1>4, NoReply, DoneTyped

LEMMA ExecSortTyped ==
  ASSUME Typed, ExecSort
  PROVE  Typed'
<1>. DEFINE i == Head(pipe).id
            r == [call |-> "sorted", id |-> i,
                  here |-> {u \in onlineGroup[groupLog[i].group] : online[u] = Here}]
<1>1. pipe # <<>> /\ Done(<<r>>) /\ Head(pipe).op \in SeqOps
  BY DEF ExecSort, Executes, SeqOps
<1>2. i \in 1..L /\ groupLog[i].group \in Group
  BY <1>1, HeadTyped DEF Typed, GroupEntry
<1>3. {u \in onlineGroup[groupLog[i].group] : online[u] = Here} \in SUBSET User
  BY <1>2 DEF Typed, StoreTyped
<1>4. r \in CallsTo(S, L)
  BY <1>2, <1>3, Counts, CallsMade DEF Typed
<1>5. channel' \in Seq(Message) /\ StoreTyped'
  BY DEF Typed, LinesTyped, StoreTyped, ExecSort, presence, lists
<1>. HIDE DEF r
<1>. QED
  BY <1>1, <1>4, <1>5, OneReply, DoneTyped

LEMMA ExecLpushGroupTyped ==
  ASSUME Typed, ExecLpushGroup
  PROVE  Typed'
<1>. DEFINE i == Head(pipe).id
            g == groupLog[i].group
            r == [call |-> "pushed group", id |-> i, length |-> Len(groupMsg[g]) + 1]
<1>1. pipe # <<>> /\ Done(<<r>>) /\ Head(pipe).op \in SeqOps
  BY DEF ExecLpushGroup, Executes, SeqOps
<1>2. i \in 1..L /\ g \in Group
  BY <1>1, HeadTyped DEF Typed, GroupEntry
<1>3. i \in 1..MaxMoves
  BY <1>2, Counts, WebAssumption DEF Typed
<1>4. groupMsg \in [Group -> Seq(1..MaxMoves)] /\ groupMsg[g] \in Seq(1..MaxMoves)
  BY <1>2 DEF Typed, StoreTyped
<1>5. <<i>> \o groupMsg[g] \in Seq(1..MaxMoves) /\ Len(groupMsg[g]) + 1 \in Nat
  BY <1>3, <1>4, PushTyped
<1>6. groupMsg' \in [Group -> Seq(1..MaxMoves)]
  BY <1>2, <1>4, <1>5 DEF ExecLpushGroup
<1>7. r \in CallsTo(S, L)
  BY <1>2, <1>5, Counts, CallsMade DEF Typed
<1>8. channel' \in Seq(Message) /\ StoreTyped'
  BY <1>6 DEF Typed, LinesTyped, StoreTyped, ExecLpushGroup, presence
<1>. HIDE DEF r
<1>. QED
  BY <1>1, <1>7, <1>8, OneReply, DoneTyped

LEMMA ExecLtrimGroupTyped ==
  ASSUME Typed, ExecLtrimGroup
  PROVE  Typed'
<1>1. pipe # <<>> /\ Done(<<>>) /\ Head(pipe).op \in SeqOps
  BY DEF ExecLtrimGroup, Executes, SeqOps
<1>2. groupLog[Head(pipe).id].group \in Group
  BY <1>1, HeadTyped DEF Typed, GroupEntry
<1>3. groupMsg' \in [Group -> Seq(1..MaxMoves)]
  BY <1>2, LtrimTyped DEF Typed, StoreTyped, ExecLtrimGroup
<1>4. channel' \in Seq(Message) /\ StoreTyped'
  BY <1>3 DEF Typed, LinesTyped, StoreTyped, ExecLtrimGroup, presence
<1>. QED
  BY <1>1, <1>4, NoReply, DoneTyped

LEMMA ExecSdiffTyped ==
  ASSUME Typed, ExecSdiff
  PROVE  Typed'
<1>. DEFINE i == Head(pipe).id
            g == groupLog[i].group
            r == [call |-> "differ", id |-> i, users |-> Members(g) \ onlineGroup[g]]
<1>1. pipe # <<>> /\ Done(<<r>>) /\ Head(pipe).op \in SeqOps
  BY DEF ExecSdiff, Executes, SeqOps
<1>2. i \in 1..L
  BY <1>1, HeadTyped DEF Typed
<1>3. Members(g) \ onlineGroup[g] \in SUBSET User
  BY DEF Members
<1>4. r \in CallsTo(S, L)
  BY <1>2, <1>3, Counts, CallsMade DEF Typed
<1>5. channel' \in Seq(Message) /\ StoreTyped'
  BY DEF Typed, LinesTyped, StoreTyped, ExecSdiff, presence, lists
<1>. HIDE DEF r
<1>. QED
  BY <1>1, <1>4, <1>5, OneReply, DoneTyped

\* What one entry of the history of the groups becomes.
LEMMA EntryTyped ==
  ASSUME NEW e \in GroupEntry, NEW us \in SUBSET User
  PROVE  [e EXCEPT !.counted = us] \in GroupEntry /\ [e EXCEPT !.live = us] \in GroupEntry
BY DEF GroupEntry

LEMMA ExecIncrTyped ==
  ASSUME Typed, ExecIncr
  PROVE  Typed'
<1>. DEFINE c == Head(pipe)
<1>1. pipe # <<>> /\ c.op = "incr"
  BY DEF ExecIncr, Executes
<1>2. c.id \in 1..L /\ c.users \in SUBSET User
  BY <1>1, HeadTyped, CmdFields DEF Typed
<1>3. unreadNumber' \in [User -> [Group -> Nat]]
  BY DEF Typed, StoreTyped, ExecIncr
<1>4. groupLog' \in Seq(GroupEntry) /\ L' = L /\ S' = S
  <2>1. groupLog' = [groupLog EXCEPT ![c.id].counted = c.users] /\ sent' = sent
    BY DEF ExecIncr
  <2>2. groupLog \in Seq(GroupEntry)
    BY DEF Typed, PastTyped
  <2>3. groupLog[c.id] \in GroupEntry
    BY <1>2, <2>2, ElementOfSeq DEF L
  <2>4. PICK e \in GroupEntry : groupLog' = [groupLog EXCEPT ![c.id] = e]
    BY <1>2, <2>1, <2>3, EntryTyped
  <2>5. groupLog' \in Seq(GroupEntry) /\ Len(groupLog') = Len(groupLog)
    BY <1>2, <2>2, <2>4, ExceptSeq DEF L
  <2>. QED
    BY <2>1, <2>5 DEF L, S
<1>5. pipe' \in Seq(CmdsTo(S, L))
  BY <1>1, HeadTyped DEF Typed, ExecIncr
<1>6. LinesTyped'
  BY <1>4, <1>5 DEF Typed, LinesTyped, ExecIncr
<1>7. NodeTyped' /\ StoreTyped'
  BY <1>3 DEF Typed, NodeTyped, StoreTyped, ExecIncr, node, presence
<1>8. PastTyped'
  BY <1>4 DEF Typed, PastTyped, ExecIncr
<1>. QED
  BY <1>6, <1>7, <1>8 DEF Typed

LEMMA RedisTyped ==
  ASSUME Typed, Redis
  PROVE  Typed'
BY ExecPresenceTyped, ExecSmembersTyped, ExecMembershipTyped, ExecGetTyped, ExecPublishTyped,
   ExecLpushTyped, ExecLtrimTyped, ExecSortTyped, ExecLpushGroupTyped, ExecLtrimGroupTyped,
   ExecSdiffTyped, ExecIncrTyped DEF Redis

-----------------------------------------------------------------------------
\* The callbacks.
LEMMA HeadCall ==
  ASSUME LinesTyped, PastTyped, replies # <<>>
  PROVE  /\ Head(replies) \in Calls /\ Head(replies) = replies[1]
         /\ Head(replies).call = "got" => Head(replies).msg \in Message /\ Head(replies).msg.id <= S
         /\ Head(replies).call \in GroupCalls =>
              Head(replies).id \in 1..L /\ groupLog[Head(replies).id] \in GroupEntry
         /\ Tail(replies) \in Seq(CallsTo(S, L))
<1>1. Head(replies) \in CallsTo(S, L) /\ Tail(replies) \in Seq(CallsTo(S, L))
  BY HeadTailProperties DEF LinesTyped
<1>2. /\ Head(replies) \in Calls
      /\ Head(replies).call = "got" => Head(replies).msg.id <= S
      /\ Head(replies).call \in GroupCalls => Head(replies).id <= L
  BY <1>1 DEF CallsTo
<1>3. Head(replies).call \in GroupCalls => Head(replies).id \in 1..L
  <2>1. Head(replies).call \in GroupCalls => Head(replies).id \in 1..MaxMoves
    BY <1>2, CallFields
  <2>. QED
    BY <1>2, <2>1, Counts, WebAssumption
<1>4. \A i \in 1..L : groupLog[i] \in GroupEntry
  BY ElementOfSeq DEF PastTyped, L
<1>5. Head(replies).call = "got" => Head(replies).msg \in Message
  BY <1>2, CallFields
<1>6. Head(replies) = replies[1]
  OBVIOUS
<1>. QED
  BY <1>1, <1>2, <1>3, <1>4, <1>5, <1>6

LEMMA QueueTyped ==
  ASSUME Typed, replies # <<>>, NEW cmds \in Seq(CmdsTo(S, L)), Queue(cmds),
         S' = S, L' = L, channel' = channel, NodeTyped', StoreTyped', PastTyped'
  PROVE  Typed'
<1>1. pipe' \in Seq(CmdsTo(S, L)) /\ replies' \in Seq(CallsTo(S, L))
  BY HeadCall, ConcatProperties DEF Typed, LinesTyped, Queue
<1>2. LinesTyped'
  BY <1>1 DEF Typed, LinesTyped
<1>. QED
  BY <1>2 DEF Typed

LEMMA QuietTyped ==
  ASSUME Typed, UNCHANGED <<node, channel, presence, lists, inbox, history>>
  PROVE  S' = S /\ L' = L /\ channel' = channel /\ NodeTyped' /\ StoreTyped' /\ PastTyped'
BY DEF Typed, NodeTyped, StoreTyped, PastTyped, node, presence, lists, history, S, L

\* The sequence a finite set is listed in has its elements and no others.
LEMMA SetListed ==
  ASSUME NEW T, IsFiniteSet(T)
  PROVE  /\ SetToSeq(T) \in Seq(T)
         /\ Len(SetToSeq(T)) = Cardinality(T)
         /\ \A x \in T : \E i \in 1..Len(SetToSeq(T)) : SetToSeq(T)[i] = x
<1>. DEFINE n == Cardinality(T)
            f == SetToSeq(T)
<1>1. n \in Nat /\ ExistsBijection(1..n, T)
  BY FS_CardinalityType
<1>2. \E h \in [1..n -> T] : IsInjective(h)
  BY <1>1 DEF ExistsBijection, Bijection, Injection
<1>3. f \in [1..n -> T] /\ IsInjective(f)
  BY <1>2 DEF SetToSeq
<1>4. f \in Injection(1..n, T)
  BY <1>3 DEF Injection
<1>5. IsFiniteSet(1..n) /\ Cardinality(1..n) = n
  BY <1>1, FS_Interval
<1>6. f \in Surjection(1..n, T)
  <2>. HIDE DEF f
  <2>1. Cardinality(1..n) = Cardinality(T) <=> f \in Surjection(1..n, T)
    BY <1>4, FS_Injection
  <2>. QED
    BY <1>5, <2>1
<1>. HIDE DEF n, f
<1>7. f \in Seq(T) /\ Len(f) = n
  BY <1>1, <1>3
<1>8. \A x \in T : \E i \in 1..n : f[i] = x
  BY <1>6 DEF Surjection
<1>9. f \in Seq(T) /\ Len(f) = Cardinality(T) /\ \A x \in T : \E i \in 1..Len(f) : f[i] = x
  BY <1>7, <1>8 DEF n
<1>. QED
  BY <1>9 DEF f

\* One SADD or SREM of the user for each group of the reply, and nothing else.
LEMMA ForGroupsLists ==
  ASSUME NEW op \in MemberOps, NEW r, r.user \in User, r.groups \in SUBSET Group,
         NEW s \in Nat, NEW l \in Nat, s <= MaxMoves, l <= MaxMoves
  PROVE  /\ ForGroups(op, r) \in Seq(CmdsTo(s, l))
         /\ \A i \in 1..Len(ForGroups(op, r)) :
              \E g \in r.groups : ForGroups(op, r)[i] = GroupCmd(op, r.user, g)
         /\ \A g \in r.groups : \E i \in 1..Len(ForGroups(op, r)) :
              ForGroups(op, r)[i] = GroupCmd(op, r.user, g)
<1>. DEFINE gs == SetToSeq(r.groups)
            cs == ForGroups(op, r)
<1>1. IsFiniteSet(r.groups)
  BY WebAssumption, FS_Subset
<1>2. gs \in Seq(r.groups) /\ \A x \in r.groups : \E i \in 1..Len(gs) : gs[i] = x
  BY <1>1, SetListed
<1>. HIDE DEF gs
<1>3. cs = [i \in 1..Len(gs) |-> GroupCmd(op, r.user, gs[i])]
  BY DEF ForGroups, gs
<1>4. Len(gs) \in Nat /\ \A i \in 1..Len(gs) : gs[i] \in r.groups
  BY <1>2, LenProperties, ElementOfSeq
<1>5. \A g \in r.groups : GroupCmd(op, r.user, g) \in CmdsTo(s, l)
  BY CmdsMade
<1>. HIDE DEF cs
<1>6. cs \in [1..Len(gs) -> CmdsTo(s, l)]
  BY <1>3, <1>4, <1>5
<1>7. cs \in Seq(CmdsTo(s, l)) /\ Len(cs) = Len(gs)
  BY <1>4, <1>6
<1>8. \A i \in 1..Len(cs) : cs[i] = GroupCmd(op, r.user, gs[i])
  BY <1>3, <1>7
<1>9. /\ \A i \in 1..Len(cs) : \E g \in r.groups : cs[i] = GroupCmd(op, r.user, g)
      /\ \A g \in r.groups : \E i \in 1..Len(cs) : cs[i] = GroupCmd(op, r.user, g)
  BY <1>2, <1>4, <1>7, <1>8
<1>. QED
  BY <1>7, <1>9 DEF cs

LEMMA OnMembershipTyped ==
  ASSUME Typed, OnJoin \/ OnLeave
  PROVE  Typed'
<1>. DEFINE r == Head(replies)
<1>1. /\ replies # <<>> /\ r.call \in {"join", "leave"}
      /\ Queue(ForGroups("sadd", r)) \/ Queue(ForGroups("srem", r))
      /\ UNCHANGED <<node, channel, presence, lists, inbox, history>>
  BY DEF OnJoin, OnLeave, CallbackOf
<1>2. r.user \in User /\ r.groups \in SUBSET Group
  BY <1>1, HeadCall, CallFields DEF Typed
<1>3. S \in Nat /\ L \in Nat /\ S <= MaxMoves /\ L <= MaxMoves
  BY Counts DEF Typed
<1>. HIDE DEF r
<1>4. ForGroups("sadd", r) \in Seq(CmdsTo(S, L)) /\ ForGroups("srem", r) \in Seq(CmdsTo(S, L))
  BY <1>2, <1>3, ForGroupsLists DEF MemberOps
<1>. QED
  BY <1>1, <1>4, QueueTyped, QuietTyped

LEMMA EncodedTyped ==
  ASSUME NEW m \in Message
  PROVE  /\ EncodeText(m) \in Message /\ EncodeText(m).id = m.id /\ EncodeText(m).to = m.to
         /\ DecodeText(m) \in Message /\ DecodeText(m).id = m.id /\ DecodeText(m).to = m.to
         /\ m.text = "utf8" => EncodeText(m).text = "gbk"
         /\ m.text = "gbk" => DecodeText(m).text = "utf8"
BY DEF EncodeText, DecodeText, Message, Text

LEMMA DecodedStored ==
  ASSUME NEW m \in Stored
  PROVE  DecodeText(m) \in Stored /\ DecodeText(m).id = m.id
BY DEF DecodeText, Stored, Text

LEMMA OnGetTyped ==
  ASSUME Typed, OnGet
  PROVE  Typed'
<1>. DEFINE r == Head(replies)
            p == [op |-> "publish", msg |-> EncodeText(r.msg), to |-> r.server]
            k == MsgCmd("lpush", r.msg)
<1>1. /\ replies # <<>> /\ r.call = "got"
      /\ IF r.server # None THEN Queue(<<p>>) ELSE Queue(<<k>>)
      /\ UNCHANGED <<node, channel, presence, lists, inbox, history>>
  BY DEF OnGet, CallbackOf
<1>2. r.msg \in Message /\ r.msg.id <= S /\ r.server \in {Here, There, None}
  BY <1>1, HeadCall, CallFields DEF Typed
<1>3. EncodeText(r.msg) \in Message /\ EncodeText(r.msg).id <= S
  BY <1>2, EncodedTyped
<1>4. k \in CmdsTo(S, L) /\ (r.server # None => p \in CmdsTo(S, L))
  BY <1>2, <1>3, CmdsMade, Counts DEF Typed
<1>. HIDE DEF p, k, r
<1>5. <<k>> \in Seq(CmdsTo(S, L)) /\ (r.server # None => <<p>> \in Seq(CmdsTo(S, L)))
  BY <1>4, OneReply
<1>. QED
  BY <1>1, <1>5, QueueTyped, QuietTyped

LEMMA NoCmd ==
  ASSUME NEW C
  PROVE  <<>> \in Seq(C)
OBVIOUS

LEMMA OnPushedTyped ==
  ASSUME Typed, OnPushed \/ OnPushedGroup
  PROVE  Typed'
<1>. DEFINE r == Head(replies)
<1>1. /\ replies # <<>> /\ r.call \in {"pushed", "pushed group"}
      /\ \/ Queue(<<>>)
         \/ r.call = "pushed" /\ Queue(<<UserCmd("ltrim", r.user)>>)
         \/ r.call = "pushed group" /\ Queue(<<SeqCmd("ltrim group", r.id)>>)
      /\ UNCHANGED <<node, channel, presence, lists, inbox, history>>
  BY DEF OnPushed, OnPushedGroup, CallbackOf
<1>2. /\ r.call = "pushed" => r.user \in User
      /\ r.call = "pushed group" => r.id \in 1..L
  BY <1>1, HeadCall, CallFields DEF Typed, GroupCalls
<1>3. /\ r.call = "pushed" => UserCmd("ltrim", r.user) \in CmdsTo(S, L)
      /\ r.call = "pushed group" => SeqCmd("ltrim group", r.id) \in CmdsTo(S, L)
  BY <1>2, Counts, CmdsMade DEF Typed, UserOps, SeqOps
<1>. HIDE DEF r
<1>. QED
  BY <1>1, <1>3, NoCmd, OneReply, QueueTyped, QuietTyped

LEMMA OnSortTyped ==
  ASSUME Typed, OnSort
  PROVE  Typed'
<1>. DEFINE r == Head(replies)
            us == {u \in r.here : userIdMap[u] # None}
<1>1. /\ replies # <<>> /\ r.call = "sorted" /\ Queue(<<>>)
      /\ groupLog' = [groupLog EXCEPT ![r.id].live = us]
      /\ sent' = sent
      /\ UNCHANGED <<node, channel, presence, lists, inbox, moves, sent, left, gone, foreign, marks>>
  BY DEF OnSort, CallbackOf
<1>2. r.id \in 1..L /\ groupLog[r.id] \in GroupEntry /\ us \in SUBSET User
  BY <1>1, HeadCall, CallFields DEF Typed, GroupCalls
<1>3. groupLog' \in Seq(GroupEntry) /\ L' = L /\ S' = S
  <2>1. PICK e \in GroupEntry : groupLog' = [groupLog EXCEPT ![r.id] = e]
    BY <1>1, <1>2, EntryTyped
  <2>2. groupLog \in Seq(GroupEntry)
    BY DEF Typed, PastTyped
  <2>3. groupLog' \in Seq(GroupEntry) /\ Len(groupLog') = Len(groupLog)
    BY <1>2, <2>1, <2>2, ExceptSeq DEF L
  <2>. QED
    BY <1>1, <2>3 DEF L, S
<1>4. NodeTyped' /\ StoreTyped' /\ PastTyped' /\ channel' = channel
  BY <1>1, <1>3 DEF Typed, NodeTyped, StoreTyped, PastTyped, node, presence, lists
<1>. QED
  BY <1>1, <1>3, <1>4, NoCmd, QueueTyped

LEMMA OnDiffTyped ==
  ASSUME Typed, OnDiff
  PROVE  Typed'
<1>. DEFINE r == Head(replies)
            c == [op |-> "incr", id |-> r.id, users |-> r.users]
<1>1. /\ replies # <<>> /\ r.call = "differ" /\ Queue(<<c>>)
      /\ UNCHANGED <<node, channel, presence, lists, inbox, history>>
  BY DEF OnDiff, CallbackOf
<1>2. r.id \in 1..L /\ r.users \in SUBSET User
  BY <1>1, HeadCall, CallFields DEF Typed, GroupCalls
<1>3. c \in CmdsTo(S, L)
  BY <1>2, Counts, CmdsMade DEF Typed
<1>. HIDE DEF c
<1>. QED
  BY <1>1, <1>3, OneReply, QueueTyped, QuietTyped

LEMMA CallbackTyped ==
  ASSUME Typed, Callback
  PROVE  Typed'
BY OnMembershipTyped, OnGetTyped, OnPushedTyped, OnSortTyped, OnDiffTyped DEF Callback

-----------------------------------------------------------------------------
\* The channel, the message servers, crashes, and the reader.
LEMMA SubscriberTyped ==
  ASSUME Typed, Subscriber
  PROVE  Typed'
<1>1. channel # <<>> /\ channel' = Tail(channel)
  BY DEF Subscriber, Deliver, Drop
<1>2. Head(channel) \in Message /\ channel' \in Seq(Message)
  BY <1>1, HeadTailProperties DEF Typed, LinesTyped
<1>3. /\ S' = S /\ L' = L /\ pipe' = pipe /\ replies' = replies
      /\ UNCHANGED <<up, subscribed, phase, userIdMap, socketMap, online, onlineGroup, unread, groupMsg,
                     unreadNumber, elsewhere, moves, sent, left, gone, foreign, groupLog>>
  BY DEF Subscriber, Deliver, Drop, node, presence, lists, history, S, L
<1>4. inbox' \in [Sock -> Seq(Message)]
  <2>1. inbox \in [Sock -> Seq(Message)]
    BY DEF Typed, PastTyped
  <2>2. CASE Drop
    BY <2>1, <2>2 DEF Drop
  <2>3. CASE Deliver
    <3>1. PICK k \in Sock : inbox' = [inbox EXCEPT ![k] = Append(inbox[k], DecodeText(Head(channel)))]
      BY <1>2, <2>3 DEF Deliver, Typed, NodeTyped, Message
    <3>2. Append(inbox[k], DecodeText(Head(channel))) \in Seq(Message)
      BY <1>2, <2>1, EncodedTyped, AppendProperties
    <3>. QED
      BY <2>1, <3>1, <3>2
  <2>. QED
    BY <2>2, <2>3 DEF Subscriber
<1>. QED
  BY <1>2, <1>3, <1>4 DEF Typed, NodeTyped, LinesTyped, StoreTyped, PastTyped

LEMMA MessageServerTyped ==
  ASSUME Typed, MessageServer
  PROVE  Typed'
<1>1. /\ S' = S /\ L' = L
      /\ UNCHANGED <<node, lines, groupMsg, unreadNumber, elsewhere, inbox, sent, left, gone, groupLog>>
  BY DEF MessageServer, RemoteSet, RemoteDel, RemoteSadd, RemoteSrem, RemotePush, RemoteTrim,
     RemoteDelUnread, lists, S, L
<1>2. (moves' = moves + 1 /\ moves < MaxMoves) \/ moves' = moves
  BY DEF MessageServer, RemoteSet, RemoteDel, RemoteSadd, RemoteSrem, RemotePush, RemoteTrim,
     RemoteDelUnread, Move
<1>3. online' \in [User -> {Here, There, None}] /\ onlineGroup' \in [Group -> SUBSET User]
  <2>1. online \in [User -> {Here, There, None}] /\ onlineGroup \in [Group -> SUBSET User]
    BY DEF Typed, StoreTyped
  <2>. QED
    BY <2>1 DEF MessageServer, RemoteSet, RemoteDel, RemoteSadd, RemoteSrem, RemotePush, RemoteTrim,
       RemoteDelUnread, presence
<1>4. foreign' \subseteq User
  BY DEF Typed, PastTyped, MessageServer, RemoteSet, RemoteDel, RemoteSadd, RemoteSrem, RemotePush,
     RemoteTrim, RemoteDelUnread
<1>5. moves' \in 0..MaxMoves /\ S' + L' <= moves'
  <2>1. S + L <= moves /\ moves \in 0..MaxMoves /\ S \in Nat /\ L \in Nat
    BY Counts DEF Typed, PastTyped
  <2>. QED
    BY <1>1, <1>2, <2>1, WebAssumption
<1>6. unread' \in [User -> Seq(Stored)]
  <2>1. unread \in [User -> Seq(Stored)]
    BY DEF Typed, StoreTyped
  <2>2. ASSUME NEW u \in User, RemotePush(u) PROVE unread' \in [User -> Seq(Stored)]
    BY <2>1, <2>2, MessageStored, PushTyped DEF RemotePush
  <2>3. ASSUME NEW u \in User, RemoteTrim(u) PROVE unread' \in [User -> Seq(Stored)]
    BY <2>1, <2>3, LtrimTyped DEF RemoteTrim
  <2>4. ASSUME NEW u \in User, RemoteDelUnread(u) PROVE unread' \in [User -> Seq(Stored)]
    BY <2>1, <2>4 DEF RemoteDelUnread
  <2>. QED
    BY <2>1, <2>2, <2>3, <2>4
    DEF MessageServer, RemoteSet, RemoteDel, RemoteSadd, RemoteSrem, lists
<1>. QED
  BY <1>1, <1>3, <1>4, <1>5, <1>6 DEF Typed, NodeTyped, LinesTyped, StoreTyped, PastTyped, node, lines

LEMMA UnderWayTyped ==
  ASSUME LinesTyped, PastTyped
  PROVE  MsgsUnderWay \subseteq Message
<1>1. \A i \in 1..Len(pipe) : pipe[i].op \in {"get", "lpush", "publish"} => pipe[i].msg \in Message
  BY ElementOfSeq, CmdFields DEF LinesTyped, CmdsTo, MsgOps
<1>2. \A i \in 1..Len(replies) : replies[i].call = "got" => replies[i].msg \in Message
  BY ElementOfSeq, CallFields DEF LinesTyped, CallsTo
<1>3. \A i \in 1..Len(channel) : channel[i] \in Message
  BY ElementOfSeq DEF LinesTyped
<1>. QED
  BY <1>1, <1>2, <1>3 DEF MsgsUnderWay

LEMMA CrashTyped ==
  ASSUME Typed, NEW n \in 0..Len(pipe), Crash(n)
  PROVE  Typed'
<1>1. NodeTyped'
  BY DEF Typed, NodeTyped, Crash
<1>2. StoreTyped'
  BY DEF Typed, StoreTyped, Crash, presence, lists
<1>3. groupLog' \in Seq(GroupEntry) /\ S' = S /\ L' = L
  <2>1. groupLog' = [i \in DOMAIN groupLog |->
                       [groupLog[i] EXCEPT !.cut = @ \/ i \in GroupMsgsUnderWay]]
    BY DEF Crash
  <2>2. groupLog \in Seq(GroupEntry) /\ sent' = sent
    BY DEF Typed, PastTyped, Crash
  <2>3. groupLog' \in Seq(GroupEntry) /\ Len(groupLog') = Len(groupLog)
    BY <2>1, <2>2, LogCut
  <2>. QED
    BY <2>2, <2>3 DEF S, L
<1>4. LinesTyped'
  <2>1. pipe \in Seq(CmdsTo(S, L)) /\ Len(pipe) \in Nat
    BY LenProperties DEF Typed, LinesTyped
  <2>2. \A i \in 1..n : pipe[i] \in CmdsTo(S, L)
    BY <2>1, ElementOfSeq
  <2>3. SubSeq(pipe, 1, n) \in Seq(CmdsTo(S, L))
    BY <2>1, <2>2, SubSeqProperties
  <2>. QED
    BY <1>3, <2>3 DEF LinesTyped, Crash
<1>5. gone' \subseteq User
  <2>1. Touching(PresenceOps, {"join", "leave"}) \subseteq User
    BY TouchingUsers DEF Typed
  <2>2. MsgsUnderWay \subseteq Message
    BY UnderWayTyped DEF Typed
  <2>3. {m.to : m \in MsgsUnderWay} \subseteq User
    BY <2>2 DEF Message
  <2>. QED
    BY <2>1, <2>3 DEF Typed, PastTyped, Crash
<1>6. moves' \in 0..MaxMoves /\ S' + L' <= moves'
  <2>1. S + L <= moves /\ moves \in 0..MaxMoves /\ S \in Nat /\ L \in Nat
    BY Counts DEF Typed, PastTyped
  <2>. QED
    BY <1>3, <2>1, WebAssumption DEF Crash, Move
<1>7. PastTyped'
  BY <1>3, <1>5, <1>6 DEF Typed, PastTyped, Crash
<1>. QED
  BY <1>1, <1>2, <1>4, <1>7 DEF Typed

LEMMA RestartTyped ==
  ASSUME Typed, Restart
  PROVE  Typed'
BY DEF Typed, NodeTyped, LinesTyped, StoreTyped, PastTyped, Restart, lines, presence, lists,
       history, S, L

LEMMA SubscribeTyped ==
  ASSUME Typed, Subscribe
  PROVE  Typed'
BY DEF Typed, NodeTyped, LinesTyped, StoreTyped, PastTyped, Subscribe, lines, presence, lists,
       history, S, L

LEMMA WebNextTyped ==
  ASSUME Typed, WebNext
  PROVE  Typed'
<1>1. CASE Pages
  BY <1>1, ConnectTyped, DisconnectStrangerTyped, HandleShakeTyped, DisconnectTyped,
     PeerMessageTyped, GroupMessageTyped DEF Pages
<1>. QED
  BY <1>1, RedisTyped, CallbackTyped, SubscribeTyped, SubscriberTyped,
     MessageServerTyped, CrashTyped, RestartTyped DEF WebNext

\* The steps of the reader beside those of the chat server.
LEMMA ReaderTyped ==
  ASSUME Typed, ReadTyped, NEW r \in Request,
         DelUnread(r) \/ \E u \in User : ReadUnread(r, u)
  PROVE  Typed' /\ ReadTyped'
<1>1. CASE DelUnread(r)
  <2>1. reading[r] \in User
    BY <1>1 DEF DelUnread
  <2>2. unread' \in [User -> Seq(Stored)]
    BY <1>1, <2>1 DEF DelUnread, Typed, StoreTyped
  <2>3. Typed'
    BY <1>1, <2>2 DEF DelUnread, Typed, NodeTyped, LinesTyped, StoreTyped, PastTyped, node, lines,
       presence, history, S, L
  <2>4. ReadTyped'
    BY <1>1 DEF DelUnread, ReadTyped
  <2>. QED
    BY <2>3, <2>4
<1>2. CASE \E u \in User : ReadUnread(r, u)
  <2>1. PICK u \in User : ReadUnread(r, u)
    BY <1>2
  <2>2. unread[u] \in Seq(Stored)
    BY DEF Typed, StoreTyped
  <2>3. unread[u] # <<>> => DecodeText(Head(unread[u])) \in Stored
    BY <2>2, HeadTailProperties, DecodedStored
  <2>4. ReadTyped'
    BY <2>1, <2>3 DEF ReadUnread, ReadTyped
  <2>5. S' = S /\ L' = L
    BY <2>1 DEF ReadUnread, S, L
  <2>6. moves' \in 0..MaxMoves /\ S' + L' <= moves'
    <3>1. S + L <= moves /\ moves \in 0..MaxMoves /\ S \in Nat /\ L \in Nat
      BY Counts DEF Typed, PastTyped
    <3>. QED
      BY <2>1, <2>5, <3>1, WebAssumption DEF ReadUnread, Move
  <2>7. NodeTyped' /\ LinesTyped' /\ StoreTyped' /\ PastTyped'
    BY <2>1, <2>5, <2>6 DEF ReadUnread, Typed, NodeTyped, LinesTyped, StoreTyped, PastTyped, node,
       lines, presence, lists
  <2>. QED
    BY <2>4, <2>7 DEF Typed
<1>. QED
  BY <1>1, <1>2

LEMMA TypedHolds ==
  ASSUME Typed, ReadTyped, [UnreadNext]_unreadVars
  PROVE  Typed' /\ ReadTyped'
<1>1. CASE UNCHANGED unreadVars
  BY <1>1 DEF unreadVars, webVars, readVars, Typed, NodeTyped, LinesTyped, StoreTyped, PastTyped,
     ReadTyped, node, lines, presence, lists, history, S, L
<1>2. CASE WebNext /\ UNCHANGED readVars
  BY <1>2, WebNextTyped DEF ReadTyped, readVars
<1>3. CASE \E r \in Request : DelUnread(r) \/ \E u \in User : ReadUnread(r, u)
  BY <1>3, ReaderTyped
<1>. QED
  BY <1>1, <1>2, <1>3 DEF UnreadNext

\* The marks that a step leaves alone keep their types, and the others get them.
LEMMA MarksHold ==
  ASSUME Typed, Typed', MarksTyped, [UnreadNext]_unreadVars
  PROVE  MarksTyped'
<1>0. /\ S \in Nat /\ moves \in Nat /\ S' \in Nat /\ moves' \in Nat
      /\ trimming \in [User -> 0..moves] /\ meddled \in [User -> 0..S] /\ unheard \subseteq 1..S
  <2>1. S' \in Nat /\ moves' \in Nat
    BY LenProperties DEF Typed, PastTyped, S
  <2>. QED
    BY <2>1, Counts DEF Typed, MarksTyped
<1>1. ASSUME UNCHANGED marks, moves <= moves', S <= S' PROVE MarksTyped'
  BY <1>0, <1>1 DEF marks, MarksTyped
<1>2. ASSUME UNCHANGED <<moves, sent, marks>> PROVE MarksTyped'
  BY <1>0, <1>1, <1>2 DEF S
<1>3. ASSUME UNCHANGED <<sent, marks>>, Move PROVE MarksTyped'
  BY <1>0, <1>1, <1>3 DEF S, Move
<1>4. CASE Pages
  <2>1. ASSUME NEW k \in Sock, Connect(k) \/ HandleShake(k) \/ DisconnectStranger(k) \/ Disconnect(k)
        PROVE  MarksTyped'
    BY <1>2, <2>1 DEF Connect, HandleShake, DisconnectStranger, Disconnect, history
  <2>2. ASSUME NEW k \in Sock, NEW u \in User, PeerMessage(k, u) PROVE MarksTyped'
    <3>1. S' = S + 1 /\ moves' = moves + 1 /\ marks' = marks
      BY <2>2, AppendProperties DEF PeerMessage, Move, Typed, PastTyped, S
    <3>. QED
      BY <1>0, <1>1, <3>1
  <2>3. ASSUME NEW k \in Sock, NEW g \in Group, GroupMessage(k, g) PROVE MarksTyped'
    BY <1>3, <2>3 DEF GroupMessage
  <2>. QED
    BY <1>4, <2>1, <2>2, <2>3 DEF Pages
<1>5. CASE Redis
  <2>1. CASE ExecPublish
    <3>1. Head(pipe).msg.id \in 1..S
      BY <1>0, <2>1, HeadTyped DEF ExecPublish, Executes, MsgOps, Typed, Message
    <3>2. UNCHANGED <<moves, sent, trimming, meddled>> /\ unheard' \subseteq unheard \cup {Head(pipe).msg.id}
      BY <2>1 DEF ExecPublish
    <3>. QED
      BY <1>0, <3>1, <3>2 DEF MarksTyped, S
  <2>2. CASE ~ExecPublish
    BY <1>2, <1>5, <2>2 DEF Redis, ExecPresence, ExecSmembers, ExecMembership, ExecGet, ExecLpush,
       ExecLtrim, ExecSort, ExecLpushGroup, ExecLtrimGroup, ExecSdiff, ExecIncr, Done, history
  <2>. QED
    BY <2>1, <2>2
<1>6. CASE Callback
  BY <1>2, <1>6 DEF Callback, OnJoin, OnLeave, OnGet, OnPushed, OnSort, OnPushedGroup, OnDiff, history
<1>7. CASE Subscribe \/ Subscriber \/ Restart
  BY <1>2, <1>7 DEF Subscribe, Subscriber, Deliver, Drop, Restart, history
<1>8. ASSUME NEW n \in 0..Len(pipe), Crash(n) PROVE MarksTyped'
  BY <1>3, <1>8 DEF Crash
<1>9. CASE MessageServer
  <2>1. ASSUME NEW u \in User, RemoteSet(u) \/ RemoteDel(u) \/ \E g \in Group : RemoteSadd(u, g) \/ RemoteSrem(u, g)
        PROVE  MarksTyped'
    BY <1>3, <2>1 DEF RemoteSet, RemoteDel, RemoteSadd, RemoteSrem
  <2>2. ASSUME NEW u \in User, RemotePush(u) PROVE MarksTyped'
    <3>1. /\ moves' = moves + 1 /\ S' = S /\ unheard' = unheard
          /\ meddled' = [meddled EXCEPT ![u] = S]
          /\ trimming' = [trimming EXCEPT ![u] = trimming[u] + 1] \/ trimming' = trimming
      BY <1>0, <2>2 DEF RemotePush, Move, S
    <3>. QED
      BY <1>0, <3>1 DEF MarksTyped
  <2>3. ASSUME NEW u \in User, RemoteTrim(u) PROVE MarksTyped'
    <3>1. /\ moves' = moves /\ S' = S /\ unheard' = unheard /\ meddled' = meddled
          /\ trimming' = [trimming EXCEPT ![u] = trimming[u] - 1] /\ trimming[u] > 0
      BY <1>0, <2>3 DEF RemoteTrim, S
    <3>. QED
      BY <1>0, <3>1 DEF MarksTyped
  <2>4. ASSUME NEW u \in User, RemoteDelUnread(u) PROVE MarksTyped'
    <3>1. /\ moves' = moves + 1 /\ S' = S /\ unheard' = unheard /\ trimming' = trimming
          /\ meddled' = [meddled EXCEPT ![u] = S]
      BY <1>0, <2>4 DEF RemoteDelUnread, Move, S
    <3>. QED
      BY <1>0, <3>1 DEF MarksTyped
  <2>. QED
    BY <1>9, <2>1, <2>2, <2>3, <2>4 DEF MessageServer
<1>10. ASSUME NEW r \in Request, DelUnread(r) PROVE MarksTyped'
  BY <1>2, <1>10 DEF DelUnread, history
<1>11. ASSUME NEW r \in Request, NEW u \in User, ReadUnread(r, u) PROVE MarksTyped'
  BY <1>3, <1>11 DEF ReadUnread
<1>12. CASE UNCHANGED unreadVars
  BY <1>2, <1>12 DEF unreadVars, webVars, history
<1>. QED
  BY <1>4, <1>5, <1>6, <1>7, <1>8, <1>9, <1>10, <1>11, <1>12 DEF UnreadNext, WebNext

LEMMA MarksInit ==
  ASSUME UnreadInit
  PROVE  MarksTyped
<1>1. S = 0 /\ moves = 0
  BY DEF UnreadInit, WebInit, S
<1>. QED
  BY <1>1 DEF UnreadInit, WebInit, MarksTyped

LEMMA TypedInit ==
  ASSUME UnreadInit
  PROVE  Typed /\ ReadTyped
<1>1. S = 0 /\ L = 0
  BY DEF UnreadInit, WebInit, S, L
<1>2. 0 \in 0..MaxMoves
  BY WebAssumption
<1>3. NodeTyped
  BY DEF UnreadInit, WebInit, NodeTyped
<1>7. LinesTyped
  <2>1. pipe = <<>> /\ replies = <<>> /\ channel = <<>>
    BY DEF UnreadInit, WebInit
  <2>. QED
    BY <2>1 DEF LinesTyped
<1>5. StoreTyped
  BY DEF UnreadInit, WebInit, StoreTyped
<1>6. ReadTyped
  BY DEF UnreadInit, ReadTyped
<1>4. PastTyped
  BY <1>1, <1>2 DEF UnreadInit, WebInit, PastTyped
<1>. QED
  BY <1>3, <1>4, <1>5, <1>6, <1>7 DEF Typed

LEMMA TypedTypes ==
  ASSUME Typed, MarksTyped, ReadTyped
  PROVE  UnreadTypeOK
<1>1. /\ \A i \in 1..Len(pipe) : pipe[i] \in Commands
      /\ \A i \in 1..Len(replies) : replies[i] \in Calls
  BY ElementOfSeq DEF Typed, LinesTyped, CmdsTo, CallsTo
<1>2. /\ trimming \in [User -> 0..MaxMoves] /\ meddled \in [User -> 0..MaxMoves]
      /\ unheard \subseteq 1..MaxMoves
  <2>1. moves <= MaxMoves /\ moves \in Nat /\ S \in Nat /\ S <= MaxMoves
    BY Counts, WebAssumption DEF Typed, PastTyped
  <2>. QED
    BY <2>1, WebAssumption DEF MarksTyped
<1>3. WebTypeOK
  BY <1>1, <1>2 DEF Typed, NodeTyped, LinesTyped, StoreTyped, PastTyped, WebTypeOK
<1>. QED
  BY <1>3 DEF UnreadTypeOK, ReadTyped

(* The variables of the chat server and of the reader have their types: what is
   queued on redisDB and what comes back is always a command or a reply that
   Redis and the callbacks of socket.js know, about a message that was sent. *)
THEOREM UnreadTypeCorrect == UnreadSpec => []UnreadTypeOK
<1>1. UnreadInit => Typed /\ MarksTyped /\ ReadTyped
  BY TypedInit, MarksInit
<1>2. Typed /\ MarksTyped /\ ReadTyped /\ [UnreadNext]_unreadVars => (Typed /\ MarksTyped /\ ReadTyped)'
  BY TypedHolds, MarksHold
<1>3. Typed /\ MarksTyped /\ ReadTyped => UnreadTypeOK
  BY TypedTypes
<1>. QED
  BY <1>1, <1>2, <1>3, PTL DEF UnreadSpec

-----------------------------------------------------------------------------
\* The maps of the process.

\* The steps that leave the maps and the process alone.
LEMMA NodeKept ==
  ASSUME \/ Redis \/ Callback \/ Subscriber \/ MessageServer
         \/ \E k \in Sock, u \in User : PeerMessage(k, u)
         \/ \E k \in Sock, g \in Group : GroupMessage(k, g)
         \/ \E r \in Request : DelUnread(r) \/ \E u \in User : ReadUnread(r, u)
  PROVE  UNCHANGED node
<1>1. ASSUME Redis PROVE UNCHANGED node
  BY <1>1 DEF Redis, ExecPresence, ExecSmembers, ExecMembership, ExecGet, ExecPublish, ExecLpush,
     ExecLtrim, ExecSort, ExecLpushGroup, ExecLtrimGroup, ExecSdiff, ExecIncr, Done
<1>2. ASSUME Callback PROVE UNCHANGED node
  BY <1>2 DEF Callback, OnJoin, OnLeave, OnGet, OnPushed, OnSort, OnPushedGroup, OnDiff
<1>3. ASSUME Subscriber PROVE UNCHANGED node
  BY <1>3 DEF Subscriber, Deliver, Drop
<1>4. ASSUME MessageServer PROVE UNCHANGED node
  BY <1>4 DEF MessageServer, RemoteSet, RemoteDel, RemoteSadd, RemoteSrem, RemotePush, RemoteTrim, RemoteDelUnread
<1>5. ASSUME \/ \E k \in Sock, u \in User : PeerMessage(k, u)
             \/ \E k \in Sock, g \in Group : GroupMessage(k, g)
      PROVE  UNCHANGED node
  BY <1>5 DEF PeerMessage, GroupMessage
<1>6. ASSUME \E r \in Request : DelUnread(r) \/ \E u \in User : ReadUnread(r, u)
      PROVE  UNCHANGED node
  BY <1>6 DEF DelUnread, ReadUnread
<1>. QED
  BY <1>1, <1>2, <1>3, <1>4, <1>5, <1>6

LEMMA RegisteredHolds ==
  ASSUME Typed, Registered, [UnreadNext]_unreadVars
  PROVE  Registered'
<1>1. CASE UNCHANGED unreadVars
  BY <1>1 DEF unreadVars, webVars, node, lines, Registered, MapNamesOpenSocket
<1>2. ASSUME UNCHANGED node, ~up => replies' = replies /\ channel' = channel
      PROVE  Registered'
  BY <1>2 DEF node, Registered, MapNamesOpenSocket
<1>3. ASSUME Redis PROVE Registered'
  <2>1. ~up => replies' = replies
    BY <1>3 DEF Redis, ExecPresence, ExecSmembers, ExecMembership, ExecGet, ExecPublish, ExecLpush,
       ExecLtrim, ExecSort, ExecLpushGroup, ExecLtrimGroup, ExecSdiff, ExecIncr, Done
  <2>2. ~up => channel' = channel
    BY <1>3 DEF Typed, NodeTyped, Redis, ExecPresence, ExecSmembers, ExecMembership, ExecGet, ExecPublish, ExecLpush,
       ExecLtrim, ExecSort, ExecLpushGroup, ExecLtrimGroup, ExecSdiff, ExecIncr
  <2>. QED
    BY <1>2, <1>3, <2>1, <2>2, NodeKept
<1>4. ASSUME Callback PROVE Registered'
  <2>1. up
    BY <1>4 DEF Callback, OnJoin, OnLeave, OnGet, OnPushed, OnSort, OnPushedGroup, OnDiff, CallbackOf
  <2>. QED
    BY <1>2, <1>4, <2>1, NodeKept
<1>5. ASSUME Subscriber PROVE Registered'
  <2>1. up
    BY <1>5 DEF Subscriber, Deliver, Drop
  <2>. QED
    BY <1>2, <1>5, <2>1, NodeKept
<1>6. ASSUME MessageServer PROVE Registered'
  <2>1. replies' = replies /\ channel' = channel
    BY <1>6 DEF MessageServer, RemoteSet, RemoteDel, RemoteSadd, RemoteSrem, RemotePush, RemoteTrim, RemoteDelUnread, lines
  <2>. QED
    BY <1>2, <1>6, <2>1, NodeKept
<1>7. ASSUME \/ \E k \in Sock, u \in User : PeerMessage(k, u)
             \/ \E k \in Sock, g \in Group : GroupMessage(k, g)
             \/ \E r \in Request : DelUnread(r) \/ \E u \in User : ReadUnread(r, u)
      PROVE  Registered'
  <2>1. replies' = replies /\ channel' = channel
    BY <1>7 DEF PeerMessage, GroupMessage, DelUnread, ReadUnread, lines
  <2>. QED
    BY <1>2, <1>7, <2>1, NodeKept
<1>8. ASSUME NEW k \in Sock, Connect(k) \/ DisconnectStranger(k)
      PROVE  Registered'
  <2>1. /\ socketMap[k] = None \/ phase[k] = "new"
        /\ \E ph \in {"open", "closed"} : phase' = [phase EXCEPT ![k] = ph]
        /\ up /\ UNCHANGED <<up, userIdMap, socketMap>>
    BY <1>8 DEF Connect, DisconnectStranger, Open
  <2>2. socketMap[k] = None
    BY <2>1 DEF Registered
  <2>3. \A j \in Sock : socketMap[j] # None => phase'[j] = phase[j]
    BY <2>1, <2>2 DEF Typed, NodeTyped
  <2>4. \A u \in User : userIdMap[u] # None => phase'[userIdMap[u]] = phase[userIdMap[u]]
    BY <2>2, <2>3, WebAssumption DEF Typed, NodeTyped, Registered, MapNamesOpenSocket
  <2>. QED
    BY <2>1, <2>3, <2>4 DEF Registered, MapNamesOpenSocket
<1>9. ASSUME NEW k \in Sock, HandleShake(k)
      PROVE  Registered'
  <2>1. UserOf[k] \in User /\ k # None /\ UserOf[k] # None
    BY WebAssumption
  <2>. QED
    <3>1. /\ up /\ phase[k] = "open" /\ socketMap[k] = None
          /\ userIdMap' = [userIdMap EXCEPT ![UserOf[k]] = k]
          /\ socketMap' = [socketMap EXCEPT ![k] = UserOf[k]]
          /\ up' = up /\ phase' = phase
      BY <1>9 DEF HandleShake, Open
    <3>2. \A j \in Sock : socketMap'[j] # None => socketMap'[j] = UserOf[j] /\ phase'[j] = "open"
      BY <3>1 DEF Typed, NodeTyped, Registered
    <3>3. ASSUME NEW u \in User, userIdMap'[u] # None
          PROVE  phase'[userIdMap'[u]] = "open" /\ socketMap'[userIdMap'[u]] = u
      <4>1. CASE u = UserOf[k]
        BY <3>1, <4>1 DEF Typed, NodeTyped
      <4>2. CASE u # UserOf[k]
        <5>1. userIdMap'[u] = userIdMap[u]
          BY <3>1, <4>2 DEF Typed, NodeTyped
        <5>2. userIdMap[u] \in Sock /\ userIdMap[u] # k
          BY <3>1, <3>3, <5>1, WebAssumption DEF Typed, NodeTyped, Registered, MapNamesOpenSocket
        <5>3. socketMap'[userIdMap[u]] = socketMap[userIdMap[u]]
          BY <3>1, <5>2 DEF Typed, NodeTyped
        <5>. QED
          BY <3>1, <3>3, <5>1, <5>3 DEF Registered, MapNamesOpenSocket
      <4>. QED
        BY <4>1, <4>2
    <3>. QED
      BY <3>1, <3>2, <3>3 DEF Registered, MapNamesOpenSocket
<1>10. ASSUME NEW k \in Sock, Disconnect(k)
       PROVE  Registered'
  <2>1. PICK u \in User : socketMap[k] = u
    BY <1>10 DEF Disconnect, Typed, NodeTyped
  <2>. QED
    BY <1>10, <2>1 DEF Typed, NodeTyped, Disconnect, Open, Registered, MapNamesOpenSocket
<1>11. ASSUME NEW n \in 0..Len(pipe), Crash(n)
       PROVE  Registered'
  BY <1>11 DEF Crash, Registered, MapNamesOpenSocket
<1>12. ASSUME Restart
       PROVE  Registered'
  BY <1>12 DEF Restart, Registered, MapNamesOpenSocket
<1>13. ASSUME Subscribe
       PROVE  Registered'
  BY <1>13 DEF Subscribe, Registered, MapNamesOpenSocket
<1>. QED
  BY <1>1, <1>3, <1>4, <1>5, <1>6, <1>7, <1>8, <1>9, <1>10, <1>11, <1>12, <1>13 DEF UnreadNext, WebNext, Pages

LEMMA RegisteredInit ==
  ASSUME UnreadInit
  PROVE  Registered
BY DEF UnreadInit, WebInit, Registered, MapNamesOpenSocket

(* Whatever the order in which a user's connections come and go, userIdMap never
   names a socket that is closed or stands for somebody else (socket.js:247). *)
THEOREM MapNamesOpenSocketHolds == UnreadSpec => []MapNamesOpenSocket
<1>1. UnreadInit => Typed /\ ReadTyped /\ Registered
  BY TypedInit, RegisteredInit
<1>2. Typed /\ ReadTyped /\ Registered /\ [UnreadNext]_unreadVars
        => (Typed /\ ReadTyped /\ Registered)'
  BY TypedHolds, RegisteredHolds
<1>3. Registered => MapNamesOpenSocket
  BY DEF Registered
<1>. QED
  BY <1>1, <1>2, <1>3, PTL DEF UnreadSpec

-----------------------------------------------------------------------------
\* What a queue makes of a fact.
LEMMA AfterConcat ==
  ASSUME NEW C, NEW s \in Seq(C), NEW t \in Seq(C), NEW yes, NEW no, NEW b \in BOOLEAN,
         yes \cap no = {}
  PROVE  After(s \o t, yes, no, b) <=> After(t, yes, no, After(s, yes, no, b))
<1>1. /\ Len(s) \in Nat /\ Len(t) \in Nat
      /\ Len(s \o t) = Len(s) + Len(t)
      /\ \A i \in 1..Len(s) + Len(t) : (s \o t)[i] = IF i <= Len(s) THEN s[i] ELSE t[i - Len(s)]
  BY ConcatProperties, LenProperties
<1>2. \A i \in 1..Len(s) : i \in 1..Len(s) + Len(t) /\ (s \o t)[i] = s[i]
  BY <1>1
<1>3. \A i \in 1..Len(t) : i + Len(s) \in 1..Len(s) + Len(t) /\ (s \o t)[i + Len(s)] = t[i]
  BY <1>1
<1>. DEFINE p == s \o t
            m == Len(s)
            n == Len(t)
            quiet == \A i \in 1..n : t[i] \notin no
            late == \E i \in 1..n : t[i] \in yes /\ \A j \in (i + 1)..n : t[j] \notin no
<1>. HIDE DEF p, m, n
<1>4. /\ m \in Nat /\ n \in Nat /\ Len(p) = m + n
      /\ \A i \in 1..m + n : p[i] = IF i <= m THEN s[i] ELSE t[i - m]
  BY <1>1 DEF p, m, n
<1>5. After(t, yes, no, After(s, yes, no, b)) <=> late \/ (quiet /\ After(s, yes, no, b))
  BY DEF After, n
<1>6. ASSUME late PROVE After(p, yes, no, b)
  <2>1. PICK i \in 1..n : t[i] \in yes /\ \A j \in (i + 1)..n : t[j] \notin no
    BY <1>6
  <2>2. i + m \in 1..m + n /\ p[i + m] = t[i]
    BY <1>4
  <2>3. \A j \in (i + m + 1)..(m + n) : j \in 1..m + n /\ j - m \in (i + 1)..n /\ p[j] = t[j - m]
    BY <1>4
  <2>. QED
    BY <1>4, <2>1, <2>2, <2>3 DEF After
<1>7. ASSUME quiet, After(s, yes, no, b) PROVE After(p, yes, no, b)
  <2>1. \A j \in (m + 1)..(m + n) : p[j] = t[j - m] /\ j - m \in 1..n
    BY <1>4
  <2>2. \A j \in (m + 1)..(m + n) : p[j] \notin no
    BY <1>7, <2>1
  <2>3. CASE \E i \in 1..m : s[i] \in yes /\ \A j \in (i + 1)..m : s[j] \notin no
    <3>1. PICK i \in 1..m : s[i] \in yes /\ \A j \in (i + 1)..m : s[j] \notin no
      BY <2>3
    <3>2. i \in 1..m + n /\ p[i] = s[i]
      BY <1>4
    <3>3. \A j \in (i + 1)..(m + n) : p[j] \notin no
      BY <1>4, <2>2, <3>1
    <3>. QED
      BY <1>4, <3>1, <3>2, <3>3 DEF After
  <2>4. CASE b /\ \A i \in 1..m : s[i] \notin no
    <3>1. \A j \in 1..(m + n) : p[j] \notin no
      BY <1>4, <2>2, <2>4
    <3>. QED
      BY <1>4, <2>4, <3>1 DEF After
  <2>. QED
    BY <1>7, <2>3, <2>4 DEF After, m
<1>8. ASSUME After(p, yes, no, b), ~late PROVE quiet /\ After(s, yes, no, b)
  <2>1. CASE b /\ \A i \in 1..(m + n) : p[i] \notin no
    <3>1. \A i \in 1..m : i \in 1..(m + n) /\ p[i] = s[i]
      BY <1>4
    <3>2. \A i \in 1..n : i + m \in 1..(m + n) /\ p[i + m] = t[i]
      BY <1>4
    <3>. QED
      BY <2>1, <3>1, <3>2 DEF After, m
  <2>2. CASE \E i \in 1..(m + n) : p[i] \in yes /\ \A j \in (i + 1)..(m + n) : p[j] \notin no
    <3>1. PICK i \in 1..(m + n) : p[i] \in yes /\ \A j \in (i + 1)..(m + n) : p[j] \notin no
      BY <2>2
    <3>2. CASE i > m
      <4>1. i - m \in 1..n /\ t[i - m] \in yes
        BY <1>4, <3>1, <3>2
      <4>2. \A j \in ((i - m) + 1)..n : j + m \in (i + 1)..(m + n) /\ p[j + m] = t[j]
        BY <1>4, <3>2
      <4>. QED
        BY <1>8, <3>1, <4>1, <4>2
    <3>3. CASE i <= m
      <4>1. i \in 1..m /\ s[i] \in yes
        BY <1>4, <3>1, <3>3
      <4>2. \A j \in (i + 1)..m : j \in (i + 1)..(m + n) /\ p[j] = s[j]
        BY <1>4
      <4>3. \A j \in 1..n : j + m \in (i + 1)..(m + n) /\ p[j + m] = t[j]
        BY <1>4, <3>3
      <4>. QED
        BY <3>1, <4>1, <4>2, <4>3 DEF After, m
    <3>. QED
      BY <1>4, <3>2, <3>3
  <2>3. \/ b /\ \A i \in 1..(m + n) : p[i] \notin no
        \/ \E i \in 1..(m + n) : p[i] \in yes /\ \A j \in (i + 1)..(m + n) : p[j] \notin no
    BY <1>4, <1>8 DEF After
  <2>. QED
    BY <2>1, <2>2, <2>3
<1>. QED
  BY <1>5, <1>6, <1>7, <1>8 DEF p

LEMMA AfterOne ==
  ASSUME NEW e, NEW yes, NEW no, NEW b \in BOOLEAN, yes \cap no = {}
  PROVE  After(<<e>>, yes, no, b) <=> e \in yes \/ (b /\ e \notin no)
BY DEF After

LEMMA AfterHead ==
  ASSUME NEW C, NEW s \in Seq(C), s # <<>>, NEW yes, NEW no, NEW b \in BOOLEAN, yes \cap no = {}
  PROVE  After(s, yes, no, b)
           <=> After(Tail(s), yes, no, Head(s) \in yes \/ (b /\ Head(s) \notin no))
<1>1. /\ Tail(s) \in Seq(C) /\ <<Head(s)>> \in Seq(C)
      /\ s = <<Head(s)>> \o Tail(s)
  BY HeadTailProperties
<1>. DEFINE h == Head(s)
            t == Tail(s)
            c == h \in yes \/ (b /\ h \notin no)
<1>. HIDE DEF h, t
<1>2. After(<<h>> \o t, yes, no, b) <=> After(t, yes, no, After(<<h>>, yes, no, b))
  BY <1>1, AfterConcat DEF h, t
<1>3. After(<<h>>, yes, no, b) <=> c
  BY AfterOne
<1>4. After(t, yes, no, After(<<h>>, yes, no, b)) <=> After(t, yes, no, c)
  BY <1>3 DEF After
<1>. QED
  BY <1>1, <1>2, <1>4 DEF h, t

LEMMA AfterNone ==
  ASSUME NEW s, NEW yes, NEW no, NEW b \in BOOLEAN,
         \A i \in 1..Len(s) : s[i] \notin yes \cup no
  PROVE  After(s, yes, no, b) <=> b
BY DEF After

LEMMA AfterBool ==
  ASSUME NEW s, NEW yes, NEW no, NEW b
  PROVE  After(s, yes, no, b) \in BOOLEAN
BY DEF After

LEMMA Apart ==
  ASSUME NEW u, NEW g
  PROVE  /\ SetsOf(u) \cap DelsOf(u) = {} /\ JoinsOf(u) \cap LeavesOf(u) = {}
         /\ SaddsOf(u, g) \cap SremsOf(u, g) = {} /\ JoinCallsOf(u) \cap LeaveCallsOf(u) = {}
BY DEF SetsOf, DelsOf, JoinsOf, LeavesOf, SaddsOf, SremsOf, JoinCallsOf, LeaveCallsOf

\* Commands are added, none of them a SADD or SREM of u.
LEMMA PipeAdds ==
  ASSUME NEW p \in Seq(Commands), NEW t \in Seq(Commands), NEW q, NEW b \in BOOLEAN, NEW u, NEW g,
         \A i \in 1..Len(t) : t[i] \notin SaddsOf(u, g) \cup SremsOf(u, g)
  PROVE  /\ GroupSoon(p \o t, q, b, u, g) = GroupSoon(p, q, b, u, g)
         /\ GroupAfter(p \o t, q, b, u, g)
              = After(t, JoinsOf(u), LeavesOf(u), GroupAfter(p, q, b, u, g))
<1>. DEFINE x == After(p, SaddsOf(u, g), SremsOf(u, g), b)
            y == After(q, JoinCallsOf(u), LeaveCallsOf(u), x)
<1>1. x \in BOOLEAN /\ y \in BOOLEAN
  BY AfterBool
<1>2. After(p \o t, SaddsOf(u, g), SremsOf(u, g), b) = x
  <2>1. After(p \o t, SaddsOf(u, g), SremsOf(u, g), b) <=> After(t, SaddsOf(u, g), SremsOf(u, g), x)
    BY Apart, AfterConcat
  <2>. HIDE DEF x
  <2>2. After(t, SaddsOf(u, g), SremsOf(u, g), x) <=> x
    BY <1>1, AfterNone
  <2>. QED
    BY <1>1, <2>1, <2>2, AfterBool
<1>. HIDE DEF x, y
<1>3. After(p \o t, JoinsOf(u), LeavesOf(u), y)
        = After(t, JoinsOf(u), LeavesOf(u), After(p, JoinsOf(u), LeavesOf(u), y))
  BY <1>1, Apart, AfterConcat, AfterBool
<1>. QED
  BY <1>2, <1>3 DEF GroupAfter, GroupSoon, x, y

\* A command that is no SMEMBERS of u is executed.
LEMMA PipeTakes ==
  ASSUME NEW p \in Seq(Commands), p # <<>>, NEW q, NEW b \in BOOLEAN, NEW u, NEW g,
         Head(p) \notin JoinsOf(u) \cup LeavesOf(u),
         NEW c \in BOOLEAN, c <=> Head(p) \in SaddsOf(u, g) \/ (b /\ Head(p) \notin SremsOf(u, g))
  PROVE  /\ GroupSoon(Tail(p), q, c, u, g) = GroupSoon(p, q, b, u, g)
         /\ GroupAfter(Tail(p), q, c, u, g) = GroupAfter(p, q, b, u, g)
<1>. DEFINE x == After(p, SaddsOf(u, g), SremsOf(u, g), b)
            y == After(q, JoinCallsOf(u), LeaveCallsOf(u), x)
<1>1. After(Tail(p), SaddsOf(u, g), SremsOf(u, g), c) = x
  BY Apart, AfterHead, AfterBool
<1>2. y \in BOOLEAN
  BY AfterBool
<1>. HIDE DEF x, y
<1>3. After(Tail(p), JoinsOf(u), LeavesOf(u), y) = After(p, JoinsOf(u), LeavesOf(u), y)
  <2>1. After(p, JoinsOf(u), LeavesOf(u), y)
          <=> After(Tail(p), JoinsOf(u), LeavesOf(u),
                    Head(p) \in JoinsOf(u) \/ (y /\ Head(p) \notin LeavesOf(u)))
    <3>1. JoinsOf(u) \cap LeavesOf(u) = {}
      BY Apart
    <3>. QED
      BY <1>2, <3>1, AfterHead
  <2>2. (Head(p) \in JoinsOf(u) \/ (y /\ Head(p) \notin LeavesOf(u))) = y
    BY <1>2
  <2>. QED
    BY <2>1, <2>2, AfterBool
<1>. QED
  BY <1>1, <1>3 DEF GroupAfter, GroupSoon, x, y

\* An SMEMBERS is executed, and the callback of its reply queued.
LEMMA PipeAsks ==
  ASSUME NEW p \in Seq(Commands), p # <<>>, NEW q \in Seq(Calls), NEW r \in Calls,
         NEW b \in BOOLEAN, NEW u, NEW g,
         Head(p) \notin SaddsOf(u, g) \cup SremsOf(u, g),
         r \in JoinCallsOf(u) <=> Head(p) \in JoinsOf(u),
         r \in LeaveCallsOf(u) <=> Head(p) \in LeavesOf(u)
  PROVE  /\ GroupSoon(Tail(p), q \o <<r>>, b, u, g)
              = (Head(p) \in JoinsOf(u) \/ (GroupSoon(p, q, b, u, g) /\ Head(p) \notin LeavesOf(u)))
         /\ GroupAfter(Tail(p), q \o <<r>>, b, u, g) = GroupAfter(p, q, b, u, g)
<1>. DEFINE x == After(p, SaddsOf(u, g), SremsOf(u, g), b)
            y == After(q, JoinCallsOf(u), LeaveCallsOf(u), x)
            c == Head(p) \in JoinsOf(u) \/ (y /\ Head(p) \notin LeavesOf(u))
<1>1. x \in BOOLEAN /\ y \in BOOLEAN
  BY AfterBool
<1>2. After(Tail(p), SaddsOf(u, g), SremsOf(u, g), b) = x
  <2>1. x <=> After(Tail(p), SaddsOf(u, g), SremsOf(u, g),
                    Head(p) \in SaddsOf(u, g) \/ (b /\ Head(p) \notin SremsOf(u, g)))
    BY Apart, AfterHead
  <2>2. (Head(p) \in SaddsOf(u, g) \/ (b /\ Head(p) \notin SremsOf(u, g))) = b
    OBVIOUS
  <2>. QED
    BY <2>1, <2>2, <1>1, AfterBool
<1>. HIDE DEF x
<1>3. After(q \o <<r>>, JoinCallsOf(u), LeaveCallsOf(u), x) = c
  <2>1. <<r>> \in Seq(Calls)
    OBVIOUS
  <2>2. After(q \o <<r>>, JoinCallsOf(u), LeaveCallsOf(u), x)
          <=> After(<<r>>, JoinCallsOf(u), LeaveCallsOf(u), y)
    BY <1>1, <2>1, Apart, AfterConcat
  <2>. HIDE DEF y
  <2>3. After(<<r>>, JoinCallsOf(u), LeaveCallsOf(u), y)
          <=> r \in JoinCallsOf(u) \/ (y /\ r \notin LeaveCallsOf(u))
    BY <1>1, Apart, AfterOne
  <2>. QED
    BY <2>2, <2>3, AfterBool
<1>4. After(Tail(p), JoinsOf(u), LeavesOf(u), c) = After(p, JoinsOf(u), LeavesOf(u), y)
  <2>. HIDE DEF y
  <2>. QED
    BY <1>1, Apart, AfterHead, AfterBool
<1>5. GroupSoon(p, q, b, u, g) = y
  BY DEF GroupSoon, x
<1>. HIDE DEF y
<1>6. GroupSoon(Tail(p), q \o <<r>>, b, u, g) = c
  <2>. HIDE DEF c
  <2>. QED
    BY <1>2, <1>3 DEF GroupSoon
<1>7. GroupAfter(Tail(p), q \o <<r>>, b, u, g) = GroupAfter(p, q, b, u, g)
  <2>. HIDE DEF c
  <2>. QED
    BY <1>4, <1>5, <1>6 DEF GroupAfter
<1>. QED
  BY <1>5, <1>6, <1>7

\* A callback runs and queues the commands t, which do what it is for.
LEMMA CallAnswers ==
  ASSUME NEW p \in Seq(Commands), NEW t \in Seq(Commands), NEW q \in Seq(Calls), q # <<>>,
         NEW b \in BOOLEAN, NEW u, NEW g, NEW r, Head(q) = r,
         \A i \in 1..Len(t) : t[i] \notin JoinsOf(u) \cup LeavesOf(u),
         \A c \in BOOLEAN : After(t, SaddsOf(u, g), SremsOf(u, g), c)
           <=> r \in JoinCallsOf(u) \/ (c /\ r \notin LeaveCallsOf(u))
  PROVE  /\ GroupSoon(p \o t, Tail(q), b, u, g) = GroupSoon(p, q, b, u, g)
         /\ GroupAfter(p \o t, Tail(q), b, u, g) = GroupAfter(p, q, b, u, g)
<1>. DEFINE x == After(p, SaddsOf(u, g), SremsOf(u, g), b)
            c == Head(q) \in JoinCallsOf(u) \/ (x /\ Head(q) \notin LeaveCallsOf(u))
            y == After(q, JoinCallsOf(u), LeaveCallsOf(u), x)
<1>1. x \in BOOLEAN /\ y \in BOOLEAN
  BY AfterBool
<1>2. After(p \o t, SaddsOf(u, g), SremsOf(u, g), b) = c
  <2>1. After(p \o t, SaddsOf(u, g), SremsOf(u, g), b) <=> After(t, SaddsOf(u, g), SremsOf(u, g), x)
    BY Apart, AfterConcat
  <2>. HIDE DEF x
  <2>. QED
    BY <1>1, <2>1, AfterBool
<1>. HIDE DEF x
<1>3. After(Tail(q), JoinCallsOf(u), LeaveCallsOf(u), c) = y
  BY <1>1, Apart, AfterHead, AfterBool
<1>. HIDE DEF y, c
<1>4. After(p \o t, JoinsOf(u), LeavesOf(u), y) = After(p, JoinsOf(u), LeavesOf(u), y)
  <2>1. After(p \o t, JoinsOf(u), LeavesOf(u), y)
          <=> After(t, JoinsOf(u), LeavesOf(u), After(p, JoinsOf(u), LeavesOf(u), y))
    BY <1>1, Apart, AfterConcat
  <2>2. After(t, JoinsOf(u), LeavesOf(u), After(p, JoinsOf(u), LeavesOf(u), y))
          <=> After(p, JoinsOf(u), LeavesOf(u), y)
    BY AfterNone, AfterBool
  <2>. QED
    BY <2>1, <2>2, AfterBool
<1>5. GroupSoon(p, q, b, u, g) = y
  BY DEF GroupSoon, x, y
<1>6. GroupSoon(p \o t, Tail(q), b, u, g) = y
  BY <1>2, <1>3 DEF GroupSoon
<1>. QED
  BY <1>4, <1>5, <1>6 DEF GroupAfter

-----------------------------------------------------------------------------
(* What one step of Redis, and one callback, does: the commands and the replies
   as values, for the invariants that follow.                                *)
SilentOps == {"set", "del", "sadd", "srem", "publish", "ltrim", "ltrim group", "incr"}

\* r is the reply to the command c.
Answers(c, r) ==
  \/ /\ c.op = "smembers to join" /\ r.call = "join" /\ r.user = c.user
     /\ r.groups = GroupSet[c.user]
  \/ /\ c.op = "smembers to leave" /\ r.call = "leave" /\ r.user = c.user
     /\ r.groups = GroupSet[c.user]
  \/ c.op = "get" /\ r.call = "got" /\ r.msg = c.msg /\ r.server = online[c.msg.to]
  \/ c.op = "lpush" /\ r.call = "pushed" /\ r.user = c.msg.to
  \/ c.op = "lpush group" /\ r.call = "pushed group" /\ r.id = c.id
  \/ /\ c.op = "sort" /\ r.call = "sorted" /\ r.id = c.id
     /\ r.here = {u \in onlineGroup[groupLog[c.id].group] : online[u] = Here}
  \/ /\ c.op = "sdiff" /\ r.call = "differ" /\ r.id = c.id
     /\ r.users = Members(groupLog[c.id].group) \ onlineGroup[groupLog[c.id].group]

RedisReplies(c) ==
  /\ pipe # <<>> /\ Head(pipe) = c /\ pipe' = Tail(pipe)
  /\ \/ c.op \in SilentOps /\ replies' = replies
     \/ c.op \notin SilentOps /\ ~up /\ replies' = replies
     \/ /\ c.op \notin SilentOps /\ up
        /\ \E r \in Calls : Answers(c, r) /\ replies' = replies \o <<r>>
  /\ UNCHANGED <<up, subscribed, phase, userIdMap, socketMap, inbox, moves, sent, left, gone,
                 foreign, trimming, meddled>>

RedisStores(c) ==
  /\ online' = IF c.op \in {"set", "del"}
               THEN [online EXCEPT ![c.user] = IF c.op = "set" THEN Here ELSE None] ELSE online
  /\ onlineGroup' = IF c.op \in MemberOps
                    THEN [onlineGroup EXCEPT ![c.group] =
                            IF c.op = "sadd" THEN @ \cup {c.user} ELSE @ \ {c.user}]
                    ELSE onlineGroup
  /\ channel' = IF c.op = "publish" /\ c.to = Here /\ subscribed
                THEN Append(channel, c.msg) ELSE channel
  /\ unheard' = IF c.op = "publish" /\ c.to = Here /\ ~subscribed
                THEN unheard \cup {c.msg.id} ELSE unheard
  /\ elsewhere' = IF c.op = "publish" /\ c.to # Here THEN elsewhere \cup {c.msg} ELSE elsewhere
  /\ unread' = CASE c.op = "lpush" -> [unread EXCEPT ![c.msg.to] = <<c.msg>> \o @]
                 [] c.op = "ltrim" -> [unread EXCEPT ![c.user] = Ltrim(@)]
                 [] OTHER -> unread
  /\ groupLog' = IF c.op = "incr" THEN [groupLog EXCEPT ![c.id].counted = c.users] ELSE groupLog

LEMMA RedisIs ==
  ASSUME Typed, Redis
  PROVE  \E c \in Commands : RedisReplies(c) /\ RedisStores(c)
<1>. DEFINE c == Head(pipe)
<1>1. pipe # <<>>
  BY DEF Redis, Executes, ExecPresence, ExecSmembers, ExecMembership, ExecGet, ExecPublish,
     ExecLpush, ExecLtrim, ExecSort, ExecLpushGroup, ExecLtrimGroup, ExecSdiff, ExecIncr
<1>2. c \in Commands
  BY <1>1, HeadTyped DEF Typed
<1>3. ASSUME NEW r \in Calls, Done(<<r>>), Answers(c, r), c.op \notin SilentOps
      PROVE  RedisReplies(c)
  BY <1>1, <1>3 DEF Done, RedisReplies, node, history, marks
<1>4. ASSUME replies \in Seq(Calls), Done(<<>>), c.op \in SilentOps
      PROVE  RedisReplies(c)
  <2>1. replies \o <<>> = replies
    BY <1>4, ConcatEmptySeq
  <2>. QED
    BY <1>1, <1>4, <2>1 DEF Done, RedisReplies, node, history, marks
<1>5. replies \in Seq(Calls)
  <2>1. CallsTo(S, L) \subseteq Calls
    BY DEF CallsTo
  <2>. QED
    BY <2>1, SeqMonotonic DEF Typed, LinesTyped
<1>6. ASSUME ExecPresence PROVE RedisReplies(c) /\ RedisStores(c)
  <2>1. c.op \in {"set", "del"} /\ Done(<<>>)
    BY <1>6 DEF ExecPresence, Executes
  <2>2. RedisReplies(c)
    BY <2>1, <1>4, <1>5 DEF SilentOps
  <2>3. groupLog' = groupLog /\ unheard' = unheard
    BY <2>1 DEF Done, history, marks
  <2>. QED
    BY <1>6, <2>1, <2>2, <2>3 DEF ExecPresence, RedisStores, lists, MemberOps
<1>7. ASSUME ExecSmembers PROVE RedisReplies(c) /\ RedisStores(c)
  <2>. DEFINE r == [call |-> IF c.op = "smembers to join" THEN "join" ELSE "leave",
                    user |-> c.user, groups |-> GroupSet[c.user]]
  <2>1. c.op \in {"smembers to join", "smembers to leave"} /\ Done(<<r>>)
    BY <1>7 DEF ExecSmembers, Executes
  <2>2. c.user \in User
    BY <1>2, <2>1, CmdFields DEF UserOps
  <2>3. r \in Calls
    BY <2>2, GroupsTyped DEF Calls
  <2>4. Answers(c, r)
    BY <2>1 DEF Answers
  <2>5. c.op \notin SilentOps
    BY <2>1 DEF SilentOps
  <2>6. groupLog' = groupLog /\ unheard' = unheard
    BY <2>1 DEF Done, history, marks
  <2>. HIDE DEF r
  <2>7. RedisReplies(c)
    BY <2>1, <2>3, <2>4, <2>5, <1>3
  <2>. QED
    BY <1>7, <2>1, <2>6, <2>7 DEF ExecSmembers, RedisStores, presence, lists, MemberOps
<1>8. ASSUME ExecMembership PROVE RedisReplies(c) /\ RedisStores(c)
  <2>1. c.op \in {"sadd", "srem"} /\ Done(<<>>)
    BY <1>8 DEF ExecMembership, Executes
  <2>2. RedisReplies(c)
    BY <2>1, <1>4, <1>5 DEF SilentOps
  <2>3. groupLog' = groupLog /\ unheard' = unheard
    BY <2>1 DEF Done, history, marks
  <2>. QED
    BY <1>8, <2>1, <2>2, <2>3 DEF ExecMembership, RedisStores, lists, MemberOps
<1>9. ASSUME ExecGet PROVE RedisReplies(c) /\ RedisStores(c)
  <2>. DEFINE r == [call |-> "got", msg |-> c.msg, server |-> online[c.msg.to]]
  <2>1. c.op = "get" /\ Done(<<r>>)
    BY <1>9 DEF ExecGet, Executes
  <2>2. c.msg \in Message
    BY <1>2, <2>1, CmdFields DEF MsgOps
  <2>3. online[c.msg.to] \in {Here, There, None}
    BY <2>2 DEF Typed, StoreTyped, Message
  <2>4. r \in Calls
    BY <2>2, <2>3 DEF Calls
  <2>5. Answers(c, r)
    BY <2>1 DEF Answers
  <2>6. c.op \notin SilentOps /\ groupLog' = groupLog /\ unheard' = unheard
    BY <2>1 DEF SilentOps, Done, history, marks
  <2>. HIDE DEF r
  <2>7. RedisReplies(c)
    BY <2>1, <2>4, <2>5, <2>6, <1>3
  <2>. QED
    BY <1>9, <2>1, <2>6, <2>7 DEF ExecGet, RedisStores, presence, lists, MemberOps
<1>10. ASSUME ExecPublish PROVE RedisReplies(c) /\ RedisStores(c)
  <2>1. c.op = "publish"
    BY <1>10 DEF ExecPublish, Executes
  <2>2. RedisReplies(c)
    BY <1>1, <1>10, <2>1 DEF ExecPublish, RedisReplies, SilentOps, node
  <2>3. groupLog' = groupLog /\ presence' = presence /\ unread' = unread
    BY <1>10 DEF ExecPublish
  <2>. QED
    BY <1>10, <2>1, <2>2, <2>3 DEF ExecPublish, RedisStores, presence, MemberOps
<1>11. ASSUME ExecLpush PROVE RedisReplies(c) /\ RedisStores(c)
  <2>. DEFINE r == [call |-> "pushed", user |-> c.msg.to, length |-> Len(unread[c.msg.to]) + 1]
  <2>1. c.op = "lpush" /\ Done(<<r>>)
    BY <1>11 DEF ExecLpush, Executes
  <2>2. c.msg.to \in User
    BY <1>2, <2>1, CmdFields DEF MsgOps, Message
  <2>3. Len(unread[c.msg.to]) + 1 \in Nat
    BY <2>2, LenProperties DEF Typed, StoreTyped
  <2>4. r \in Calls
    BY <2>2, <2>3 DEF Calls
  <2>5. Answers(c, r)
    BY <2>1 DEF Answers
  <2>6. c.op \notin SilentOps /\ groupLog' = groupLog /\ unheard' = unheard
    BY <2>1 DEF SilentOps, Done, history, marks
  <2>. HIDE DEF r
  <2>7. RedisReplies(c)
    BY <2>1, <2>4, <2>5, <2>6, <1>3
  <2>. QED
    BY <1>11, <2>1, <2>6, <2>7 DEF ExecLpush, RedisStores, presence, MemberOps
<1>12. ASSUME ExecLtrim PROVE RedisReplies(c) /\ RedisStores(c)
  <2>1. c.op = "ltrim" /\ Done(<<>>)
    BY <1>12 DEF ExecLtrim, Executes
  <2>2. RedisReplies(c)
    BY <2>1, <1>4, <1>5 DEF SilentOps
  <2>3. groupLog' = groupLog /\ unheard' = unheard
    BY <2>1 DEF Done, history, marks
  <2>. QED
    BY <1>12, <2>1, <2>2, <2>3 DEF ExecLtrim, RedisStores, presence, MemberOps
<1>13. ASSUME ExecSort PROVE RedisReplies(c) /\ RedisStores(c)
  <2>. DEFINE r == [call |-> "sorted", id |-> c.id,
                    here |-> {u \in onlineGroup[groupLog[c.id].group] : online[u] = Here}]
  <2>1. c.op = "sort" /\ Done(<<r>>)
    BY <1>13 DEF ExecSort, Executes
  <2>2. c.id \in 1..MaxMoves /\ groupLog[c.id].group \in Group
    BY <1>1, <1>2, <2>1, HeadTyped, CmdFields DEF SeqOps, GroupEntry, Typed
  <2>3. {u \in onlineGroup[groupLog[c.id].group] : online[u] = Here} \in SUBSET User
    BY <2>2 DEF Typed, StoreTyped
  <2>4. r \in Calls
    BY <2>2, <2>3 DEF Calls
  <2>5. Answers(c, r)
    BY <2>1 DEF Answers
  <2>6. c.op \notin SilentOps /\ groupLog' = groupLog /\ unheard' = unheard
    BY <2>1 DEF SilentOps, Done, history, marks
  <2>. HIDE DEF r
  <2>7. RedisReplies(c)
    BY <2>1, <2>4, <2>5, <2>6, <1>3
  <2>. QED
    BY <1>13, <2>1, <2>6, <2>7 DEF ExecSort, RedisStores, presence, lists, MemberOps
<1>14. ASSUME ExecLpushGroup PROVE RedisReplies(c) /\ RedisStores(c)
  <2>. DEFINE n == Len(groupMsg[groupLog[c.id].group]) + 1
              r == [call |-> "pushed group", id |-> c.id, length |-> n]
  <2>1. c.op = "lpush group" /\ Done(<<r>>)
    BY <1>14 DEF ExecLpushGroup, Executes
  <2>2. c.id \in 1..MaxMoves /\ groupLog[c.id].group \in Group
    BY <1>1, <1>2, <2>1, HeadTyped, CmdFields DEF SeqOps, GroupEntry, Typed
  <2>3. n \in Nat
    BY <2>2, LenProperties DEF Typed, StoreTyped
  <2>. HIDE DEF n
  <2>4. r \in Calls
    BY <2>2, <2>3 DEF Calls
  <2>5. Answers(c, r)
    BY <2>1 DEF Answers
  <2>6. c.op \notin SilentOps /\ groupLog' = groupLog /\ unheard' = unheard
    BY <2>1 DEF SilentOps, Done, history, marks
  <2>. HIDE DEF r
  <2>7. RedisReplies(c)
    BY <2>1, <2>4, <2>5, <2>6, <1>3
  <2>. QED
    BY <1>14, <2>1, <2>6, <2>7 DEF ExecLpushGroup, RedisStores, presence, MemberOps
<1>15. ASSUME ExecLtrimGroup PROVE RedisReplies(c) /\ RedisStores(c)
  <2>1. c.op = "ltrim group" /\ Done(<<>>)
    BY <1>15 DEF ExecLtrimGroup, Executes
  <2>2. RedisReplies(c)
    BY <2>1, <1>4, <1>5 DEF SilentOps
  <2>3. groupLog' = groupLog /\ unheard' = unheard
    BY <2>1 DEF Done, history, marks
  <2>. QED
    BY <1>15, <2>1, <2>2, <2>3 DEF ExecLtrimGroup, RedisStores, presence, MemberOps
<1>16. ASSUME ExecSdiff PROVE RedisReplies(c) /\ RedisStores(c)
  <2>. DEFINE g == groupLog[c.id].group
              r == [call |-> "differ", id |-> c.id, users |-> Members(g) \ onlineGroup[g]]
  <2>1. c.op = "sdiff" /\ Done(<<r>>)
    BY <1>16 DEF ExecSdiff, Executes
  <2>2. c.id \in 1..MaxMoves
    BY <1>2, <2>1, CmdFields DEF SeqOps
  <2>3. Members(g) \ onlineGroup[g] \in SUBSET User
    BY DEF Members
  <2>4. r \in Calls
    BY <2>2, <2>3 DEF Calls
  <2>5. Answers(c, r)
    BY <2>1 DEF Answers
  <2>6. c.op \notin SilentOps /\ groupLog' = groupLog /\ unheard' = unheard
    BY <2>1 DEF SilentOps, Done, history, marks
  <2>. HIDE DEF r
  <2>7. RedisReplies(c)
    BY <2>1, <2>4, <2>5, <2>6, <1>3
  <2>. QED
    BY <1>16, <2>1, <2>6, <2>7 DEF ExecSdiff, RedisStores, presence, lists, MemberOps
<1>17. ASSUME ExecIncr PROVE RedisReplies(c) /\ RedisStores(c)
  <2>1. c.op = "incr"
    BY <1>17 DEF ExecIncr, Executes
  <2>2. RedisReplies(c)
    BY <1>1, <1>17, <2>1 DEF ExecIncr, RedisReplies, SilentOps, node, marks
  <2>. QED
    BY <1>17, <2>1, <2>2 DEF ExecIncr, RedisStores, presence, MemberOps, marks
<1>. QED
  BY <1>2, <1>6, <1>7, <1>8, <1>9, <1>10, <1>11, <1>12, <1>13, <1>14, <1>15, <1>16, <1>17 DEF Redis

\* cs are the commands that the callback of the reply r queues.
Queues(r, cs) ==
  \/ r.call = "join" /\ cs = ForGroups("sadd", r)
  \/ r.call = "leave" /\ cs = ForGroups("srem", r)
  \/ /\ r.call = "got" /\ r.server # None
     /\ cs = <<[op |-> "publish", msg |-> EncodeText(r.msg), to |-> r.server]>>
  \/ r.call = "got" /\ r.server = None /\ cs = <<MsgCmd("lpush", r.msg)>>
  \/ r.call = "pushed" /\ (cs = <<>> \/ cs = <<UserCmd("ltrim", r.user)>>)
  \/ r.call = "pushed group" /\ (cs = <<>> \/ cs = <<SeqCmd("ltrim group", r.id)>>)
  \/ r.call = "sorted" /\ cs = <<>>
  \/ r.call = "differ" /\ cs = <<[op |-> "incr", id |-> r.id, users |-> r.users]>>

CallbackRuns(r, cs) ==
  /\ up /\ replies # <<>> /\ Head(replies) = r
  /\ Queues(r, cs) /\ pipe' = pipe \o cs /\ replies' = Tail(replies)
  /\ groupLog' = IF r.call = "sorted"
                 THEN [groupLog EXCEPT ![r.id].live = {u \in r.here : userIdMap[u] # None}]
                 ELSE groupLog
  /\ UNCHANGED <<up, subscribed, phase, userIdMap, socketMap, channel, online, onlineGroup, unread,
                 groupMsg, unreadNumber, elsewhere, inbox, moves, sent, left, gone, foreign,
                 trimming, meddled, unheard>>

LEMMA CallbackIs ==
  ASSUME Typed, Callback
  PROVE  \E r \in Calls, cs \in Seq(CmdsTo(S, L)) : CallbackRuns(r, cs)
<1>. DEFINE r == Head(replies)
<1>1. up /\ replies # <<>>
  BY DEF Callback, OnJoin, OnLeave, OnGet, OnPushed, OnSort, OnPushedGroup, OnDiff, CallbackOf
<1>2. /\ r \in Calls
      /\ r.call = "got" => r.msg \in Message /\ r.msg.id <= S
      /\ r.call \in GroupCalls => r.id \in 1..L
  BY <1>1, HeadCall DEF Typed
<1>3. S \in Nat /\ L \in Nat /\ S <= MaxMoves /\ L <= MaxMoves
  BY Counts DEF Typed
<1>4. ASSUME NEW cs \in Seq(CmdsTo(S, L)), Queue(cs), Queues(r, cs), r.call # "sorted",
             UNCHANGED <<node, channel, presence, lists, inbox, history>>
      PROVE  CallbackRuns(r, cs)
  BY <1>1, <1>4 DEF CallbackRuns, Queue, node, presence, lists, history, marks
<1>5. CASE OnJoin \/ OnLeave
  <2>1. /\ r.call \in {"join", "leave"}
        /\ \/ r.call = "join" /\ Queue(ForGroups("sadd", r))
           \/ r.call = "leave" /\ Queue(ForGroups("srem", r))
        /\ UNCHANGED <<node, channel, presence, lists, inbox, history>>
    BY <1>5 DEF OnJoin, OnLeave, CallbackOf
  <2>2. r.user \in User /\ r.groups \in SUBSET Group
    BY <1>2, <2>1, CallFields
  <2>. HIDE DEF r
  <2>3. ForGroups("sadd", r) \in Seq(CmdsTo(S, L)) /\ ForGroups("srem", r) \in Seq(CmdsTo(S, L))
    BY <1>3, <2>2, ForGroupsLists DEF MemberOps
  <2>4. \E cs \in Seq(CmdsTo(S, L)) : CallbackRuns(r, cs)
    BY <1>4, <2>1, <2>3 DEF Queues
  <2>. QED
    BY <1>2, <2>4
<1>6. CASE OnGet
  <2>. DEFINE p == [op |-> "publish", msg |-> EncodeText(r.msg), to |-> r.server]
              k == MsgCmd("lpush", r.msg)
  <2>1. /\ r.call = "got"
        /\ \/ r.server # None /\ Queue(<<p>>)
           \/ r.server = None /\ Queue(<<k>>)
        /\ UNCHANGED <<node, channel, presence, lists, inbox, history>>
    BY <1>6 DEF OnGet, CallbackOf
  <2>2. r.msg \in Message /\ r.msg.id <= S /\ r.server \in {Here, There, None}
    BY <1>2, <2>1, CallFields
  <2>3. EncodeText(r.msg) \in Message /\ EncodeText(r.msg).id <= S
    BY <2>2, EncodedTyped
  <2>4. k \in CmdsTo(S, L) /\ (r.server # None => p \in CmdsTo(S, L))
    BY <1>3, <2>2, <2>3, CmdsMade
  <2>. HIDE DEF r
  <2>5. Queues(r, <<k>>) <=> r.server = None
    BY <2>1 DEF Queues, MsgCmd
  <2>6. r.server # None => Queues(r, <<p>>)
    BY <2>1 DEF Queues
  <2>. HIDE DEF p, k
  <2>7. <<k>> \in Seq(CmdsTo(S, L)) /\ (r.server # None => <<p>> \in Seq(CmdsTo(S, L)))
    BY <2>4, OneReply
  <2>8. \E cs \in Seq(CmdsTo(S, L)) : CallbackRuns(r, cs)
    BY <1>4, <2>1, <2>5, <2>6, <2>7
  <2>. QED
    BY <1>2, <2>8
<1>7. CASE OnPushed \/ OnPushedGroup
  <2>. DEFINE a == UserCmd("ltrim", r.user)
              b == SeqCmd("ltrim group", r.id)
  <2>1. /\ r.call \in {"pushed", "pushed group"}
        /\ \/ Queue(<<>>)
           \/ r.call = "pushed" /\ Queue(<<a>>)
           \/ r.call = "pushed group" /\ Queue(<<b>>)
        /\ UNCHANGED <<node, channel, presence, lists, inbox, history>>
    BY <1>7 DEF OnPushed, OnPushedGroup, CallbackOf
  <2>2. /\ r.call = "pushed" => r.user \in User
        /\ r.call = "pushed group" => r.id \in 1..L
    BY <1>2, <2>1, CallFields DEF GroupCalls
  <2>3. /\ r.call = "pushed" => a \in CmdsTo(S, L)
        /\ r.call = "pushed group" => b \in CmdsTo(S, L)
    BY <1>3, <2>2, CmdsMade DEF UserOps, SeqOps
  <2>. HIDE DEF r
  <2>4. /\ Queues(r, <<>>)
        /\ r.call = "pushed" => Queues(r, <<a>>)
        /\ r.call = "pushed group" => Queues(r, <<b>>)
    BY <2>1 DEF Queues
  <2>. HIDE DEF a, b
  <2>5. /\ <<>> \in Seq(CmdsTo(S, L))
        /\ r.call = "pushed" => <<a>> \in Seq(CmdsTo(S, L))
        /\ r.call = "pushed group" => <<b>> \in Seq(CmdsTo(S, L))
    BY <2>3, OneReply, NoCmd
  <2>6. \E cs \in Seq(CmdsTo(S, L)) : CallbackRuns(r, cs)
    BY <1>4, <2>1, <2>4, <2>5
  <2>. QED
    BY <1>2, <2>6
<1>8. CASE OnSort
  <2>1. r.call = "sorted" /\ Queue(<<>>)
    BY <1>8 DEF OnSort, CallbackOf
  <2>2. Queues(r, <<>>)
    BY <2>1 DEF Queues
  <2>3. CallbackRuns(r, <<>>)
    BY <1>1, <1>8, <2>1, <2>2 DEF OnSort, CallbackRuns, Queue, node, presence, lists, marks
  <2>. QED
    BY <1>2, <2>3, NoCmd
<1>9. CASE OnDiff
  <2>. DEFINE c == [op |-> "incr", id |-> r.id, users |-> r.users]
  <2>1. /\ r.call = "differ" /\ Queue(<<c>>)
        /\ UNCHANGED <<node, channel, presence, lists, inbox, history>>
    BY <1>9 DEF OnDiff, CallbackOf
  <2>2. r.id \in 1..L /\ r.users \in SUBSET User
    BY <1>2, <2>1, CallFields DEF GroupCalls
  <2>3. c \in CmdsTo(S, L)
    BY <1>3, <2>2, CmdsMade
  <2>. HIDE DEF r
  <2>4. Queues(r, <<c>>)
    BY <2>1 DEF Queues
  <2>. HIDE DEF c
  <2>5. CallbackRuns(r, <<c>>)
    BY <1>4, <2>1, <2>3, <2>4, OneReply
  <2>. QED
    BY <1>2, <2>3, <2>5, OneReply
<1>. QED
  BY <1>5, <1>6, <1>7, <1>8, <1>9 DEF Callback

-----------------------------------------------------------------------------
\* Presence.
LEMMA QueuesAre ==
  ASSUME LinesTyped
  PROVE  pipe \in Seq(Commands) /\ replies \in Seq(Calls)
<1>1. CmdsTo(S, L) \subseteq Commands /\ CallsTo(S, L) \subseteq Calls
  BY DEF CmdsTo, CallsTo
<1>. QED
  BY <1>1, SeqMonotonic DEF LinesTyped

\* Commands about messages change nothing.
LEMMA OnlineQuiet ==
  ASSUME NEW p \in Seq(Commands), NEW t \in Seq(Commands), NEW b \in BOOLEAN, NEW u,
         \A i \in 1..Len(t) : t[i] \notin SetsOf(u) \cup DelsOf(u)
  PROVE  OnlineAfter(p \o t, b, u) = OnlineAfter(p, b, u)
<1>1. OnlineAfter(p \o t, b, u) <=> After(t, SetsOf(u), DelsOf(u), OnlineAfter(p, b, u))
  BY Apart, AfterConcat DEF OnlineAfter
<1>2. After(t, SetsOf(u), DelsOf(u), OnlineAfter(p, b, u)) <=> OnlineAfter(p, b, u)
  BY AfterNone, AfterBool DEF OnlineAfter
<1>. QED
  BY <1>1, <1>2, AfterBool DEF OnlineAfter

LEMMA QuietAdds ==
  ASSUME NEW p \in Seq(Commands), NEW t \in Seq(Commands), NEW q, NEW b \in BOOLEAN, NEW u, NEW g,
         \A i \in 1..Len(t) : t[i].op \notin PresenceOps
  PROVE  /\ OnlineAfter(p \o t, b, u) = OnlineAfter(p, b, u)
         /\ GroupSoon(p \o t, q, b, u, g) = GroupSoon(p, q, b, u, g)
         /\ GroupAfter(p \o t, q, b, u, g) = GroupAfter(p, q, b, u, g)
<1>1. \A i \in 1..Len(t) : /\ t[i] \notin SetsOf(u) \cup DelsOf(u)
                           /\ t[i] \notin JoinsOf(u) \cup LeavesOf(u)
                           /\ t[i] \notin SaddsOf(u, g) \cup SremsOf(u, g)
  BY DEF PresenceOps, SetsOf, DelsOf, JoinsOf, LeavesOf, SaddsOf, SremsOf
<1>2. After(t, JoinsOf(u), LeavesOf(u), GroupAfter(p, q, b, u, g)) = GroupAfter(p, q, b, u, g)
  BY <1>1, AfterNone, AfterBool DEF GroupAfter
<1>3. OnlineAfter(p \o t, b, u) = OnlineAfter(p, b, u)
  BY <1>1, OnlineQuiet
<1>. QED
  BY <1>1, <1>2, <1>3, PipeAdds

\* Redis executes what is queued, and online:<u> comes to the same end.
LEMMA RedisOnline ==
  ASSUME Typed, NEW c \in Commands, RedisReplies(c), RedisStores(c), NEW u \in User
  PROVE  OnlineEnd(u)' = OnlineEnd(u)
<1>p. pipe \in Seq(Commands) /\ pipe # <<>> /\ Head(pipe) = c /\ pipe' = Tail(pipe)
  BY QueuesAre DEF Typed, RedisReplies
<1>. DEFINE b == online[u] = Here
            d == online'[u] = Here
<1>0. b \in BOOLEAN /\ d \in BOOLEAN /\ b = (online[u] = Here) /\ d = (online'[u] = Here)
  OBVIOUS
<1>. HIDE DEF b, d
<1>1. (online'[u] = Here) <=> c \in SetsOf(u) \/ (online[u] = Here /\ c \notin DelsOf(u))
  <2>1. c.op \in {"set", "del"} => c.user \in User
    BY CmdFields DEF UserOps
  <2>2. None # Here
    BY WebAssumption
  <2>. QED
    BY <2>1, <2>2 DEF RedisStores, SetsOf, DelsOf, Typed, StoreTyped
<1>2. After(pipe, SetsOf(u), DelsOf(u), b)
        <=> After(Tail(pipe), SetsOf(u), DelsOf(u),
                  Head(pipe) \in SetsOf(u) \/ (b /\ Head(pipe) \notin DelsOf(u)))
  <2>1. SetsOf(u) \cap DelsOf(u) = {}
    BY Apart
  <2>. QED
    BY <1>p, <1>0, <2>1, AfterHead
<1>3. d = (Head(pipe) \in SetsOf(u) \/ (b /\ Head(pipe) \notin DelsOf(u)))
  BY <1>p, <1>0, <1>1
<1>4. OnlineEnd(u)' = After(Tail(pipe), SetsOf(u), DelsOf(u), d)
  BY <1>p, <1>0 DEF OnlineEnd, OnlineAfter
<1>5. OnlineEnd(u) = After(pipe, SetsOf(u), DelsOf(u), b)
  BY <1>0 DEF OnlineEnd, OnlineAfter
<1>. QED
  BY <1>2, <1>3, <1>4, <1>5, AfterBool

\* Redis moves what is queued on, and the end it comes to stays the same.
LEMMA RedisSettles ==
  ASSUME Typed, NEW c \in Commands, RedisReplies(c), RedisStores(c), NEW u \in User,
         up \/ c \notin JoinsOf(u) \cup LeavesOf(u)
  PROVE  /\ OnlineEnd(u)' = OnlineEnd(u)
         /\ \A g \in Group : /\ GroupEnd(u, g)' = GroupEnd(u, g)
                             /\ SoonEnd(u, g)' = IF c \in JoinsOf(u) \cup LeavesOf(u)
                                                 THEN c \in JoinsOf(u) ELSE SoonEnd(u, g)
<1>1. /\ pipe \in Seq(Commands) /\ replies \in Seq(Calls)
      /\ pipe # <<>> /\ Head(pipe) = c /\ pipe' = Tail(pipe)
  BY QueuesAre DEF Typed, RedisReplies
<1>2. OnlineEnd(u)' = OnlineEnd(u)
  BY RedisOnline
<1>3. ASSUME NEW g \in Group
      PROVE  /\ GroupEnd(u, g)' = GroupEnd(u, g)
             /\ SoonEnd(u, g)' = IF c \in JoinsOf(u) \cup LeavesOf(u)
                                 THEN c \in JoinsOf(u) ELSE SoonEnd(u, g)
  <2>. DEFINE b == u \in onlineGroup[g]
              d == u \in onlineGroup'[g]
  <2>0. b = (u \in onlineGroup[g]) /\ d = (u \in onlineGroup'[g])
    OBVIOUS
  <2>c. b \in BOOLEAN /\ d \in BOOLEAN
    OBVIOUS
  <2>. HIDE DEF b, d
  <2>1. (u \in onlineGroup'[g]) = (c \in SaddsOf(u, g) \/ (u \in onlineGroup[g] /\ c \notin SremsOf(u, g)))
    <3>1. c.op \in MemberOps => c.user \in User /\ c.group \in Group
      BY CmdFields
    <3>. QED
      BY <3>1 DEF RedisStores, SaddsOf, SremsOf, MemberOps, Typed, StoreTyped
  <2>. DEFINE p == pipe
              q == replies
  <2>a. /\ SoonEnd(u, g) = GroupSoon(p, q, b, u, g)
        /\ GroupEnd(u, g) = GroupAfter(p, q, b, u, g)
        /\ SoonEnd(u, g)' = GroupSoon(Tail(p), replies', d, u, g)
        /\ GroupEnd(u, g)' = GroupAfter(Tail(p), replies', d, u, g)
    BY <1>1, <2>0 DEF SoonEnd, GroupEnd
  <2>b. p \in Seq(Commands) /\ q \in Seq(Calls) /\ p # <<>> /\ Head(p) = c
    BY <1>1
  <2>2. CASE c \notin JoinsOf(u) \cup LeavesOf(u) /\ replies' = replies
    <3>1. /\ d <=> Head(p) \in SaddsOf(u, g) \/ (b /\ Head(p) \notin SremsOf(u, g))
          /\ Head(p) \notin JoinsOf(u) \cup LeavesOf(u)
      BY <2>0, <2>1, <2>2, <2>b, <2>c
    <3>. HIDE DEF p, q
    <3>2. /\ GroupSoon(Tail(p), q, d, u, g) = GroupSoon(p, q, b, u, g)
          /\ GroupAfter(Tail(p), q, d, u, g) = GroupAfter(p, q, b, u, g)
      BY <2>b, <2>c, <3>1, PipeTakes
    <3>. QED
      BY <2>2, <2>a, <3>2 DEF q
  <2>3. CASE \E r \in Calls : c.op \notin SilentOps /\ Answers(c, r) /\ replies' = replies \o <<r>>
    <3>1. PICK r \in Calls : c.op \notin SilentOps /\ Answers(c, r) /\ replies' = replies \o <<r>>
      BY <2>3
    <3>2. c \notin SaddsOf(u, g) \cup SremsOf(u, g)
      BY <3>1 DEF SaddsOf, SremsOf, SilentOps
    <3>3. r \in JoinCallsOf(u) <=> c \in JoinsOf(u)
      BY <3>1 DEF Answers, JoinCallsOf, JoinsOf
    <3>4. r \in LeaveCallsOf(u) <=> c \in LeavesOf(u)
      BY <3>1 DEF Answers, LeaveCallsOf, LeavesOf
    <3>5. d = b
      BY <2>0, <2>1, <3>2
    <3>6. /\ GroupSoon(Tail(p), q \o <<r>>, b, u, g)
               = (c \in JoinsOf(u) \/ (GroupSoon(p, q, b, u, g) /\ c \notin LeavesOf(u)))
          /\ GroupAfter(Tail(p), q \o <<r>>, b, u, g) = GroupAfter(p, q, b, u, g)
      <4>. HIDE DEF p, q
      <4>. QED
        BY <2>b, <2>c, <3>1, <3>2, <3>3, <3>4, PipeAsks
    <3>7. JoinsOf(u) \cap LeavesOf(u) = {} /\ SoonEnd(u, g) \in BOOLEAN
      BY Apart, AfterBool DEF SoonEnd, GroupSoon
    <3>8. SoonEnd(u, g)' = (c \in JoinsOf(u) \/ (SoonEnd(u, g) /\ c \notin LeavesOf(u)))
      BY <2>a, <3>1, <3>5, <3>6
    <3>9. GroupEnd(u, g)' = GroupEnd(u, g)
      BY <2>a, <3>1, <3>5, <3>6
    <3>. QED
      BY <3>7, <3>8, <3>9
  <2>4. c.op \in SilentOps => c \notin JoinsOf(u) \cup LeavesOf(u)
    BY DEF SilentOps, JoinsOf, LeavesOf
  <2>. QED
    BY <2>2, <2>3, <2>4 DEF RedisReplies
<1>. QED
  BY <1>2, <1>3

\* The callbacks of other replies than those of SMEMBERS do nothing to presence.
LEMMA QueuesQuiet ==
  ASSUME NEW r, NEW cs, Queues(r, cs), r.call \notin {"join", "leave"}
  PROVE  \/ cs = <<>>
         \/ \E c : cs = <<c>> /\ c.op \in {"publish", "lpush", "ltrim", "ltrim group", "incr"}
<1>1. ASSUME NEW m PROVE MsgCmd("lpush", m).op = "lpush"
  BY DEF MsgCmd
<1>2. ASSUME NEW v PROVE UserCmd("ltrim", v).op = "ltrim"
  BY DEF UserCmd
<1>3. ASSUME NEW i PROVE SeqCmd("ltrim group", i).op = "ltrim group"
  BY DEF SeqCmd
<1>4. CASE r.call = "got" /\ r.server # None
  <2>. DEFINE c == [op |-> "publish", msg |-> EncodeText(r.msg), to |-> r.server]
  <2>1. cs = <<c>> /\ c.op = "publish"
    BY <1>4 DEF Queues
  <2>. QED
    BY <2>1
<1>5. CASE r.call = "got" /\ r.server = None
  BY <1>1, <1>5 DEF Queues
<1>6. CASE r.call = "pushed"
  BY <1>2, <1>6 DEF Queues
<1>7. CASE r.call = "pushed group"
  BY <1>3, <1>7 DEF Queues
<1>8. CASE r.call = "sorted"
  BY <1>8 DEF Queues
<1>9. CASE r.call = "differ"
  <2>. DEFINE c == [op |-> "incr", id |-> r.id, users |-> r.users]
  <2>1. cs = <<c>> /\ c.op = "incr"
    BY <1>9 DEF Queues
  <2>. QED
    BY <2>1
<1>. QED
  BY <1>4, <1>5, <1>6, <1>7, <1>8, <1>9 DEF Queues

\* The same for a callback.
LEMMA CallbackSettles ==
  ASSUME Typed, CallsKnow, NEW r \in Calls, NEW cs \in Seq(CmdsTo(S, L)), CallbackRuns(r, cs),
         NEW u \in User
  PROVE  /\ OnlineEnd(u)' = OnlineEnd(u)
         /\ \A g \in GroupSet[u] : /\ GroupEnd(u, g)' = GroupEnd(u, g)
                                   /\ SoonEnd(u, g)' = SoonEnd(u, g)
<1>1. /\ pipe \in Seq(Commands) /\ replies \in Seq(Calls)
      /\ replies # <<>> /\ Head(replies) = r /\ replies' = Tail(replies)
      /\ pipe' = pipe \o cs /\ online' = online /\ onlineGroup' = onlineGroup
  BY QueuesAre DEF Typed, CallbackRuns
<1>2. cs \in Seq(Commands)
  <2>1. CmdsTo(S, L) \subseteq Commands
    BY DEF CmdsTo
  <2>. QED
    BY <2>1, SeqMonotonic
<1>3. /\ r.call \in {"join", "leave"} => r.groups = GroupSet[r.user] /\ r.user \in User
      /\ r.call \in {"join", "leave"} => r.groups \in SUBSET Group
  <2>1. Len(replies) \in Nat \ {0} /\ r = replies[1]
    BY <1>1, EmptySeq
  <2>2. 1 \in 1..Len(replies)
    BY <2>1
  <2>. QED
    BY <2>1, <2>2, CallFields DEF CallsKnow
<1>4. CASE r.call \in {"join", "leave"}
  <2>1. PICK op \in MemberOps : /\ cs = ForGroups(op, r)
                                /\ op = IF r.call = "join" THEN "sadd" ELSE "srem"
    BY <1>4 DEF CallbackRuns, Queues, MemberOps
  <2>2. S \in Nat /\ L \in Nat /\ S <= MaxMoves /\ L <= MaxMoves
    BY Counts DEF Typed
  <2>3. /\ \A i \in 1..Len(cs) : \E g \in r.groups : cs[i] = GroupCmd(op, r.user, g)
        /\ \A g \in r.groups : \E i \in 1..Len(cs) : cs[i] = GroupCmd(op, r.user, g)
    BY <1>3, <1>4, <2>1, <2>2, ForGroupsLists
  <2>4. \A i \in 1..Len(cs) : cs[i] \in Commands /\ cs[i].op = op /\ cs[i].user = r.user
    <3>1. \A i \in 1..Len(cs) : cs[i] \in Commands
      BY <1>2, ElementOfSeq
    <3>2. \A v, g : GroupCmd(op, v, g).op = op /\ GroupCmd(op, v, g).user = v
      BY DEF GroupCmd
    <3>. QED
      BY <2>3, <3>1, <3>2
  <2>5. OnlineEnd(u)' = OnlineEnd(u)
    <3>1. \A i \in 1..Len(cs) : cs[i] \notin SetsOf(u) \cup DelsOf(u)
      BY <2>1, <2>4 DEF SetsOf, DelsOf, MemberOps
    <3>. DEFINE b == online[u] = Here
    <3>2. b \in BOOLEAN
      OBVIOUS
    <3>b. b = (online[u] = Here)
      OBVIOUS
    <3>. HIDE DEF b
    <3>3. OnlineAfter(pipe \o cs, b, u) = OnlineAfter(pipe, b, u)
      BY <1>1, <1>2, <3>1, <3>2, OnlineQuiet, SMTT(30)
    <3>. QED
      BY <1>1, <3>b, <3>3 DEF OnlineEnd
  <2>6. ASSUME NEW g \in GroupSet[u]
        PROVE  GroupEnd(u, g)' = GroupEnd(u, g) /\ SoonEnd(u, g)' = SoonEnd(u, g)
    <3>1. \A i \in 1..Len(cs) : cs[i] \notin JoinsOf(u) \cup LeavesOf(u)
      BY <2>1, <2>4 DEF JoinsOf, LeavesOf
    <3>2. ASSUME NEW b \in BOOLEAN
          PROVE  After(cs, SaddsOf(u, g), SremsOf(u, g), b)
                   <=> r \in JoinCallsOf(u) \/ (b /\ r \notin LeaveCallsOf(u))
      <4>1. CASE r.user = u
        <5>1. PICK i \in 1..Len(cs) : cs[i] = GroupCmd(op, u, g)
          BY <1>3, <1>4, <2>3, <4>1
        <5>2. cs[i].group = g
          BY <5>1 DEF GroupCmd
        <5>3. CASE r.call = "join"
          <6>1. cs[i] \in SaddsOf(u, g) /\ \A j \in 1..Len(cs) : cs[j] \notin SremsOf(u, g)
            BY <2>1, <2>4, <4>1, <5>2, <5>3 DEF SaddsOf, SremsOf
          <6>2. r \in JoinCallsOf(u)
            BY <4>1, <5>3 DEF JoinCallsOf
          <6>3. \A j \in (i + 1)..Len(cs) : j \in 1..Len(cs)
            BY <1>2, LenProperties
          <6>. QED
            BY <6>1, <6>2, <6>3 DEF After
        <5>4. CASE r.call = "leave"
          <6>1. cs[i] \in SremsOf(u, g) /\ \A j \in 1..Len(cs) : cs[j] \notin SaddsOf(u, g)
            BY <2>1, <2>4, <4>1, <5>2, <5>4 DEF SaddsOf, SremsOf
          <6>2. r \in LeaveCallsOf(u) /\ r \notin JoinCallsOf(u)
            BY <4>1, <5>4 DEF JoinCallsOf, LeaveCallsOf
          <6>. QED
            BY <6>1, <6>2 DEF After
        <5>. QED
          BY <1>4, <5>3, <5>4
      <4>2. CASE r.user # u
        <5>1. \A j \in 1..Len(cs) : cs[j] \notin SaddsOf(u, g) \cup SremsOf(u, g)
          BY <2>4, <4>2 DEF SaddsOf, SremsOf
        <5>2. r \notin JoinCallsOf(u) /\ r \notin LeaveCallsOf(u)
          BY <4>2 DEF JoinCallsOf, LeaveCallsOf
        <5>. QED
          BY <5>1, <5>2, AfterNone
      <4>. QED
        BY <4>1, <4>2
    <3>. DEFINE b == u \in onlineGroup[g]
    <3>3. b \in BOOLEAN
      OBVIOUS
    <3>b. b = (u \in onlineGroup[g])
      OBVIOUS
    <3>. HIDE DEF b
    <3>4. /\ GroupSoon(pipe \o cs, Tail(replies), b, u, g) = GroupSoon(pipe, replies, b, u, g)
          /\ GroupAfter(pipe \o cs, Tail(replies), b, u, g) = GroupAfter(pipe, replies, b, u, g)
      <4>1. \A c \in BOOLEAN : After(cs, SaddsOf(u, g), SremsOf(u, g), c)
              <=> r \in JoinCallsOf(u) \/ (c /\ r \notin LeaveCallsOf(u))
        BY <3>2
      <4>. QED
        BY <1>1, <1>2, <3>1, <3>3, <4>1, CallAnswers, SMTT(60)
    <3>. QED
      BY <1>1, <3>b, <3>4 DEF GroupEnd, SoonEnd
  <2>. QED
    BY <2>5, <2>6
<1>5. CASE r.call \notin {"join", "leave"}
  <2>1. \A i \in 1..Len(cs) : cs[i].op \notin PresenceOps
    <3>1. \/ cs = <<>>
          \/ \E c : cs = <<c>> /\ c.op \in {"publish", "lpush", "ltrim", "ltrim group", "incr"}
      BY <1>5, QueuesQuiet DEF CallbackRuns
    <3>2. CASE cs = <<>>
      BY <3>2
    <3>3. ASSUME NEW c, cs = <<c>>, c.op \in {"publish", "lpush", "ltrim", "ltrim group", "incr"}
          PROVE  \A i \in 1..Len(cs) : cs[i].op \notin PresenceOps
      <4>1. \A i \in 1..Len(<<c>>) : <<c>>[i] = c
        OBVIOUS
      <4>2. \A i \in 1..Len(cs) : cs[i] = c
        BY <3>3, <4>1
      <4>3. c.op \notin PresenceOps
        BY <3>3 DEF PresenceOps
      <4>. QED
        BY <4>2, <4>3
    <3>. QED
      BY <3>1, <3>2, <3>3
  <2>2. OnlineEnd(u)' = OnlineEnd(u)
    <3>. DEFINE b == online[u] = Here
    <3>1. b \in BOOLEAN
      OBVIOUS
    <3>b. b = (online[u] = Here)
      OBVIOUS
    <3>. HIDE DEF b
    <3>a. \A i \in 1..Len(cs) : cs[i] \notin SetsOf(u) \cup DelsOf(u)
      BY <2>1 DEF SetsOf, DelsOf, PresenceOps
    <3>2. OnlineAfter(pipe \o cs, b, u) = OnlineAfter(pipe, b, u)
      BY <1>1, <1>2, <3>1, <3>a, OnlineQuiet, SMTT(30)
    <3>. QED
      BY <1>1, <3>b, <3>2 DEF OnlineEnd
  <2>3. ASSUME NEW g \in GroupSet[u]
        PROVE  GroupEnd(u, g)' = GroupEnd(u, g) /\ SoonEnd(u, g)' = SoonEnd(u, g)
    <3>1. \A i \in 1..Len(cs) : /\ cs[i] \notin JoinsOf(u) \cup LeavesOf(u)
                                /\ cs[i] \notin SaddsOf(u, g) \cup SremsOf(u, g)
      BY <2>1 DEF PresenceOps, JoinsOf, LeavesOf, SaddsOf, SremsOf
    <3>2. r \notin JoinCallsOf(u) /\ r \notin LeaveCallsOf(u)
      BY <1>5 DEF JoinCallsOf, LeaveCallsOf
    <3>3. \A b \in BOOLEAN : After(cs, SaddsOf(u, g), SremsOf(u, g), b)
            <=> r \in JoinCallsOf(u) \/ (b /\ r \notin LeaveCallsOf(u))
      BY <3>1, <3>2, AfterNone
    <3>. DEFINE b == u \in onlineGroup[g]
    <3>4. b \in BOOLEAN
      OBVIOUS
    <3>b. b = (u \in onlineGroup[g])
      OBVIOUS
    <3>. HIDE DEF b
    <3>5. /\ GroupSoon(pipe \o cs, Tail(replies), b, u, g) = GroupSoon(pipe, replies, b, u, g)
          /\ GroupAfter(pipe \o cs, Tail(replies), b, u, g) = GroupAfter(pipe, replies, b, u, g)
      BY <1>1, <1>2, <3>1, <3>3, <3>4, CallAnswers
    <3>. QED
      BY <1>1, <3>b, <3>5 DEF GroupEnd, SoonEnd
  <2>. QED
    BY <2>2, <2>3
<1>. QED
  BY <1>4, <1>5

\* Nothing is queued about u: the end has come.
LEMMA NoneQueued ==
  ASSUME NEW p, NEW q, NEW b \in BOOLEAN, NEW u, NEW g,
         \A i \in 1..Len(p) : p[i].op \in PresenceOps => p[i].user # u,
         \A i \in 1..Len(q) : q[i].call \in {"join", "leave"} => q[i].user # u
  PROVE  GroupSoon(p, q, b, u, g) = b /\ GroupAfter(p, q, b, u, g) = b
<1>1. \A i \in 1..Len(p) : /\ p[i] \notin JoinsOf(u) \cup LeavesOf(u)
                           /\ p[i] \notin SaddsOf(u, g) \cup SremsOf(u, g)
  BY DEF PresenceOps, JoinsOf, LeavesOf, SaddsOf, SremsOf
<1>2. \A i \in 1..Len(q) : q[i] \notin JoinCallsOf(u) \cup LeaveCallsOf(u)
  BY DEF JoinCallsOf, LeaveCallsOf
<1>4. After(p, SaddsOf(u, g), SremsOf(u, g), b) = b
  BY <1>1, AfterNone, AfterBool
<1>5. GroupSoon(p, q, b, u, g) = b
  BY <1>2, <1>4, AfterNone, AfterBool DEF GroupSoon
<1>6. GroupAfter(p, q, b, u, g) = b
  BY <1>1, <1>5, AfterNone, AfterBool DEF GroupAfter
<1>. QED
  BY <1>5, <1>6

LEMMA UntouchedEnds ==
  ASSUME NEW u \in User, NEW g, u \notin Touching(PresenceOps, {"join", "leave"})
  PROVE  /\ OnlineEnd(u) = (online[u] = Here)
         /\ SoonEnd(u, g) = (u \in onlineGroup[g]) /\ GroupEnd(u, g) = (u \in onlineGroup[g])
<1>. DEFINE b == online[u] = Here
            d == u \in onlineGroup[g]
<1>1. b \in BOOLEAN /\ d \in BOOLEAN
  OBVIOUS
<1>2. b = (online[u] = Here) /\ d = (u \in onlineGroup[g])
  OBVIOUS
<1>. HIDE DEF b, d
<1>3. /\ \A i \in 1..Len(pipe) : pipe[i].op \in PresenceOps => pipe[i].user # u
      /\ \A i \in 1..Len(replies) : replies[i].call \in {"join", "leave"} => replies[i].user # u
  <2>1. ASSUME NEW i \in 1..Len(pipe), pipe[i].op \in PresenceOps PROVE pipe[i].user # u
    BY <2>1 DEF Touching
  <2>2. ASSUME NEW i \in 1..Len(replies), replies[i].call \in {"join", "leave"}
        PROVE  replies[i].user # u
    BY <2>2 DEF Touching
  <2>. QED
    BY <2>1, <2>2
<1>4. OnlineAfter(pipe, b, u) = b
  <2>1. \A i \in 1..Len(pipe) : pipe[i] \notin SetsOf(u) \cup DelsOf(u)
    BY <1>3 DEF SetsOf, DelsOf, PresenceOps
  <2>. QED
    BY <1>1, <2>1, AfterNone, AfterBool DEF OnlineAfter
<1>5. GroupSoon(pipe, replies, d, u, g) = d /\ GroupAfter(pipe, replies, d, u, g) = d
  BY <1>1, <1>3, NoneQueued
<1>. QED
  BY <1>2, <1>4, <1>5 DEF OnlineEnd, SoonEnd, GroupEnd

LEMMA AfterTwo ==
  ASSUME NEW a, NEW c, NEW yes, NEW no, NEW b \in BOOLEAN, yes \cap no = {}
  PROVE  After(<<a, c>>, yes, no, b) <=> c \in yes \/ ((a \in yes \/ (b /\ a \notin no)) /\ c \notin no)
<1>1. /\ Len(<<a, c>>) = 2 /\ <<a, c>>[1] = a /\ <<a, c>>[2] = c
      /\ 1..2 = {1, 2} /\ (1 + 1)..2 = {2} /\ (2 + 1)..2 = {}
  OBVIOUS
<1>. QED
  BY <1>1 DEF After

\* What a page adds when its user shakes hands, and when she disconnects.
Greets(v, here) ==
  IF here THEN <<UserCmd("set", v), UserCmd("smembers to join", v)>>
          ELSE <<UserCmd("del", v), UserCmd("smembers to leave", v)>>

LEMMA GreetAfter ==
  ASSUME NEW v \in User, NEW here \in BOOLEAN, NEW u, NEW b \in BOOLEAN
  PROVE  /\ Greets(v, here) \in Seq(Commands)
         /\ After(Greets(v, here), SetsOf(u), DelsOf(u), b) = IF u = v THEN here ELSE b
         /\ After(Greets(v, here), JoinsOf(u), LeavesOf(u), b) = IF u = v THEN here ELSE b
         /\ \A g : \A i \in 1..Len(Greets(v, here)) :
              Greets(v, here)[i] \notin SaddsOf(u, g) \cup SremsOf(u, g)
<1>. DEFINE x == UserCmd(IF here THEN "set" ELSE "del", v)
            y == UserCmd(IF here THEN "smembers to join" ELSE "smembers to leave", v)
<1>1. Greets(v, here) = <<x, y>>
  BY DEF Greets
<1>2. /\ x \in Commands /\ x.op = (IF here THEN "set" ELSE "del") /\ x.user = v
      /\ y \in Commands /\ y.op = (IF here THEN "smembers to join" ELSE "smembers to leave")
      /\ y.user = v
  <2>1. \A op \in {"set", "del", "smembers to join", "smembers to leave"} :
          UserCmd(op, v) \in Commands /\ UserCmd(op, v).op = op /\ UserCmd(op, v).user = v
    BY DEF UserCmd, Commands
  <2>. QED
    BY <2>1
<1>. HIDE DEF x, y
<1>3. <<x, y>> \in Seq(Commands)
  <2>1. x \in Commands /\ y \in Commands
    BY <1>2
  <2>. QED
    BY <2>1
<1>4. After(<<x, y>>, SetsOf(u), DelsOf(u), b)
        <=> y \in SetsOf(u) \/ ((x \in SetsOf(u) \/ (b /\ x \notin DelsOf(u))) /\ y \notin DelsOf(u))
  BY Apart, AfterTwo
<1>5. After(<<x, y>>, JoinsOf(u), LeavesOf(u), b)
        <=> y \in JoinsOf(u) \/ ((x \in JoinsOf(u) \/ (b /\ x \notin LeavesOf(u))) /\ y \notin LeavesOf(u))
  BY Apart, AfterTwo
<1>6. After(<<x, y>>, SetsOf(u), DelsOf(u), b) = IF u = v THEN here ELSE b
  BY <1>2, <1>4, AfterBool DEF SetsOf, DelsOf
<1>7. After(<<x, y>>, JoinsOf(u), LeavesOf(u), b) = IF u = v THEN here ELSE b
  BY <1>2, <1>5, AfterBool DEF JoinsOf, LeavesOf
<1>8. ASSUME NEW g
      PROVE  \A i \in 1..Len(<<x, y>>) : <<x, y>>[i] \notin SaddsOf(u, g) \cup SremsOf(u, g)
  <2>1. x \notin SaddsOf(u, g) \cup SremsOf(u, g) /\ y \notin SaddsOf(u, g) \cup SremsOf(u, g)
    BY <1>2 DEF SaddsOf, SremsOf
  <2>2. \A i \in 1..Len(<<x, y>>) : <<x, y>>[i] = x \/ <<x, y>>[i] = y
    OBVIOUS
  <2>. QED
    BY <2>1, <2>2
<1>. QED
  BY <1>1, <1>3, <1>6, <1>7, <1>8

LEMMA GreetSettles ==
  ASSUME Typed, NEW v \in User, NEW here \in BOOLEAN, pipe' = pipe \o Greets(v, here),
         UNCHANGED <<replies, online, onlineGroup>>, NEW u \in User
  PROVE  /\ OnlineEnd(u)' = IF u = v THEN here ELSE OnlineEnd(u)
         /\ \A g \in Group : /\ GroupEnd(u, g)' = IF u = v THEN here ELSE GroupEnd(u, g)
                             /\ SoonEnd(u, g)' = SoonEnd(u, g)
<1>1. pipe \in Seq(Commands) /\ replies' = replies /\ online' = online /\ onlineGroup' = onlineGroup
  BY QueuesAre DEF Typed
<1>2. OnlineEnd(u)' = IF u = v THEN here ELSE OnlineEnd(u)
  <2>. DEFINE b == online[u] = Here
              t == Greets(v, here)
  <2>1. b \in BOOLEAN
    OBVIOUS
  <2>2. b = (online[u] = Here)
    OBVIOUS
  <2>3. t \in Seq(Commands)
    BY GreetAfter
  <2>. HIDE DEF b, t
  <2>4. SetsOf(u) \cap DelsOf(u) = {}
    BY Apart
  <2>. DEFINE e == After(pipe, SetsOf(u), DelsOf(u), b)
  <2>5. After(pipe \o t, SetsOf(u), DelsOf(u), b) <=> After(t, SetsOf(u), DelsOf(u), e)
    BY <1>1, <2>1, <2>3, <2>4, AfterConcat
  <2>6. e \in BOOLEAN
    BY AfterBool
  <2>. HIDE DEF e
  <2>7. After(t, SetsOf(u), DelsOf(u), e) = IF u = v THEN here ELSE e
    BY <2>6, GreetAfter DEF t
  <2>8. After(pipe \o t, SetsOf(u), DelsOf(u), b) = IF u = v THEN here ELSE e
    BY <2>5, <2>7, AfterBool
  <2>. QED
    BY <1>1, <2>2, <2>8 DEF OnlineEnd, OnlineAfter, t, e
<1>3. ASSUME NEW g \in Group
      PROVE  /\ GroupEnd(u, g)' = IF u = v THEN here ELSE GroupEnd(u, g)
             /\ SoonEnd(u, g)' = SoonEnd(u, g)
  <2>. DEFINE b == u \in onlineGroup[g]
              t == Greets(v, here)
              e == GroupAfter(pipe, replies, b, u, g)
  <2>1. b \in BOOLEAN
    OBVIOUS
  <2>2. b = (u \in onlineGroup[g])
    OBVIOUS
  <2>3. t \in Seq(Commands) /\ \A i \in 1..Len(t) : t[i] \notin SaddsOf(u, g) \cup SremsOf(u, g)
    BY GreetAfter
  <2>. HIDE DEF b, t
  <2>4. /\ GroupSoon(pipe \o t, replies, b, u, g) = GroupSoon(pipe, replies, b, u, g)
        /\ GroupAfter(pipe \o t, replies, b, u, g) = After(t, JoinsOf(u), LeavesOf(u), e)
    BY <1>1, <2>1, <2>3, PipeAdds
  <2>5. e \in BOOLEAN
    BY AfterBool DEF GroupAfter
  <2>. HIDE DEF e
  <2>6. After(t, JoinsOf(u), LeavesOf(u), e) = IF u = v THEN here ELSE e
    BY <2>5, GreetAfter DEF t
  <2>. QED
    BY <1>1, <2>2, <2>4, <2>6 DEF GroupEnd, SoonEnd, t, e
<1>. QED
  BY <1>2, <1>3

\* A step after which every user comes to the same end, and is present as before.
LEMMA SettledKept ==
  ASSUME Settled, foreign \subseteq foreign', gone \subseteq gone',
         \A u \in User \ (foreign' \cup gone') :
           /\ OnlineEnd(u)' = OnlineEnd(u) /\ userIdMap'[u] = userIdMap[u]
           /\ \A g \in GroupSet[u] : GroupEnd(u, g)' = GroupEnd(u, g)
  PROVE  Settled'
BY DEF Settled, Present

LEMMA IdleSettles ==
  ASSUME PresenceInv, up' \/ ~up,
         UNCHANGED <<userIdMap, pipe, replies, online, onlineGroup, foreign, gone>>
  PROVE  PresenceInv'
<1>1. \A u \in User : /\ OnlineEnd(u)' = OnlineEnd(u) /\ userIdMap'[u] = userIdMap[u]
                      /\ \A g \in GroupSet[u] : GroupEnd(u, g)' = GroupEnd(u, g)
  BY DEF OnlineEnd, GroupEnd
<1>2. Settled'
  BY <1>1, SettledKept DEF PresenceInv
<1>3. CallsKnow' /\ DownTouched'
  BY DEF PresenceInv, CallsKnow, DownTouched, Touching
<1>. QED
  BY <1>2, <1>3 DEF PresenceInv

\* A message of a page.
LEMMA MessageSettles ==
  ASSUME Typed, PresenceInv, up, UNCHANGED <<up, userIdMap, replies, online, onlineGroup, foreign, gone>>,
         NEW t \in Seq(Commands), pipe' = pipe \o t, \A i \in 1..Len(t) : t[i].op \notin PresenceOps
  PROVE  PresenceInv'
<1>1. pipe \in Seq(Commands)
  BY QueuesAre DEF Typed
<1>2. ASSUME NEW u \in User, NEW g
      PROVE  OnlineEnd(u)' = OnlineEnd(u) /\ GroupEnd(u, g)' = GroupEnd(u, g)
  <2>. DEFINE b == online[u] = Here
              d == u \in onlineGroup[g]
  <2>1. b \in BOOLEAN /\ d \in BOOLEAN
    OBVIOUS
  <2>2. b = (online[u] = Here) /\ d = (u \in onlineGroup[g])
    OBVIOUS
  <2>. HIDE DEF b, d
  <2>3. \A i \in 1..Len(t) : t[i] \notin SetsOf(u) \cup DelsOf(u)
    BY DEF SetsOf, DelsOf, PresenceOps
  <2>4. OnlineAfter(pipe \o t, b, u) = OnlineAfter(pipe, b, u)
    BY <1>1, <2>1, <2>3, OnlineQuiet
  <2>5. GroupAfter(pipe \o t, replies, d, u, g) = GroupAfter(pipe, replies, d, u, g)
    BY <1>1, <2>1, QuietAdds
  <2>. QED
    BY <2>2, <2>4, <2>5 DEF OnlineEnd, GroupEnd
<1>3. Settled'
  BY <1>2, SettledKept DEF PresenceInv
<1>. QED
  BY <1>3 DEF PresenceInv, CallsKnow, DownTouched

\* The pages.
LEMMA PagesSettle ==
  ASSUME Typed, Registered, PresenceInv, Pages
  PROVE  PresenceInv'
<1>1. PICK k \in Sock : \/ Connect(k) \/ HandleShake(k) \/ DisconnectStranger(k) \/ Disconnect(k)
                        \/ \E u \in User : PeerMessage(k, u)
                        \/ \E g \in Group : GroupMessage(k, g)
  BY DEF Pages
<1>2. CASE Connect(k) \/ DisconnectStranger(k)
  <2>1. up /\ UNCHANGED <<up, userIdMap, pipe, replies, online, onlineGroup, foreign, gone>>
    BY <1>2 DEF Connect, DisconnectStranger, Open, lines, presence, history
  <2>. QED
    BY <2>1, IdleSettles
<1>3. ASSUME NEW v \in User, NEW here \in BOOLEAN, up, up',
             pipe' = pipe \o Greets(v, here), UNCHANGED <<replies, online, onlineGroup, foreign, gone>>,
             userIdMap'[v] # None <=> here, \A u \in User \ {v} : userIdMap'[u] = userIdMap[u]
      PROVE  PresenceInv'
  <2>1. ASSUME NEW u \in User \ (foreign' \cup gone')
        PROVE  /\ OnlineEnd(u)' = Present(u)'
               /\ \A g \in GroupSet[u] : GroupEnd(u, g)' = Present(u)'
    <3>1. /\ OnlineEnd(u) = Present(u)
          /\ \A g \in GroupSet[u] : GroupEnd(u, g) = Present(u)
      BY <1>3 DEF PresenceInv, Settled
    <3>2. GroupSet[u] \subseteq Group
      BY WebAssumption
    <3>3. /\ OnlineEnd(u)' = IF u = v THEN here ELSE OnlineEnd(u)
          /\ \A g \in Group : GroupEnd(u, g)' = IF u = v THEN here ELSE GroupEnd(u, g)
      BY <1>3, GreetSettles
    <3>4. Present(u)' = IF u = v THEN here ELSE Present(u)
      BY <1>3 DEF Present
    <3>. QED
      BY <3>1, <3>2, <3>3, <3>4
  <2>. QED
    BY <1>3, <2>1 DEF PresenceInv, Settled, CallsKnow, DownTouched
<1>4. CASE HandleShake(k)
  <2>1. UserOf[k] \in User /\ k # None
    BY WebAssumption
  <2>2. /\ up /\ up' /\ pipe' = pipe \o Greets(UserOf[k], TRUE)
        /\ UNCHANGED <<replies, online, onlineGroup, foreign, gone>>
        /\ userIdMap' = [userIdMap EXCEPT ![UserOf[k]] = k]
    BY <1>4 DEF HandleShake, Open, Greets, presence, history
  <2>. QED
    BY <1>3, <2>1, <2>2 DEF Typed, NodeTyped
<1>5. CASE Disconnect(k)
  <2>1. PICK v \in User : v = socketMap[k]
    BY <1>5 DEF Disconnect, Typed, NodeTyped
  <2>2. /\ up /\ up' /\ pipe' = pipe \o Greets(v, FALSE)
        /\ UNCHANGED <<replies, online, onlineGroup, foreign, gone>>
        /\ userIdMap' = [userIdMap EXCEPT ![v] = None]
    BY <1>5, <2>1 DEF Disconnect, Open, Greets, presence
  <2>. QED
    BY <1>3, <2>2 DEF Typed, NodeTyped
<1>6. ASSUME NEW u \in User, PeerMessage(k, u)
      PROVE  PresenceInv'
  <2>. DEFINE c == MsgCmd("get", [id |-> Len(sent) + 1, to |-> u, text |-> "utf8"])
  <2>1. c \in Commands /\ c.op = "get"
    <3>1. [id |-> Len(sent) + 1, to |-> u, text |-> "utf8"] \in Message
      BY <1>6, MessageTyped DEF PeerMessage, S
    <3>. QED
      BY <3>1 DEF MsgCmd, Commands
  <2>2. pipe' = Append(pipe, c) /\ up /\ UNCHANGED <<up, userIdMap, replies, online, onlineGroup, foreign, gone>>
    BY <1>6 DEF PeerMessage, Open, node, presence
  <2>. HIDE DEF c
  <2>3. pipe' = pipe \o <<c>> /\ <<c>> \in Seq(Commands)
    <3>1. pipe \in Seq(Commands) /\ c \in Commands
      BY <2>1, QueuesAre DEF Typed
    <3>2. Append(pipe, c) = pipe \o <<c>>
      BY <3>1, AppendIsConcat
    <3>3. <<c>> \in Seq(Commands)
      BY <3>1
    <3>. QED
      BY <2>2, <3>2, <3>3
  <2>4. \A i \in 1..Len(<<c>>) : <<c>>[i].op \notin PresenceOps
    <3>1. c.op \notin PresenceOps
      BY <2>1 DEF PresenceOps
    <3>2. \A i \in 1..Len(<<c>>) : <<c>>[i] = c
      OBVIOUS
    <3>. QED
      BY <3>1, <3>2
  <2>. QED
    BY <2>2, <2>3, <2>4, MessageSettles
<1>7. ASSUME NEW g \in Group, GroupMessage(k, g)
      PROVE  PresenceInv'
  <2>. DEFINE x == SeqCmd("sort", L + 1)
              y == SeqCmd("lpush group", L + 1)
              z == SeqCmd("sdiff", L + 1)
              t == <<x, y, z>>
  <2>1. /\ x \in Commands /\ x.op = "sort" /\ y \in Commands /\ y.op = "lpush group"
        /\ z \in Commands /\ z.op = "sdiff"
    <3>1. L + 1 \in 1..MaxMoves
      <4>1. Move /\ UserOf[k] \in User
        BY <1>7, WebAssumption DEF GroupMessage
      <4>. QED
        BY <4>1, MessageTyped
    <3>. QED
      BY <3>1 DEF SeqCmd, Commands
  <2>2. pipe' = pipe \o t /\ up /\ UNCHANGED <<up, userIdMap, replies, online, onlineGroup, foreign, gone>>
    BY <1>7 DEF GroupMessage, Open, node, presence, L
  <2>. HIDE DEF x, y, z
  <2>3. t \in Seq(Commands)
    <3>1. x \in Commands /\ y \in Commands /\ z \in Commands
      BY <2>1
    <3>. QED
      BY <3>1
  <2>4. \A i \in 1..Len(t) : t[i].op \notin PresenceOps
    <3>1. x.op \notin PresenceOps /\ y.op \notin PresenceOps /\ z.op \notin PresenceOps
      BY <2>1 DEF PresenceOps
    <3>2. \A i \in 1..Len(t) : t[i] = x \/ t[i] = y \/ t[i] = z
      OBVIOUS
    <3>. QED
      BY <3>1, <3>2
  <2>. HIDE DEF t
  <2>. QED
    BY <2>2, <2>3, <2>4, MessageSettles
<1>. QED
  BY <1>1, <1>2, <1>4, <1>5, <1>6, <1>7

\* Redis.
LEMMA RedisSettled ==
  ASSUME Typed, Registered, PresenceInv, Redis
  PROVE  PresenceInv'
<1>1. PICK c \in Commands : RedisReplies(c) /\ RedisStores(c)
  BY RedisIs
<1>2. /\ pipe \in Seq(Commands) /\ replies \in Seq(Calls) /\ pipe # <<>> /\ Head(pipe) = c
      /\ pipe' = Tail(pipe) /\ UNCHANGED <<up, userIdMap, gone, foreign>>
  BY <1>1, QueuesAre DEF Typed, RedisReplies
<1>3. /\ Len(pipe) \in Nat /\ Len(pipe) >= 1 /\ c = pipe[1]
      /\ Len(pipe') = Len(pipe) - 1 /\ \A i \in 1..Len(pipe') : i + 1 \in 1..Len(pipe) /\ pipe'[i] = pipe[i + 1]
  BY <1>2, HeadTailProperties, EmptySeq
<1>4. Settled'
  <2>1. ASSUME NEW u \in User \ (foreign' \cup gone')
        PROVE  /\ OnlineEnd(u)' = OnlineEnd(u)
               /\ \A g \in GroupSet[u] : GroupEnd(u, g)' = GroupEnd(u, g)
    <3>1. ~up => c \notin JoinsOf(u) \cup LeavesOf(u)
      <4>1. ASSUME ~up, c.op \in PresenceOps PROVE c.user \in gone
        <5>1. c.user \in Touching(PresenceOps, {"join", "leave"})
          BY <1>3, <4>1 DEF Touching
        <5>. QED
          BY <4>1, <5>1 DEF PresenceInv, DownTouched
      <4>. QED
        BY <1>2, <4>1 DEF JoinsOf, LeavesOf, PresenceOps
    <3>2. GroupSet[u] \subseteq Group
      BY WebAssumption
    <3>. QED
      BY <1>1, <3>1, <3>2, RedisSettles
  <2>. QED
    BY <1>2, <2>1, SettledKept DEF PresenceInv
<1>5. CallsKnow'
  <2>1. CASE replies' = replies
    BY <2>1 DEF PresenceInv, CallsKnow
  <2>2. ASSUME NEW r \in Calls, Answers(c, r), replies' = replies \o <<r>>
        PROVE  CallsKnow'
    <3>1. r.call \in {"join", "leave"} => r.groups = GroupSet[r.user]
      BY <2>2 DEF Answers
    <3>2. \A i \in 1..Len(replies') : replies'[i] = r \/ (i \in 1..Len(replies) /\ replies'[i] = replies[i])
      <4>1. replies' = Append(replies, r)
        BY <1>2, <2>2, AppendIsConcat
      <4>. QED
        BY <1>2, <4>1
    <3>. QED
      BY <3>1, <3>2 DEF PresenceInv, CallsKnow
  <2>. QED
    BY <1>1, <2>1, <2>2 DEF RedisReplies
<1>6. DownTouched'
  <2>1. ASSUME ~up
        PROVE  (Touching(PresenceOps, {"join", "leave"}))' \subseteq Touching(PresenceOps, {"join", "leave"})
    <3>1. replies' = replies
      BY <1>1, <2>1 DEF RedisReplies
    <3>. QED
      BY <1>3, <3>1, SMTT(30) DEF Touching
  <2>. QED
    BY <1>2, <2>1 DEF PresenceInv, DownTouched
<1>. QED
  BY <1>4, <1>5, <1>6 DEF PresenceInv

\* The callbacks.
LEMMA CallbackSettled ==
  ASSUME Typed, PresenceInv, Callback
  PROVE  PresenceInv'
<1>1. PICK r \in Calls, cs \in Seq(CmdsTo(S, L)) : CallbackRuns(r, cs)
  BY CallbackIs
<1>2. /\ replies \in Seq(Calls) /\ replies # <<>> /\ replies' = Tail(replies)
      /\ up /\ UNCHANGED <<up, userIdMap, gone, foreign>>
  BY <1>1, QueuesAre DEF Typed, CallbackRuns
<1>3. Settled'
  <2>1. \A u \in User : /\ OnlineEnd(u)' = OnlineEnd(u)
                        /\ \A g \in GroupSet[u] : GroupEnd(u, g)' = GroupEnd(u, g)
    BY <1>1, CallbackSettles DEF PresenceInv
  <2>. QED
    BY <1>2, <2>1, SettledKept DEF PresenceInv
<1>4. CallsKnow'
  <2>1. /\ Len(replies) \in Nat /\ Len(replies') = Len(replies) - 1
        /\ \A i \in 1..Len(replies') : i + 1 \in 1..Len(replies) /\ replies'[i] = replies[i + 1]
    BY <1>2, HeadTailProperties, EmptySeq
  <2>. QED
    BY <2>1 DEF PresenceInv, CallsKnow
<1>. QED
  BY <1>2, <1>3, <1>4 DEF PresenceInv, DownTouched

\* A message server changes the presence of a user in foreign, or a list of messages.
Serves(v) ==
  /\ UNCHANGED <<up, userIdMap, pipe, replies, gone, groupLog>>
  /\ foreign' = foreign \cup {v}
  /\ \A u \in User \ {v} : /\ online'[u] = online[u]
                           /\ \A g \in Group : (u \in onlineGroup'[g]) = (u \in onlineGroup[g])

ServesList == UNCHANGED <<up, userIdMap, pipe, replies, gone, groupLog, online, onlineGroup, foreign>>

LEMMA ServersAre ==
  ASSUME Typed, MessageServer
  PROVE  ServesList \/ \E v \in User : Serves(v)
<1>1. PICK v \in User : \/ RemoteSet(v) \/ RemoteDel(v)
                        \/ \E g \in Group : RemoteSadd(v, g) \/ RemoteSrem(v, g)
                        \/ RemotePush(v) \/ RemoteTrim(v) \/ RemoteDelUnread(v)
  BY DEF MessageServer
<1>2. CASE RemoteSet(v) \/ RemoteDel(v)
  <2>1. /\ UNCHANGED <<up, userIdMap, pipe, replies, gone, groupLog, onlineGroup>>
        /\ foreign' = foreign \cup {v}
        /\ \A u \in User \ {v} : online'[u] = online[u]
    BY <1>2 DEF RemoteSet, RemoteDel, node, lines, Typed, StoreTyped
  <2>. QED
    BY <2>1 DEF Serves
<1>3. ASSUME NEW h \in Group, RemoteSadd(v, h) \/ RemoteSrem(v, h)
      PROVE  Serves(v)
  <2>1. /\ UNCHANGED <<up, userIdMap, pipe, replies, gone, groupLog, online>>
        /\ foreign' = foreign \cup {v}
        /\ \/ onlineGroup' = [onlineGroup EXCEPT ![h] = onlineGroup[h] \cup {v}]
           \/ onlineGroup' = [onlineGroup EXCEPT ![h] = onlineGroup[h] \ {v}]
    BY <1>3 DEF RemoteSadd, RemoteSrem, node, lines
  <2>2. DOMAIN onlineGroup = Group
    BY DEF Typed, StoreTyped
  <2>3. ASSUME NEW u \in User \ {v}, NEW g \in Group
        PROVE  (u \in onlineGroup'[g]) = (u \in onlineGroup[g])
    <3>1. u \in onlineGroup'[g] <=> u \in onlineGroup[g]
      BY <2>1, <2>2
    <3>. QED
      BY <3>1
  <2>. QED
    BY <2>1, <2>3 DEF Serves
<1>4. CASE RemotePush(v) \/ RemoteTrim(v) \/ RemoteDelUnread(v)
  BY <1>4 DEF RemotePush, RemoteTrim, RemoteDelUnread, node, lines, presence, ServesList
<1>. QED
  BY <1>1, <1>2, <1>3, <1>4

LEMMA ServerSettled ==
  ASSUME Typed, PresenceInv, MessageServer
  PROVE  PresenceInv'
<1>0. CASE ServesList
  BY <1>0, IdleSettles DEF ServesList, Typed, NodeTyped
<1>9. SUFFICES ASSUME NEW v \in User, Serves(v) PROVE PresenceInv'
  BY <1>0, ServersAre
<1>1. /\ foreign' = foreign \cup {v}
      /\ UNCHANGED <<up, userIdMap, pipe, replies, gone>>
      /\ \A u \in User \ {v} : /\ online'[u] = online[u]
                               /\ \A g \in Group : (u \in onlineGroup'[g]) = (u \in onlineGroup[g])
  BY <1>9 DEF Serves
<1>2. ASSUME NEW u \in User \ (foreign' \cup gone')
      PROVE  /\ OnlineEnd(u)' = OnlineEnd(u) /\ userIdMap'[u] = userIdMap[u]
             /\ \A g \in GroupSet[u] : GroupEnd(u, g)' = GroupEnd(u, g)
  <2>1. GroupSet[u] \subseteq Group
    BY WebAssumption
  <2>. QED
    BY <1>1, <2>1 DEF OnlineEnd, GroupEnd
<1>3. Settled'
  BY <1>1, <1>2, SettledKept DEF PresenceInv
<1>4. CallsKnow' /\ DownTouched'
  BY <1>1 DEF PresenceInv, CallsKnow, DownTouched, Touching
<1>. QED
  BY <1>3, <1>4 DEF PresenceInv

\* The process dies: whoever is not touched was, and stays, offline.
LEMMA CrashSettles ==
  ASSUME Typed, PresenceInv, NEW n \in 0..Len(pipe), Crash(n)
  PROVE  PresenceInv'
<1>1. /\ pipe \in Seq(Commands) /\ pipe' = SubSeq(pipe, 1, n) /\ replies' = <<>> /\ ~up'
      /\ Touching(PresenceOps, {"join", "leave"}) \subseteq gone'
      /\ gone \subseteq gone' /\ UNCHANGED <<online, onlineGroup, foreign>>
      /\ userIdMap' = [u \in User |-> None]
      /\ \A u \in User : userIdMap[u] # None => u \in gone'
  BY QueuesAre DEF Crash, Typed, presence
<1>2. \A i \in 1..Len(pipe') : i \in 1..Len(pipe) /\ pipe'[i] = pipe[i]
  <2>1. Len(pipe) \in Nat
    BY <1>1, LenProperties
  <2>2. Len(SubSeq(pipe, 1, n)) = n /\ \A i \in 1..n : SubSeq(pipe, 1, n)[i] = pipe[i]
    BY <1>1, <2>1, SubSeqProperties
  <2>. QED
    BY <1>1, <2>1, <2>2
<1>3. (Touching(PresenceOps, {"join", "leave"}))' \subseteq Touching(PresenceOps, {"join", "leave"})
  BY <1>1, <1>2 DEF Touching
<1>4. Settled'
  <2>1. ASSUME NEW u \in User \ (foreign' \cup gone')
        PROVE  /\ OnlineEnd(u)' = Present(u)'
               /\ \A g \in GroupSet[u] : GroupEnd(u, g)' = Present(u)'
    <3>1. /\ u \notin Touching(PresenceOps, {"join", "leave"}) /\ u \notin (Touching(PresenceOps, {"join", "leave"}))'
          /\ u \notin foreign \cup gone /\ userIdMap[u] = None
      BY <1>1, <1>3
    <3>2. ~Present(u) /\ ~Present(u)'
      BY <1>1, <3>1 DEF Present
    <3>3. /\ OnlineEnd(u) = Present(u)
          /\ \A g \in GroupSet[u] : GroupEnd(u, g) = Present(u)
      BY <3>1 DEF PresenceInv, Settled
    <3>4. ~(online[u] = Here) /\ \A g \in GroupSet[u] : u \notin onlineGroup[g]
      <4>1. /\ OnlineEnd(u) = (online[u] = Here)
            /\ \A g : GroupEnd(u, g) = (u \in onlineGroup[g])
        BY <3>1, UntouchedEnds
      <4>. QED
        BY <3>2, <3>3, <4>1
    <3>5. \A i \in 1..Len(pipe') : pipe'[i].op \in PresenceOps => pipe'[i].user # u
      BY <3>1 DEF Touching
    <3>6. ~OnlineEnd(u)'
      <4>1. \A i \in 1..Len(pipe') : pipe'[i] \notin SetsOf(u) \cup DelsOf(u)
        BY <3>5 DEF SetsOf, DelsOf, PresenceOps
      <4>. QED
        BY <1>1, <3>4, <4>1 DEF OnlineEnd, OnlineAfter, After
    <3>7. ASSUME NEW g \in GroupSet[u]
          PROVE  ~GroupEnd(u, g)'
      <4>1. (u \in onlineGroup'[g]) = FALSE
        BY <1>1, <3>4
      <4>2. GroupAfter(pipe', replies', FALSE, u, g) = FALSE
        <5>1. \A i \in 1..Len(replies') : replies'[i].call \in {"join", "leave"} => replies'[i].user # u
          BY <1>1
        <5>. QED
          BY <3>5, <5>1, NoneQueued
      <4>. QED
        BY <4>1, <4>2 DEF GroupEnd
    <3>8. OnlineEnd(u)' \in BOOLEAN /\ \A g : GroupEnd(u, g)' \in BOOLEAN
      BY AfterBool DEF OnlineEnd, OnlineAfter, GroupEnd, GroupAfter
    <3>9. OnlineEnd(u)' = Present(u)'
      BY <3>2, <3>6, <3>8 DEF Present
    <3>10. \A g \in GroupSet[u] : GroupEnd(u, g)' = Present(u)'
      BY <3>2, <3>7, <3>8 DEF Present
    <3>. QED
      BY <3>9, <3>10
  <2>. QED
    BY <2>1 DEF Settled
<1>5. CallsKnow' /\ DownTouched'
  BY <1>1, <1>3 DEF CallsKnow, DownTouched
<1>. QED
  BY <1>4, <1>5 DEF PresenceInv

LEMMA PresenceHolds ==
  ASSUME Typed, Registered, PresenceInv, [UnreadNext]_unreadVars
  PROVE  PresenceInv'
<1>1. CASE UNCHANGED unreadVars
  BY <1>1, IdleSettles DEF unreadVars, webVars, node, lines, presence, history, Typed, NodeTyped
<1>2. CASE Subscriber \/ \E r \in Request : DelUnread(r) \/ \E u \in User : ReadUnread(r, u)
  <2>1. UNCHANGED <<up, userIdMap, pipe, replies, online, onlineGroup, foreign, gone>>
    BY <1>2 DEF Subscriber, Deliver, Drop, DelUnread, ReadUnread, node, lines, presence, history
  <2>. QED
    BY <2>1, IdleSettles DEF Typed, NodeTyped
<1>3. CASE Restart \/ Subscribe
  <2>1. /\ UNCHANGED <<userIdMap, pipe, replies, online, onlineGroup, foreign, gone>>
        /\ up'
    BY <1>3 DEF Restart, Subscribe, lines, presence, history
  <2>. QED
    BY <2>1, IdleSettles
<1>. QED
  BY <1>1, <1>2, <1>3, PagesSettle, RedisSettled, CallbackSettled, ServerSettled, CrashSettles
     DEF UnreadNext, WebNext

LEMMA PresenceInit ==
  ASSUME UnreadInit
  PROVE  PresenceInv
<1>1. /\ pipe = <<>> /\ replies = <<>> /\ up = TRUE
      /\ \A u \in User : online[u] = None /\ userIdMap[u] = None
      /\ \A g \in Group : onlineGroup[g] = {}
  BY DEF UnreadInit, WebInit
<1>2. Touching(PresenceOps, {"join", "leave"}) = {}
  BY <1>1 DEF Touching
<1>3. \A u \in User : /\ OnlineEnd(u) = (online[u] = Here)
                      /\ \A g : GroupEnd(u, g) = (u \in onlineGroup[g])
  BY <1>2, UntouchedEnds
<1>4. \A u \in User : GroupSet[u] \subseteq Group
  BY WebAssumption
<1>5. None # Here
  BY WebAssumption
<1>6. Settled
  BY <1>1, <1>3, <1>4, <1>5 DEF Settled, Present
<1>. QED
  BY <1>1, <1>6 DEF PresenceInv, CallsKnow, DownTouched

(* Once nothing is queued about a user, Redis and the process agree on her: her
   handshakes and disconnections take effect in their order, however their commands
   and callbacks were interleaved with those of others (socket.js:236, 256). *)
THEOREM PresenceSettlesHolds == UnreadSpec => []PresenceSettles
<1>1. UnreadInit => Typed /\ ReadTyped /\ Registered /\ PresenceInv
  BY TypedInit, RegisteredInit, PresenceInit
<1>2. Typed /\ ReadTyped /\ Registered /\ PresenceInv /\ [UnreadNext]_unreadVars
        => (Typed /\ ReadTyped /\ Registered /\ PresenceInv)'
  BY TypedHolds, RegisteredHolds, PresenceHolds
<1>3. PresenceInv => PresenceSettles
  <2>1. ASSUME PresenceInv, NEW u \in User \ (foreign \cup gone \cup Touching(PresenceOps, {"join", "leave"}))
        PROVE  /\ (online[u] = Here) = Present(u)
               /\ \A g \in GroupSet[u] : (u \in onlineGroup[g]) = Present(u)
    <3>1. /\ OnlineEnd(u) = (online[u] = Here)
          /\ \A g : GroupEnd(u, g) = (u \in onlineGroup[g])
      BY UntouchedEnds
    <3>2. /\ OnlineEnd(u) = Present(u)
          /\ \A g \in GroupSet[u] : GroupEnd(u, g) = Present(u)
      BY <2>1 DEF PresenceInv, Settled
    <3>. QED
      BY <3>1, <3>2
  <2>. QED
    BY <2>1 DEF PresenceSettles, Present
<1>. QED
  BY <1>1, <1>2, <1>3, PTL DEF UnreadSpec

-----------------------------------------------------------------------------
\* The numbers of the messages to users on their way.
LEMMA IdsAdded ==
  ASSUME NEW B, NEW s \in Seq(B), NEW t \in Seq(B), NEW C,
         \A i \in 1..Len(t) : t[i] \notin C
  PROVE  /\ IdsIn(s \o t, C) = IdsIn(s, C)
         /\ OrderedIn(s, C) => OrderedIn(s \o t, C)
<1>1. /\ Len(s) \in Nat /\ Len(t) \in Nat /\ Len(s \o t) = Len(s) + Len(t)
      /\ \A i \in 1..Len(s) + Len(t) : (s \o t)[i] = IF i <= Len(s) THEN s[i] ELSE t[i - Len(s)]
  BY ConcatProperties, LenProperties
<1>2. \A i \in 1..Len(s \o t) : (s \o t)[i] \in C => i \in 1..Len(s) /\ (s \o t)[i] = s[i]
  BY <1>1
<1>3. \A i \in 1..Len(s) : i \in 1..Len(s \o t) /\ (s \o t)[i] = s[i]
  BY <1>1
<1>4. IdsIn(s \o t, C) = IdsIn(s, C)
  BY <1>2, <1>3 DEF IdsIn
<1>5. OrderedIn(s, C) => OrderedIn(s \o t, C)
  BY <1>2 DEF OrderedIn
<1>. QED
  BY <1>4, <1>5

LEMMA IdsAppended ==
  ASSUME NEW B, NEW s \in Seq(B), NEW e \in B, NEW C, e \in C
  PROVE  /\ IdsIn(s \o <<e>>, C) = IdsIn(s, C) \cup {e.msg.id}
         /\ OrderedIn(s, C) /\ Before(IdsIn(s, C), {e.msg.id}) => OrderedIn(s \o <<e>>, C)
<1>. DEFINE t == Append(s, e)
<1>1. s \o <<e>> = t
  BY AppendIsConcat
<1>2. /\ Len(s) \in Nat /\ Len(t) = Len(s) + 1 /\ t[Len(s) + 1] = e
      /\ \A i \in 1..Len(s) : t[i] = s[i]
  BY AppendProperties, LenProperties
<1>. HIDE DEF t
<1>3. \A i \in 1..Len(t) : (i \in 1..Len(s) /\ t[i] = s[i]) \/ (i = Len(s) + 1 /\ t[i] = e)
  BY <1>2
<1>4. \A i \in 1..Len(s) : i \in 1..Len(t) /\ t[i] = s[i]
  BY <1>2
<1>5. Len(s) + 1 \in 1..Len(t)
  BY <1>2
<1>6. IdsIn(t, C) = IdsIn(s, C) \cup {e.msg.id}
  BY <1>2, <1>3, <1>4, <1>5 DEF IdsIn
<1>7. ASSUME OrderedIn(s, C), Before(IdsIn(s, C), {e.msg.id}), NEW i \in 1..Len(t), NEW j \in 1..Len(t),
             i < j, t[i] \in C, t[j] \in C
      PROVE  t[i].msg.id < t[j].msg.id
  <2>1. i \in 1..Len(s) /\ t[i] = s[i]
    BY <1>2, <1>3, <1>7
  <2>2. CASE j \in 1..Len(s) /\ t[j] = s[j]
    BY <1>7, <2>1, <2>2 DEF OrderedIn
  <2>3. CASE t[j] = e
    BY <1>7, <2>1, <2>3 DEF Before, IdsIn
  <2>. QED
    BY <1>3, <2>2, <2>3
<1>8. OrderedIn(s, C) /\ Before(IdsIn(s, C), {e.msg.id}) => OrderedIn(t, C)
  BY <1>7 DEF OrderedIn
<1>. QED
  BY <1>1, <1>6, <1>8

LEMMA IdsTaken ==
  ASSUME NEW B, NEW s \in Seq(B), s # <<>>, NEW C
  PROVE  /\ Head(s) \notin C => IdsIn(Tail(s), C) = IdsIn(s, C)
         /\ Head(s) \in C => IdsIn(s, C) = IdsIn(Tail(s), C) \cup {Head(s).msg.id}
         /\ OrderedIn(s, C) => OrderedIn(Tail(s), C)
         /\ OrderedIn(s, C) /\ Head(s) \in C => Before({Head(s).msg.id}, IdsIn(Tail(s), C))
<1>. DEFINE t == Tail(s)
            n == Len(s)
<1>1. /\ n \in Nat \ {0} /\ Head(s) = s[1] /\ Len(t) = n - 1
      /\ \A i \in 1..Len(t) : t[i] = s[i + 1]
  BY HeadTailProperties, LenProperties, EmptySeq
<1>. HIDE DEF t, n
<1>2. \A i \in 1..Len(t) : i + 1 \in 1..n /\ t[i] = s[i + 1] /\ 1 < i + 1
  BY <1>1
<1>3. \A i \in 1..n : i = 1 \/ (i - 1 \in 1..Len(t) /\ t[i - 1] = s[i])
  BY <1>1
<1>4. IdsIn(t, C) \subseteq IdsIn(s, C)
  BY <1>2 DEF IdsIn, n
<1>5. IdsIn(s, C) \subseteq IdsIn(t, C) \cup (IF s[1] \in C THEN {s[1].msg.id} ELSE {})
  BY <1>3 DEF IdsIn, n
<1>6. 1 \in 1..n
  BY <1>1
<1>7. s[1] \in C => s[1].msg.id \in IdsIn(s, C)
  BY <1>6 DEF IdsIn, n
<1>8. OrderedIn(s, C) => OrderedIn(t, C)
  <2>1. \A i, j \in 1..Len(t) : i < j => i + 1 < j + 1
    BY <1>1
  <2>. QED
    BY <1>2, <2>1 DEF OrderedIn, n
<1>9. ASSUME OrderedIn(s, C), s[1] \in C, NEW i \in 1..Len(t), t[i] \in C
      PROVE  s[1].msg.id < t[i].msg.id
  BY <1>2, <1>6, <1>9 DEF OrderedIn, n
<1>10. OrderedIn(s, C) /\ s[1] \in C => Before({s[1].msg.id}, IdsIn(t, C))
  BY <1>9 DEF Before, IdsIn
<1>. QED
  BY <1>1, <1>4, <1>5, <1>7, <1>8, <1>10 DEF t

LEMMA IdsCut ==
  ASSUME NEW B, NEW s \in Seq(B), NEW n \in 0..Len(s), NEW C
  PROVE  /\ IdsIn(SubSeq(s, 1, n), C) \subseteq IdsIn(s, C)
         /\ OrderedIn(s, C) => OrderedIn(SubSeq(s, 1, n), C)
<1>1. \A i \in 1..Len(SubSeq(s, 1, n)) : i \in 1..Len(s) /\ SubSeq(s, 1, n)[i] = s[i]
  <2>1. Len(s) \in Nat
    BY LenProperties
  <2>2. Len(SubSeq(s, 1, n)) = n /\ \A i \in 1..n : SubSeq(s, 1, n)[i] = s[i]
    BY <2>1, SubSeqProperties
  <2>. QED
    BY <2>1, <2>2
<1>. DEFINE t == SubSeq(s, 1, n)
<1>. HIDE DEF t
<1>2. \A i \in 1..Len(t) : i \in 1..Len(s) /\ t[i] = s[i]
  BY <1>1 DEF t
<1>3. IdsIn(t, C) \subseteq IdsIn(s, C)
  BY <1>2 DEF IdsIn
<1>4. OrderedIn(s, C) => OrderedIn(t, C)
  BY <1>2 DEF OrderedIn
<1>. QED
  BY <1>3, <1>4 DEF t

\* The same for sequences of messages.
LEMMA RisesAppended ==
  ASSUME NEW ms \in Seq(Message), NEW m \in Message
  PROVE  /\ Ids(Append(ms, m)) = Ids(ms) \cup {m.id}
         /\ Rises(ms) /\ Before(Ids(ms), {m.id}) => Rises(Append(ms, m))
<1>. DEFINE t == Append(ms, m)
<1>1. /\ Len(ms) \in Nat /\ Len(t) = Len(ms) + 1 /\ t[Len(ms) + 1] = m
      /\ \A i \in 1..Len(ms) : t[i] = ms[i]
  BY AppendProperties, LenProperties
<1>. HIDE DEF t
<1>2. \A i \in 1..Len(t) : (i \in 1..Len(ms) /\ t[i] = ms[i]) \/ (i = Len(ms) + 1 /\ t[i] = m)
  BY <1>1
<1>3. \A i \in 1..Len(ms) : i \in 1..Len(t) /\ t[i] = ms[i]
  BY <1>1
<1>4. Len(ms) + 1 \in 1..Len(t)
  BY <1>1
<1>5. Ids(t) = Ids(ms) \cup {m.id}
  BY <1>1, <1>2, <1>3, <1>4 DEF Ids
<1>6. ASSUME Rises(ms), Before(Ids(ms), {m.id}), NEW i \in 1..Len(t), NEW j \in 1..Len(t), i < j
      PROVE  t[i].id < t[j].id
  <2>1. i \in 1..Len(ms) /\ t[i] = ms[i]
    BY <1>1, <1>2, <1>6
  <2>2. CASE j \in 1..Len(ms) /\ t[j] = ms[j]
    BY <1>6, <2>1, <2>2 DEF Rises
  <2>3. CASE t[j] = m
    BY <1>6, <2>1, <2>3 DEF Before, Ids
  <2>. QED
    BY <1>2, <2>2, <2>3
<1>. QED
  BY <1>5, <1>6 DEF Rises, t

LEMMA RisesTaken ==
  ASSUME NEW ms \in Seq(Message), ms # <<>>
  PROVE  /\ Head(ms) \in Message /\ Tail(ms) \in Seq(Message)
         /\ Ids(ms) = Ids(Tail(ms)) \cup {Head(ms).id}
         /\ Rises(ms) => Rises(Tail(ms)) /\ Before({Head(ms).id}, Ids(Tail(ms)))
<1>. DEFINE t == Tail(ms)
            n == Len(ms)
<1>1. /\ n \in Nat \ {0} /\ Head(ms) = ms[1] /\ Len(t) = n - 1
      /\ \A i \in 1..Len(t) : t[i] = ms[i + 1]
      /\ Head(ms) \in Message /\ t \in Seq(Message)
  BY HeadTailProperties, LenProperties, EmptySeq
<1>. HIDE DEF t, n
<1>2. \A i \in 1..Len(t) : i + 1 \in 1..n /\ t[i] = ms[i + 1] /\ 1 < i + 1
  BY <1>1
<1>3. \A i \in 1..n : i = 1 \/ (i - 1 \in 1..Len(t) /\ t[i - 1] = ms[i])
  BY <1>1
<1>4. 1 \in 1..n
  BY <1>1
<1>5. Ids(ms) = Ids(t) \cup {ms[1].id}
  <2>1. Ids(ms) \subseteq Ids(t) \cup {ms[1].id}
    BY <1>3 DEF Ids, n
  <2>2. Ids(t) \subseteq Ids(ms)
    BY <1>2 DEF Ids, n
  <2>3. ms[1].id \in Ids(ms)
    BY <1>4 DEF Ids, n
  <2>. QED
    BY <2>1, <2>2, <2>3
<1>6. Rises(ms) => Rises(t)
  <2>1. \A i, j \in 1..Len(t) : i < j => i + 1 < j + 1
    BY <1>1
  <2>. QED
    BY <1>2, <2>1 DEF Rises, n
<1>7. Rises(ms) => Before({ms[1].id}, Ids(t))
  BY <1>2, <1>4 DEF Rises, Before, Ids, n
<1>. QED
  BY <1>1, <1>5, <1>6, <1>7 DEF t

LEMMA FallsPushed ==
  ASSUME NEW ms \in Seq(Stored), NEW m \in Stored
  PROVE  /\ Ids(<<m>> \o ms) = Ids(ms) \cup {m.id}
         /\ Falls(ms) /\ (m.id = 0 \/ Before(Ids(ms) \ {0}, {m.id})) => Falls(<<m>> \o ms)
<1>. DEFINE t == <<m>> \o ms
<1>1. /\ Len(ms) \in Nat /\ Len(t) = Len(ms) + 1 /\ t[1] = m
      /\ \A i \in 1..Len(t) : i = 1 \/ t[i] = ms[i - 1]
  <2>1. <<m>> \in Seq(Stored) /\ Len(<<m>>) = 1 /\ <<m>>[1] = m
    OBVIOUS
  <2>2. /\ Len(ms) \in Nat /\ Len(t) = 1 + Len(ms)
        /\ \A i \in 1..1 + Len(ms) : t[i] = IF i <= 1 THEN <<m>>[i] ELSE ms[i - 1]
    BY <2>1, ConcatProperties, LenProperties
  <2>. QED
    BY <2>1, <2>2
<1>. HIDE DEF t
<1>2. \A i \in 1..Len(t) : (i = 1 /\ t[i] = m) \/ (i - 1 \in 1..Len(ms) /\ t[i] = ms[i - 1] /\ 1 < i)
  BY <1>1
<1>3. \A i \in 1..Len(ms) : i + 1 \in 1..Len(t) /\ t[i + 1] = ms[i]
  BY <1>1
<1>4. 1 \in 1..Len(t)
  BY <1>1
<1>5. Ids(t) = Ids(ms) \cup {m.id}
  <2>1. Ids(t) \subseteq Ids(ms) \cup {m.id}
    BY <1>2 DEF Ids
  <2>2. Ids(ms) \subseteq Ids(t)
    BY <1>3 DEF Ids
  <2>3. m.id \in Ids(t)
    BY <1>1, <1>4 DEF Ids
  <2>. QED
    BY <2>1, <2>2, <2>3
<1>6. ASSUME Falls(ms), m.id = 0 \/ Before(Ids(ms) \ {0}, {m.id}),
             NEW i \in 1..Len(t), NEW j \in 1..Len(t), i < j, t[i].id # 0, t[j].id # 0
      PROVE  t[j].id < t[i].id
  <2>1. j - 1 \in 1..Len(ms) /\ t[j] = ms[j - 1]
    BY <1>1, <1>2, <1>6
  <2>2. CASE t[i] = m
    BY <1>6, <2>1, <2>2 DEF Before, Ids
  <2>3. CASE i - 1 \in 1..Len(ms) /\ t[i] = ms[i - 1]
    <3>1. i - 1 < j - 1
      BY <1>1, <1>6
    <3>. QED
      BY <1>6, <2>1, <2>3, <3>1 DEF Falls
  <2>. QED
    BY <1>2, <2>2, <2>3
<1>. QED
  BY <1>5, <1>6 DEF Falls, t

LEMMA FallsCut ==
  ASSUME NEW ms \in Seq(Stored), NEW n \in 0..Len(ms)
  PROVE  /\ Ids(SubSeq(ms, 1, n)) \subseteq Ids(ms)
         /\ Falls(ms) => Falls(SubSeq(ms, 1, n))
<1>. DEFINE t == SubSeq(ms, 1, n)
<1>1. \A i \in 1..Len(t) : i \in 1..Len(ms) /\ t[i] = ms[i]
  <2>1. Len(ms) \in Nat
    BY LenProperties
  <2>2. Len(SubSeq(ms, 1, n)) = n /\ \A i \in 1..n : SubSeq(ms, 1, n)[i] = ms[i]
    BY <2>1, SubSeqProperties
  <2>. QED
    BY <2>1, <2>2
<1>. HIDE DEF t
<1>2. Ids(t) \subseteq Ids(ms)
  BY <1>1 DEF Ids
<1>3. Falls(ms) => Falls(t)
  BY <1>1 DEF Falls
<1>. QED
  BY <1>2, <1>3 DEF t

\* LTRIM keeps some of the elements at the head.
LEMMA LtrimIs ==
  ASSUME NEW B, NEW ms \in Seq(B)
  PROVE  \E n \in 0..Len(ms) : Ltrim(ms) = SubSeq(ms, 1, n)
<1>1. Len(ms) \in Nat /\ Keep \in Nat
  BY WebAssumption, LenProperties
<1>2. Ltrim(ms) = SubSeq(ms, 1, IF Len(ms) <= Keep THEN Len(ms) ELSE Keep + 1)
  BY DEF Ltrim
<1>. QED
  BY <1>1, <1>2

(* What a message server does to a list: it pushes a message of its own, cuts the list,
   or deletes it.                                                            *)
LEMMA ListsAre ==
  ASSUME Typed, MessageServer
  PROVE  /\ UNCHANGED <<pipe, replies, channel, inbox, elsewhere, sent>>
         /\ \A u \in User : unread'[u] \in {unread[u], <<Foreign(u)>> \o unread[u],
                                            Ltrim(unread[u]), <<>>}
<1>1. PICK u \in User :
        \/ RemoteSet(u) \/ RemoteDel(u)
        \/ \E g \in Group : RemoteSadd(u, g) \/ RemoteSrem(u, g)
        \/ RemotePush(u) \/ RemoteTrim(u) \/ RemoteDelUnread(u)
  BY DEF MessageServer
<1>2. UNCHANGED <<pipe, replies, channel, inbox, elsewhere, sent>>
  BY <1>1 DEF RemoteSet, RemoteDel, RemoteSadd, RemoteSrem, RemotePush, RemoteTrim,
     RemoteDelUnread, lines, lists
<1>3. unread \in [User -> Seq(Stored)]
  BY DEF Typed, StoreTyped
<1>4. CASE UNCHANGED unread
  BY <1>2, <1>4
<1>5. CASE RemotePush(u)
  BY <1>2, <1>3, <1>5 DEF RemotePush
<1>6. CASE RemoteTrim(u)
  BY <1>2, <1>3, <1>6 DEF RemoteTrim
<1>7. CASE RemoteDelUnread(u)
  BY <1>2, <1>3, <1>7 DEF RemoteDelUnread
<1>8. RemotePush(u) \/ RemoteTrim(u) \/ RemoteDelUnread(u) \/ UNCHANGED unread
  BY <1>1 DEF RemoteSet, RemoteDel, RemoteSadd, RemoteSrem, lists
<1>. QED
  BY <1>4, <1>5, <1>6, <1>7, <1>8

\* It marks what it loses, and what its own messages stand before.
LEMMA ListMarks ==
  ASSUME Typed, MarksTyped, MessageServer
  PROVE  /\ unheard' = unheard
         /\ \A u \in User : /\ meddled'[u] \in {meddled[u], S}
                            /\ unread'[u] \in {unread[u], Ltrim(unread[u])} \/ meddled'[u] = S
<1>1. PICK u \in User :
        \/ RemoteSet(u) \/ RemoteDel(u)
        \/ \E g \in Group : RemoteSadd(u, g) \/ RemoteSrem(u, g)
        \/ RemotePush(u) \/ RemoteTrim(u) \/ RemoteDelUnread(u)
  BY DEF MessageServer
<1>2. unread \in [User -> Seq(Stored)] /\ meddled \in [User -> 0..S]
  BY DEF Typed, StoreTyped, MarksTyped
<1>3. CASE \/ RemoteSet(u) \/ RemoteDel(u)
           \/ \E g \in Group : RemoteSadd(u, g) \/ RemoteSrem(u, g)
  BY <1>3 DEF RemoteSet, RemoteSadd, RemoteDel, RemoteSrem, lists, marks
<1>4. CASE RemotePush(u)
  BY <1>2, <1>4 DEF RemotePush, S
<1>5. CASE RemoteTrim(u)
  BY <1>2, <1>5 DEF RemoteTrim
<1>6. CASE RemoteDelUnread(u)
  BY <1>2, <1>6 DEF RemoteDelUnread, S
<1>. QED
  BY <1>1, <1>3, <1>4, <1>5, <1>6

-----------------------------------------------------------------------------

(* What one step does to the message number i.                               *)
Sends ==
  /\ S' = S + 1 /\ ToAsk' = ToAsk \cup {S + 1}
  /\ UNCHANGED <<Told, ToPass, Passed, GivenIds, KeptIds, AnsweredIds>>

Asks(i) ==
  /\ ToAsk = ToAsk' \cup {i} /\ Before({i}, ToAsk') /\ Told' = Told \cup {i}
  /\ UNCHANGED <<S, ToPass, Passed, GivenIds, KeptIds, AnsweredIds>>

Tells(i) ==
  /\ Told = Told' \cup {i} /\ Before({i}, Told') /\ ToPass' = ToPass \cup {i}
  /\ UNCHANGED <<S, ToAsk, Passed, GivenIds, KeptIds, AnsweredIds>>

PassesOn(i) ==
  /\ ToPass = ToPass' \cup {i} /\ Before({i}, ToPass')
  /\ \/ Passed' = Passed \cup {i} /\ UNCHANGED <<GivenIds, KeptIds>>
     \/ GivenIds' = GivenIds \cup {i} /\ UNCHANGED <<Passed, KeptIds>>
     \/ KeptIds' = KeptIds \cup {i} /\ UNCHANGED <<Passed, GivenIds>>
  /\ UNCHANGED <<S, ToAsk, Told, AnsweredIds>>

Emits(i) ==
  /\ Passed = Passed' \cup {i} /\ Before({i}, Passed') /\ GivenIds' = GivenIds \cup {i}
  /\ UNCHANGED <<S, ToAsk, Told, ToPass, KeptIds, AnsweredIds>>

AnswersWith(i) ==
  /\ i \in KeptIds /\ AnsweredIds' = AnsweredIds \cup {i}
  /\ UNCHANGED <<S, ToAsk, Told, ToPass, Passed, GivenIds, KeptIds>>

\* Nothing moves, but messages may be lost.
Thins ==
  /\ ToAsk' \subseteq ToAsk /\ Told' \subseteq Told /\ ToPass' \subseteq ToPass
  /\ Passed' \subseteq Passed /\ KeptIds' \subseteq KeptIds
  /\ UNCHANGED <<S, GivenIds, AnsweredIds>>

Stands == UNCHANGED <<S, ToAsk, Told, ToPass, Passed, GivenIds, KeptIds, AnsweredIds>>

Gentle ==
  Stands \/ Sends \/ \E i : Asks(i) \/ Tells(i) \/ PassesOn(i) \/ Emits(i) \/ AnswersWith(i)

Flow == Gentle \/ Thins

LEMMA GentleKeeps ==
  ASSUME Gentle
  PROVE  Somewhere \subseteq Somewhere'
BY DEF Gentle, Stands, Sends, Asks, Tells, PassesOn, Emits, AnswersWith, Somewhere, OnTheWay

LEMMA StageHolds ==
  ASSUME Typed, StageOrder, Flow
  PROVE  StageOrder'
<1>1. S \in Nat
  BY Counts DEF Typed
<1>2. CASE Thins
  BY <1>1, <1>2 DEF Thins, StageOrder, Past, Before
<1>3. CASE Sends
  <2>1. 1..S' = 1..S \cup {S + 1} /\ \A i \in 1..S : i < S + 1
    BY <1>1, <1>3 DEF Sends
  <2>2. Past' = Past
    BY <1>3 DEF Sends, Past
  <2>. QED
    BY <1>3, <2>1, <2>2 DEF Sends, StageOrder, Past, Before
<1>4. ASSUME NEW i, Asks(i) PROVE StageOrder'
  <2>1. Past' = Past /\ S' = S
    BY <1>4 DEF Asks, Past
  <2>. QED
    BY <1>4, <2>1 DEF Asks, StageOrder, Before
<1>5. ASSUME NEW i, Tells(i) PROVE StageOrder'
  <2>1. Past' = Past /\ S' = S
    BY <1>5 DEF Tells, Past
  <2>. QED
    BY <1>5, <2>1 DEF Tells, StageOrder, Before
<1>6. ASSUME NEW i, PassesOn(i) PROVE StageOrder'
  <2>1. Past' = Past \cup {i} /\ S' = S /\ i \in ToPass /\ ToPass' \subseteq ToPass
    BY <1>6 DEF PassesOn, Past
  <2>2. i \in 1..S /\ \A j \in Past : j < i /\ j \in 1..S
    BY <2>1 DEF StageOrder, Before
  <2>3. i \notin Past
    BY <1>1, <2>2
  <2>4. /\ Passed' \cap (GivenIds' \cup KeptIds' \cup AnsweredIds') = {}
        /\ GivenIds' \cap KeptIds' = {}
    BY <1>6, <2>3 DEF PassesOn, StageOrder, Past
  <2>. QED
    BY <1>6, <2>1, <2>2, <2>4 DEF PassesOn, StageOrder, Before
<1>7. ASSUME NEW i, Emits(i) PROVE StageOrder'
  <2>1. Past' = Past /\ S' = S /\ i \in Passed /\ Passed' \subseteq Passed
    BY <1>7 DEF Emits, Past
  <2>2. i \in 1..S /\ i \notin Passed'
    BY <1>7, <2>1 DEF Emits, StageOrder, Before, Past
  <2>. QED
    BY <1>7, <2>1, <2>2 DEF Emits, StageOrder
<1>8. ASSUME NEW i, AnswersWith(i) PROVE StageOrder'
  <2>1. Past' = Past /\ S' = S /\ i \notin Passed
    BY <1>8 DEF AnswersWith, Past, StageOrder
  <2>. QED
    BY <1>8, <2>1 DEF AnswersWith, StageOrder
<1>9. CASE Stands
  BY <1>9 DEF Stands, StageOrder, Past
<1>. QED
  BY <1>2, <1>3, <1>4, <1>5, <1>6, <1>7, <1>8, <1>9 DEF Flow, Gentle

\* The places do not change when their variables do not.
LEMMA PlacesStay ==
  /\ channel' = channel => Passed' = Passed
  /\ inbox' = inbox /\ elsewhere' = elsewhere => GivenIds' = GivenIds
  /\ unread' = unread => KeptIds' = KeptIds
  /\ answer' = answer => AnsweredIds' = AnsweredIds
  /\ pipe' = pipe => ToAsk' = ToAsk /\ ToPass' = ToPass
  /\ replies' = replies => Told' = Told
BY DEF Passed, GivenIds, KeptIds, AnsweredIds, ToAsk, ToPass, Told

\* What was given and kept, and what is then.
LEMMA GivenIs ==
  /\ \A i : i \in GivenIds <=> \/ \E k \in Sock : i \in Ids(inbox[k])
                              \/ \E m \in elsewhere : i = m.id
  /\ \A i : i \in GivenIds' <=> \/ \E k \in Sock : i \in Ids(inbox'[k])
                               \/ \E m \in elsewhere' : i = m.id
BY DEF GivenIds, Ids

LEMMA KeptIs ==
  /\ \A i : i \in KeptIds <=> i # 0 /\ \E u \in User : i \in Ids(unread[u])
  /\ \A i : i \in KeptIds' <=> i # 0 /\ \E u \in User : i \in Ids(unread'[u])
BY DEF KeptIds, Ids

LEMMA Letters ==
  /\ Gets \subseteq Commands /\ Passes \subseteq Commands /\ Gots \subseteq Calls
  /\ \A c \in Commands : (c \in Gets <=> c.op = "get") /\ (c \in Passes <=> c.op \in {"lpush", "publish"})
  /\ \A r \in Calls : r \in Gots <=> r.call = "got"
<1>1. Gets \subseteq Commands /\ Passes \subseteq Commands /\ Gots \subseteq Calls
  BY DEF Gets, Passes, Pushes, Publishes, Gots, Commands, Calls
<1>2. ASSUME NEW c \in Commands
      PROVE  (c \in Gets <=> c.op = "get") /\ (c \in Passes <=> c.op \in {"lpush", "publish"})
  BY DEF Gets, Passes, Pushes, Publishes, Commands
<1>3. ASSUME NEW r \in Calls PROVE r \in Gots <=> r.call = "got"
  BY DEF Gots, Calls
<1>. QED
  BY <1>1, <1>2, <1>3

\* What Redis does to the stages of redisDB.
LEMMA RedisMoves ==
  ASSUME Typed, LineOrder, StageOrder, NEW c \in Commands, RedisReplies(c)
  PROVE  /\ c \notin Gets => ToAsk' = ToAsk /\ Told' = Told
         /\ c \in Gets => /\ ToAsk = ToAsk' \cup {c.msg.id} /\ Before({c.msg.id}, ToAsk')
                          /\ Told' = IF up THEN Told \cup {c.msg.id} ELSE Told
         /\ c \notin Passes => ToPass' = ToPass
         /\ c \in Passes => ToPass = ToPass' \cup {c.msg.id} /\ Before({c.msg.id}, ToPass')
         /\ OrderedIn(pipe', Gets) /\ OrderedIn(pipe', Passes) /\ OrderedIn(replies', Gots)
<1>1. /\ pipe \in Seq(Commands) /\ replies \in Seq(Calls) /\ pipe # <<>> /\ Head(pipe) = c
      /\ pipe' = Tail(pipe) /\ OrderedIn(pipe, Gets) /\ OrderedIn(pipe, Passes) /\ OrderedIn(replies, Gots)
  BY QueuesAre DEF Typed, RedisReplies, LineOrder
<1>2. /\ c \notin Gets => ToAsk' = ToAsk
      /\ c \in Gets => ToAsk = ToAsk' \cup {c.msg.id} /\ Before({c.msg.id}, ToAsk')
      /\ OrderedIn(pipe', Gets)
  BY <1>1, IdsTaken DEF ToAsk
<1>3. /\ c \notin Passes => ToPass' = ToPass
      /\ c \in Passes => ToPass = ToPass' \cup {c.msg.id} /\ Before({c.msg.id}, ToPass')
      /\ OrderedIn(pipe', Passes)
  BY <1>1, IdsTaken DEF ToPass
<1>4. /\ c \notin Gets => Told' = Told
      /\ c \in Gets => Told' = IF up THEN Told \cup {c.msg.id} ELSE Told
      /\ OrderedIn(replies', Gots)
  <2>1. c \in Gets => c.op \notin SilentOps
    BY DEF Gets, SilentOps
  <2>2. CASE replies' = replies /\ (c \in Gets => ~up)
    BY <1>1, <2>2 DEF Told
  <2>3. ASSUME NEW r \in Calls, Answers(c, r), replies' = replies \o <<r>>, c \notin Gets
        PROVE  Told' = Told /\ OrderedIn(replies', Gots)
    <3>1. r \notin Gots
      BY <2>3, Letters DEF Answers
    <3>2. <<r>> \in Seq(Calls) /\ \A i \in 1..Len(<<r>>) : <<r>>[i] \notin Gots
      BY <3>1
    <3>. QED
      BY <1>1, <2>3, <3>2, IdsAdded DEF Told
  <2>4. ASSUME NEW r \in Calls, Answers(c, r), replies' = replies \o <<r>>, c \in Gets
        PROVE  Told' = Told \cup {c.msg.id} /\ OrderedIn(replies', Gots)
    <3>1. c.op = "get"
      BY <2>4 DEF Gets
    <3>2. r.call = "got" /\ r.msg = c.msg
      BY <2>4, <3>1 DEF Answers
    <3>3. r \in Gots /\ r.msg.id = c.msg.id
      BY <3>2, Letters
    <3>4. Before(Told, {c.msg.id})
      BY <1>2, <2>4 DEF StageOrder, Before
    <3>5. Before(IdsIn(replies, Gots), {c.msg.id}) /\ OrderedIn(replies, Gots) /\ replies \in Seq(Calls)
      BY <1>1, <3>4 DEF Told
    <3>6. Before(IdsIn(replies, Gots), {r.msg.id}) /\ r \in Calls
      BY <2>4, <3>3, <3>5
    <3>7. /\ IdsIn(replies \o <<r>>, Gots) = IdsIn(replies, Gots) \cup {r.msg.id}
          /\ OrderedIn(replies \o <<r>>, Gots)
      BY <3>3, <3>5, <3>6, IdsAppended
    <3>. QED
      BY <2>4, <3>3, <3>7 DEF Told
  <2>. QED
    BY <2>1, <2>2, <2>3, <2>4 DEF RedisReplies
<1>. QED
  BY <1>2, <1>3, <1>4

(* What Redis does to the lists and the channel.  It loses what the process that died
   was waiting for, what is published before redisSub has subscribed, and what LTRIM
   cuts.                                                                     *)
RedisDrops ==
  \/ /\ ~up /\ Head(pipe) \in Gets \cup Passes
     /\ Somewhere \subseteq Somewhere' \cup {Head(pipe).msg.id}
  \/ /\ Head(pipe).op = "publish" /\ Head(pipe).msg.id \in unheard'
     /\ Somewhere \subseteq Somewhere' \cup {Head(pipe).msg.id}
  \/ Head(pipe).op = "ltrim" /\ OnTheWay' = OnTheWay

LEMMA RedisFlows ==
  ASSUME Typed, LineOrder, StageOrder, Redis, UNCHANGED readVars
  PROVE  (Gentle \/ (Thins /\ RedisDrops)) /\ LineOrder'
<1>1. PICK c \in Commands : RedisReplies(c) /\ RedisStores(c)
  BY RedisIs
<1>0. Head(pipe) = c
  BY <1>1 DEF RedisReplies
<1>. DEFINE i == c.msg.id
<1>2. /\ c.op = "get" <=> c \in Gets
      /\ c.op \in {"lpush", "publish"} <=> c \in Passes
  BY Letters
<1>3. /\ c \notin Gets => ToAsk' = ToAsk /\ Told' = Told
      /\ c \in Gets => /\ ToAsk = ToAsk' \cup {i} /\ Before({i}, ToAsk')
                       /\ Told' = IF up THEN Told \cup {i} ELSE Told
      /\ c \notin Passes => ToPass' = ToPass
      /\ c \in Passes => ToPass = ToPass' \cup {i} /\ Before({i}, ToPass')
  BY <1>1, RedisMoves
<1>4. OrderedIn(pipe', Gets) /\ OrderedIn(pipe', Passes) /\ OrderedIn(replies', Gots)
  BY <1>1, RedisMoves
<1>5. inbox' = inbox /\ S' = S /\ AnsweredIds' = AnsweredIds
  BY <1>1, PlacesStay DEF RedisReplies, S, readVars
<1>6. CASE c.op \notin {"lpush", "publish", "ltrim"}
  <2>1. channel' = channel /\ elsewhere' = elsewhere /\ unread' = unread
    BY <1>1, <1>6 DEF RedisStores
  <2>2. Passed' = Passed /\ GivenIds' = GivenIds /\ KeptIds' = KeptIds
    BY <1>5, <2>1, PlacesStay
  <2>3. LineOrder'
    BY <1>4, <1>5, <2>1, <2>2 DEF LineOrder
  <2>4. CASE c \notin Gets
    <3>1. Stands
      BY <1>2, <1>3, <1>5, <1>6, <2>2, <2>4 DEF Stands
    <3>. QED
      BY <2>3, <3>1 DEF Gentle
  <2>5. CASE c \in Gets /\ ~up
    <3>1. Thins
      BY <1>2, <1>3, <1>5, <1>6, <2>2, <2>5 DEF Thins
    <3>2. RedisDrops
      BY <1>0, <1>2, <1>3, <1>5, <1>6, <2>2, <2>5 DEF RedisDrops, Somewhere, OnTheWay
    <3>. QED
      BY <2>3, <3>1, <3>2
  <2>6. CASE c \in Gets /\ up
    <3>1. Asks(i)
      BY <1>2, <1>3, <1>5, <1>6, <2>2, <2>6 DEF Asks
    <3>. QED
      BY <2>3, <3>1 DEF Gentle
  <2>. QED
    BY <2>4, <2>5, <2>6
<1>7. CASE c.op = "publish"
  <2>1. /\ c \in Passes /\ c \notin Gets /\ unread' = unread /\ c.msg \in Message
        /\ c.to = Here /\ subscribed => channel' = Append(channel, c.msg)
        /\ ~(c.to = Here /\ subscribed) => channel' = channel
        /\ c.to = Here /\ ~subscribed => i \in unheard'
        /\ elsewhere' = IF c.to # Here THEN elsewhere \cup {c.msg} ELSE elsewhere
    BY <1>1, <1>2, <1>7, CmdFields DEF RedisStores, MsgOps
  <2>2. KeptIds' = KeptIds
    BY <2>1, PlacesStay
  <2>3. CASE c.to = Here /\ subscribed
    <3>1. Before(Passed, {i}) /\ Before(GivenIds, {i})
      BY <1>3, <2>1 DEF StageOrder, Past, Before
    <3>2. Passed' = Passed \cup {i} /\ Rises(channel')
      BY <2>1, <2>3, <3>1, RisesAppended DEF Typed, LinesTyped, LineOrder, Passed
    <3>3. GivenIds' = GivenIds
      BY <1>5, <2>1, <2>3, PlacesStay
    <3>4. PassesOn(i)
      BY <1>3, <1>5, <2>1, <2>2, <3>2, <3>3 DEF PassesOn
    <3>5. \A k \in Sock : Before(Ids(inbox[k]), Passed')
      <4>1. \A k \in Sock : Ids(inbox[k]) \subseteq GivenIds
        BY DEF GivenIds
      <4>. QED
        BY <3>1, <3>2, <4>1 DEF LineOrder, Before
    <3>6. LineOrder'
      BY <1>4, <1>5, <2>1, <3>2, <3>5 DEF LineOrder
    <3>. QED
      BY <3>4, <3>6 DEF Gentle
  <2>4. CASE c.to = Here /\ ~subscribed
    <3>1. channel' = channel /\ elsewhere' = elsewhere
      BY <2>1, <2>4
    <3>2. Passed' = Passed /\ GivenIds' = GivenIds
      BY <1>5, <3>1, PlacesStay
    <3>3. Thins
      BY <1>3, <1>5, <2>1, <2>2, <3>2 DEF Thins
    <3>4. RedisDrops
      BY <1>0, <1>3, <1>5, <1>7, <2>1, <2>2, <2>4, <3>2 DEF RedisDrops, Somewhere, OnTheWay
    <3>5. LineOrder'
      BY <1>4, <1>5, <2>1, <3>1, <3>2 DEF LineOrder
    <3>. QED
      BY <3>3, <3>4, <3>5
  <2>5. CASE c.to # Here
    <3>1. channel' = channel /\ elsewhere' = elsewhere \cup {c.msg}
      BY <2>1, <2>5
    <3>2. Passed' = Passed
      BY <3>1, PlacesStay
    <3>3. GivenIds' = GivenIds \cup {i}
      <4>1. \A j : (\E m \in elsewhere' : j = m.id) <=> (\E m \in elsewhere : j = m.id) \/ j = i
        BY <3>1
      <4>. QED
        BY <1>5, <4>1, GivenIs
    <3>4. PassesOn(i)
      BY <1>3, <1>5, <2>1, <2>2, <3>2, <3>3 DEF PassesOn
    <3>5. LineOrder'
      BY <1>4, <1>5, <2>1, <3>1, <3>2 DEF LineOrder
    <3>. QED
      BY <3>4, <3>5 DEF Gentle
  <2>. QED
    BY <2>3, <2>4, <2>5
<1>8. CASE c.op = "lpush"
  <2>1. /\ c \in Passes /\ c \notin Gets /\ channel' = channel /\ elsewhere' = elsewhere
        /\ c.msg \in Message /\ c.msg \in Stored /\ c.msg.to \in User /\ i # 0
        /\ unread' = [unread EXCEPT ![c.msg.to] = <<c.msg>> \o @]
    <3>1. c.msg \in Message
      BY <1>8, CmdFields DEF MsgOps
    <3>2. i # 0 /\ c.msg.to \in User /\ c.msg \in Stored
      BY <3>1, WebAssumption, MessageStored DEF Message
    <3>. QED
      BY <1>1, <1>2, <1>8, <3>1, <3>2 DEF RedisStores
  <2>2. Passed' = Passed /\ GivenIds' = GivenIds
    BY <1>5, <2>1, PlacesStay
  <2>. DEFINE v == c.msg.to
  <2>3. unread[v] \in Seq(Stored) /\ Falls(unread[v])
    BY <2>1 DEF Typed, StoreTyped, LineOrder
  <2>4. Before(KeptIds, {i})
    BY <1>3, <2>1 DEF StageOrder, Past, Before
  <2>5. Before(Ids(unread[v]) \ {0}, {i})
    BY <2>1, <2>4 DEF KeptIds, Before
  <2>6. Ids(<<c.msg>> \o unread[v]) = Ids(unread[v]) \cup {i} /\ Falls(<<c.msg>> \o unread[v])
    BY <2>1, <2>3, <2>5, FallsPushed
  <2>7. /\ \A u \in User \ {v} : unread'[u] = unread[u]
        /\ unread'[v] = <<c.msg>> \o unread[v]
    BY <2>1 DEF Typed, StoreTyped
  <2>8. KeptIds' = KeptIds \cup {i}
    <3>1. \A u \in User : Ids(unread'[u]) = IF u = v THEN Ids(unread[u]) \cup {i} ELSE Ids(unread[u])
      BY <2>6, <2>7
    <3>2. \A j : j \in KeptIds' <=> j \in KeptIds \/ j = i
      <4>1. v \in User /\ i # 0
        BY <2>1
      <4>. QED
        BY <3>1, <4>1, KeptIs
    <3>. QED
      BY <3>2
  <2>9. \A u \in User : Falls(unread'[u])
    BY <2>6, <2>7 DEF LineOrder
  <2>10. PassesOn(i)
    BY <1>3, <1>5, <2>1, <2>2, <2>8 DEF PassesOn
  <2>11. LineOrder'
    BY <1>4, <1>5, <2>1, <2>2, <2>9 DEF LineOrder
  <2>. QED
    BY <2>10, <2>11 DEF Gentle
<1>9. CASE c.op = "ltrim"
  <2>1. /\ c \notin Passes /\ c \notin Gets /\ channel' = channel /\ elsewhere' = elsewhere
        /\ unread' = [unread EXCEPT ![c.user] = Ltrim(@)] /\ c.user \in User
    BY <1>1, <1>2, <1>9, CmdFields DEF RedisStores, UserOps
  <2>2. Passed' = Passed /\ GivenIds' = GivenIds
    BY <1>5, <2>1, PlacesStay
  <2>3. \A u \in User : unread'[u] = unread[u] \/ unread'[u] = Ltrim(unread[u])
    BY <2>1 DEF Typed, StoreTyped
  <2>4. \A u \in User : Ids(unread'[u]) \subseteq Ids(unread[u]) /\ Falls(unread'[u])
    <3>1. ASSUME NEW u \in User
          PROVE  Ids(unread'[u]) \subseteq Ids(unread[u]) /\ Falls(unread'[u])
      <4>1. unread[u] \in Seq(Stored) /\ Falls(unread[u])
        BY DEF Typed, StoreTyped, LineOrder
      <4>2. PICK n \in 0..Len(unread[u]) : Ltrim(unread[u]) = SubSeq(unread[u], 1, n)
        BY <4>1, LtrimIs
      <4>3. Ids(Ltrim(unread[u])) \subseteq Ids(unread[u]) /\ Falls(Ltrim(unread[u]))
        BY <4>1, <4>2, FallsCut
      <4>. QED
        BY <2>3, <4>1, <4>3
    <3>. QED
      BY <3>1
  <2>5. KeptIds' \subseteq KeptIds
    BY <2>4 DEF KeptIds
  <2>6. Thins
    BY <1>3, <1>5, <2>1, <2>2, <2>5 DEF Thins
  <2>7. LineOrder'
    BY <1>4, <1>5, <2>1, <2>2, <2>4 DEF LineOrder
  <2>8. RedisDrops
    BY <1>0, <1>3, <1>9, <2>1, <2>2 DEF RedisDrops, OnTheWay
  <2>. QED
    BY <2>6, <2>7, <2>8
<1>. QED
  BY <1>6, <1>7, <1>8, <1>9

\* The callback of GET online:<u> passes the message on; no other passes any.
LEMMA GotQueues ==
  ASSUME NEW r \in Gots, NEW cs, Queues(r, cs)
  PROVE  \E e \in Passes :
           /\ cs = <<e>> /\ e.msg.id = r.msg.id /\ e.msg.to = r.msg.to
           /\ e.op = "lpush" => e.msg = r.msg /\ r.server = None
           /\ e.op = "publish" => e.msg = EncodeText(r.msg) /\ e.to = r.server
<1>1. r.call = "got" /\ r.msg \in Message /\ r.server \in {Here, There, None}
  BY DEF Gots
<1>2. CASE r.server # None
  <2>. DEFINE e == [op |-> "publish", msg |-> EncodeText(r.msg), to |-> r.server]
  <2>1. cs = <<e>>
    BY <1>1, <1>2 DEF Queues
  <2>2. e \in Passes
    BY <1>1, <1>2, EncodedTyped DEF Passes, Publishes
  <2>3. e.msg.id = r.msg.id /\ e.msg.to = r.msg.to
    BY <1>1, EncodedTyped
  <2>. QED
    BY <2>1, <2>2, <2>3
<1>3. CASE r.server = None
  <2>. DEFINE e == MsgCmd("lpush", r.msg)
  <2>1. cs = <<e>>
    BY <1>1, <1>3 DEF Queues
  <2>2. e \in Passes /\ e.msg = r.msg /\ e.op = "lpush"
    BY <1>1 DEF Passes, Pushes, MsgCmd
  <2>. HIDE DEF e
  <2>. QED
    BY <1>3, <2>1, <2>2
<1>. QED
  BY <1>2, <1>3

LEMMA OthersQueue ==
  ASSUME NEW r \in Calls, r \notin Gots, NEW cs, Queues(r, cs)
  PROVE  \A j \in 1..Len(cs) : cs[j] \notin Gets \cup Passes
<1>1. r.call # "got"
  BY Letters
<1>2. ASSUME NEW c, c.op \notin {"get", "lpush", "publish"} PROVE c \notin Gets \cup Passes
  BY <1>2 DEF Gets, Passes, Pushes, Publishes
<1>3. CASE r.call \in {"join", "leave"}
  <2>1. PICK op \in MemberOps : cs = ForGroups(op, r)
    BY <1>3 DEF Queues, MemberOps
  <2>2. r.user \in User /\ r.groups \in SUBSET Group
    BY <1>3, CallFields
  <2>3. \A j \in 1..Len(cs) : \E g \in r.groups : cs[j] = GroupCmd(op, r.user, g)
    <3>1. 0 \in Nat /\ 0 <= MaxMoves
      BY WebAssumption
    <3>. QED
      BY <2>1, <2>2, <3>1, ForGroupsLists
  <2>4. \A g : GroupCmd(op, r.user, g).op \notin {"get", "lpush", "publish"}
    BY DEF GroupCmd, MemberOps
  <2>. QED
    BY <1>2, <2>3, <2>4
<1>4. CASE cs = <<>>
  BY <1>4
<1>5. ASSUME NEW c, cs = <<c>>, c.op \notin {"get", "lpush", "publish"}
      PROVE  \A j \in 1..Len(cs) : cs[j] \notin Gets \cup Passes
  <2>1. \A j \in 1..Len(<<c>>) : <<c>>[j] = c
    OBVIOUS
  <2>. QED
    BY <1>2, <1>5, <2>1
<1>6. CASE r.call = "pushed"
  <2>1. UserCmd("ltrim", r.user).op \notin {"get", "lpush", "publish"}
    BY DEF UserCmd
  <2>. QED
    BY <1>4, <1>5, <1>6, <2>1 DEF Queues
<1>7. CASE r.call = "pushed group"
  <2>1. SeqCmd("ltrim group", r.id).op \notin {"get", "lpush", "publish"}
    BY DEF SeqCmd
  <2>. QED
    BY <1>4, <1>5, <1>7, <2>1 DEF Queues
<1>8. CASE r.call = "differ"
  <2>1. [op |-> "incr", id |-> r.id, users |-> r.users].op \notin {"get", "lpush", "publish"}
    OBVIOUS
  <2>. QED
    BY <1>5, <1>8, <2>1 DEF Queues
<1>9. CASE r.call = "sorted"
  BY <1>4, <1>9 DEF Queues
<1>. QED
  BY <1>1, <1>3, <1>6, <1>7, <1>8, <1>9, CallFields

LEMMA CallbackFlows ==
  ASSUME Typed, LineOrder, StageOrder, Callback, UNCHANGED readVars
  PROVE  Gentle /\ LineOrder'
<1>1. PICK r \in Calls, cs \in Seq(CmdsTo(S, L)) : CallbackRuns(r, cs)
  BY CallbackIs
<1>2. /\ pipe \in Seq(Commands) /\ replies \in Seq(Calls) /\ cs \in Seq(Commands)
      /\ replies # <<>> /\ Head(replies) = r /\ replies' = Tail(replies)
      /\ pipe' = pipe \o cs /\ Queues(r, cs)
  <2>1. CmdsTo(S, L) \subseteq Commands
    BY DEF CmdsTo
  <2>2. cs \in Seq(Commands)
    BY <2>1, SeqMonotonic
  <2>. QED
    BY <1>1, <2>2, QueuesAre DEF Typed, CallbackRuns
<1>3. /\ channel' = channel /\ inbox' = inbox /\ unread' = unread /\ elsewhere' = elsewhere
      /\ S' = S /\ Passed' = Passed /\ GivenIds' = GivenIds /\ KeptIds' = KeptIds
      /\ AnsweredIds' = AnsweredIds
  BY <1>1, PlacesStay DEF CallbackRuns, S, readVars
<1>. DEFINE i == r.msg.id
<1>4. /\ r \notin Gots => Told' = Told
      /\ r \in Gots => Told = Told' \cup {i} /\ Before({i}, Told')
      /\ OrderedIn(replies', Gots)
  BY <1>2, IdsTaken DEF Told, LineOrder
<1>5. OrderedIn(pipe, Gets) /\ OrderedIn(pipe, Passes)
  BY DEF LineOrder
<1>6. CASE r \notin Gots
  <2>1. \A j \in 1..Len(cs) : cs[j] \notin Gets /\ cs[j] \notin Passes
    BY <1>2, <1>6, OthersQueue
  <2>2. ToAsk' = ToAsk /\ OrderedIn(pipe', Gets)
    BY <1>2, <1>5, <2>1, IdsAdded DEF ToAsk
  <2>3. ToPass' = ToPass /\ OrderedIn(pipe', Passes)
    BY <1>2, <1>5, <2>1, IdsAdded DEF ToPass
  <2>4. Stands
    BY <1>3, <1>4, <1>6, <2>2, <2>3 DEF Stands
  <2>5. LineOrder'
    BY <1>3, <1>4, <2>2, <2>3 DEF LineOrder
  <2>. QED
    BY <2>4, <2>5 DEF Gentle
<1>7. CASE r \in Gots
  <2>1. PICK e \in Passes : cs = <<e>> /\ e.msg.id = r.msg.id
    BY <1>2, <1>7, GotQueues
  <2>2. e \in Commands /\ e \notin Gets
    BY Letters DEF Gets, Passes, Pushes, Publishes
  <2>3. <<e>> \in Seq(Commands) /\ \A j \in 1..Len(<<e>>) : <<e>>[j] \notin Gets
    BY <2>2
  <2>4. ToAsk' = ToAsk /\ OrderedIn(pipe', Gets)
    BY <1>2, <1>5, <2>1, <2>3, IdsAdded DEF ToAsk
  <2>5. Before(ToPass, {i})
    BY <1>4, <1>7 DEF StageOrder, Before
  <2>6. Before(IdsIn(pipe, Passes), {e.msg.id}) /\ OrderedIn(pipe, Passes) /\ pipe \in Seq(Commands)
    BY <1>2, <1>5, <2>1, <2>5 DEF ToPass
  <2>7. /\ IdsIn(pipe \o <<e>>, Passes) = IdsIn(pipe, Passes) \cup {e.msg.id}
        /\ OrderedIn(pipe \o <<e>>, Passes)
    BY <2>2, <2>6, IdsAppended
  <2>8. ToPass' = ToPass \cup {i} /\ OrderedIn(pipe', Passes)
    BY <1>2, <2>1, <2>7 DEF ToPass
  <2>9. Tells(i)
    BY <1>3, <1>4, <1>7, <2>4, <2>8 DEF Tells
  <2>10. LineOrder'
    BY <1>3, <1>4, <2>4, <2>8 DEF LineOrder
  <2>. QED
    BY <2>9, <2>10 DEF Gentle
<1>. QED
  BY <1>6, <1>7

\* The steps that do nothing to the messages to users.
LEMMA IdleFlows ==
  ASSUME LineOrder, UNCHANGED <<pipe, replies, channel, inbox, unread, elsewhere, sent, answer>>
  PROVE  Gentle /\ LineOrder'
<1>1. /\ S' = S /\ ToAsk' = ToAsk /\ Told' = Told /\ ToPass' = ToPass /\ Passed' = Passed
      /\ GivenIds' = GivenIds /\ KeptIds' = KeptIds /\ AnsweredIds' = AnsweredIds
  BY PlacesStay DEF S
<1>2. Stands
  BY <1>1 DEF Stands
<1>3. LineOrder'
  BY <1>1 DEF LineOrder
<1>. QED
  BY <1>2, <1>3 DEF Gentle

LEMMA QuietFlows ==
  ASSUME LinesTyped, LineOrder, NEW t \in Seq(Commands),
         \A j \in 1..Len(t) : t[j] \notin Gets /\ t[j] \notin Passes, pipe' = pipe \o t,
         UNCHANGED <<replies, channel, inbox, unread, elsewhere, sent, answer>>
  PROVE  Gentle /\ LineOrder'
<1>1. /\ S' = S /\ Told' = Told /\ Passed' = Passed
      /\ GivenIds' = GivenIds /\ KeptIds' = KeptIds /\ AnsweredIds' = AnsweredIds
  BY PlacesStay DEF S
<1>2. pipe \in Seq(Commands) /\ OrderedIn(pipe, Gets) /\ OrderedIn(pipe, Passes)
  BY QueuesAre DEF LineOrder
<1>3. ToAsk' = ToAsk /\ OrderedIn(pipe', Gets)
  BY <1>2, IdsAdded DEF ToAsk
<1>4. ToPass' = ToPass /\ OrderedIn(pipe', Passes)
  BY <1>2, IdsAdded DEF ToPass
<1>5. Stands
  BY <1>1, <1>3, <1>4 DEF Stands
<1>6. LineOrder'
  BY <1>1, <1>3, <1>4 DEF LineOrder
<1>. QED
  BY <1>5, <1>6 DEF Gentle

LEMMA PeerMessageFlows ==
  ASSUME Typed, LineOrder, StageOrder, NEW k \in Sock, NEW u \in User, PeerMessage(k, u),
         UNCHANGED readVars
  PROVE  Gentle /\ LineOrder'
<1>. DEFINE m == [id |-> S + 1, to |-> u, text |-> "utf8"]
            e == MsgCmd("get", m)
<1>1. m \in Message /\ m.id = S + 1 /\ S \in Nat /\ S' = S + 1
  <2>1. S' = S + 1
    BY AppendProperties DEF PeerMessage, Typed, PastTyped, S
  <2>. QED
    BY <2>1, MessageTyped, Counts DEF Typed, PeerMessage
<1>2. /\ pipe' = Append(pipe, e)
      /\ UNCHANGED <<replies, channel, inbox, unread, elsewhere, answer>>
  BY DEF PeerMessage, lists, readVars, S
<1>3. /\ Told' = Told /\ Passed' = Passed
      /\ GivenIds' = GivenIds /\ KeptIds' = KeptIds /\ AnsweredIds' = AnsweredIds
  BY <1>2, PlacesStay
<1>. HIDE DEF m
<1>4. e \in Gets /\ e \notin Passes /\ e.msg.id = S + 1
  BY <1>1 DEF MsgCmd, Gets, Passes, Pushes, Publishes
<1>. HIDE DEF e
<1>5. e \in Commands
  BY <1>4, Letters
<1>6. pipe \in Seq(Commands) /\ OrderedIn(pipe, Gets) /\ OrderedIn(pipe, Passes)
  BY QueuesAre DEF LineOrder, Typed
<1>7. pipe' = pipe \o <<e>>
  BY <1>2, <1>5, <1>6, AppendIsConcat
<1>8. ToPass' = ToPass /\ OrderedIn(pipe', Passes)
  <2>1. <<e>> \in Seq(Commands) /\ \A j \in 1..Len(<<e>>) : <<e>>[j] \notin Passes
    BY <1>4, <1>5
  <2>. QED
    BY <1>6, <1>7, <2>1, IdsAdded DEF ToPass
<1>9. Before(IdsIn(pipe, Gets), {e.msg.id})
  <2>1. \A j \in 1..S : j < S + 1
    BY <1>1
  <2>. QED
    BY <1>4, <2>1 DEF StageOrder, ToAsk, Before
<1>10. /\ IdsIn(pipe \o <<e>>, Gets) = IdsIn(pipe, Gets) \cup {e.msg.id}
       /\ OrderedIn(pipe \o <<e>>, Gets)
  BY <1>4, <1>5, <1>6, <1>9, IdsAppended
<1>11. ToAsk' = ToAsk \cup {S + 1} /\ OrderedIn(pipe', Gets)
  BY <1>4, <1>7, <1>10 DEF ToAsk
<1>12. Sends
  BY <1>1, <1>3, <1>8, <1>11 DEF Sends
<1>13. LineOrder'
  BY <1>2, <1>3, <1>8, <1>11 DEF LineOrder
<1>. QED
  BY <1>12, <1>13 DEF Gentle

\* What a page does queues no message to a user, but for PeerMessage.
LettersKept == UNCHANGED <<replies, channel, inbox, unread, elsewhere, sent>>
QueuesPlain == \E t \in Seq(Commands) :
  /\ \A j \in 1..Len(t) : t[j] \notin Gets /\ t[j] \notin Passes
  /\ pipe' = pipe \o t

LEMMA PagesQueue ==
  ASSUME Typed, Pages
  PROVE  \/ QueuesPlain /\ LettersKept
         \/ \E k \in Sock, u \in User : PeerMessage(k, u)
<1>1. ASSUME NEW c, c.op \notin {"get", "lpush", "publish"} PROVE c \notin Gets /\ c \notin Passes
  BY <1>1 DEF Gets, Passes, Pushes, Publishes
<1>2. pipe \in Seq(Commands)
  BY QueuesAre DEF Typed
<1>3. ASSUME NEW k \in Sock, Connect(k) \/ DisconnectStranger(k)
      PROVE  QueuesPlain /\ LettersKept
  <2>1. pipe' = pipe /\ LettersKept
    BY <1>3 DEF Connect, DisconnectStranger, lines, lists, history, LettersKept
  <2>2. pipe \o <<>> = pipe /\ <<>> \in Seq(Commands)
    BY <1>2, ConcatEmptySeq, NoCmd
  <2>3. \A j \in 1..Len(<<>>) : <<>>[j] \notin Gets /\ <<>>[j] \notin Passes
    OBVIOUS
  <2>4. QueuesPlain
    BY <2>1, <2>2, <2>3 DEF QueuesPlain
  <2>. QED
    BY <2>1, <2>4
<1>4. ASSUME NEW a \in Commands, NEW b \in Commands, pipe' = pipe \o <<a, b>>,
             a.op \notin {"get", "lpush", "publish"}, b.op \notin {"get", "lpush", "publish"},
             LettersKept
      PROVE  QueuesPlain /\ LettersKept
  <2>1. <<a, b>> \in Seq(Commands) /\ \A j \in 1..Len(<<a, b>>) : <<a, b>>[j] \in {a, b}
    OBVIOUS
  <2>2. \A j \in 1..Len(<<a, b>>) : <<a, b>>[j] \notin Gets /\ <<a, b>>[j] \notin Passes
    BY <1>1, <1>4, <2>1
  <2>. QED
    BY <1>4, <2>1, <2>2 DEF QueuesPlain
<1>5. S \in Nat /\ L \in Nat /\ S <= MaxMoves /\ L <= MaxMoves
  BY Counts DEF Typed
<1>6. ASSUME NEW op \in UserOps, NEW u \in User
      PROVE  UserCmd(op, u) \in Commands /\ UserCmd(op, u).op = op
  BY <1>6 DEF UserCmd, UserOps, Commands
<1>7. ASSUME NEW k \in Sock, HandleShake(k)
      PROVE  QueuesPlain /\ LettersKept
  <2>. DEFINE a == UserCmd("set", UserOf[k])
              b == UserCmd("smembers to join", UserOf[k])
  <2>1. /\ pipe' = pipe \o <<a, b>>
        /\ LettersKept
    BY <1>7 DEF HandleShake, lists, history, LettersKept
  <2>2. UserOf[k] \in User
    BY WebAssumption
  <2>3. a \in Commands /\ b \in Commands /\ a.op = "set" /\ b.op = "smembers to join"
    BY <1>6, <2>2 DEF UserOps
  <2>. HIDE DEF a, b
  <2>. QED
    BY <1>4, <2>1, <2>3
<1>8. ASSUME NEW k \in Sock, Disconnect(k)
      PROVE  QueuesPlain /\ LettersKept
  <2>. DEFINE a == UserCmd("del", socketMap[k])
              b == UserCmd("smembers to leave", socketMap[k])
  <2>1. /\ pipe' = pipe \o <<a, b>>
        /\ LettersKept
    BY <1>8 DEF Disconnect, lists, LettersKept
  <2>2. socketMap[k] \in User
    BY <1>8 DEF Disconnect, Typed, NodeTyped
  <2>3. a \in Commands /\ b \in Commands /\ a.op = "del" /\ b.op = "smembers to leave"
    BY <1>6, <2>2 DEF UserOps
  <2>. HIDE DEF a, b
  <2>. QED
    BY <1>4, <2>1, <2>3
<1>9. ASSUME NEW k \in Sock, NEW g \in Group, GroupMessage(k, g)
      PROVE  QueuesPlain /\ LettersKept
  <2>. DEFINE a == SeqCmd("sort", L + 1)
              b == SeqCmd("lpush group", L + 1)
              d == SeqCmd("sdiff", L + 1)
  <2>1. /\ pipe' = pipe \o <<a, b, d>>
        /\ LettersKept
    BY <1>9 DEF GroupMessage, lists, L, LettersKept
  <2>2. L + 1 \in 1..MaxMoves
    BY <1>9, MessageTyped, WebAssumption DEF GroupMessage
  <2>3. a \in Commands /\ b \in Commands /\ d \in Commands
    BY <2>2 DEF SeqCmd, Commands
  <2>4. a.op = "sort" /\ b.op = "lpush group" /\ d.op = "sdiff"
    BY DEF SeqCmd
  <2>. HIDE DEF a, b, d
  <2>5. <<a, b, d>> \in Seq(Commands) /\ \A j \in 1..Len(<<a, b, d>>) : <<a, b, d>>[j] \in {a, b, d}
    BY <2>3
  <2>6. \A j \in 1..Len(<<a, b, d>>) : <<a, b, d>>[j] \notin Gets /\ <<a, b, d>>[j] \notin Passes
    BY <1>1, <2>4, <2>5
  <2>. QED
    BY <2>1, <2>5, <2>6 DEF QueuesPlain
<1>. QED
  BY <1>3, <1>7, <1>8, <1>9 DEF Pages

LEMMA PagesFlow ==
  ASSUME Typed, LineOrder, StageOrder, Pages, UNCHANGED readVars
  PROVE  Gentle /\ LineOrder'
<1>1. CASE QueuesPlain /\ LettersKept
  <2>1. PICK t \in Seq(Commands) : /\ \A j \in 1..Len(t) : t[j] \notin Gets /\ t[j] \notin Passes
                                  /\ pipe' = pipe \o t
    BY <1>1 DEF QueuesPlain
  <2>2. LinesTyped /\ UNCHANGED <<replies, channel, inbox, unread, elsewhere, sent, answer>>
    BY <1>1 DEF LettersKept, Typed, readVars
  <2>. QED
    BY <2>1, <2>2, QuietFlows
<1>. QED
  BY <1>1, PagesQueue, PeerMessageFlows

LEMMA DeliverFlows ==
  ASSUME Typed, LineOrder, StageOrder, Deliver, UNCHANGED readVars
  PROVE  Gentle /\ LineOrder'
<1>. DEFINE m == Head(channel)
            d == DecodeText(m)
            k == userIdMap[m.to]
            i == m.id
<1>1. channel \in Seq(Message) /\ channel # <<>> /\ Rises(channel) /\ channel' = Tail(channel)
  BY DEF Deliver, Typed, LinesTyped, LineOrder
<1>2. /\ m \in Message /\ Passed = Passed' \cup {i} /\ Before({i}, Passed') /\ Rises(channel')
  BY <1>1, RisesTaken DEF Passed
<1>3. d \in Message /\ d.id = i
  BY <1>2, EncodedTyped
<1>4. k \in Sock /\ inbox' = [inbox EXCEPT ![k] = Append(@, d)]
  BY <1>2 DEF Deliver, Typed, NodeTyped, Message
<1>5. inbox \in [Sock -> Seq(Message)]
  BY DEF Typed, PastTyped
<1>6. UNCHANGED <<pipe, replies, unread, elsewhere, answer, sent>>
  BY DEF Deliver, lists, history, readVars
<1>7. /\ S' = S /\ ToAsk' = ToAsk /\ Told' = Told /\ ToPass' = ToPass
      /\ KeptIds' = KeptIds /\ AnsweredIds' = AnsweredIds
  BY <1>6, PlacesStay DEF S
<1>. HIDE DEF d, k, m
<1>8. inbox'[k] = Append(inbox[k], d) /\ \A j \in Sock \ {k} : inbox'[j] = inbox[j]
  BY <1>4, <1>5
<1>9. Rises(inbox[k]) /\ Before(Ids(inbox[k]), {d.id}) /\ inbox[k] \in Seq(Message)
  BY <1>2, <1>3, <1>4, <1>5 DEF LineOrder, Before
<1>10. Ids(Append(inbox[k], d)) = Ids(inbox[k]) \cup {d.id} /\ Rises(Append(inbox[k], d))
  BY <1>3, <1>9, RisesAppended
<1>11. \A j \in Sock : Ids(inbox'[j]) = IF j = k THEN Ids(inbox[j]) \cup {i} ELSE Ids(inbox[j])
  BY <1>3, <1>8, <1>10
<1>12. GivenIds' = GivenIds \cup {i}
  <2>1. \A j : j \in GivenIds' <=> j \in GivenIds \/ j = i
    <3>1. k \in Sock /\ elsewhere' = elsewhere
      BY <1>4, <1>6
    <3>2. \A j : (\E l \in Sock : j \in Ids(inbox'[l])) <=> (\E l \in Sock : j \in Ids(inbox[l])) \/ j = i
      BY <1>11, <3>1
    <3>. QED
      BY <3>1, <3>2, GivenIs
  <2>. QED
    BY <2>1
<1>13. Emits(i)
  BY <1>2, <1>7, <1>12 DEF Emits
<1>14. \A j \in Sock : Rises(inbox'[j])
  BY <1>8, <1>10 DEF LineOrder
<1>15. \A j \in Sock : Before(Ids(inbox'[j]), Passed')
  BY <1>2, <1>11 DEF LineOrder, Before
<1>16. LineOrder'
  BY <1>2, <1>6, <1>14, <1>15 DEF LineOrder
<1>. QED
  BY <1>13, <1>16 DEF Gentle

LEMMA SubscriberFlows ==
  ASSUME Typed, LineOrder, StageOrder, Subscriber, UNCHANGED readVars
  PROVE  Flow /\ LineOrder'
<1>1. CASE Drop
  <2>1. channel \in Seq(Message) /\ channel # <<>> /\ Rises(channel) /\ channel' = Tail(channel)
    BY <1>1 DEF Drop, Typed, LinesTyped, LineOrder
  <2>2. Passed' \subseteq Passed /\ Rises(channel')
    BY <2>1, RisesTaken DEF Passed
  <2>3. UNCHANGED <<pipe, replies, inbox, unread, elsewhere, answer, sent>>
    BY <1>1 DEF Drop, lists, history, readVars
  <2>4. /\ S' = S /\ ToAsk' = ToAsk /\ Told' = Told /\ ToPass' = ToPass
        /\ GivenIds' = GivenIds /\ KeptIds' = KeptIds /\ AnsweredIds' = AnsweredIds
    BY <2>3, PlacesStay DEF S
  <2>5. Thins
    BY <2>2, <2>4 DEF Thins
  <2>6. LineOrder'
    BY <2>2, <2>3, <2>4 DEF LineOrder, Before
  <2>. QED
    BY <2>5, <2>6 DEF Flow
<1>. QED
  BY <1>1, DeliverFlows DEF Subscriber, Flow

LEMMA CrashFlows ==
  ASSUME Typed, LineOrder, NEW n \in 0..Len(pipe), Crash(n), UNCHANGED readVars
  PROVE  Flow /\ LineOrder'
<1>1. /\ pipe' = SubSeq(pipe, 1, n) /\ replies' = <<>> /\ channel' = <<>>
      /\ UNCHANGED <<inbox, unread, elsewhere, answer, sent>>
  BY DEF Crash, lists, readVars
<1>2. /\ S' = S /\ GivenIds' = GivenIds /\ KeptIds' = KeptIds /\ AnsweredIds' = AnsweredIds
  BY <1>1, PlacesStay DEF S
<1>3. pipe \in Seq(Commands) /\ OrderedIn(pipe, Gets) /\ OrderedIn(pipe, Passes)
  BY QueuesAre DEF LineOrder, Typed
<1>4. ToAsk' \subseteq ToAsk /\ OrderedIn(pipe', Gets)
  BY <1>1, <1>3, IdsCut DEF ToAsk
<1>5. ToPass' \subseteq ToPass /\ OrderedIn(pipe', Passes)
  BY <1>1, <1>3, IdsCut DEF ToPass
<1>6. /\ Told' = {} /\ Passed' = {} /\ OrderedIn(replies', Gots) /\ Rises(channel')
  BY <1>1 DEF Told, IdsIn, Passed, Ids, OrderedIn, Rises
<1>7. Thins
  BY <1>2, <1>4, <1>5, <1>6 DEF Thins
<1>8. LineOrder'
  BY <1>1, <1>4, <1>5, <1>6 DEF LineOrder, Before
<1>. QED
  BY <1>7, <1>8 DEF Flow

LEMMA ReadOnceHolds ==
  ASSUME ReadTyped, ReadOnce, [UnreadNext]_unreadVars
  PROVE  ReadOnce'
<1>1. CASE UNCHANGED readVars
  BY <1>1 DEF readVars, ReadOnce
<1>2. ASSUME NEW r \in Request, DelUnread(r) PROVE ReadOnce'
  BY <1>2, UnreadAssumption DEF DelUnread, ReadOnce, ReadTyped
<1>3. ASSUME NEW r \in Request, NEW u \in User, ReadUnread(r, u) PROVE ReadOnce'
  BY <1>3, WebAssumption DEF ReadUnread, ReadOnce, ReadTyped
<1>. QED
  BY <1>1, <1>2, <1>3 DEF UnreadNext, unreadVars

LEMMA DelUnreadFlows ==
  ASSUME Typed, LineOrder, NEW r \in Request, DelUnread(r)
  PROVE  Flow /\ LineOrder'
<1>1. /\ reading[r] \in User /\ unread' = [unread EXCEPT ![reading[r]] = <<>>]
      /\ UNCHANGED <<pipe, replies, channel, inbox, elsewhere, answer, sent>>
  BY DEF DelUnread, lines, history
<1>2. /\ S' = S /\ ToAsk' = ToAsk /\ Told' = Told /\ ToPass' = ToPass /\ Passed' = Passed
      /\ GivenIds' = GivenIds /\ AnsweredIds' = AnsweredIds
  BY <1>1, PlacesStay DEF S
<1>3. \A u \in User : unread'[u] = unread[u] \/ unread'[u] = <<>>
  BY <1>1 DEF Typed, StoreTyped
<1>4. Ids(<<>>) = {} /\ Falls(<<>>)
  BY DEF Ids, Falls
<1>5. KeptIds' \subseteq KeptIds
  BY <1>3, <1>4, KeptIs
<1>6. \A u \in User : Falls(unread'[u])
  BY <1>3, <1>4 DEF LineOrder
<1>7. Thins
  BY <1>2, <1>5 DEF Thins
<1>8. LineOrder'
  BY <1>1, <1>2, <1>6 DEF LineOrder
<1>. QED
  BY <1>7, <1>8 DEF Flow

LEMMA ReadUnreadFlows ==
  ASSUME Typed, ReadTyped, ReadOnce, LineOrder, NEW r \in Request, NEW u \in User, ReadUnread(r, u)
  PROVE  Gentle /\ LineOrder'
<1>1. UNCHANGED <<pipe, replies, channel, inbox, unread, elsewhere, sent>>
  BY DEF ReadUnread, lines, lists
<1>2. /\ S' = S /\ ToAsk' = ToAsk /\ Told' = Told /\ ToPass' = ToPass /\ Passed' = Passed
      /\ GivenIds' = GivenIds /\ KeptIds' = KeptIds
  BY <1>1, PlacesStay DEF S
<1>3. LineOrder'
  BY <1>1, <1>2 DEF LineOrder
<1>4. answer[r] = None /\ \A q \in Request \ {r} : answer'[q] = answer[q]
  BY DEF ReadUnread, ReadOnce, ReadTyped
<1>5. CASE unread[u] = <<>>
  <2>1. answer'[r] = None
    BY <1>5 DEF ReadUnread, ReadTyped
  <2>2. AnsweredIds' = AnsweredIds
    BY <1>4, <2>1 DEF AnsweredIds
  <2>3. Stands
    BY <1>2, <2>2 DEF Stands
  <2>. QED
    BY <1>3, <2>3 DEF Gentle
<1>6. CASE unread[u] # <<>>
  <2>. DEFINE m == Head(unread[u])
              d == DecodeText(m)
              i == m.id
  <2>1. unread[u] \in Seq(Stored)
    BY DEF Typed, StoreTyped
  <2>2. m \in Stored /\ i \in Ids(unread[u])
    <3>1. m = unread[u][1] /\ Len(unread[u]) \in Nat \ {0} /\ m \in Stored
      BY <1>6, <2>1, HeadTailProperties, LenProperties, EmptySeq
    <3>2. 1 \in 1..Len(unread[u])
      BY <3>1
    <3>. QED
      BY <3>1, <3>2 DEF Ids
  <2>3. d \in Stored /\ d.id = i /\ d # None
    BY <2>2, DecodedStored, UnreadAssumption
  <2>4. answer'[r] = d
    BY <1>6 DEF ReadUnread, ReadTyped
  <2>. HIDE DEF d, m
  <2>5. \A j : j \in AnsweredIds' <=> j \in AnsweredIds \/ (j = i /\ j # 0)
    <3>1. /\ \A j : j \in AnsweredIds <=> j # 0 /\ \E q \in Request : answer[q] # None /\ j = answer[q].id
          /\ \A j : j \in AnsweredIds' <=> j # 0 /\ \E q \in Request : answer'[q] # None /\ j = answer'[q].id
      BY DEF AnsweredIds
    <3>. QED
      BY <1>4, <2>3, <2>4, <3>1
  <2>6. CASE i = 0
    <3>1. AnsweredIds' = AnsweredIds
      BY <2>5, <2>6 DEF AnsweredIds
    <3>2. Stands
      BY <1>2, <3>1 DEF Stands
    <3>. QED
      BY <1>3, <3>2 DEF Gentle
  <2>7. CASE i # 0
    <3>1. AnsweredIds' = AnsweredIds \cup {i}
      BY <2>5, <2>7
    <3>2. i \in KeptIds
      BY <2>2, <2>7, KeptIs
    <3>3. AnswersWith(i)
      BY <1>2, <3>1, <3>2 DEF AnswersWith
    <3>. QED
      BY <1>3, <3>3 DEF Gentle
  <2>. QED
    BY <2>6, <2>7
<1>. QED
  BY <1>5, <1>6

\* A message server may lose web messages, and moves none.
LEMMA ServerFlows ==
  ASSUME Typed, LineOrder, MessageServer, UNCHANGED readVars
  PROVE  Flow /\ LineOrder'
<1>1. UNCHANGED <<pipe, replies, channel, inbox, elsewhere, sent, answer>>
  BY ListsAre DEF readVars
<1>2. /\ S' = S /\ ToAsk' = ToAsk /\ Told' = Told /\ ToPass' = ToPass /\ Passed' = Passed
      /\ GivenIds' = GivenIds /\ AnsweredIds' = AnsweredIds
  BY <1>1, PlacesStay DEF S
<1>3. ASSUME NEW u \in User
      PROVE  Ids(unread'[u]) \subseteq Ids(unread[u]) \cup {0} /\ Falls(unread'[u])
  <2>1. unread[u] \in Seq(Stored) /\ Falls(unread[u])
    BY DEF Typed, StoreTyped, LineOrder
  <2>2. Foreign(u) \in Stored /\ Foreign(u).id = 0
    BY MessageStored DEF Foreign
  <2>3. /\ Ids(<<Foreign(u)>> \o unread[u]) = Ids(unread[u]) \cup {0}
        /\ Falls(<<Foreign(u)>> \o unread[u])
    BY <2>1, <2>2, FallsPushed
  <2>4. PICK n \in 0..Len(unread[u]) : Ltrim(unread[u]) = SubSeq(unread[u], 1, n)
    BY <2>1, LtrimIs
  <2>5. Ids(Ltrim(unread[u])) \subseteq Ids(unread[u]) /\ Falls(Ltrim(unread[u]))
    BY <2>1, <2>4, FallsCut
  <2>6. Ids(<<>>) = {} /\ Falls(<<>>)
    BY DEF Ids, Falls
  <2>7. unread'[u] \in {unread[u], <<Foreign(u)>> \o unread[u], Ltrim(unread[u]), <<>>}
    BY ListsAre
  <2>. QED
    BY <2>1, <2>3, <2>5, <2>6, <2>7
<1>4. KeptIds' \subseteq KeptIds
  BY <1>3, KeptIs
<1>5. Thins
  BY <1>2, <1>4 DEF Thins
<1>6. LineOrder'
  BY <1>1, <1>2, <1>3 DEF LineOrder
<1>. QED
  BY <1>5, <1>6 DEF Flow

LEMMA FlowHolds ==
  ASSUME Typed, ReadTyped, ReadOnce, LineOrder, StageOrder, [UnreadNext]_unreadVars
  PROVE  Flow /\ LineOrder'
<1>1. CASE UNCHANGED unreadVars
  <2>1. UNCHANGED <<pipe, replies, channel, inbox, unread, elsewhere, sent, answer>>
    BY <1>1 DEF unreadVars, webVars, readVars, lines, lists, history
  <2>. QED
    BY <2>1, IdleFlows DEF Flow
<1>2. ASSUME Subscribe \/ Restart, UNCHANGED readVars
      PROVE  Flow /\ LineOrder'
  <2>1. UNCHANGED <<pipe, replies, channel, inbox, unread, elsewhere, sent, answer>>
    BY <1>2 DEF Subscribe, Restart, readVars, lines, lists, history
  <2>. QED
    BY <2>1, IdleFlows DEF Flow
<1>3. CASE WebNext /\ UNCHANGED readVars
  BY <1>2, <1>3, PagesFlow, RedisFlows, CallbackFlows, SubscriberFlows, ServerFlows, CrashFlows
     DEF WebNext, Flow
<1>4. CASE \E r \in Request : DelUnread(r) \/ \E u \in User : ReadUnread(r, u)
  BY <1>4, DelUnreadFlows, ReadUnreadFlows DEF Flow
<1>. QED
  BY <1>1, <1>3, <1>4 DEF UnreadNext

-----------------------------------------------------------------------------
\* What the messages say.

\* More is sent, and what was sent keeps its number.
LEMMA MailGrows ==
  ASSUME NEW sn \in Seq(User), NEW v \in User
  PROVE  /\ GoodCmds(sn) \subseteq GoodCmds(Append(sn, v))
         /\ GoodCalls(sn) \subseteq GoodCalls(Append(sn, v))
         /\ Coded(sn) \subseteq Coded(Append(sn, v))
         /\ \A u : MailOf(sn, u) \subseteq MailOf(Append(sn, v), u)
         /\ \A u : ListOf(sn, u) \subseteq ListOf(Append(sn, v), u)
         /\ [id |-> Len(sn) + 1, to |-> v, text |-> "utf8"] \in Message =>
              [id |-> Len(sn) + 1, to |-> v, text |-> "utf8"] \in Plain(Append(sn, v))
<1>. DEFINE t == Append(sn, v)
<1>1. /\ Len(sn) \in Nat /\ Len(t) = Len(sn) + 1 /\ t[Len(sn) + 1] = v
      /\ \A i \in 1..Len(sn) : t[i] = sn[i]
  BY AppendProperties, LenProperties
<1>. HIDE DEF t
<1>2. \A m \in Message : m.id \in Nat \ {0}
  BY WebAssumption DEF Message
<1>3. \A m \in Message : m.id <= Len(sn) => m.id <= Len(t) /\ t[m.id] = sn[m.id]
  BY <1>1, <1>2
<1>4. Plain(sn) \subseteq Plain(t) /\ Coded(sn) \subseteq Coded(t)
  BY <1>3 DEF Plain, Coded
<1>5. GoodCmds(sn) \subseteq GoodCmds(t) /\ GoodCalls(sn) \subseteq GoodCalls(t)
  BY <1>4 DEF GoodCmds, GoodCalls
<1>6. \A u : MailOf(sn, u) \subseteq MailOf(t, u) /\ ListOf(sn, u) \subseteq ListOf(t, u)
  BY <1>4 DEF MailOf, ListOf
<1>7. ASSUME NEW m \in Message, m = [id |-> Len(sn) + 1, to |-> v, text |-> "utf8"]
      PROVE  m \in Plain(t)
  BY <1>1, <1>7 DEF Plain
<1>. QED
  BY <1>4, <1>5, <1>6, <1>7 DEF t

LEMMA GoodAdded ==
  ASSUME NEW sn, NEW t \in Seq(Commands), \A j \in 1..Len(t) : t[j] \notin Gets /\ t[j] \notin Passes
  PROVE  t \in Seq(GoodCmds(sn))
<1>1. \A j \in 1..Len(t) : t[j] \in Commands
  BY ElementOfSeq
<1>2. \A j \in 1..Len(t) : t[j] \in GoodCmds(sn)
  BY <1>1 DEF GoodCmds, Passes
<1>3. Len(t) \in Nat /\ t \in [1..Len(t) -> GoodCmds(sn)]
  BY <1>2, LenProperties
<1>. QED
  BY <1>3

LEMMA RedisContents ==
  ASSUME Typed, Contents, Redis
  PROVE  Contents'
<1>1. PICK c \in Commands : RedisReplies(c) /\ RedisStores(c)
  BY RedisIs
<1>2. /\ pipe # <<>> /\ Head(pipe) = c /\ pipe' = Tail(pipe) /\ sent' = sent /\ inbox' = inbox
  BY <1>1 DEF RedisReplies
<1>3. c \in GoodCmds(sent) /\ pipe' \in Seq(GoodCmds(sent))
  BY <1>2, HeadTailProperties DEF Contents
<1>4. replies' \in Seq(GoodCalls(sent))
  <2>1. replies \in Seq(GoodCalls(sent))
    BY DEF Contents
  <2>2. ASSUME NEW r \in Calls, Answers(c, r), replies' = replies \o <<r>>
        PROVE  replies' \in Seq(GoodCalls(sent))
    <3>1. r \in Gots => c.op = "get" /\ r.msg = c.msg
      BY <2>2, Letters DEF Answers
    <3>2. c.op = "get" => c.msg \in Plain(sent)
      BY <1>3, Letters DEF GoodCmds
    <3>3. r \in GoodCalls(sent)
      BY <3>1, <3>2 DEF GoodCalls
    <3>. QED
      BY <2>1, <2>2, <3>3, OneReply, ConcatProperties
  <2>. QED
    BY <1>1, <2>1, <2>2 DEF RedisReplies
<1>5. channel' \in Seq(Coded(sent))
  <2>1. channel \in Seq(Coded(sent))
    BY DEF Contents
  <2>2. c.op = "publish" => c \in Publishes
    BY Letters DEF Passes, Pushes
  <2>3. c.op = "publish" => c.msg \in Coded(sent)
    BY <1>3, <2>2 DEF GoodCmds
  <2>4. channel' = channel \/ (c.op = "publish" /\ channel' = Append(channel, c.msg))
    BY <1>1 DEF RedisStores
  <2>. QED
    BY <2>1, <2>3, <2>4, AppendProperties
<1>6. ASSUME NEW u \in User PROVE unread'[u] \in Seq(ListOf(sent, u))
  <2>1. unread[u] \in Seq(ListOf(sent, u)) /\ unread \in [User -> Seq(Stored)]
    BY DEF Contents, Typed, StoreTyped
  <2>2. CASE c.op = "lpush"
    <3>1. c.msg \in Plain(sent)
      <4>1. c \in Pushes
        BY <2>2, Letters DEF Passes, Publishes
      <4>. QED
        BY <1>3, <4>1 DEF GoodCmds
    <3>2. unread' = [unread EXCEPT ![c.msg.to] = <<c.msg>> \o @]
      BY <1>1, <2>2 DEF RedisStores
    <3>3. CASE u = c.msg.to
      <4>1. c.msg \in ListOf(sent, u)
        BY <3>1, <3>3 DEF MailOf, ListOf
      <4>2. unread'[u] = <<c.msg>> \o unread[u]
        BY <2>1, <3>2, <3>3
      <4>. QED
        BY <2>1, <4>1, <4>2, PushTyped
    <3>4. CASE u # c.msg.to
      BY <2>1, <3>2, <3>4
    <3>. QED
      BY <3>3, <3>4
  <2>3. CASE c.op = "ltrim"
    <3>1. unread' = [unread EXCEPT ![c.user] = Ltrim(@)]
      BY <1>1, <2>3 DEF RedisStores
    <3>2. unread'[u] = unread[u] \/ unread'[u] = Ltrim(unread[u])
      BY <2>1, <3>1
    <3>. QED
      BY <2>1, <3>2, LtrimTyped
  <2>4. CASE c.op \notin {"lpush", "ltrim"}
    BY <1>1, <2>1, <2>4 DEF RedisStores
  <2>. QED
    BY <2>2, <2>3, <2>4
<1>. QED
  BY <1>2, <1>3, <1>4, <1>5, <1>6 DEF Contents

LEMMA CallbackContents ==
  ASSUME Typed, Contents, Callback
  PROVE  Contents'
<1>1. PICK r \in Calls, cs \in Seq(CmdsTo(S, L)) : CallbackRuns(r, cs)
  BY CallbackIs
<1>2. /\ replies # <<>> /\ Head(replies) = r /\ replies' = Tail(replies)
      /\ pipe' = pipe \o cs /\ Queues(r, cs)
      /\ UNCHANGED <<channel, inbox, unread, sent>>
  BY <1>1 DEF CallbackRuns
<1>3. cs \in Seq(Commands)
  <2>1. CmdsTo(S, L) \subseteq Commands
    BY DEF CmdsTo
  <2>. QED
    BY <2>1, SeqMonotonic
<1>4. r \in GoodCalls(sent) /\ replies' \in Seq(GoodCalls(sent))
  BY <1>2, HeadTailProperties DEF Contents
<1>5. cs \in Seq(GoodCmds(sent))
  <2>1. CASE r \notin Gots
    BY <1>2, <1>3, <2>1, OthersQueue, GoodAdded
  <2>2. CASE r \in Gots
    <3>1. PICK e \in Passes : /\ cs = <<e>>
                              /\ e.op = "lpush" => e.msg = r.msg
                              /\ e.op = "publish" => e.msg = EncodeText(r.msg)
      BY <1>2, <2>2, GotQueues
    <3>2. r.msg \in Plain(sent) /\ r.msg \in Message
      BY <1>4, <2>2 DEF GoodCalls, Plain
    <3>3. EncodeText(r.msg) \in Coded(sent)
      BY <3>2, EncodedTyped DEF Plain, Coded
    <3>4. e \in Commands /\ e \notin Gets
      BY Letters DEF Gets, Passes, Pushes, Publishes
    <3>5. (e \in Pushes => e.op = "lpush") /\ (e \in Publishes => e.op = "publish")
      BY DEF Pushes, Publishes
    <3>6. e \in GoodCmds(sent)
      BY <3>1, <3>2, <3>3, <3>4, <3>5 DEF GoodCmds
    <3>. QED
      BY <3>1, <3>6, OneReply
  <2>. QED
    BY <2>1, <2>2
<1>6. pipe' \in Seq(GoodCmds(sent))
  BY <1>2, <1>5, ConcatProperties DEF Contents
<1>. QED
  BY <1>2, <1>4, <1>6 DEF Contents

LEMMA PeerMessageContents ==
  ASSUME Typed, Contents, NEW k \in Sock, NEW u \in User, PeerMessage(k, u)
  PROVE  Contents'
<1>. DEFINE m == [id |-> Len(sent) + 1, to |-> u, text |-> "utf8"]
            e == MsgCmd("get", m)
<1>1. sent \in Seq(User) /\ m \in Message
  BY MessageTyped DEF PeerMessage, Typed, PastTyped, S
<1>2. /\ sent' = Append(sent, u) /\ pipe' = Append(pipe, e)
      /\ UNCHANGED <<replies, channel, inbox, unread>>
  BY DEF PeerMessage, lists
<1>3. m \in Plain(sent')
  BY <1>1, <1>2, MailGrows
<1>. HIDE DEF m
<1>4. e \in GoodCmds(sent')
  <2>1. e \in Gets /\ e \notin Publishes /\ e.msg = m
    BY <1>1 DEF MsgCmd, Gets, Publishes
  <2>. QED
    BY <1>3, <2>1, Letters DEF GoodCmds
<1>. HIDE DEF e
<1>5. /\ GoodCmds(sent) \subseteq GoodCmds(sent') /\ GoodCalls(sent) \subseteq GoodCalls(sent')
      /\ Coded(sent) \subseteq Coded(sent')
      /\ \A v : MailOf(sent, v) \subseteq MailOf(sent', v) /\ ListOf(sent, v) \subseteq ListOf(sent', v)
  BY <1>1, <1>2, MailGrows
<1>6. pipe' \in Seq(GoodCmds(sent'))
  <2>1. pipe \in Seq(GoodCmds(sent'))
    BY <1>5, SeqMonotonic DEF Contents
  <2>. QED
    BY <1>2, <1>4, <2>1, AppendProperties
<1>7. replies' \in Seq(GoodCalls(sent')) /\ channel' \in Seq(Coded(sent'))
  BY <1>2, <1>5, SeqMonotonic DEF Contents
<1>8. \A j \in Sock : inbox'[j] \in Seq(MailOf(sent', UserOf[j]))
  BY <1>2, <1>5, SeqMonotonic DEF Contents
<1>9. \A v \in User : unread'[v] \in Seq(ListOf(sent', v))
  BY <1>2, <1>5, SeqMonotonic DEF Contents
<1>. QED
  BY <1>6, <1>7, <1>8, <1>9 DEF Contents

LEMMA SubscriberContents ==
  ASSUME Typed, Registered, Contents, Subscriber
  PROVE  Contents'
<1>. DEFINE m == Head(channel)
            d == DecodeText(m)
            k == userIdMap[m.to]
<1>1. /\ channel # <<>> /\ channel' = Tail(channel)
      /\ UNCHANGED <<pipe, replies, unread, sent>>
  BY DEF Subscriber, Deliver, Drop, lists, history
<1>2. m \in Coded(sent) /\ channel' \in Seq(Coded(sent))
  BY <1>1, HeadTailProperties DEF Contents
<1>3. m \in Message /\ m.to \in User
  BY <1>2 DEF Coded, Message
<1>4. CASE Drop
  BY <1>1, <1>2, <1>4 DEF Contents, Drop
<1>5. CASE Deliver
  <2>1. k \in Sock /\ inbox' = [inbox EXCEPT ![k] = Append(@, d)]
    BY <1>3, <1>5 DEF Deliver, Typed, NodeTyped
  <2>2. k # None
    BY <1>5 DEF Deliver
  <2>3. m.to = UserOf[k]
    BY <1>3, <2>1, <2>2, WebAssumption DEF Registered, MapNamesOpenSocket
  <2>4. d \in MailOf(sent, UserOf[k])
    BY <1>2, <1>3, <2>3, EncodedTyped DEF MailOf, Plain, Coded
  <2>5. inbox \in [Sock -> Seq(Message)]
    BY DEF Typed, PastTyped
  <2>. HIDE DEF d, k, m
  <2>6. ASSUME NEW j \in Sock PROVE inbox'[j] \in Seq(MailOf(sent, UserOf[j]))
    <3>1. inbox[j] \in Seq(MailOf(sent, UserOf[j]))
      BY DEF Contents
    <3>2. inbox'[j] = IF j = k THEN Append(inbox[j], d) ELSE inbox[j]
      BY <2>1, <2>5
    <3>3. CASE j = k
      <4>1. inbox[j] \in Seq(MailOf(sent, UserOf[k])) /\ inbox'[j] = Append(inbox[j], d)
        BY <3>1, <3>2, <3>3
      <4>2. inbox'[j] \in Seq(MailOf(sent, UserOf[k]))
        BY <2>4, <4>1, AppendProperties
      <4>. QED
        BY <3>3, <4>2
    <3>. QED
      BY <3>1, <3>2, <3>3
  <2>. QED
    BY <1>1, <1>2, <2>6 DEF Contents
<1>. QED
  BY <1>4, <1>5 DEF Subscriber

LEMMA ContentsHold ==
  ASSUME Typed, Registered, Contents, [UnreadNext]_unreadVars
  PROVE  Contents'
<1>1. ASSUME UNCHANGED <<pipe, replies, channel, inbox, unread, sent>> PROVE Contents'
  BY <1>1 DEF Contents
<1>2. CASE UNCHANGED unreadVars
  BY <1>1, <1>2 DEF unreadVars, webVars, lines, lists, history
<1>3. CASE Pages
  <2>1. CASE QueuesPlain /\ LettersKept
    <3>1. PICK t \in Seq(Commands) : /\ \A j \in 1..Len(t) : t[j] \notin Gets /\ t[j] \notin Passes
                                    /\ pipe' = pipe \o t
      BY <2>1 DEF QueuesPlain
    <3>2. t \in Seq(GoodCmds(sent))
      BY <3>1, GoodAdded
    <3>3. pipe' \in Seq(GoodCmds(sent))
      BY <3>1, <3>2, ConcatProperties DEF Contents
    <3>. QED
      BY <2>1, <3>3 DEF LettersKept, Contents
  <2>. QED
    BY <1>3, <2>1, PagesQueue, PeerMessageContents
<1>4. CASE Subscribe \/ Restart
  <2>1. UNCHANGED <<pipe, replies, channel, inbox, unread, sent>>
    BY <1>4 DEF Subscribe, Restart, lines, lists, history
  <2>. QED
    BY <1>1, <2>1
<1>5. CASE MessageServer
  <2>1. UNCHANGED <<pipe, replies, channel, inbox, sent>>
    BY <1>5, ListsAre
  <2>2. ASSUME NEW u \in User PROVE unread'[u] \in Seq(ListOf(sent, u))
    <3>1. unread[u] \in Seq(ListOf(sent, u)) /\ Foreign(u) \in ListOf(sent, u)
      BY DEF Contents, ListOf
    <3>2. unread'[u] \in {unread[u], <<Foreign(u)>> \o unread[u], Ltrim(unread[u]), <<>>}
      BY <1>5, ListsAre
    <3>3. <<Foreign(u)>> \o unread[u] \in Seq(ListOf(sent, u))
      BY <3>1, PushTyped
    <3>4. Ltrim(unread[u]) \in Seq(ListOf(sent, u))
      BY <3>1, LtrimTyped
    <3>. QED
      BY <3>1, <3>2, <3>3, <3>4, NoCmd
  <2>. QED
    BY <2>1, <2>2 DEF Contents
<1>6. ASSUME NEW n \in 0..Len(pipe), Crash(n) PROVE Contents'
  <2>1. /\ pipe' = SubSeq(pipe, 1, n) /\ replies' = <<>> /\ channel' = <<>>
        /\ UNCHANGED <<inbox, unread, sent>>
    BY <1>6 DEF Crash, lists
  <2>2. pipe \in Seq(GoodCmds(sent)) /\ Len(pipe) \in Nat
    BY LenProperties DEF Contents
  <2>3. \A i \in 1..n : pipe[i] \in GoodCmds(sent)
    BY <2>2, ElementOfSeq
  <2>4. pipe' \in Seq(GoodCmds(sent))
    BY <2>1, <2>2, <2>3, SubSeqProperties
  <2>. QED
    BY <2>1, <2>4 DEF Contents
<1>7. ASSUME NEW r \in Request, DelUnread(r) PROVE Contents'
  <2>1. /\ UNCHANGED <<pipe, replies, channel, inbox, sent>>
        /\ \A u \in User : unread'[u] = unread[u] \/ unread'[u] = <<>>
    BY <1>7 DEF DelUnread, lines, history, Typed, StoreTyped
  <2>2. \A u \in User : unread'[u] \in Seq(ListOf(sent, u))
    BY <2>1, NoCmd DEF Contents
  <2>. QED
    BY <2>1, <2>2 DEF Contents
<1>8. ASSUME NEW r \in Request, NEW u \in User, ReadUnread(r, u) PROVE Contents'
  <2>1. UNCHANGED <<pipe, replies, channel, inbox, unread, sent>>
    BY <1>8 DEF ReadUnread, lines, lists
  <2>. QED
    BY <1>1, <2>1
<1>. QED
  BY <1>2, <1>3, <1>4, <1>5, <1>6, <1>7, <1>8, RedisContents, CallbackContents, SubscriberContents
     DEF UnreadNext, WebNext

LEMMA LettersInit ==
  ASSUME UnreadInit
  PROVE  ReadOnce /\ LineOrder /\ StageOrder /\ Contents
<1>1. /\ pipe = <<>> /\ replies = <<>> /\ channel = <<>> /\ sent = <<>> /\ elsewhere = {}
      /\ \A k \in Sock : inbox[k] = <<>>
      /\ \A u \in User : unread[u] = <<>>
      /\ \A r \in Request : reading[r] = None /\ answer[r] = None
  BY DEF UnreadInit, WebInit
<1>2. ReadOnce
  BY <1>1 DEF ReadOnce
<1>3. /\ \A C : IdsIn(<<>>, C) = {} /\ OrderedIn(<<>>, C)
      /\ Ids(<<>>) = {} /\ Rises(<<>>) /\ Falls(<<>>)
  BY DEF IdsIn, OrderedIn, Ids, Rises, Falls
<1>4. LineOrder
  BY <1>1, <1>3 DEF LineOrder, Before, Passed
<1>5. ToAsk = {} /\ Told = {} /\ ToPass = {} /\ Passed = {}
  BY <1>1, <1>3 DEF ToAsk, Told, ToPass, Passed
<1>6. GivenIds = {} /\ KeptIds = {} /\ AnsweredIds = {}
  <2>1. \A i : i \notin GivenIds /\ i \notin KeptIds
    BY <1>1, <1>3, GivenIs, KeptIs
  <2>2. AnsweredIds = {}
    BY <1>1 DEF AnsweredIds
  <2>. QED
    BY <2>1, <2>2
<1>7. StageOrder
  BY <1>5, <1>6 DEF StageOrder, Past, Before
<1>8. Contents
  BY <1>1, NoCmd DEF Contents
<1>. QED
  BY <1>2, <1>4, <1>7, <1>8

LEMMA LettersHold ==
  ASSUME Typed, ReadTyped, Registered, LettersInv, [UnreadNext]_unreadVars
  PROVE  LettersInv' /\ Flow
<1>1. ReadOnce' /\ Contents'
  BY ReadOnceHolds, ContentsHold DEF LettersInv
<1>2. Flow /\ LineOrder'
  BY FlowHolds DEF LettersInv
<1>3. StageOrder'
  BY <1>2, StageHolds DEF LettersInv
<1>. QED
  BY <1>1, <1>2, <1>3 DEF LettersInv

(* The messages that a page is sent live are for its user, readable and in the order
   they were sent: no message overtakes another between the GET, its callback,
   the PUBLISH and the channel (socket.js:119, 124, 49), whatever Redis, pages,
   message servers and crashes do meanwhile.                                 *)
THEOREM LiveInOrderHolds == UnreadSpec => []LiveInOrder
<1>. DEFINE I == Typed /\ ReadTyped /\ Registered /\ LettersInv
<1>1. UnreadInit => I
  BY TypedInit, RegisteredInit, LettersInit DEF LettersInv
<1>2. I /\ [UnreadNext]_unreadVars => I'
  BY TypedHolds, RegisteredHolds, LettersHold
<1>3. I => LiveInOrder
  <2>1. SUFFICES ASSUME Typed, LettersInv, NEW k \in Sock, NEW i \in 1..Len(inbox[k])
                 PROVE  /\ inbox[k][i].to = UserOf[k] /\ inbox[k][i].text = "utf8"
                        /\ \A j \in 1..i - 1 : inbox[k][j].id < inbox[k][i].id
    BY DEF LiveInOrder
  <2>2. inbox[k] \in Seq(MailOf(sent, UserOf[k])) /\ Rises(inbox[k])
    BY <2>1 DEF LettersInv, Contents, LineOrder
  <2>3. inbox[k][i] \in MailOf(sent, UserOf[k])
    BY <2>1, <2>2, ElementOfSeq
  <2>4. ASSUME NEW j \in 1..i - 1 PROVE inbox[k][j].id < inbox[k][i].id
    <3>1. Len(inbox[k]) \in Nat
      BY <2>2, LenProperties
    <3>2. j \in 1..Len(inbox[k]) /\ i \in 1..Len(inbox[k]) /\ j < i
      BY <2>1, <2>4, <3>1
    <3>. QED
      BY <2>2, <3>2 DEF Rises
  <2>. QED
    BY <2>3, <2>4 DEF MailOf, Plain
<1>. QED
  BY <1>1, <1>2, <1>3, PTL DEF UnreadSpec

-----------------------------------------------------------------------------
(* The refinement of Delivery.                                               *)
LetterOps == {"get", "lpush", "publish"}
UnderWay(p, q, c) ==
  {p[i].msg : i \in {j \in 1..Len(p) : p[j].op \in LetterOps}}
  \cup {q[i].msg : i \in {j \in 1..Len(q) : q[j].call = "got"}}
  \cup {c[i] : i \in 1..Len(c)}

LEMMA UnderWayIds ==
  ASSUME NEW p \in Seq(Commands), NEW q \in Seq(Calls), NEW c
  PROVE  {m.id : m \in UnderWay(p, q, c)}
           = IdsIn(p, Gets) \cup IdsIn(p, Passes) \cup IdsIn(q, Gots) \cup Ids(c)
<1>1. \A j \in 1..Len(p) : p[j].op \in LetterOps <=> p[j] \in Gets \/ p[j] \in Passes
  <2>1. \A j \in 1..Len(p) : p[j] \in Commands
    BY ElementOfSeq
  <2>. QED
    BY <2>1, Letters DEF LetterOps
<1>2. \A j \in 1..Len(q) : q[j].call = "got" <=> q[j] \in Gots
  <2>1. \A j \in 1..Len(q) : q[j] \in Calls
    BY ElementOfSeq
  <2>. QED
    BY <2>1, Letters
<1>3. \A i : i \in {m.id : m \in UnderWay(p, q, c)}
               <=> \/ \E j \in 1..Len(p) : p[j].op \in LetterOps /\ i = p[j].msg.id
                   \/ \E j \in 1..Len(q) : q[j].call = "got" /\ i = q[j].msg.id
                   \/ \E j \in 1..Len(c) : i = c[j].id
  BY DEF UnderWay
<1>4. \A i, C : i \in IdsIn(p, C) <=> \E j \in 1..Len(p) : p[j] \in C /\ i = p[j].msg.id
  BY DEF IdsIn
<1>5. \A i, C : i \in IdsIn(q, C) <=> \E j \in 1..Len(q) : q[j] \in C /\ i = q[j].msg.id
  BY DEF IdsIn
<1>6. \A i : i \in Ids(c) <=> \E j \in 1..Len(c) : i = c[j].id
  BY DEF Ids
<1>7. \A i : i \in {m.id : m \in UnderWay(p, q, c)}
               <=> i \in IdsIn(p, Gets) \/ i \in IdsIn(p, Passes) \/ i \in IdsIn(q, Gots) \/ i \in Ids(c)
  <2>1. ASSUME NEW i
        PROVE  (\E j \in 1..Len(p) : p[j].op \in LetterOps /\ i = p[j].msg.id)
                 <=> i \in IdsIn(p, Gets) \/ i \in IdsIn(p, Passes)
    BY <1>1, <1>4
  <2>2. ASSUME NEW i
        PROVE  (\E j \in 1..Len(q) : q[j].call = "got" /\ i = q[j].msg.id) <=> i \in IdsIn(q, Gots)
    BY <1>2, <1>5
  <2>. QED
    BY <1>3, <1>6, <2>1, <2>2
<1>. QED
  BY <1>7

\* What is on its way is on redisDB or in the channel, now and after a step.
LEMMA MovingIs ==
  ASSUME LinesTyped
  PROVE  MovingIds = OnTheWay
<1>1. pipe \in Seq(Commands) /\ replies \in Seq(Calls)
  BY QueuesAre
<1>2. MovingIds = {m.id : m \in UnderWay(pipe, replies, channel)}
  BY DEF MovingIds, MsgsUnderWay, UnderWay, LetterOps
<1>. QED
  BY <1>1, <1>2, UnderWayIds DEF OnTheWay, ToAsk, ToPass, Told, Passed

LEMMA MovingThen ==
  ASSUME LinesTyped'
  PROVE  MovingIds' = OnTheWay'
<1>1. pipe' \in Seq(Commands) /\ replies' \in Seq(Calls)
  <2>1. CmdsTo(S', L') \subseteq Commands /\ CallsTo(S', L') \subseteq Calls
    BY DEF CmdsTo, CallsTo
  <2>. QED
    BY <2>1, SeqMonotonic DEF LinesTyped
<1>2. MovingIds' = {m.id : m \in UnderWay(pipe', replies', channel')}
  BY DEF MovingIds, MsgsUnderWay, UnderWay, LetterOps
<1>. QED
  BY <1>1, <1>2, UnderWayIds DEF OnTheWay, ToAsk, ToPass, Told, Passed

\* Fate as a function of the places.
FateOf(s, moving, live, read, kept) ==
  LET twice == (live \cap kept) \cup (moving \cap (live \cup read \cup kept))
  IN  [i \in 1..MaxMoves |->
         IF i > s THEN "unsent"
         ELSE IF i \in twice THEN "twice"
         ELSE IF i \in moving THEN "moving"
         ELSE IF i \in live \cup read THEN "given"
         ELSE IF i \in kept THEN "kept" ELSE "lost"]

LEMMA FateIs ==
  /\ Fate = FateOf(S, MovingIds, GivenIds, AnsweredIds, KeptIds)
  /\ Fate' = FateOf(S', MovingIds', GivenIds', AnsweredIds', KeptIds')
BY DEF Fate, FateOf, S

\* A message may move on, be kept, given or lost, and nothing else.
LEMMA FateMoves ==
  ASSUME NEW s \in Nat, NEW t \in Nat, NEW m, NEW l, NEW r, NEW k, NEW m2, NEW l2, NEW r2, NEW k2,
         s <= t,
         l \cap k = {}, m \cap (l \cup r \cup k) = {},
         l2 \cap k2 = {}, m2 \cap (l2 \cup r2 \cup k2) = {},
         \A i \in Nat : s < i /\ i <= t => i \in m2,
         \A i \in 1..s : /\ i \in m2 => i \in m
                         /\ i \in l2 \cup r2 => i \in m \cup l \cup r \cup k
                         /\ i \in l \cup r => i \in l2 \cup r2
                         /\ i \in k2 => i \in k \cup m
  PROVE  /\ DOMAIN FateOf(t, m2, l2, r2, k2) = 1..MaxMoves
         /\ \A i \in 1..MaxMoves :
              FateOf(t, m2, l2, r2, k2)[i] \in Promise!MayBecome(FateOf(s, m, l, r, k)[i])
<1>. DEFINE f == FateOf(s, m, l, r, k)
            g == FateOf(t, m2, l2, r2, k2)
<1>1. DOMAIN g = 1..MaxMoves
  BY DEF FateOf
<1>2. ASSUME NEW i \in 1..MaxMoves PROVE g[i] \in Promise!MayBecome(f[i])
  <2>0. i \in Nat /\ 1 <= i
    BY WebAssumption
  <2>1. f[i] = IF i > s THEN "unsent" ELSE IF i \in m THEN "moving"
               ELSE IF i \in l \cup r THEN "given" ELSE IF i \in k THEN "kept" ELSE "lost"
    BY DEF FateOf
  <2>2. g[i] = IF i > t THEN "unsent" ELSE IF i \in m2 THEN "moving"
               ELSE IF i \in l2 \cup r2 THEN "given" ELSE IF i \in k2 THEN "kept" ELSE "lost"
    BY DEF FateOf
  <2>. HIDE DEF f, g
  <2>3. CASE i > s
    <3>1. f[i] = "unsent" /\ g[i] \in {"unsent", "moving"}
      BY <2>0, <2>1, <2>2, <2>3
    <3>. QED
      BY <3>1 DEF Promise!MayBecome
  <2>4. CASE ~(i > s)
    <3>1. i \in 1..s /\ ~(i > t)
      BY <2>0, <2>4
    <3>2. CASE i \in m
      <4>1. f[i] = "moving" /\ g[i] \in {"moving", "kept", "given", "lost"}
        BY <2>1, <2>2, <2>4, <3>1, <3>2
      <4>. QED
        BY <4>1 DEF Promise!MayBecome
    <3>3. CASE i \notin m /\ i \in l \cup r
      <4>1. f[i] = "given" /\ g[i] = "given"
        BY <2>1, <2>2, <2>4, <3>1, <3>3
      <4>. QED
        BY <4>1 DEF Promise!MayBecome
    <3>4. CASE i \notin m /\ i \notin l \cup r /\ i \in k
      <4>1. f[i] = "kept" /\ g[i] \in {"kept", "given", "lost"}
        BY <2>1, <2>2, <2>4, <3>1, <3>4
      <4>. QED
        BY <4>1 DEF Promise!MayBecome
    <3>5. CASE i \notin m /\ i \notin l \cup r /\ i \notin k
      <4>1. f[i] = "lost" /\ g[i] = "lost"
        BY <2>1, <2>2, <2>4, <3>1, <3>5
      <4>. QED
        BY <4>1 DEF Promise!MayBecome
    <3>. QED
      BY <3>2, <3>3, <3>4, <3>5
  <2>. QED
    BY <2>3, <2>4
<1>. QED
  BY <1>1, <1>2

LEMMA FlowFates ==
  ASSUME Typed, Typed', StageOrder, StageOrder', Flow
  PROVE  Promise!Next
<1>1. S \in Nat /\ S' \in Nat
  <2>1. S' \in Nat
    BY LenProperties DEF Typed, PastTyped, S
  <2>. QED
    BY <2>1, Counts DEF Typed
<1>2. MovingIds = OnTheWay /\ MovingIds' = OnTheWay'
  BY MovingIs, MovingThen DEF Typed
<1>. DEFINE p == GivenIds \cup AnsweredIds \cup KeptIds
            q == GivenIds' \cup AnsweredIds' \cup KeptIds'
<1>3. /\ GivenIds \cap KeptIds = {} /\ OnTheWay \cap p = {} /\ OnTheWay \cup p \subseteq 1..S
  <2>1. \A j \in 1..S : ~(j < j)
    BY <1>1
  <2>. QED
    BY <2>1 DEF StageOrder, Past, Before, OnTheWay
<1>4. /\ GivenIds' \cap KeptIds' = {} /\ OnTheWay' \cap q = {} /\ OnTheWay' \cup q \subseteq 1..S'
  <2>1. \A j \in 1..S' : ~(j < j)
    BY <1>1
  <2>. QED
    BY <2>1 DEF StageOrder, Past, Before, OnTheWay
<1>5. /\ S <= S'
      /\ \A i \in Nat : S < i /\ i <= S' => i \in OnTheWay'
      /\ \A i \in 1..S : /\ i \in OnTheWay' => i \in OnTheWay
                         /\ i \in GivenIds' \cup AnsweredIds' => i \in OnTheWay \cup p
                         /\ i \in GivenIds \cup AnsweredIds => i \in GivenIds' \cup AnsweredIds'
                         /\ i \in KeptIds' => i \in KeptIds \cup OnTheWay
  <2>1. CASE Sends
    <3>1. \A i \in 1..S : i # S + 1
      BY <1>1
    <3>2. \A i \in Nat : S < i /\ i <= S + 1 => i = S + 1
      BY <1>1
    <3>. QED
      BY <1>1, <2>1, <3>1, <3>2 DEF Sends, OnTheWay
  <2>2. ASSUME S' = S
        PROVE  S <= S' /\ \A i \in Nat : S < i /\ i <= S' => i \in OnTheWay'
    BY <1>1, <2>2
  <2>3. CASE Thins
    <3>1. S' = S
      BY <2>3 DEF Thins
    <3>. QED
      BY <2>2, <2>3, <3>1 DEF Thins, OnTheWay
  <2>4. ASSUME NEW i, Asks(i) \/ Tells(i)
        PROVE  S' = S /\ OnTheWay' = OnTheWay /\ UNCHANGED <<GivenIds, KeptIds, AnsweredIds>>
    BY <2>4 DEF Asks, Tells, OnTheWay
  <2>5. ASSUME NEW i, PassesOn(i)
        PROVE  /\ S' = S /\ OnTheWay' \subseteq OnTheWay /\ i \in OnTheWay /\ AnsweredIds' = AnsweredIds
               /\ GivenIds \subseteq GivenIds' /\ GivenIds' \subseteq GivenIds \cup {i}
               /\ KeptIds' \subseteq KeptIds \cup {i}
    BY <2>5 DEF PassesOn, OnTheWay
  <2>6. ASSUME NEW i, Emits(i)
        PROVE  /\ S' = S /\ OnTheWay' \subseteq OnTheWay /\ i \in OnTheWay /\ AnsweredIds' = AnsweredIds
               /\ GivenIds' = GivenIds \cup {i} /\ KeptIds' = KeptIds
    BY <2>6 DEF Emits, OnTheWay
  <2>7. ASSUME NEW i, AnswersWith(i)
        PROVE  /\ S' = S /\ OnTheWay' = OnTheWay /\ i \in KeptIds /\ AnsweredIds' = AnsweredIds \cup {i}
               /\ GivenIds' = GivenIds /\ KeptIds' = KeptIds
    BY <2>7 DEF AnswersWith, OnTheWay
  <2>8. CASE \E i : Asks(i) \/ Tells(i)
    BY <2>2, <2>4, <2>8
  <2>9. CASE \E i : PassesOn(i)
    BY <2>2, <2>5, <2>9
  <2>10. CASE \E i : Emits(i)
    BY <2>2, <2>6, <2>10
  <2>11. CASE \E i : AnswersWith(i)
    BY <2>2, <2>7, <2>11
  <2>12. CASE Stands
    <3>1. S' = S
      BY <2>12 DEF Stands
    <3>. QED
      BY <2>2, <2>12, <3>1 DEF Stands, OnTheWay
  <2>. QED
    BY <2>1, <2>3, <2>8, <2>9, <2>10, <2>11, <2>12 DEF Flow, Gentle
<1>6. /\ DOMAIN FateOf(S', OnTheWay', GivenIds', AnsweredIds', KeptIds') = 1..MaxMoves
      /\ \A i \in 1..MaxMoves :
           FateOf(S', OnTheWay', GivenIds', AnsweredIds', KeptIds')[i]
             \in Promise!MayBecome(FateOf(S, OnTheWay, GivenIds, AnsweredIds, KeptIds)[i])
  BY <1>1, <1>3, <1>4, <1>5, FateMoves
<1>7. DOMAIN Fate' = 1..MaxMoves /\ \A i \in 1..MaxMoves : Fate'[i] \in Promise!MayBecome(Fate[i])
  BY <1>2, <1>6, FateIs
<1>. QED
  BY <1>7 DEF Promise!Next

LEMMA FateInit ==
  ASSUME UnreadInit
  PROVE  Promise!Init
<1>1. S = 0
  BY DEF UnreadInit, WebInit, S
<1>2. \A i \in 1..MaxMoves : i > 0
  BY WebAssumption
<1>3. Fate = [i \in 1..MaxMoves |-> "unsent"]
  BY <1>1, <1>2, FateIs DEF FateOf
<1>. QED
  BY <1>3 DEF Promise!Init

(* The chat server and the reader keep the promise of Delivery, however the process,
   Redis, the channel and the requests take turns (socket.js:119-140,
   server.js:333-344): no message is in two places, and none that was handed over,
   deleted or dropped comes back.                                            *)
THEOREM DeliveryImplemented == UnreadSpec => ImplementsDelivery
<1>. DEFINE I == Typed /\ ReadTyped /\ Registered /\ LettersInv
<1>1. UnreadInit => I /\ Promise!Init
  BY TypedInit, RegisteredInit, LettersInit, FateInit DEF LettersInv
<1>2. I /\ [UnreadNext]_unreadVars => I'
  BY TypedHolds, RegisteredHolds, LettersHold
<1>3. I /\ I' /\ [UnreadNext]_unreadVars => [Promise!Next]_Fate
  <2>1. ASSUME I, I', [UnreadNext]_unreadVars PROVE Promise!Next
    BY <2>1, LettersHold, FlowFates DEF LettersInv
  <2>. QED
    BY <2>1
<1>. QED
  BY <1>1, <1>2, <1>3, PTL DEF UnreadSpec, ImplementsDelivery, Promise!Spec

-----------------------------------------------------------------------------
(* How a message to a user is lost.                                          *)

\* The histories grow, and what makes a message awaited lasts.
LEMMA SentGrows ==
  ASSUME Typed, [UnreadNext]_unreadVars
  PROVE  sent' = sent \/ \E u \in User : sent' = Append(sent, u)
<1>1. CASE UNCHANGED unreadVars
  BY <1>1 DEF unreadVars, webVars, history
<1>2. CASE Pages
  <2>1. PICK k \in Sock : \/ Connect(k) \/ HandleShake(k) \/ DisconnectStranger(k) \/ Disconnect(k)
                          \/ \E u \in User : PeerMessage(k, u)
                          \/ \E g \in Group : GroupMessage(k, g)
    BY <1>2 DEF Pages
  <2>2. \A u \in User : PeerMessage(k, u) => sent' = Append(sent, u)
    BY DEF PeerMessage
  <2>3. \A g \in Group : GroupMessage(k, g) => sent' = sent
    BY DEF GroupMessage
  <2>. QED
    BY <2>1, <2>2, <2>3 DEF Connect, HandleShake, DisconnectStranger, Disconnect, history
<1>3. CASE Redis \/ Callback
  <2>1. Redis => sent' = sent
    BY RedisIs DEF RedisReplies
  <2>2. Callback => sent' = sent
    BY CallbackIs DEF CallbackRuns
  <2>. QED
    BY <1>3, <2>1, <2>2
<1>4. CASE Subscribe \/ Subscriber \/ MessageServer \/ (\E n \in 0..Len(pipe) : Crash(n)) \/ Restart
  BY <1>4 DEF Subscribe, Subscriber, Deliver, Drop, MessageServer, RemoteSet, RemoteDel, RemoteSadd, RemoteSrem, RemotePush, RemoteTrim, RemoteDelUnread, Crash,
     Restart, history
<1>5. CASE \E r \in Request : DelUnread(r) \/ \E u \in User : ReadUnread(r, u)
  BY <1>5 DEF DelUnread, ReadUnread, history
<1>. QED
  BY <1>1, <1>2, <1>3, <1>4, <1>5 DEF UnreadNext, WebNext

\* What a step does to what a message is excused by.
LEMMA ExcusesGrow ==
  ASSUME Typed, ReadTyped, [UnreadNext]_unreadVars
  PROVE  /\ gone \subseteq gone' /\ asked \subseteq asked'
         /\ \A u \in User : /\ left'[u] = left[u] \/ left'[u] = S
                            /\ userIdMap[u] # None =>
                                 userIdMap'[u] # None \/ left'[u] = S \/ u \in gone'
<1>. DEFINE Same == UNCHANGED <<gone, asked, left, userIdMap>>
<1>1. CASE UNCHANGED unreadVars
  BY <1>1 DEF unreadVars, webVars, node, history, readVars
<1>2. CASE Pages /\ UNCHANGED readVars
  <2>1. PICK k \in Sock : \/ Connect(k) \/ HandleShake(k) \/ DisconnectStranger(k) \/ Disconnect(k)
                          \/ \E u \in User : PeerMessage(k, u)
                          \/ \E g \in Group : GroupMessage(k, g)
    BY <1>2 DEF Pages
  <2>2. asked' = asked
    BY <1>2 DEF readVars
  <2>3. CASE \/ Connect(k) \/ DisconnectStranger(k) \/ (\E u \in User : PeerMessage(k, u))
             \/ \E g \in Group : GroupMessage(k, g)
    BY <2>2, <2>3 DEF Connect, DisconnectStranger, PeerMessage, GroupMessage, history, node
  <2>4. CASE HandleShake(k)
    <3>1. UserOf[k] \in User /\ k # None
      BY WebAssumption
    <3>2. UNCHANGED <<gone, left>> /\ userIdMap' = [userIdMap EXCEPT ![UserOf[k]] = k]
      BY <2>4 DEF HandleShake, history
    <3>. QED
      BY <2>2, <3>1, <3>2 DEF Typed, NodeTyped
  <2>5. CASE Disconnect(k)
    <3>1. /\ gone' = gone /\ left' = [left EXCEPT ![socketMap[k]] = Len(sent)]
          /\ userIdMap' = [userIdMap EXCEPT ![socketMap[k]] = None]
      BY <2>5 DEF Disconnect
    <3>. QED
      BY <2>2, <3>1 DEF Typed, NodeTyped, PastTyped, S
  <2>. QED
    BY <2>1, <2>3, <2>4, <2>5
<1>3. CASE (Redis \/ Callback) /\ UNCHANGED readVars
  <2>1. Redis => UNCHANGED <<gone, left, userIdMap>>
    BY RedisIs DEF RedisReplies
  <2>2. Callback => UNCHANGED <<gone, left, userIdMap>>
    BY CallbackIs DEF CallbackRuns
  <2>. QED
    BY <1>3, <2>1, <2>2 DEF readVars
<1>4. CASE (Subscribe \/ Subscriber \/ MessageServer \/ Restart) /\ UNCHANGED readVars
  BY <1>4 DEF Subscribe, Subscriber, Deliver, Drop, MessageServer, RemoteSet, RemoteDel, RemoteSadd, RemoteSrem, RemotePush, RemoteTrim, RemoteDelUnread,
     Restart, history, node, readVars
<1>5. ASSUME NEW n \in 0..Len(pipe), Crash(n), UNCHANGED readVars
      PROVE  /\ gone \subseteq gone' /\ asked' = asked /\ left' = left
             /\ \A u \in User : userIdMap[u] # None => u \in gone'
  BY <1>5 DEF Crash, readVars
<1>6. CASE \E r \in Request : DelUnread(r) \/ \E u \in User : ReadUnread(r, u)
  BY <1>6 DEF DelUnread, ReadUnread, history, node
<1>. QED
  BY <1>1, <1>2, <1>3, <1>4, <1>5, <1>6 DEF UnreadNext, WebNext

LEMMA MarksGrow ==
  ASSUME Typed, MarksTyped, [UnreadNext]_unreadVars
  PROVE  unheard \subseteq unheard' /\ \A u \in User : meddled'[u] \in {meddled[u], S}
<1>1. CASE UNCHANGED marks
  BY <1>1 DEF marks
<1>2. CASE Redis
  <2>1. PICK c \in Commands : RedisReplies(c) /\ RedisStores(c)
    BY <1>2, RedisIs
  <2>2. meddled' = meddled /\ unheard \subseteq unheard'
    BY <2>1 DEF RedisReplies, RedisStores
  <2>. QED
    BY <2>2
<1>3. CASE MessageServer
  BY <1>3, ListMarks
<1>4. Pages => UNCHANGED marks
  BY DEF Pages, Connect, HandleShake, DisconnectStranger, Disconnect, PeerMessage, GroupMessage, history
<1>5. Callback => UNCHANGED marks
  BY CallbackIs DEF CallbackRuns, marks
<1>6. Subscribe \/ Subscriber \/ Restart \/ (\E n \in 0..Len(pipe) : Crash(n)) => UNCHANGED marks
  BY DEF Subscribe, Subscriber, Deliver, Drop, Restart, Crash, history
<1>7. \A r \in Request : DelUnread(r) \/ (\E u \in User : ReadUnread(r, u)) => UNCHANGED marks
  BY DEF DelUnread, ReadUnread, history
<1>8. UNCHANGED unreadVars => UNCHANGED marks
  BY DEF unreadVars, webVars, history
<1>. QED
  BY <1>1, <1>2, <1>3, <1>4, <1>5, <1>6, <1>7, <1>8 DEF UnreadNext, WebNext

LEMMA AwaitedLasts ==
  ASSUME Typed, ReadTyped, \A u \in User : left[u] <= S, [UnreadNext]_unreadVars
  PROVE  /\ Awaited \subseteq Awaited' /\ S <= S'
         /\ \A u \in User : left'[u] <= S' /\ left[u] <= left'[u]
         /\ \A i \in 1..S : i \in 1..S' /\ sent'[i] = sent[i]
<1>1. S \in Nat /\ sent \in Seq(User) /\ left \in [User -> 0..MaxMoves] /\ MaxMoves \in Nat
  BY Counts, WebAssumption DEF Typed, PastTyped
<1>2. S' \in Nat /\ S <= S' /\ \A i \in 1..S : i \in 1..S' /\ sent'[i] = sent[i]
  BY <1>1, SentGrows, SMTT(30) DEF S
<1>3. /\ gone \subseteq gone' /\ asked \subseteq asked'
      /\ \A u \in User : /\ left'[u] = left[u] \/ left'[u] = S
                         /\ userIdMap[u] # None =>
                              userIdMap'[u] # None \/ left'[u] = S \/ u \in gone'
  BY ExcusesGrow
<1>4. \A u \in User : left'[u] <= S' /\ left[u] <= left'[u]
  BY <1>1, <1>2, <1>3
<1>5. ASSUME NEW m \in Awaited PROVE m \in Awaited'
  <2>1. /\ m \in Message /\ m.to \in User /\ m.id \in Nat /\ m.id <= S
        /\ m.to \in gone \/ userIdMap[m.to] # None \/ m.id <= left[m.to]
    BY <1>5 DEF Awaited, Awaits, Message, S
  <2>2. m.to \in gone' \/ userIdMap'[m.to] # None \/ m.id <= left'[m.to]
    BY <1>1, <1>3, <1>4, <2>1
  <2>3. m.id <= S'
    BY <1>1, <1>2, <2>1
  <2>. QED
    BY <2>1, <2>2, <2>3 DEF Awaited, Awaits, S
<1>. QED
  BY <1>2, <1>4, <1>5

LEMMA HopefulGrow ==
  ASSUME NEW A, NEW B, A \subseteq B
  PROVE  HopefulCmds(A) \subseteq HopefulCmds(B) /\ HopefulCalls(A) \subseteq HopefulCalls(B)
BY DEF HopefulCmds, HopefulCalls

\* Commands that publish nothing.
LEMMA SilentHopeful ==
  ASSUME NEW A, NEW t \in Seq(Commands), \A j \in 1..Len(t) : t[j] \notin Publishes
  PROVE  t \in Seq(HopefulCmds(A))
<1>1. \A j \in 1..Len(t) : t[j] \in Commands
  BY ElementOfSeq
<1>2. \A j \in 1..Len(t) : t[j] \in HopefulCmds(A)
  BY <1>1 DEF HopefulCmds
<1>3. Len(t) \in Nat /\ t \in [1..Len(t) -> HopefulCmds(A)]
  BY <1>2, LenProperties
<1>. QED
  BY <1>3

\* What a page queues: a GET, the commands of a handshake or a disconnection, or those
\* of a message to a group.
LEMMA PageQueues ==
  ASSUME Typed, Pages
  PROVE  /\ up /\ up' = up /\ UNCHANGED <<replies, channel, online, gone>>
         /\ \/ pipe' = pipe /\ UNCHANGED <<userIdMap, left, sent>>
            \/ \E u \in User : /\ MsgCmd("get", [id |-> S + 1, to |-> u, text |-> "utf8"]) \in Gets
                               /\ pipe' = Append(pipe, MsgCmd("get", [id |-> S + 1, to |-> u, text |-> "utf8"]))
                               /\ sent' = Append(sent, u) /\ UNCHANGED <<userIdMap, left>>
            \/ /\ \E t \in Seq(Commands) : /\ \A i \in 1..Len(t) : t[i].op \in SeqOps
                                           /\ pipe' = pipe \o t
               /\ UNCHANGED <<userIdMap, left, sent>>
            \/ \E v \in User, here \in BOOLEAN :
                 /\ pipe' = pipe \o Greets(v, here) /\ sent' = sent
                 /\ \A u \in User \ {v} : userIdMap'[u] = userIdMap[u] /\ left'[u] = left[u]
                 /\ here => userIdMap'[v] # None /\ left'[v] = left[v]
                 /\ ~here => left'[v] = S
<1>1. PICK k \in Sock : \/ Connect(k) \/ HandleShake(k) \/ DisconnectStranger(k) \/ Disconnect(k)
                        \/ \E u \in User : PeerMessage(k, u)
                        \/ \E g \in Group : GroupMessage(k, g)
  BY DEF Pages
<1>2. CASE Connect(k) \/ DisconnectStranger(k)
  BY <1>2 DEF Connect, DisconnectStranger, Open, lines, presence, history
<1>3. CASE HandleShake(k)
  <2>1. UserOf[k] \in User /\ k # None
    BY WebAssumption
  <2>2. /\ up /\ up' = up /\ pipe' = pipe \o Greets(UserOf[k], TRUE)
        /\ UNCHANGED <<replies, channel, online, left, gone, sent>>
        /\ userIdMap' = [userIdMap EXCEPT ![UserOf[k]] = k]
    BY <1>3 DEF HandleShake, Open, Greets, presence, history
  <2>3. userIdMap'[UserOf[k]] # None /\ \A u \in User \ {UserOf[k]} : userIdMap'[u] = userIdMap[u]
    BY <2>1, <2>2 DEF Typed, NodeTyped
  <2>. QED
    BY <2>1, <2>2, <2>3
<1>4. CASE Disconnect(k)
  <2>1. PICK v \in User : v = socketMap[k]
    BY <1>4 DEF Disconnect, Typed, NodeTyped
  <2>2. /\ up /\ up' = up /\ pipe' = pipe \o Greets(v, FALSE)
        /\ UNCHANGED <<replies, channel, online, gone, sent>>
        /\ userIdMap' = [userIdMap EXCEPT ![v] = None]
        /\ left' = [left EXCEPT ![v] = S]
    BY <1>4, <2>1 DEF Disconnect, Open, Greets, presence, S
  <2>3. left'[v] = S /\ \A u \in User \ {v} : userIdMap'[u] = userIdMap[u] /\ left'[u] = left[u]
    BY <2>2 DEF Typed, NodeTyped, PastTyped
  <2>. QED
    BY <2>2, <2>3
<1>5. ASSUME NEW u \in User, PeerMessage(k, u)
      PROVE  /\ up /\ up' = up /\ UNCHANGED <<replies, channel, online, gone>>
             /\ MsgCmd("get", [id |-> S + 1, to |-> u, text |-> "utf8"]) \in Gets
             /\ pipe' = Append(pipe, MsgCmd("get", [id |-> S + 1, to |-> u, text |-> "utf8"]))
             /\ sent' = Append(sent, u) /\ UNCHANGED <<userIdMap, left>>
  <2>1. [id |-> S + 1, to |-> u, text |-> "utf8"] \in Message
    BY <1>5, MessageTyped DEF PeerMessage
  <2>2. MsgCmd("get", [id |-> S + 1, to |-> u, text |-> "utf8"]) \in Gets
    BY <2>1 DEF MsgCmd, Gets
  <2>3. /\ up /\ up' = up /\ UNCHANGED <<replies, channel, online, gone>>
        /\ pipe' = Append(pipe, MsgCmd("get", [id |-> S + 1, to |-> u, text |-> "utf8"]))
        /\ sent' = Append(sent, u) /\ UNCHANGED <<userIdMap, left>>
    BY <1>5 DEF PeerMessage, Open, node, presence, S
  <2>. QED
    BY <2>2, <2>3
<1>6. ASSUME NEW g \in Group, GroupMessage(k, g)
      PROVE  /\ up /\ up' = up /\ UNCHANGED <<replies, channel, online, gone>>
             /\ \E t \in Seq(Commands) : /\ \A i \in 1..Len(t) : t[i].op \in SeqOps
                                         /\ pipe' = pipe \o t
             /\ UNCHANGED <<userIdMap, left, sent>>
  <2>. DEFINE x == SeqCmd("sort", L + 1)
              y == SeqCmd("lpush group", L + 1)
              z == SeqCmd("sdiff", L + 1)
              t == <<x, y, z>>
  <2>1. /\ x \in Commands /\ x.op \in SeqOps /\ y \in Commands /\ y.op \in SeqOps
        /\ z \in Commands /\ z.op \in SeqOps
    <3>1. L + 1 \in 1..MaxMoves
      <4>1. Move /\ UserOf[k] \in User
        BY <1>6, WebAssumption DEF GroupMessage
      <4>. QED
        BY <4>1, MessageTyped
    <3>. QED
      BY <3>1 DEF SeqCmd, Commands, SeqOps
  <2>2. /\ pipe' = pipe \o t /\ up /\ up' = up
        /\ UNCHANGED <<replies, channel, online, gone, userIdMap, left, sent>>
    BY <1>6 DEF GroupMessage, Open, node, presence, L
  <2>. HIDE DEF x, y, z
  <2>3. t \in Seq(Commands)
    <3>1. x \in Commands /\ y \in Commands /\ z \in Commands
      BY <2>1
    <3>. QED
      BY <3>1
  <2>4. \A i \in 1..Len(t) : t[i].op \in SeqOps
    <3>1. \A i \in 1..Len(t) : t[i] = x \/ t[i] = y \/ t[i] = z
      OBVIOUS
    <3>. QED
      BY <2>1, <3>1
  <2>. HIDE DEF t
  <2>. QED
    BY <2>2, <2>3, <2>4
<1>. QED
  BY <1>1, <1>2, <1>3, <1>4, <1>5, <1>6

LEMMA GreetOps ==
  ASSUME NEW v, NEW here \in BOOLEAN, NEW i \in 1..Len(Greets(v, here))
  PROVE  /\ Greets(v, here)[i].op \in PresenceOps /\ Greets(v, here)[i].user = v
         /\ Greets(v, here)[i].op \in LeaveOps => ~here
<1>. DEFINE a == UserCmd("set", v)
            b == UserCmd("smembers to join", v)
            c == UserCmd("del", v)
            d == UserCmd("smembers to leave", v)
<1>1. /\ {a.op, b.op, c.op, d.op} \subseteq PresenceOps
      /\ a.user = v /\ b.user = v /\ c.user = v /\ d.user = v
      /\ a.op \notin LeaveOps /\ b.op \notin LeaveOps
  BY DEF UserCmd, PresenceOps, LeaveOps
<1>2. Greets(v, here) = IF here THEN <<a, b>> ELSE <<c, d>>
  BY DEF Greets
<1>. HIDE DEF a, b, c, d
<1>3. CASE here
  <2>1. Greets(v, here)[i] = a \/ Greets(v, here)[i] = b
    BY <1>2, <1>3
  <2>. QED
    BY <1>1, <2>1
<1>4. CASE ~here
  <2>1. Greets(v, here)[i] = c \/ Greets(v, here)[i] = d
    BY <1>2, <1>4
  <2>. QED
    BY <1>1, <1>4, <2>1
<1>. QED
  BY <1>3, <1>4

\* A GET that is told this server asks for a user who is here or has left since.
LEMMA ToldAwaited ==
  ASSUME Typed, HereIsPresent, LeftAfter, NEW c \in Gets, RedisReplies(c), online[c.msg.to] = Here
  PROVE  c.msg \in Awaited
<1>1. /\ pipe \in Seq(Commands) /\ pipe # <<>> /\ Head(pipe) = c /\ c \in Commands
      /\ c.msg \in Message /\ c.msg.to \in User
  BY QueuesAre, Letters DEF RedisReplies, Typed, Gets, Message
<1>2. Len(pipe) \in Nat \ {0} /\ c = pipe[1]
  BY <1>1, EmptySeq, LenProperties
<1>3. c.msg.id <= S
  BY <1>1, HeadTyped DEF Typed, Gets, MsgOps
<1>4. CASE \E j \in 1..Len(pipe) : pipe[j] \in DelsOf(c.msg.to)
  <2>1. PICK j \in 1..Len(pipe) : pipe[j] \in DelsOf(c.msg.to)
    BY <1>4
  <2>2. j # 1
    BY <1>2, <2>1 DEF DelsOf, Gets
  <2>3. 1 \in 1..Len(pipe) /\ 1 < j
    BY <1>2, <2>2
  <2>4. c.msg.id <= left[c.msg.to]
    BY <1>2, <2>1, <2>3 DEF LeftAfter
  <2>. QED
    BY <1>1, <1>3, <2>4 DEF Awaited, Awaits, S
<1>5. CASE \A j \in 1..Len(pipe) : pipe[j] \notin DelsOf(c.msg.to)
  <2>1. OnlineEnd(c.msg.to)
    BY <1>5 DEF OnlineEnd, OnlineAfter, After
  <2>2. c.msg.to \in gone \/ Present(c.msg.to)
    BY <1>1, <2>1 DEF HereIsPresent
  <2>. QED
    BY <1>1, <1>3, <2>2 DEF Awaited, Awaits, Present, S
<1>. QED
  BY <1>4, <1>5

LEMMA ExpectedHolds ==
  ASSUME Typed, ReadTyped, Contents, Expected, HereIsPresent, LeftAfter, [UnreadNext]_unreadVars
  PROVE  Expected'
<1>. DEFINE A == Awaited'
<1>1. Awaited \subseteq A
  BY AwaitedLasts DEF LeftAfter
<1>. HIDE DEF A
<1>2. pipe \in Seq(HopefulCmds(A)) /\ replies \in Seq(HopefulCalls(A)) /\ channel \in Seq(A)
  BY <1>1, HopefulGrow, SeqMonotonic DEF Expected
<1>3. pipe' \in Seq(HopefulCmds(A)) /\ replies' \in Seq(HopefulCalls(A)) /\ channel' \in Seq(A)
        => Expected'
  BY DEF Expected, A
<1>4. ASSUME NEW t \in Seq(Commands), \A j \in 1..Len(t) : t[j] \notin Publishes, pipe' = pipe \o t
      PROVE  pipe' \in Seq(HopefulCmds(A))
  BY <1>2, <1>4, SilentHopeful, ConcatProperties
<1>5. CASE UNCHANGED <<pipe, replies, channel>>
  BY <1>2, <1>3, <1>5
<1>6. CASE Pages
  <2>1. UNCHANGED <<replies, channel>>
    BY <1>6, PageQueues
  <2>2. ASSUME NEW e \in Gets, pipe' = Append(pipe, e)
        PROVE  pipe' \in Seq(HopefulCmds(A))
    <3>1. e \in HopefulCmds(A)
      BY <2>2, Letters DEF HopefulCmds, Gets, Publishes
    <3>. QED
      BY <1>2, <2>2, <3>1, AppendProperties
  <2>3. ASSUME NEW t \in Seq(Commands), \A i \in 1..Len(t) : t[i].op \in SeqOps, pipe' = pipe \o t
        PROVE  pipe' \in Seq(HopefulCmds(A))
    <3>1. \A c \in Publishes : c.op \notin SeqOps
      BY DEF Publishes, SeqOps
    <3>. QED
      BY <1>4, <2>3, <3>1
  <2>4. ASSUME NEW v \in User, NEW here \in BOOLEAN, pipe' = pipe \o Greets(v, here)
        PROVE  pipe' \in Seq(HopefulCmds(A))
    <3>1. Greets(v, here) \in Seq(Commands)
      BY GreetAfter
    <3>2. \A c \in Publishes : c.op = "publish"
      BY DEF Publishes
    <3>3. \A i \in 1..Len(Greets(v, here)) : Greets(v, here)[i].op # "publish"
      BY GreetOps DEF PresenceOps
    <3>. QED
      BY <1>4, <2>4, <3>1, <3>2, <3>3
  <2>5. pipe' \in Seq(HopefulCmds(A))
    BY <1>2, <1>6, <2>2, <2>3, <2>4, PageQueues
  <2>. QED
    BY <1>2, <1>3, <2>1, <2>5
<1>7. CASE Redis
  <2>1. PICK c \in Commands : RedisReplies(c) /\ RedisStores(c)
    BY <1>7, RedisIs
  <2>2. pipe # <<>> /\ Head(pipe) = c /\ pipe' = Tail(pipe)
    BY <2>1 DEF RedisReplies
  <2>3. c \in HopefulCmds(A) /\ pipe' \in Seq(HopefulCmds(A))
    BY <1>2, <2>2, HeadTailProperties
  <2>4. replies' \in Seq(HopefulCalls(A))
    <3>1. ASSUME NEW r \in Calls, Answers(c, r), replies' = replies \o <<r>>
          PROVE  replies' \in Seq(HopefulCalls(A))
      <4>1. r \in Gots => c \in Gets /\ r.msg = c.msg /\ r.server = online[c.msg.to]
        BY <3>1, Letters DEF Answers
      <4>2. r \in Gots /\ r.server = Here => r.msg \in A
        BY <1>1, <2>1, <4>1, ToldAwaited
      <4>3. r \in HopefulCalls(A)
        BY <4>2 DEF HopefulCalls
      <4>. QED
        BY <1>2, <3>1, <4>3, OneReply, ConcatProperties
    <3>. QED
      BY <1>2, <2>1, <3>1 DEF RedisReplies
  <2>5. channel' \in Seq(A)
    <3>1. c.op = "publish" => c \in Publishes
      BY Letters DEF Passes, Pushes
    <3>2. channel' = channel \/ (c.op = "publish" /\ c.to = Here /\ channel' = Append(channel, c.msg))
      BY <2>1 DEF RedisStores
    <3>3. c.op = "publish" /\ c.to = Here => c.msg \in A
      BY <2>3, <3>1 DEF HopefulCmds
    <3>. QED
      BY <1>2, <3>2, <3>3, AppendProperties
  <2>. QED
    BY <1>3, <2>3, <2>4, <2>5
<1>8. CASE Callback
  <2>1. PICK r \in Calls, cs \in Seq(CmdsTo(S, L)) : CallbackRuns(r, cs)
    BY <1>8, CallbackIs
  <2>2. /\ replies # <<>> /\ Head(replies) = r /\ replies' = Tail(replies) /\ channel' = channel
        /\ pipe' = pipe \o cs /\ Queues(r, cs) /\ sent' = sent /\ gone' = gone
        /\ userIdMap' = userIdMap /\ left' = left
    BY <2>1 DEF CallbackRuns
  <2>3. r \in HopefulCalls(A) /\ replies' \in Seq(HopefulCalls(A))
    BY <1>2, <2>2, HeadTailProperties
  <2>4. cs \in Seq(Commands)
    <3>1. CmdsTo(S, L) \subseteq Commands
      BY DEF CmdsTo
    <3>. QED
      BY <3>1, SeqMonotonic
  <2>5. CASE r \notin Gots
    <3>1. pipe' \in Seq(HopefulCmds(A))
      BY <1>4, <2>2, <2>4, <2>5, OthersQueue DEF Passes
    <3>. QED
      BY <1>2, <1>3, <2>2, <2>3, <3>1
  <2>6. CASE r \in Gots
    <3>1. PICK e \in Passes : /\ cs = <<e>>
                              /\ e.op = "publish" => e.msg = EncodeText(r.msg) /\ e.to = r.server
      BY <2>2, <2>6, GotQueues
    <3>2. r.msg \in Message
      BY <2>6 DEF Gots
    <3>3. r.msg \in A => EncodeText(r.msg) \in A
      BY <3>2, EncodedTyped DEF A, Awaited, Awaits
    <3>4. e \in Commands /\ (e \in Publishes => e.op = "publish")
      BY Letters DEF Publishes
    <3>5. e \in HopefulCmds(A)
      BY <2>3, <2>6, <3>1, <3>3, <3>4 DEF HopefulCmds, HopefulCalls
    <3>6. pipe' \in Seq(HopefulCmds(A))
      BY <1>2, <2>2, <3>1, <3>5, OneReply, ConcatProperties
    <3>. QED
      BY <1>2, <1>3, <2>2, <2>3, <3>6
  <2>. QED
    BY <2>5, <2>6
<1>9. CASE Subscriber
  <2>1. UNCHANGED <<pipe, replies>> /\ channel # <<>> /\ channel' = Tail(channel)
    BY <1>9 DEF Subscriber, Deliver, Drop
  <2>. QED
    BY <1>2, <1>3, <2>1, HeadTailProperties
<1>10. ASSUME NEW n \in 0..Len(pipe), Crash(n) PROVE Expected'
  <2>1. pipe' = SubSeq(pipe, 1, n) /\ replies' = <<>> /\ channel' = <<>>
    BY <1>10 DEF Crash
  <2>2. Len(pipe) \in Nat /\ \A i \in 1..n : pipe[i] \in HopefulCmds(A)
    BY <1>2, LenProperties, ElementOfSeq
  <2>3. pipe' \in Seq(HopefulCmds(A))
    BY <1>2, <2>1, <2>2, SubSeqProperties
  <2>. QED
    BY <1>3, <2>1, <2>3, NoCmd
<1>11. MessageServer \/ Subscribe \/ Restart => UNCHANGED <<pipe, replies, channel>>
  BY DEF Subscribe, MessageServer, RemoteSet, RemoteDel, RemoteSadd, RemoteSrem, RemotePush, RemoteTrim, RemoteDelUnread, Restart, lines
<1>12. \A r \in Request : DelUnread(r) \/ (\E u \in User : ReadUnread(r, u)) => UNCHANGED <<pipe, replies, channel>>
  BY DEF DelUnread, ReadUnread, lines
<1>13. UNCHANGED unreadVars => UNCHANGED <<pipe, replies, channel>>
  BY DEF unreadVars, webVars, lines
<1>. QED
  BY <1>5, <1>6, <1>7, <1>8, <1>9, <1>10, <1>11, <1>12, <1>13 DEF UnreadNext, WebNext

LEMMA HereIsPresentHolds ==
  ASSUME Typed, ReadTyped, PresenceInv, HereIsPresent, [UnreadNext]_unreadVars
  PROVE  HereIsPresent'
<1>0. gone \subseteq gone'
  BY ExcusesGrow
<1>1. ASSUME \A u \in User : OnlineEnd(u)' => OnlineEnd(u), userIdMap' = userIdMap
      PROVE  HereIsPresent'
  BY <1>0, <1>1 DEF HereIsPresent, Present
<1>2. CASE UNCHANGED <<pipe, online, userIdMap>>
  <2>1. \A u \in User : OnlineEnd(u)' => OnlineEnd(u)
    BY <1>2 DEF OnlineEnd
  <2>. QED
    BY <1>1, <1>2, <2>1
<1>3. ASSUME NEW t \in Seq(Commands), \A j \in 1..Len(t) : t[j].op \notin PresenceOps,
             pipe' = pipe \o t, UNCHANGED <<online, userIdMap>>
      PROVE  HereIsPresent'
  <2>1. ASSUME NEW u \in User PROVE OnlineEnd(u)' = OnlineEnd(u)
    <3>. DEFINE b == online[u] = Here
    <3>1. b \in BOOLEAN /\ b = (online[u] = Here)
      OBVIOUS
    <3>. HIDE DEF b
    <3>2. pipe \in Seq(Commands)
      BY QueuesAre DEF Typed
    <3>3. \A i \in 1..Len(t) : t[i] \notin SetsOf(u) \cup DelsOf(u)
      BY <1>3 DEF SetsOf, DelsOf, PresenceOps
    <3>4. OnlineAfter(pipe \o t, b, u) = OnlineAfter(pipe, b, u)
      BY <3>1, <3>2, <3>3, OnlineQuiet, ZenonT(30)
    <3>. QED
      BY <1>3, <3>1, <3>4 DEF OnlineEnd
  <2>. QED
    BY <1>1, <1>3, <2>1
<1>4. CASE Pages
  <2>1. UNCHANGED <<replies, online>>
    BY <1>4, PageQueues
  <2>2. ASSUME NEW e \in Gets, pipe' = Append(pipe, e), userIdMap' = userIdMap
        PROVE  HereIsPresent'
    <3>1. pipe \in Seq(Commands) /\ e \in Commands /\ e.op \notin PresenceOps
      BY QueuesAre, Letters DEF Typed, Gets, PresenceOps
    <3>2. pipe' = pipe \o <<e>> /\ <<e>> \in Seq(Commands)
      BY <2>2, <3>1, AppendIsConcat, OneReply
    <3>3. \A j \in 1..Len(<<e>>) : <<e>>[j] = e
      OBVIOUS
    <3>. QED
      BY <1>3, <2>1, <2>2, <3>1, <3>2, <3>3
  <2>3. ASSUME NEW t \in Seq(Commands), \A i \in 1..Len(t) : t[i].op \in SeqOps, pipe' = pipe \o t,
               userIdMap' = userIdMap
        PROVE  HereIsPresent'
    <3>1. SeqOps \cap PresenceOps = {}
      BY DEF SeqOps, PresenceOps
    <3>. QED
      BY <1>3, <2>1, <2>3, <3>1
  <2>4. ASSUME NEW v \in User, NEW here \in BOOLEAN, pipe' = pipe \o Greets(v, here),
               \A u \in User \ {v} : userIdMap'[u] = userIdMap[u], here => userIdMap'[v] # None
        PROVE  HereIsPresent'
    <3>1. ASSUME UNCHANGED <<replies, online, onlineGroup>>, NEW u \in User
          PROVE  OnlineEnd(u)' = IF u = v THEN here ELSE OnlineEnd(u)
      BY <2>4, <3>1, GreetSettles
    <3>2. onlineGroup' = onlineGroup
      BY <1>4 DEF Pages, Connect, HandleShake, DisconnectStranger, Disconnect, PeerMessage,
         GroupMessage, presence
    <3>. QED
      BY <1>0, <2>1, <2>4, <3>1, <3>2 DEF HereIsPresent, Present
  <2>. QED
    BY <1>2, <1>4, <2>1, <2>2, <2>3, <2>4, PageQueues
<1>5. CASE Redis
  <2>1. PICK c \in Commands : RedisReplies(c) /\ RedisStores(c)
    BY <1>5, RedisIs
  <2>2. \A u \in User : OnlineEnd(u)' = OnlineEnd(u)
    BY <2>1, RedisOnline
  <2>. QED
    BY <1>1, <2>1, <2>2 DEF RedisReplies
<1>6. CASE Callback
  <2>1. PICK r \in Calls, cs \in Seq(CmdsTo(S, L)) : CallbackRuns(r, cs)
    BY <1>6, CallbackIs
  <2>2. \A u \in User : OnlineEnd(u)' = OnlineEnd(u)
    BY <2>1, CallbackSettles DEF PresenceInv
  <2>. QED
    BY <1>1, <2>1, <2>2 DEF CallbackRuns
<1>7. CASE MessageServer
  <2>1. /\ pipe' = pipe /\ userIdMap' = userIdMap
        /\ \A u \in User : online'[u] = Here => online[u] = Here
    <3>1. pipe' = pipe /\ userIdMap' = userIdMap
      BY <1>7 DEF MessageServer, RemoteSet, RemoteDel, RemoteSadd, RemoteSrem, RemotePush,
         RemoteTrim, RemoteDelUnread, node, lines
    <3>2. ASSUME NEW v \in User, RemoteSet(v) \/ RemoteDel(v)
          PROVE  \A u \in User : online'[u] = Here => online[u] = Here
      <4>1. online \in [User -> {Here, There, None}] /\ Here # There /\ Here # None
        BY WebAssumption DEF Typed, StoreTyped
      <4>2. online' = [online EXCEPT ![v] = There] \/ online' = [online EXCEPT ![v] = None]
        BY <3>2 DEF RemoteSet, RemoteDel
      <4>. QED
        BY <4>1, <4>2
    <3>3. ASSUME NEW v \in User, \/ \E g \in Group : RemoteSadd(v, g) \/ RemoteSrem(v, g)
                                 \/ RemotePush(v) \/ RemoteTrim(v) \/ RemoteDelUnread(v)
          PROVE  online' = online
      BY <3>3 DEF RemoteSadd, RemoteSrem, RemotePush, RemoteTrim, RemoteDelUnread, presence
    <3>. QED
      BY <1>7, <3>1, <3>2, <3>3 DEF MessageServer
  <2>2. \A u \in User : OnlineEnd(u)' => OnlineEnd(u)
    BY <2>1 DEF OnlineEnd, OnlineAfter, After
  <2>. QED
    BY <1>1, <2>1, <2>2
<1>8. ASSUME NEW n \in 0..Len(pipe), Crash(n) PROVE HereIsPresent'
  <2>1. /\ pipe \in Seq(Commands) /\ pipe' = SubSeq(pipe, 1, n) /\ online' = online
        /\ Touching(PresenceOps, {"join", "leave"}) \subseteq gone'
        /\ \A u \in User : userIdMap[u] # None => u \in gone'
    BY <1>8, QueuesAre DEF Crash, Typed, presence
  <2>2. \A i \in 1..Len(pipe') : i \in 1..Len(pipe) /\ pipe'[i] = pipe[i]
    <3>1. Len(pipe) \in Nat
      BY <2>1, LenProperties
    <3>2. Len(SubSeq(pipe, 1, n)) = n /\ \A i \in 1..n : SubSeq(pipe, 1, n)[i] = pipe[i]
      BY <2>1, <3>1, SubSeqProperties
    <3>. QED
      BY <2>1, <3>1, <3>2
  <2>3. ASSUME NEW u \in User \ gone' PROVE ~OnlineEnd(u)'
    <3>1. u \notin Touching(PresenceOps, {"join", "leave"}) /\ u \notin gone /\ ~Present(u)
      BY <1>0, <2>1, <2>3 DEF Present
    <3>2. ~OnlineEnd(u) /\ OnlineEnd(u) = (online[u] = Here)
      BY <3>1, UntouchedEnds DEF HereIsPresent
    <3>3. \A i \in 1..Len(pipe) : pipe[i].op \in PresenceOps => pipe[i].user # u
      BY <3>1 DEF Touching
    <3>4. \A i \in 1..Len(pipe') : pipe'[i] \notin SetsOf(u)
      BY <2>2, <3>3 DEF SetsOf, PresenceOps
    <3>. QED
      BY <2>1, <3>2, <3>4 DEF OnlineEnd, OnlineAfter, After
  <2>. QED
    BY <2>3 DEF HereIsPresent
<1>9. Subscribe \/ Subscriber \/ Restart => UNCHANGED <<pipe, online, userIdMap>>
  BY DEF Subscribe, Subscriber, Deliver, Drop, Restart, node, lines, presence
<1>10. \A r \in Request : DelUnread(r) \/ (\E u \in User : ReadUnread(r, u)) => UNCHANGED <<pipe, online, userIdMap>>
  BY DEF DelUnread, ReadUnread, lines, node, presence
<1>11. UNCHANGED unreadVars => UNCHANGED <<pipe, online, userIdMap>>
  BY DEF unreadVars, webVars, lines, node, presence
<1>. QED
  BY <1>2, <1>4, <1>5, <1>6, <1>7, <1>8, <1>9, <1>10, <1>11 DEF UnreadNext, WebNext

LEMMA LeftAfterHolds ==
  ASSUME Typed, ReadTyped, LeftAfter, [UnreadNext]_unreadVars
  PROVE  LeftAfter'
<1>0. (\A u \in User : left'[u] <= S' /\ left[u] <= left'[u]) /\ S \in Nat
  BY AwaitedLasts, Counts DEF LeftAfter, Typed
<1>a. /\ pipe \in Seq(Commands) /\ Len(pipe) \in Nat
      /\ \A i \in 1..Len(pipe) : pipe[i] \in Commands /\ (pipe[i] \in Gets => pipe[i].msg.id <= S)
  <2>1. pipe \in Seq(Commands)
    BY QueuesAre DEF Typed
  <2>2. \A i \in 1..Len(pipe) : pipe[i] \in CmdsTo(S, L)
    BY ElementOfSeq DEF Typed, LinesTyped
  <2>. QED
    BY <2>1, <2>2, LenProperties DEF CmdsTo, Gets, MsgOps
<1>b. \A c \in Gets : c.msg.to \in User /\ c.msg.id \in Nat
  BY DEF Gets, Message
<1>c. left \in [User -> Nat] /\ \A u \in User : left'[u] \in Nat
  <2>1. Typed' /\ MaxMoves \in Nat
    BY TypedHolds, WebAssumption
  <2>. QED
    BY <2>1 DEF Typed, PastTyped
\* Two commands of the pipe that were in it before, in this order.
<1>1. ASSUME NEW i \in 1..Len(pipe), NEW j \in 1..Len(pipe), i < j, pipe[i] \in Gets,
             pipe[j] \in DelsOf(pipe[i].msg.to)
      PROVE  pipe[i].msg.id <= left'[pipe[i].msg.to]
  <2>1. pipe[i].msg.id <= left[pipe[i].msg.to]
    BY <1>1 DEF LeftAfter
  <2>. QED
    BY <1>0, <1>1, <1>b, <1>c, <2>1
<1>2. CASE pipe' = pipe
  BY <1>0, <1>1, <1>2 DEF LeftAfter
<1>3. ASSUME NEW t \in Seq(Commands), pipe' = pipe \o t,
             \A j \in 1..Len(t) : t[j].op = "del" => t[j].user \in User /\ left'[t[j].user] >= S,
             \A j \in 1..Len(t) : t[j].op # "del" \/ \A i \in 1..Len(t) : t[i] \notin Gets
      PROVE  LeftAfter'
  <2>1. /\ Len(t) \in Nat /\ Len(pipe') = Len(pipe) + Len(t)
        /\ \A i \in 1..Len(pipe') : \/ i \in 1..Len(pipe) /\ pipe'[i] = pipe[i]
                                    \/ i - Len(pipe) \in 1..Len(t) /\ pipe'[i] = t[i - Len(pipe)]
    <3>1. /\ Len(t) \in Nat /\ Len(pipe') = Len(pipe) + Len(t)
          /\ \A i \in 1..Len(pipe) + Len(t) : pipe'[i] = IF i <= Len(pipe) THEN pipe[i] ELSE t[i - Len(pipe)]
      BY <1>3, <1>a, ConcatProperties, LenProperties
    <3>. QED
      BY <1>a, <3>1
  <2>2. ASSUME NEW i \in 1..Len(pipe'), NEW j \in 1..Len(pipe'), i < j, pipe'[i] \in Gets,
               pipe'[j] \in DelsOf(pipe'[i].msg.to)
        PROVE  pipe'[i].msg.id <= left'[pipe'[i].msg.to]
    <3>1. CASE j \in 1..Len(pipe) /\ pipe'[j] = pipe[j]
      <4>1. i \in 1..Len(pipe) /\ pipe'[i] = pipe[i]
        BY <1>a, <2>1, <2>2, <3>1
      <4>. QED
        BY <1>1, <2>2, <3>1, <4>1
    <3>2. CASE j - Len(pipe) \in 1..Len(t) /\ pipe'[j] = t[j - Len(pipe)]
      <4>1. pipe'[j].op = "del" /\ pipe'[j].user = pipe'[i].msg.to
        BY <2>2 DEF DelsOf
      <4>2. left'[pipe'[i].msg.to] >= S /\ \A k \in 1..Len(t) : t[k] \notin Gets
        BY <1>3, <3>2, <4>1
      <4>3. i \in 1..Len(pipe) /\ pipe'[i] = pipe[i]
        BY <2>1, <2>2, <4>2
      <4>4. pipe'[i].msg.id <= S
        BY <1>a, <2>2, <4>3
      <4>. QED
        BY <1>0, <1>b, <1>c, <2>2, <4>2, <4>4
    <3>. QED
      BY <2>1, <3>1, <3>2
  <2>. QED
    BY <1>0, <2>2 DEF LeftAfter
<1>4. ASSUME NEW t \in Seq(Commands), pipe' = pipe \o t, \A j \in 1..Len(t) : t[j].op # "del"
      PROVE  LeftAfter'
  BY <1>3, <1>4
<1>5. CASE Pages
  <2>1. ASSUME NEW e \in Gets, pipe' = Append(pipe, e)
        PROVE  LeftAfter'
    <3>1. e \in Commands /\ e.op # "del"
      BY Letters DEF Gets
    <3>2. pipe' = pipe \o <<e>> /\ <<e>> \in Seq(Commands)
      BY <1>a, <2>1, <3>1, AppendIsConcat, OneReply
    <3>3. \A j \in 1..Len(<<e>>) : <<e>>[j] = e
      OBVIOUS
    <3>. QED
      BY <1>4, <3>1, <3>2, <3>3
  <2>2. ASSUME NEW t \in Seq(Commands), \A i \in 1..Len(t) : t[i].op \in SeqOps, pipe' = pipe \o t
        PROVE  LeftAfter'
    BY <1>4, <2>2 DEF SeqOps
  <2>3. ASSUME NEW v \in User, NEW here \in BOOLEAN, pipe' = pipe \o Greets(v, here),
               ~here => left'[v] = S
        PROVE  LeftAfter'
    <3>1. Greets(v, here) \in Seq(Commands)
      BY GreetAfter
    <3>2. \A i \in 1..Len(Greets(v, here)) :
            /\ Greets(v, here)[i].op \in PresenceOps /\ Greets(v, here)[i].user = v
            /\ Greets(v, here)[i].op = "del" => ~here
      <4>1. "del" \in LeaveOps
        BY DEF LeaveOps
      <4>. QED
        BY <4>1, GreetOps
    <3>3. \A i \in 1..Len(Greets(v, here)) : Greets(v, here)[i] \notin Gets
      BY <3>2 DEF Gets, PresenceOps
    <3>. DEFINE t == Greets(v, here)
    <3>4. \A j \in 1..Len(t) : t[j].op = "del" => t[j].user \in User /\ left'[t[j].user] >= S
      BY <1>0, <2>3, <3>2
    <3>5. t \in Seq(Commands) /\ pipe' = pipe \o t /\ \A i \in 1..Len(t) : t[i] \notin Gets
      BY <2>3, <3>1, <3>3
    <3>. HIDE DEF t
    <3>. QED
      BY <1>3, <3>4, <3>5
  <2>. QED
    BY <1>2, <1>5, <2>1, <2>2, <2>3, PageQueues
<1>6. CASE Redis
  <2>1. pipe # <<>> /\ pipe' = Tail(pipe)
    BY <1>6, RedisIs DEF RedisReplies
  <2>2. Len(pipe') = Len(pipe) - 1 /\ \A i \in 1..Len(pipe') : i + 1 \in 1..Len(pipe) /\ pipe'[i] = pipe[i + 1]
    BY <1>a, <2>1, HeadTailProperties, EmptySeq
  <2>3. \A i, j \in 1..Len(pipe') : i < j => i + 1 < j + 1
    BY <1>a, <2>2
  <2>. QED
    BY <1>0, <1>1, <2>2, <2>3 DEF LeftAfter
<1>7. CASE Callback
  <2>1. PICK r \in Calls, cs \in Seq(CmdsTo(S, L)) : CallbackRuns(r, cs)
    BY <1>7, CallbackIs
  <2>2. pipe' = pipe \o cs /\ Queues(r, cs) /\ cs \in Seq(Commands)
    <3>1. CmdsTo(S, L) \subseteq Commands
      BY DEF CmdsTo
    <3>. QED
      BY <2>1, <3>1, SeqMonotonic DEF CallbackRuns
  <2>3. \A j \in 1..Len(cs) : cs[j].op # "del"
    <3>1. CASE r.call \notin {"join", "leave"}
      <4>1. CASE cs = <<>>
        BY <4>1
      <4>2. ASSUME NEW c, cs = <<c>>, c.op \in {"publish", "lpush", "ltrim", "ltrim group", "incr"}
            PROVE  \A j \in 1..Len(cs) : cs[j].op # "del"
        <5>1. \A j \in 1..Len(<<c>>) : <<c>>[j] = c
          OBVIOUS
        <5>. QED
          BY <4>2, <5>1
      <4>. QED
        BY <2>2, <3>1, <4>1, <4>2, QueuesQuiet
    <3>2. CASE r.call \in {"join", "leave"}
      <4>1. cs = ForGroups("sadd", r) \/ cs = ForGroups("srem", r)
        BY <2>2, <3>2 DEF Queues
      <4>. QED
        BY <4>1 DEF ForGroups, GroupCmd
    <3>. QED
      BY <3>1, <3>2
  <2>. QED
    BY <1>4, <2>2, <2>3
<1>8. ASSUME NEW n \in 0..Len(pipe), Crash(n) PROVE LeftAfter'
  <2>1. pipe' = SubSeq(pipe, 1, n)
    BY <1>8 DEF Crash
  <2>2. Len(pipe') = n /\ \A i \in 1..n : pipe'[i] = pipe[i]
    BY <1>a, <2>1, SubSeqProperties
  <2>3. \A i \in 1..Len(pipe') : i \in 1..Len(pipe) /\ pipe'[i] = pipe[i]
    BY <1>a, <2>2
  <2>. QED
    BY <1>0, <1>1, <2>3 DEF LeftAfter
<1>9. Subscribe \/ Subscriber \/ MessageServer \/ Restart => pipe' = pipe
  BY DEF Subscribe, Subscriber, Deliver, Drop, MessageServer, RemoteSet, RemoteDel, RemoteSadd, RemoteSrem, RemotePush, RemoteTrim, RemoteDelUnread, Restart, lines
<1>10. \A r \in Request : DelUnread(r) \/ (\E u \in User : ReadUnread(r, u)) => pipe' = pipe
  BY DEF DelUnread, ReadUnread, lines
<1>11. UNCHANGED unreadVars => pipe' = pipe
  BY DEF unreadVars, webVars, lines
<1>. QED
  BY <1>2, <1>5, <1>6, <1>7, <1>8, <1>9, <1>10, <1>11 DEF UnreadNext, WebNext

LEMMA DownGoneHolds ==
  ASSUME Typed, ReadTyped, Registered, DownGone, [UnreadNext]_unreadVars
  PROVE  DownGone'
<1>1. gone \subseteq gone'
  BY ExcusesGrow
<1>2. CmdsFor(gone) \subseteq CmdsFor(gone')
  BY <1>1 DEF CmdsFor
<1>3. ASSUME ~up, ~up', pipe' = pipe \/ (pipe # <<>> /\ pipe' = Tail(pipe)) PROVE DownGone'
  <2>1. pipe \in Seq(CmdsFor(gone'))
    BY <1>2, <1>3, SeqMonotonic DEF DownGone
  <2>. QED
    BY <1>3, <2>1, HeadTailProperties DEF DownGone
<1>4. ASSUME NEW n \in 0..Len(pipe), Crash(n) PROVE DownGone'
  <2>1. pipe' = SubSeq(pipe, 1, n) /\ {m.to : m \in MsgsUnderWay} \subseteq gone'
    BY <1>4 DEF Crash
  <2>2. pipe \in Seq(Commands) /\ Len(pipe) \in Nat
    BY QueuesAre, LenProperties DEF Typed
  <2>3. ASSUME NEW i \in 1..n PROVE pipe[i] \in CmdsFor(gone')
    <3>1. i \in 1..Len(pipe) /\ pipe[i] \in Commands
      BY <2>2, ElementOfSeq
    <3>2. pipe[i] \in Gets \cup Passes => pipe[i].op \in {"get", "lpush", "publish"}
      BY <3>1, Letters
    <3>3. pipe[i] \in Gets \cup Passes => pipe[i].msg \in MsgsUnderWay
      BY <3>1, <3>2 DEF MsgsUnderWay
    <3>. QED
      BY <2>1, <3>1, <3>3 DEF CmdsFor
  <2>4. pipe' \in Seq(CmdsFor(gone'))
    BY <2>1, <2>2, <2>3, SubSeqProperties
  <2>. QED
    BY <2>4 DEF DownGone
<1>5. Pages \/ Subscribe \/ Restart => up'
  BY PageQueues DEF Subscribe, Restart
<1>6. Redis => up' = up /\ pipe # <<>> /\ pipe' = Tail(pipe)
  BY RedisIs DEF RedisReplies
<1>7. Callback => up /\ up' = up
  BY CallbackIs DEF CallbackRuns
<1>8. Subscriber \/ MessageServer => up' = up /\ pipe' = pipe
  BY DEF Subscriber, Deliver, Drop, MessageServer, RemoteSet, RemoteDel, RemoteSadd, RemoteSrem, RemotePush, RemoteTrim, RemoteDelUnread, lines, node
<1>9. \A r \in Request : DelUnread(r) \/ (\E u \in User : ReadUnread(r, u)) => up' = up /\ pipe' = pipe
  BY DEF DelUnread, ReadUnread, lines, node
<1>10. UNCHANGED unreadVars => up' = up /\ pipe' = pipe
  BY DEF unreadVars, webVars, lines, node
<1>. QED
  BY <1>3, <1>4, <1>5, <1>6, <1>7, <1>8, <1>9, <1>10 DEF UnreadNext, WebNext, DownGone

LEMMA ReadAskedHolds ==
  ASSUME ReadTyped, ReadAsked, [UnreadNext]_unreadVars
  PROVE  ReadAsked'
<1>1. CASE UNCHANGED readVars
  BY <1>1 DEF readVars, ReadAsked
<1>2. ASSUME NEW r \in Request, DelUnread(r) PROVE ReadAsked'
  BY <1>2, UnreadAssumption DEF DelUnread, ReadAsked, ReadTyped
<1>3. ASSUME NEW r \in Request, NEW u \in User, ReadUnread(r, u) PROVE ReadAsked'
  BY <1>3 DEF ReadUnread, ReadAsked, ReadTyped
<1>. QED
  BY <1>1, <1>2, <1>3 DEF UnreadNext, unreadVars

\* An excuse is for good.
LEMMA ExcusedLasts ==
  ASSUME Typed, ReadTyped, MarksTyped, LeftAfter, [UnreadNext]_unreadVars, NEW i \in 1..S,
         Excused(i)
  PROVE  Excused(i)'
<1>1. /\ S \in Nat /\ S' \in Nat /\ S <= S' /\ sent \in Seq(User)
      /\ \A j \in 1..S : j \in 1..S' /\ sent'[j] = sent[j]
      /\ \A u \in User : left[u] <= left'[u] /\ left[u] \in Nat /\ left'[u] \in Nat
  <2>1. Typed'
    BY TypedHolds
  <2>2. S \in Nat /\ S' \in Nat
    BY <2>1, LenProperties DEF Typed, PastTyped, S
  <2>. QED
    BY <2>1, <2>2, AwaitedLasts, WebAssumption DEF Typed, PastTyped, LeftAfter
<1>2. sent[i] \in User /\ sent'[i] = sent[i] /\ i \in Nat
  BY <1>1 DEF S
<1>3. gone \subseteq gone' /\ asked \subseteq asked'
  BY ExcusesGrow
<1>. DEFINE X == {j \in 1..Len(sent) : j > i /\ sent[j] = sent[i]}
            Y == {j \in 1..Len(sent') : j > i /\ sent'[j] = sent'[i]}
<1>4. Cardinality(X) <= Cardinality(Y) /\ Cardinality(X) \in Nat /\ Cardinality(Y) \in Nat
  <2>0. Len(sent) = S /\ Len(sent') = S'
    BY DEF S
  <2>1. X \subseteq Y
    BY <1>1, <1>2, <2>0
  <2>2. IsFiniteSet(1..Len(sent'))
    <3>1. 1 \in Int /\ Len(sent') \in Int
      BY <1>1, <2>0
    <3>. QED
      BY <3>1, FS_Interval
  <2>3. IsFiniteSet(Y)
    BY <2>2, FS_Subset
  <2>. HIDE DEF X, Y
  <2>. QED
    BY <2>1, <2>3, FS_Subset, FS_CardinalityType
<1>5. CASE Cardinality(X) > Keep
  <2>1. Cardinality(Y) > Keep
    BY <1>4, <1>5, WebAssumption
  <2>. QED
    BY <2>1 DEF Excused
<1>6. CASE left[sent[i]] >= i
  <2>1. left'[sent'[i]] >= i
    BY <1>1, <1>2, <1>6
  <2>. QED
    BY <2>1 DEF Excused
<1>7. CASE sent[i] \in gone \cup asked
  BY <1>2, <1>3, <1>7 DEF Excused
<1>8. CASE meddled[sent[i]] >= i
  <2>1. meddled'[sent[i]] \in {meddled[sent[i]], S} /\ i <= S /\ meddled[sent[i]] \in Nat
    BY <1>1, <1>2, MarksGrow DEF MarksTyped
  <2>2. meddled'[sent'[i]] >= i
    BY <1>1, <1>2, <1>8, <2>1
  <2>. QED
    BY <2>2 DEF Excused
<1>9. CASE i \in unheard
  BY <1>9, MarksGrow DEF Excused
<1>. QED
  BY <1>5, <1>6, <1>7, <1>8, <1>9 DEF Excused

\* What LTRIM cuts off a list has Keep newer messages to its user before it, or one of
\* a message server.
LEMMA CutExcused ==
  ASSUME NEW sn \in Seq(User), NEW u \in User, NEW ms \in Seq(ListOf(sn, u)), Falls(ms),
         NEW k, Shadowed(ms, k), NEW i \in Ids(ms), i # 0, i \notin Ids(Ltrim(ms))
  PROVE  /\ i \in 1..Len(sn) /\ sn[i] = u
         /\ \/ i <= k
            \/ Cardinality({j \in 1..Len(sn) : j > i /\ sn[j] = u}) > Keep
<1>1. Len(ms) \in Nat /\ Keep \in Nat /\ Len(sn) \in Nat
  BY LenProperties, WebAssumption
<1>2. PICK a \in 1..Len(ms) : i = ms[a].id
  BY DEF Ids
<1>3. \A b \in 1..Len(ms) : ms[b].id # 0 => /\ ms[b] \in Message /\ ms[b].id \in 1..Len(sn)
                                            /\ sn[ms[b].id] = u /\ ms[b].id \in Nat
  <2>1. \A b \in 1..Len(ms) : ms[b] \in MailOf(sn, u) \/ ms[b].id = 0
    BY ElementOfSeq DEF ListOf, Foreign
  <2>. QED
    BY <1>1, <2>1 DEF MailOf, Plain, Message
<1>4. i \in 1..Len(sn) /\ sn[i] = u
  BY <1>2, <1>3
<1>. DEFINE n == IF Len(ms) <= Keep THEN Len(ms) ELSE Keep + 1
            t == SubSeq(ms, 1, n)
<1>5. n \in 0..Len(ms) /\ n \in Nat
  BY <1>1
<1>6. Len(t) = n /\ \A b \in 1..n : t[b] = ms[b]
  <2>. HIDE DEF n
  <2>. QED
    BY <1>1, <1>5, SubSeqProperties
<1>7. a \notin 1..n
  <2>1. Ltrim(ms) = t
    BY DEF Ltrim
  <2>. HIDE DEF t, n
  <2>2. a \in 1..n => i \in Ids(t)
    BY <1>2, <1>6 DEF Ids
  <2>. QED
    BY <2>1, <2>2
<1>8. n = Keep + 1 /\ Keep + 1 < a
  BY <1>1, <1>2, <1>7
<1>. DEFINE X == {j \in 1..Len(sn) : j > i /\ sn[j] = u}
            f == [b \in 1..Keep + 1 |-> ms[b].id]
            R == {f[b] : b \in 1..Keep + 1}
<1>9. \A b \in 1..Keep + 1 : b \in 1..Len(ms) /\ b < a
  BY <1>1, <1>2, <1>8
<1>10. CASE \E b \in 1..Keep + 1 : ms[b].id = 0
  <2>1. i <= k
    BY <1>2, <1>9, <1>10 DEF Shadowed
  <2>. QED
    BY <1>4, <2>1
<1>11. ASSUME \A b \in 1..Keep + 1 : ms[b].id # 0
      PROVE  Cardinality(X) > Keep
  <2>1. \A b \in 1..Keep + 1 : ms[b].id \in X
    BY <1>2, <1>3, <1>9, <1>11 DEF Falls
  <2>2. \A b, c \in 1..Keep + 1 : f[b] = f[c] => b = c
    <3>1. \A b, c \in 1..Keep + 1 : b < c => ms[c].id < ms[b].id
      BY <1>9, <1>11 DEF Falls
    <3>2. \A b \in 1..Keep + 1 : ms[b].id \in Nat /\ b \in Nat
      BY <1>1, <1>3, <1>9, <1>11
    <3>. QED
      BY <3>1, <3>2
  <2>3. R \subseteq X /\ f \in [1..Keep + 1 -> R]
    BY <2>1
  <2>4. IsFiniteSet(X)
    <3>1. IsFiniteSet(1..Len(sn))
      BY <1>1, FS_Interval
    <3>. QED
      BY <3>1, FS_Subset
  <2>5. f \in Bijection(1..Keep + 1, R)
    <3>1. \A y \in R : \E b \in 1..Keep + 1 : f[b] = y
      OBVIOUS
    <3>. HIDE DEF f, R, X
    <3>. QED
      BY <2>2, <2>3, <3>1 DEF Bijection, Injection, Surjection, IsInjective
  <2>6. Cardinality(R) = Keep + 1
    <3>1. Keep + 1 \in Nat
      BY <1>1
    <3>2. IsFiniteSet(R) /\ R \subseteq X
      BY <2>3, <2>4, FS_Subset
    <3>. HIDE DEF f, R, X
    <3>3. ExistsBijection(1..Keep + 1, R)
      BY <2>5 DEF ExistsBijection
    <3>. QED
      BY <3>1, <3>2, <3>3, FS_CountingElements
  <2>7. Cardinality(R) <= Cardinality(X) /\ Cardinality(X) \in Nat
    <3>. HIDE DEF f, R, X
    <3>. QED
      BY <2>3, <2>4, FS_Subset, FS_CardinalityType
  <2>. QED
    BY <1>1, <2>6, <2>7
<1>. QED
  BY <1>4, <1>10, <1>11

LEMMA ShadowPushed ==
  ASSUME NEW ms \in Seq(Stored), NEW m \in Stored, NEW k, Shadowed(ms, k),
         m.id = 0 => \A i \in Ids(ms) : i <= k
  PROVE  Shadowed(<<m>> \o ms, k)
<1>. DEFINE t == <<m>> \o ms
<1>1. /\ Len(ms) \in Nat /\ Len(t) = Len(ms) + 1 /\ t[1] = m
      /\ \A i \in 1..Len(t) : i = 1 \/ t[i] = ms[i - 1]
  <2>1. <<m>> \in Seq(Stored) /\ Len(<<m>>) = 1 /\ <<m>>[1] = m
    OBVIOUS
  <2>2. /\ Len(ms) \in Nat /\ Len(t) = 1 + Len(ms)
        /\ \A i \in 1..1 + Len(ms) : t[i] = IF i <= 1 THEN <<m>>[i] ELSE ms[i - 1]
    BY <2>1, ConcatProperties, LenProperties
  <2>. QED
    BY <2>1, <2>2
<1>. HIDE DEF t
<1>2. ASSUME NEW a \in 1..Len(t), NEW b \in 1..Len(t), a < b, t[a].id = 0
      PROVE  t[b].id <= k
  <2>1. b - 1 \in 1..Len(ms) /\ t[b] = ms[b - 1]
    BY <1>1, <1>2
  <2>2. CASE a = 1
    BY <1>1, <1>2, <2>1, <2>2 DEF Ids
  <2>3. CASE a # 1
    <3>1. a - 1 \in 1..Len(ms) /\ t[a] = ms[a - 1] /\ a - 1 < b - 1
      BY <1>1, <1>2, <2>3
    <3>. QED
      BY <1>2, <2>1, <3>1 DEF Shadowed
  <2>. QED
    BY <2>2, <2>3
<1>. QED
  BY <1>2 DEF Shadowed, t

LEMMA ShadowCut ==
  ASSUME NEW ms \in Seq(Stored), NEW k, Shadowed(ms, k)
  PROVE  Shadowed(Ltrim(ms), k)
<1>. DEFINE t == Ltrim(ms)
<1>1. PICK n \in 0..Len(ms) : t = SubSeq(ms, 1, n)
  BY LtrimIs
<1>2. Len(t) = n /\ n <= Len(ms) /\ \A i \in 1..n : t[i] = ms[i]
  BY <1>1, SubSeqProperties, LenProperties
<1>. HIDE DEF t
<1>3. \A i \in 1..Len(t) : i \in 1..Len(ms) /\ t[i] = ms[i]
  BY <1>2, LenProperties
<1>. QED
  BY <1>3 DEF Shadowed, t

\* A later mark covers what an earlier one does.
LEMMA ShadowGrows ==
  ASSUME NEW ms \in Seq(Stored), NEW k \in Nat, NEW n \in Nat, k <= n, Shadowed(ms, k)
  PROVE  Shadowed(ms, n)
<1>1. \A m \in Stored : m.id \in Nat
  BY WebAssumption DEF Stored
<1>2. \A b \in 1..Len(ms) : ms[b].id \in Nat
  BY <1>1, ElementOfSeq
<1>. QED
  BY <1>2 DEF Shadowed

LEMMA ShadowsHold ==
  ASSUME Typed, MarksTyped, LettersInv, Shadows, [UnreadNext]_unreadVars
  PROVE  Shadows'
<1>0. /\ S \in Nat /\ unread \in [User -> Seq(Stored)] /\ meddled \in [User -> 0..S]
      /\ \A u \in User : meddled[u] \in Nat /\ meddled[u] <= S /\ meddled'[u] \in {meddled[u], S}
  BY Counts, MarksGrow DEF Typed, StoreTyped, MarksTyped
<1>1. ASSUME NEW u \in User
      PROVE  /\ unread[u] \in Seq(Stored) /\ Shadowed(unread[u], meddled'[u])
             /\ Shadowed(Ltrim(unread[u]), meddled'[u]) /\ Shadowed(<<>>, meddled'[u])
  <2>1. unread[u] \in Seq(Stored) /\ Shadowed(unread[u], meddled'[u])
    BY <1>0, ShadowGrows DEF Shadows
  <2>2. Shadowed(Ltrim(unread[u]), meddled'[u])
    BY <2>1, ShadowCut
  <2>3. Shadowed(<<>>, meddled'[u])
    BY DEF Shadowed
  <2>. QED
    BY <2>1, <2>2, <2>3
<1>2. ASSUME \A u \in User : unread'[u] \in {unread[u], Ltrim(unread[u]), <<>>} PROVE Shadows'
  BY <1>1, <1>2 DEF Shadows
<1>3. CASE Redis
  <2>1. PICK c \in Commands : RedisReplies(c) /\ RedisStores(c)
    BY <1>3, RedisIs
  <2>2. CASE c.op = "lpush"
    <3>1. c.msg \in Message /\ c.msg \in Stored /\ c.msg.id # 0
      <4>1. c.msg \in Message
        BY <2>2, CmdFields DEF MsgOps
      <4>. QED
        BY <4>1, MessageStored, WebAssumption DEF Message
    <3>2. unread' = [unread EXCEPT ![c.msg.to] = <<c.msg>> \o @]
      BY <2>1, <2>2 DEF RedisStores
    <3>3. \A u \in User : unread'[u] \in {unread[u], <<c.msg>> \o unread[u]}
      BY <1>0, <3>2
    <3>4. \A u \in User : Shadowed(<<c.msg>> \o unread[u], meddled'[u])
      BY <1>1, <3>1, ShadowPushed
    <3>. QED
      BY <1>1, <3>3, <3>4 DEF Shadows
  <2>3. CASE c.op # "lpush"
    <3>1. \A u \in User : unread'[u] \in {unread[u], Ltrim(unread[u])}
      BY <1>0, <2>1, <2>3 DEF RedisStores
    <3>. QED
      BY <1>2, <3>1
  <2>. QED
    BY <2>2, <2>3
<1>4. CASE MessageServer
  <2>1. ASSUME NEW u \in User PROVE Shadowed(unread'[u], meddled'[u])
    <3>1. unread'[u] \in {unread[u], <<Foreign(u)>> \o unread[u], Ltrim(unread[u]), <<>>}
      BY <1>4, ListsAre
    <3>2. unread'[u] \in {unread[u], Ltrim(unread[u])} \/ meddled'[u] = S
      BY <1>4, ListMarks
    <3>3. meddled'[u] = S => Shadowed(<<Foreign(u)>> \o unread[u], meddled'[u])
      <4>1. \A i \in Ids(unread[u]) : i <= S
        <5>1. \A i \in KeptIds : i <= S
          BY DEF LettersInv, StageOrder, Past
        <5>. QED
          BY <1>0, <5>1, KeptIs
      <4>. QED
        BY <1>1, <4>1, MessageStored, ShadowPushed
    <3>. QED
      BY <1>1, <3>1, <3>2, <3>3
  <2>. QED
    BY <2>1 DEF Shadows
<1>5. ASSUME NEW r \in Request, DelUnread(r) PROVE Shadows'
  <2>1. \A u \in User : unread'[u] \in {unread[u], <<>>}
    BY <1>0, <1>5 DEF DelUnread
  <2>. QED
    BY <1>2, <2>1
<1>6. CASE unread' = unread
  BY <1>2, <1>6
<1>7. Pages => unread' = unread
  BY PagesQueue DEF LettersKept, PeerMessage, lists
<1>8. Callback => unread' = unread
  BY CallbackIs DEF CallbackRuns
<1>9. Subscribe \/ Subscriber \/ Restart \/ (\E n \in 0..Len(pipe) : Crash(n)) => unread' = unread
  BY DEF Subscribe, Subscriber, Deliver, Drop, Restart, Crash, lists
<1>10. \A r \in Request, u \in User : ReadUnread(r, u) => unread' = unread
  BY DEF ReadUnread, lists
<1>11. UNCHANGED unreadVars => unread' = unread
  BY DEF unreadVars, webVars, lists
<1>. QED
  BY <1>3, <1>4, <1>5, <1>6, <1>7, <1>8, <1>9, <1>10, <1>11 DEF UnreadNext, WebNext

\* The message number i is not lost by this step, or with an excuse.
Spared(i) == i \in Somewhere' \/ Excused(i)'

\* The number of a message on its way names its user.
LEMMA OnTheWayNamed ==
  ASSUME Typed, Contents, NEW i \in OnTheWay
  PROVE  \E m \in MsgsUnderWay : m.id = i /\ sent[i] = m.to
<1>1. PICK m \in MsgsUnderWay : m.id = i
  BY MovingIs DEF Typed, MovingIds
<1>2. pipe \in Seq(Commands) /\ replies \in Seq(Calls)
  BY QueuesAre DEF Typed
<1>3. CASE \E j \in 1..Len(pipe) : pipe[j].op \in {"get", "lpush", "publish"} /\ m = pipe[j].msg
  <2>1. PICK j \in 1..Len(pipe) : pipe[j].op \in {"get", "lpush", "publish"} /\ m = pipe[j].msg
    BY <1>3
  <2>2. pipe[j] \in GoodCmds(sent) /\ pipe[j] \in Commands
    BY <1>2, ElementOfSeq DEF Contents
  <2>3. pipe[j] \in Gets \cup Passes
    BY <2>1, <2>2, Letters
  <2>4. m \in Plain(sent) \/ m \in Coded(sent)
    BY <2>1, <2>2, <2>3 DEF GoodCmds, Passes
  <2>. QED
    BY <1>1, <2>4 DEF Plain, Coded
<1>4. CASE \E j \in 1..Len(replies) : replies[j].call = "got" /\ m = replies[j].msg
  <2>1. PICK j \in 1..Len(replies) : replies[j].call = "got" /\ m = replies[j].msg
    BY <1>4
  <2>2. replies[j] \in GoodCalls(sent) /\ replies[j] \in Calls
    BY <1>2, ElementOfSeq DEF Contents
  <2>3. m \in Plain(sent)
    BY <2>1, <2>2, Letters DEF GoodCalls
  <2>. QED
    BY <1>1, <2>3 DEF Plain
<1>5. CASE \E j \in 1..Len(channel) : m = channel[j]
  <2>1. m \in Coded(sent)
    BY <1>5, ElementOfSeq DEF Contents
  <2>. QED
    BY <1>1, <2>1 DEF Coded
<1>. QED
  BY <1>1, <1>3, <1>4, <1>5 DEF MsgsUnderWay

\* A list keeps what it is not cut by.
LEMMA KeptSpared ==
  ASSUME NEW u \in User, NEW i \in Ids(unread[u]), i # 0,
         unread'[u] = unread[u] \/ i \in Ids(unread'[u])
  PROVE  i \in Somewhere'
<1>1. i \in Ids(unread'[u])
  OBVIOUS
<1>. QED
  BY <1>1, KeptIs DEF Somewhere

\* What LTRIM cuts off a list stands behind Keep later letters or is marked.
LEMMA ListCut ==
  ASSUME Typed, MarksTyped, LettersInv, Shadows, NEW u \in User,
         NEW i \in Ids(unread[u]), i # 0, i \notin Ids(Ltrim(unread[u]))
  PROVE  /\ i \in 1..Len(sent) /\ sent[i] = u
         /\ \/ i <= meddled[u]
            \/ Cardinality({j \in 1..Len(sent) : j > i /\ sent[j] = u}) > Keep
<1>. DEFINE ms == unread[u]
            k  == meddled[u]
<1>1. /\ sent \in Seq(User) /\ ms \in Seq(ListOf(sent, u)) /\ Falls(ms) /\ Shadowed(ms, k)
      /\ i \in Ids(ms) /\ i \notin Ids(Ltrim(ms))
  BY DEF Typed, PastTyped, LettersInv, Contents, LineOrder, Shadows
<1>. HIDE DEF ms, k
<1>2. /\ i \in 1..Len(sent) /\ sent[i] = u
      /\ \/ i <= k
         \/ Cardinality({j \in 1..Len(sent) : j > i /\ sent[j] = u}) > Keep
  BY <1>1, CutExcused
<1>. QED
  BY <1>2 DEF k

\* What LTRIM cuts off a list is excused.
LEMMA CutSpared ==
  ASSUME Typed, MarksTyped, LettersInv, Shadows, sent' = sent, meddled' = meddled,
         NEW u \in User, NEW i \in Ids(unread[u]), i # 0,
         unread'[u] \in {unread[u], Ltrim(unread[u])}
  PROVE  Spared(i)
<1>1. CASE i \in Ids(unread'[u])
  BY <1>1, KeptSpared DEF Spared
<1>2. CASE i \notin Ids(Ltrim(unread[u]))
  <2>1. meddled[u] \in Nat
    BY Counts DEF Typed, MarksTyped
  <2>2. /\ i \in 1..Len(sent) /\ sent[i] = u
        /\ \/ i <= meddled[u]
           \/ Cardinality({j \in 1..Len(sent) : j > i /\ sent[j] = u}) > Keep
    BY <1>2, ListCut
  <2>. QED
    BY <2>1, <2>2 DEF Spared, Excused
<1>. QED
  BY <1>1, <1>2

LEMMA RedisSpares ==
  ASSUME Typed, MarksTyped, LettersInv, DownGone, LeftAfter, Shadows, Redis, UNCHANGED readVars,
         NEW i \in Somewhere
  PROVE  Spared(i)
<1>1. PICK c \in Commands : RedisReplies(c) /\ RedisStores(c)
  BY RedisIs
<1>2. /\ pipe # <<>> /\ Head(pipe) = c /\ UNCHANGED <<up, sent, left, gone, meddled>> /\ asked' = asked
  BY <1>1 DEF RedisReplies, readVars
<1>3. c \in GoodCmds(sent) /\ (~up => c \in CmdsFor(gone))
  BY <1>2, HeadTailProperties DEF LettersInv, Contents, DownGone
<1>4. Gentle \/ (Thins /\ RedisDrops)
  BY RedisFlows DEF LettersInv
<1>5. CASE Gentle
  BY <1>5, GentleKeeps DEF Spared
<1>6. CASE ~up /\ c \in Gets \cup Passes /\ i = c.msg.id
  <2>1. c.msg \in Plain(sent) \/ c.msg \in Coded(sent)
    BY <1>3, <1>6 DEF GoodCmds, Passes
  <2>2. sent[i] = c.msg.to
    BY <1>6, <2>1 DEF Plain, Coded
  <2>3. sent'[i] \in gone'
    BY <1>2, <1>3, <1>6, <2>2 DEF CmdsFor
  <2>. QED
    BY <2>3 DEF Spared, Excused
<1>7. CASE c.op = "ltrim" /\ Thins /\ OnTheWay' = OnTheWay
  <2>1. i \in OnTheWay \cup GivenIds \cup AnsweredIds => i \in Somewhere'
    BY <1>7 DEF Somewhere, Thins
  <2>2. ASSUME NEW u \in User, i \in Ids(unread[u]), i # 0 PROVE Spared(i)
    <3>1. unread'[u] \in {unread[u], Ltrim(unread[u])}
      BY <1>1, <1>7 DEF RedisStores, Typed, StoreTyped
    <3>. QED
      BY <1>2, <2>2, <3>1, CutSpared
  <2>. QED
    BY <2>1, <2>2, KeptIs DEF Somewhere, Spared
<1>8. CASE c.op = "publish" /\ i = c.msg.id /\ i \in unheard'
  BY <1>8 DEF Spared, Excused
<1>. QED
  BY <1>2, <1>4, <1>5, <1>6, <1>7, <1>8 DEF RedisDrops, Spared

\* A message server cuts a list, or has marked it when it loses something.
LEMMA ServerSpares ==
  ASSUME Typed, MarksTyped, LettersInv, Shadows, MessageServer, UNCHANGED readVars,
         NEW i \in Somewhere
  PROVE  Spared(i)
<1>1. UNCHANGED <<pipe, replies, channel, inbox, elsewhere, sent, answer>>
  BY ListsAre DEF readVars
<1>2. /\ ToAsk' = ToAsk /\ Told' = Told /\ ToPass' = ToPass /\ Passed' = Passed
      /\ GivenIds' = GivenIds /\ AnsweredIds' = AnsweredIds
  BY <1>1, PlacesStay
<1>3. ASSUME NEW u \in User, i \in Ids(unread[u]), i # 0 PROVE Spared(i)
  <2>1. PICK a \in 1..Len(unread[u]) : i = unread[u][a].id
    BY <1>3 DEF Ids
  <2>2. unread[u] \in Seq(ListOf(sent, u))
    BY DEF LettersInv, Contents
  <2>3. unread[u][a] \in ListOf(sent, u)
    BY <2>2, ElementOfSeq
  <2>4. i <= S /\ sent[i] = u
    BY <1>3, <2>1, <2>3 DEF ListOf, MailOf, Plain, Foreign, S
  <2>5. CASE meddled'[u] = S
    <3>1. i \in Nat /\ S \in Nat
      BY <1>3, <2>1, <2>3, Counts, WebAssumption DEF ListOf, MailOf, Plain, Foreign, Message, Typed
    <3>2. meddled'[sent'[i]] >= i
      BY <1>1, <2>4, <2>5, <3>1
    <3>. QED
      BY <3>2 DEF Spared, Excused
  <2>6. CASE unread'[u] \in {unread[u], Ltrim(unread[u])} /\ meddled'[u] # S
    <3>1. CASE i \in Ids(unread'[u])
      BY <1>3, <3>1, KeptSpared DEF Spared
    <3>2. CASE i \notin Ids(Ltrim(unread[u]))
      <4>1. meddled[u] \in Nat /\ meddled'[u] = meddled[u]
        BY <2>6, ListMarks, Counts DEF Typed, MarksTyped
      <4>2. \/ i <= meddled[u]
            \/ Cardinality({j \in 1..Len(sent) : j > i /\ sent[j] = u}) > Keep
        BY <1>3, <3>2, ListCut
      <4>. QED
        BY <1>1, <2>4, <4>1, <4>2 DEF Spared, Excused
    <3>. QED
      BY <1>3, <2>6, <3>1, <3>2
  <2>. QED
    BY <2>5, <2>6, ListMarks
<1>. QED
  BY <1>2, <1>3, KeptIs DEF Spared, Somewhere, OnTheWay

LEMMA DropSpares ==
  ASSUME Typed, LettersInv, Expected, Drop, UNCHANGED readVars, NEW i \in Somewhere
  PROVE  Spared(i)
<1>. DEFINE m == Head(channel)
<1>1. /\ channel # <<>> /\ channel' = Tail(channel) /\ userIdMap[m.to] = None
      /\ UNCHANGED <<pipe, replies, inbox, unread, elsewhere, answer, sent, left, gone>>
  BY DEF Drop, lists, history, readVars
<1>2. m \in Awaited /\ m \in Coded(sent) /\ channel \in Seq(Message)
  BY <1>1, HeadTailProperties DEF Expected, LettersInv, Contents, Typed, LinesTyped
<1>3. Passed = Passed' \cup {m.id}
  BY <1>1, <1>2, RisesTaken DEF Passed
<1>4. /\ ToAsk' = ToAsk /\ Told' = Told /\ ToPass' = ToPass
      /\ GivenIds' = GivenIds /\ KeptIds' = KeptIds /\ AnsweredIds' = AnsweredIds
  BY <1>1, PlacesStay
<1>5. CASE i # m.id
  BY <1>3, <1>4, <1>5 DEF Spared, Somewhere, OnTheWay
<1>6. CASE i = m.id
  <2>1. sent[i] = m.to /\ (m.to \in gone \/ i <= left[m.to])
    BY <1>1, <1>2, <1>6 DEF Coded, Awaited, Awaits
  <2>2. m \in Message
    BY <1>2 DEF Coded
  <2>3. i \in Nat /\ left[m.to] \in Nat
    BY <1>6, <2>2, WebAssumption DEF Message, Typed, PastTyped
  <2>. QED
    BY <1>1, <2>1, <2>3 DEF Spared, Excused
<1>. QED
  BY <1>5, <1>6

LEMMA CrashSpares ==
  ASSUME Typed, LettersInv, NEW n \in 0..Len(pipe), Crash(n), UNCHANGED readVars, NEW i \in Somewhere
  PROVE  Spared(i)
<1>1. /\ {m.to : m \in MsgsUnderWay} \subseteq gone'
      /\ UNCHANGED <<inbox, unread, elsewhere, answer, sent>>
  BY DEF Crash, lists, readVars
<1>2. GivenIds' = GivenIds /\ KeptIds' = KeptIds /\ AnsweredIds' = AnsweredIds
  BY <1>1, PlacesStay
<1>3. CASE i \in OnTheWay
  <2>1. PICK m \in MsgsUnderWay : m.id = i /\ sent[i] = m.to
    BY <1>3, OnTheWayNamed DEF LettersInv
  <2>2. sent'[i] \in gone'
    BY <1>1, <2>1
  <2>. QED
    BY <2>2 DEF Spared, Excused
<1>4. CASE i \notin OnTheWay
  BY <1>2, <1>4 DEF Spared, Somewhere
<1>. QED
  BY <1>3, <1>4

LEMMA DelUnreadSpares ==
  ASSUME Typed, LettersInv, ReadAsked, NEW r \in Request, DelUnread(r), NEW i \in Somewhere
  PROVE  Spared(i)
<1>1. /\ reading[r] \in User /\ unread' = [unread EXCEPT ![reading[r]] = <<>>] /\ asked' = asked
      /\ UNCHANGED <<pipe, replies, channel, inbox, elsewhere, answer, sent>>
  BY DEF DelUnread, lines, history
<1>2. /\ ToAsk' = ToAsk /\ Told' = Told /\ ToPass' = ToPass /\ Passed' = Passed
      /\ GivenIds' = GivenIds /\ AnsweredIds' = AnsweredIds
  BY <1>1, PlacesStay
<1>3. ASSUME NEW u \in User, i \in Ids(unread[u]), i # 0 PROVE Spared(i)
  <2>1. CASE u = reading[r]
    <3>1. unread[u] \in Seq(ListOf(sent, u))
      BY DEF LettersInv, Contents
    <3>2. PICK a \in 1..Len(unread[u]) : i = unread[u][a].id
      BY <1>3 DEF Ids
    <3>3. unread[u][a] \in MailOf(sent, u)
      BY <1>3, <3>1, <3>2, ElementOfSeq DEF ListOf, Foreign
    <3>4. sent[i] = u
      BY <3>2, <3>3 DEF MailOf, Plain
    <3>5. sent'[i] \in asked'
      BY <1>1, <2>1, <3>4 DEF ReadAsked
    <3>. QED
      BY <3>5 DEF Spared, Excused
  <2>2. CASE u # reading[r]
    <3>1. unread'[u] = unread[u]
      BY <1>1, <2>2 DEF Typed, StoreTyped
    <3>. QED
      BY <1>3, <3>1, KeptSpared DEF Spared
  <2>. QED
    BY <2>1, <2>2
<1>. QED
  BY <1>2, <1>3, KeptIs DEF Spared, Somewhere, OnTheWay

LEMMA LossHolds ==
  ASSUME Typed, ReadTyped, MarksTyped, Registered, PresenceInv, LettersInv, LossInv,
         [UnreadNext]_unreadVars
  PROVE  LossInv'
<1>1. Expected' /\ HereIsPresent' /\ LeftAfter' /\ DownGone' /\ ReadAsked' /\ Shadows'
  BY ExpectedHolds, HereIsPresentHolds, LeftAfterHolds, DownGoneHolds, ReadAskedHolds, ShadowsHold
     DEF LossInv, LettersInv
<1>2. ASSUME NEW i \in Somewhere PROVE Spared(i)
  <2>1. CASE Gentle
    BY <1>2, <2>1, GentleKeeps DEF Spared
  <2>2. CASE UNCHANGED unreadVars \/ ((Subscribe \/ Restart) /\ UNCHANGED readVars)
    <3>1. UNCHANGED <<pipe, replies, channel, inbox, unread, elsewhere, sent, answer>>
      BY <2>2 DEF Subscribe, Restart, unreadVars, webVars, readVars, lines, lists, history
    <3>. QED
      BY <2>1, <3>1, IdleFlows DEF LettersInv
  <2>3. CASE WebNext /\ UNCHANGED readVars
    BY <1>2, <2>1, <2>2, <2>3, PagesFlow, RedisSpares, CallbackFlows, DeliverFlows, DropSpares,
       ServerSpares, CrashSpares
       DEF WebNext, Subscriber, LettersInv, LossInv
  <2>4. CASE \E r \in Request : DelUnread(r) \/ \E u \in User : ReadUnread(r, u)
    BY <1>2, <2>1, <2>4, DelUnreadSpares, ReadUnreadFlows DEF LettersInv, LossInv
  <2>. QED
    BY <2>2, <2>3, <2>4 DEF UnreadNext
<1>3. ASSUME NEW i \in 1..S, Excused(i) PROVE Excused(i)'
  BY <1>3, ExcusedLasts DEF LossInv
<1>4. \A i \in 1..S' : i \in 1..S \/ i \in Somewhere'
  <2>1. S' = S \/ (S' = S + 1 /\ S + 1 \in ToAsk')
    BY LettersHold DEF Flow, Gentle, Stands, Sends, Asks, Tells, PassesOn, Emits, AnswersWith, Thins
  <2>2. S \in Nat
    BY Counts DEF Typed
  <2>. QED
    BY <2>1, <2>2 DEF Somewhere, OnTheWay
<1>5. \A i \in 1..S' : i \in Somewhere' \/ Excused(i)'
  BY <1>2, <1>3, <1>4 DEF LossInv, Spared
<1>. QED
  BY <1>1, <1>5 DEF LossInv

LEMMA LossInit ==
  ASSUME UnreadInit
  PROVE  LossInv
<1>1. /\ pipe = <<>> /\ replies = <<>> /\ channel = <<>> /\ sent = <<>> /\ up = TRUE
      /\ \A u \in User : online[u] = None /\ left[u] = 0 /\ unread[u] = <<>>
      /\ \A r \in Request : reading[r] = None
  BY DEF UnreadInit, WebInit
<1>2. Expected
  BY <1>1, NoCmd DEF Expected
<1>3. HereIsPresent
  BY <1>1, WebAssumption DEF HereIsPresent, OnlineEnd, OnlineAfter, After
<1>4. S = 0
  BY <1>1 DEF S
<1>5. LeftAfter
  BY <1>1, <1>4 DEF LeftAfter
<1>6. DownGone /\ ReadAsked
  BY <1>1, WebAssumption DEF DownGone, ReadAsked
<1>7. Shadows
  BY <1>1 DEF Shadows, Shadowed
<1>. QED
  BY <1>2, <1>3, <1>4, <1>5, <1>6, <1>7 DEF LossInv

(* A message to a user is lost in the ways that PeerLostKnownWays lists and no other:
   not by the race of her disconnection with a GET that is on its way (socket.js:119,
   247), nor by the turns of Redis, the callbacks and the channel.           *)
THEOREM PeerLostKnownWaysHolds == UnreadSpec => []PeerLostKnownWays
<1>. DEFINE Inv == /\ Typed /\ ReadTyped /\ MarksTyped /\ Registered /\ PresenceInv /\ LettersInv
                   /\ LossInv
<1>1. UnreadInit => Inv
  BY TypedInit, MarksInit, RegisteredInit, PresenceInit, LettersInit, LossInit DEF LettersInv
<1>2. Inv /\ [UnreadNext]_unreadVars => Inv'
  BY TypedHolds, MarksHold, RegisteredHolds, PresenceHolds, LettersHold, LossHolds
<1>3. Inv => PeerLostKnownWays
  <2>1. ASSUME Inv, NEW i \in 1..Len(sent), Fate[i] = "lost" PROVE Excused(i)
    <3>1. S = Len(sent) /\ S \in Nat /\ S <= MaxMoves /\ MaxMoves \in Nat
      BY <2>1, Counts, WebAssumption DEF Typed, S
    <3>2. i \in 1..MaxMoves /\ ~(i > S)
      BY <3>1
    <3>3. MovingIds = OnTheWay
      BY <2>1, MovingIs DEF Typed
    <3>4. i \notin Somewhere
      BY <2>1, <3>2, <3>3, FateIs DEF FateOf, Somewhere
    <3>. QED
      BY <2>1, <3>1, <3>4 DEF LossInv
  <2>. QED
    BY <2>1 DEF PeerLostKnownWays, Excused
<1>. QED
  BY <1>1, <1>2, <1>3, PTL DEF UnreadSpec

-----------------------------------------------------------------------------
\* Messages to groups: what is queued.
LEMMA QueueJoined ==
  ASSUME NEW B, NEW s \in Seq(B), NEW t \in Seq(B), NEW C
  PROVE  /\ Has(s \o t, C) <=> Has(s, C) \/ Has(t, C)
         /\ Once(s, C) /\ Once(t, C) /\ ~(Has(s, C) /\ Has(t, C)) => Once(s \o t, C)
         /\ \A k \in Nat : \A D :
              /\ /\ Follows(s, C, k, D)
                 /\ \A j \in 1..Len(t) : t[j] \in C => k < j /\ t[j - k] \in D
                 => Follows(s \o t, C, k, D)
              /\ Leads(s, C, k, D) /\ Leads(t, C, k, D) => Leads(s \o t, C, k, D)
<1>. DEFINE st == s \o t
            n == Len(s)
<1>1. /\ n \in Nat /\ Len(t) \in Nat /\ Len(st) = n + Len(t)
      /\ \A i \in 1..n + Len(t) : st[i] = IF i <= n THEN s[i] ELSE t[i - n]
  BY ConcatProperties, LenProperties
<1>. HIDE DEF st, n
<1>2. \A j \in 1..Len(st) : (j \in 1..n /\ st[j] = s[j])
                            \/ (j - n \in 1..Len(t) /\ n < j /\ st[j] = t[j - n])
  BY <1>1
<1>3. \A j \in 1..n : j \in 1..Len(st) /\ st[j] = s[j]
  BY <1>1
<1>4. \A j \in 1..Len(t) : n + j \in 1..Len(st) /\ st[n + j] = t[j]
  BY <1>1
<1>5. Has(st, C) <=> Has(s, C) \/ Has(t, C)
  BY <1>2, <1>3, <1>4 DEF Has, n
<1>6. ASSUME Once(s, C), Once(t, C), ~(Has(s, C) /\ Has(t, C)),
             NEW j \in 1..Len(st), NEW k \in 1..Len(st), st[j] \in C, st[k] \in C
      PROVE  j = k
  <2>1. CASE j \in 1..n /\ st[j] = s[j]
    BY <1>2, <1>6, <2>1 DEF Has, Once, n
  <2>2. CASE j - n \in 1..Len(t) /\ n < j /\ st[j] = t[j - n]
    <3>1. k - n \in 1..Len(t) /\ st[k] = t[k - n]
      BY <1>2, <1>6, <2>2 DEF Has, n
    <3>2. j - n = k - n
      BY <1>6, <2>2, <3>1 DEF Once
    <3>. QED
      BY <1>1, <3>2
  <2>. QED
    BY <1>2, <2>1, <2>2
<1>7. ASSUME NEW k \in Nat, NEW D, Follows(s, C, k, D),
             \A j \in 1..Len(t) : t[j] \in C => k < j /\ t[j - k] \in D,
             NEW j \in 1..Len(st), st[j] \in C, k < j
      PROVE  st[j - k] \in D
  <2>1. CASE j \in 1..n /\ st[j] = s[j]
    <3>1. j - k \in 1..n \/ k = 0
      BY <1>1, <1>7, <2>1
    <3>2. s[j - k] \in D
      BY <1>7, <2>1 DEF Follows, n
    <3>3. j - k \in 1..n
      BY <1>1, <1>7, <2>1
    <3>. QED
      BY <1>3, <3>2, <3>3
  <2>2. CASE j - n \in 1..Len(t) /\ n < j /\ st[j] = t[j - n]
    <3>1. k < j - n /\ t[(j - n) - k] \in D
      BY <1>7, <2>2
    <3>2. (j - n) - k \in 1..Len(t) /\ n + ((j - n) - k) = j - k
      BY <1>1, <1>7, <2>2, <3>1
    <3>3. st[n + ((j - n) - k)] = t[(j - n) - k]
      BY <1>4, <3>2
    <3>. QED
      BY <3>1, <3>2, <3>3
  <2>. QED
    BY <1>2, <2>1, <2>2
<1>8. ASSUME NEW k \in Nat, NEW D, Leads(s, C, k, D), Leads(t, C, k, D),
             NEW j \in 1..Len(st), st[j] \in C
      PROVE  j + k \in 1..Len(st) /\ st[j + k] \in D
  <2>1. CASE j \in 1..n /\ st[j] = s[j]
    <3>1. j + k \in 1..n /\ s[j + k] \in D
      BY <1>8, <2>1 DEF Leads, n
    <3>. QED
      BY <1>3, <3>1
  <2>2. CASE j - n \in 1..Len(t) /\ n < j /\ st[j] = t[j - n]
    <3>1. (j - n) + k \in 1..Len(t) /\ t[(j - n) + k] \in D
      BY <1>8, <2>2 DEF Leads
    <3>2. n + ((j - n) + k) = j + k
      BY <1>1, <1>8
    <3>. QED
      BY <1>4, <3>1, <3>2
  <2>. QED
    BY <1>2, <2>1, <2>2
<1>. QED
  BY <1>5, <1>6, <1>7, <1>8 DEF Once, Follows, Leads, st

LEMMA QueueTaken ==
  ASSUME NEW B, NEW s \in Seq(B), s # <<>>, NEW C
  PROVE  /\ Has(s, C) <=> Head(s) \in C \/ Has(Tail(s), C)
         /\ Once(s, C) => Once(Tail(s), C) /\ ~(Head(s) \in C /\ Has(Tail(s), C))
<1>. DEFINE t == Tail(s)
            n == Len(s)
<1>1. /\ n \in Nat \ {0} /\ Head(s) = s[1] /\ Len(t) = n - 1
      /\ \A i \in 1..Len(t) : t[i] = s[i + 1]
  BY HeadTailProperties, LenProperties, EmptySeq
<1>. HIDE DEF t, n
<1>2. \A i \in 1..Len(t) : i + 1 \in 1..n /\ t[i] = s[i + 1] /\ 1 < i + 1
  BY <1>1
<1>3. \A i \in 1..n : i = 1 \/ (i - 1 \in 1..Len(t) /\ t[i - 1] = s[i])
  BY <1>1
<1>4. 1 \in 1..n
  BY <1>1
<1>5. Has(s, C) <=> s[1] \in C \/ Has(t, C)
  BY <1>2, <1>3, <1>4 DEF Has, n
<1>6. ASSUME Once(s, C)
      PROVE  Once(t, C) /\ ~(s[1] \in C /\ Has(t, C))
  <2>1. \A i, j \in 1..Len(t) : i + 1 = j + 1 => i = j
    BY <1>1
  <2>2. \A i, j \in 1..n : s[i] \in C /\ s[j] \in C => i = j
    BY <1>6 DEF Once, n
  <2>3. Once(t, C)
    BY <1>2, <2>1, <2>2 DEF Once
  <2>4. \A i \in 1..Len(t) : i + 1 # 1
    BY <1>1
  <2>5. ~(s[1] \in C /\ Has(t, C))
    BY <1>2, <1>4, <2>2, <2>4 DEF Has
  <2>. QED
    BY <2>3, <2>5
<1>. QED
  BY <1>1, <1>5, <1>6 DEF t

LEMMA OrderTaken ==
  ASSUME NEW B, NEW s \in Seq(B), s # <<>>, NEW C, NEW k \in Nat, NEW D
  PROVE  /\ Follows(s, C, k, D) => Follows(Tail(s), C, k, D)
         /\ Leads(s, C, k, D) => Leads(Tail(s), C, k, D)
<1>. DEFINE t == Tail(s)
            n == Len(s)
<1>1. n \in Nat /\ Len(t) = n - 1 /\ \A i \in 1..Len(t) : t[i] = s[i + 1]
  BY HeadTailProperties, LenProperties, EmptySeq
<1>. HIDE DEF t, n
<1>2. \A i \in 1..Len(t) : i + 1 \in 1..n /\ t[i] = s[i + 1]
  BY <1>1
<1>3. ASSUME Follows(s, C, k, D), NEW j \in 1..Len(t), t[j] \in C, k < j
      PROVE  t[j - k] \in D
  <2>1. k < j + 1 /\ (j + 1) - k = (j - k) + 1 /\ j - k \in 1..Len(t)
    BY <1>1, <1>3
  <2>2. s[(j + 1) - k] \in D
    BY <1>2, <1>3, <2>1 DEF Follows, n
  <2>. QED
    BY <1>2, <2>1, <2>2
<1>4. ASSUME Leads(s, C, k, D), NEW j \in 1..Len(t), t[j] \in C
      PROVE  j + k \in 1..Len(t) /\ t[j + k] \in D
  <2>1. (j + 1) + k \in 1..n /\ s[(j + 1) + k] \in D
    BY <1>2, <1>4 DEF Leads, n
  <2>2. (j + 1) + k = (j + k) + 1 /\ j + k \in 1..Len(t)
    BY <1>1, <1>4, <2>1
  <2>. QED
    BY <1>2, <2>1, <2>2
<1>. QED
  BY <1>3, <1>4 DEF Follows, Leads, t

LEMMA QueueCut ==
  ASSUME NEW B, NEW s \in Seq(B), NEW n \in 0..Len(s), NEW C
  PROVE  /\ Has(SubSeq(s, 1, n), C) => Has(s, C)
         /\ Once(s, C) => Once(SubSeq(s, 1, n), C)
         /\ \A k \in Nat : \A D : Follows(s, C, k, D) => Follows(SubSeq(s, 1, n), C, k, D)
<1>. DEFINE t == SubSeq(s, 1, n)
<1>1. Len(s) \in Nat /\ Len(t) = n /\ \A i \in 1..n : t[i] = s[i]
  BY LenProperties, SubSeqProperties
<1>. HIDE DEF t
<1>2. \A i \in 1..Len(t) : i \in 1..Len(s) /\ t[i] = s[i]
  BY <1>1
<1>3. \A i \in 1..Len(t), k \in Nat : k < i => i - k \in 1..Len(t)
  BY <1>1
<1>4. Has(t, C) => Has(s, C)
  BY <1>2 DEF Has
<1>5. Once(s, C) => Once(t, C)
  BY <1>2 DEF Once
<1>6. \A k \in Nat : \A D : Follows(s, C, k, D) => Follows(t, C, k, D)
  BY <1>2, <1>3 DEF Follows
<1>. QED
  BY <1>4, <1>5, <1>6 DEF t

(* What the steps do to what is queued, to presence and to the history of the groups.
   A step of Redis or a callback is RedisReplies and RedisStores, or CallbackRuns. *)
Idles ==
  /\ UNCHANGED <<userIdMap, pipe, replies, online, onlineGroup, foreign, gone, groupLog>>
  /\ up' = up \/ (up' /\ pipe = <<>>)

PageKeeps == up /\ up' = up /\ UNCHANGED <<replies, online, onlineGroup, foreign, gone>>

PageSends(m) ==
  PageKeeps /\ pipe' = pipe \o <<MsgCmd("get", m)>> /\ UNCHANGED <<userIdMap, groupLog>>

Trio(i) == <<SeqCmd("sort", i), SeqCmd("lpush group", i), SeqCmd("sdiff", i)>>

PageAsks(g) ==
  /\ PageKeeps /\ pipe' = pipe \o Trio(L + 1) /\ L + 1 \in 1..MaxMoves /\ userIdMap' = userIdMap
  /\ groupLog' = Append(groupLog, [group |-> g, live |-> {}, counted |-> {},
                                   leaving |-> Touching(LeaveOps, {"leave"}), cut |-> FALSE])

PageGreets(v, here) ==
  /\ PageKeeps /\ pipe' = pipe \o Greets(v, here)
  /\ \A u \in User \ {v} : userIdMap'[u] = userIdMap[u]
  /\ here => userIdMap'[v] # None /\ groupLog' = groupLog
  /\ ~here => groupLog' = [i \in DOMAIN groupLog |-> [groupLog[i] EXCEPT !.leaving = @ \cup {v}]]

PageSteps ==
  \/ \E m \in Message : PageSends(m)
  \/ \E g \in Group : PageAsks(g)
  \/ \E v \in User, here \in BOOLEAN : PageGreets(v, here)

LEMMA PagesAre ==
  ASSUME Typed, Pages
  PROVE  Idles \/ PageSteps
<1>1. PICK k \in Sock : \/ Connect(k) \/ HandleShake(k) \/ DisconnectStranger(k) \/ Disconnect(k)
                        \/ \E u \in User : PeerMessage(k, u)
                        \/ \E g \in Group : GroupMessage(k, g)
  BY DEF Pages
<1>2. CASE Connect(k) \/ DisconnectStranger(k)
  BY <1>2 DEF Connect, DisconnectStranger, lines, presence, history, Idles
<1>3. CASE HandleShake(k)
  <2>1. UserOf[k] \in User /\ k # None
    BY WebAssumption
  <2>2. /\ PageKeeps /\ pipe' = pipe \o Greets(UserOf[k], TRUE) /\ groupLog' = groupLog
        /\ userIdMap' = [userIdMap EXCEPT ![UserOf[k]] = k]
    BY <1>3 DEF HandleShake, Open, Greets, presence, history, PageKeeps
  <2>3. userIdMap'[UserOf[k]] # None /\ \A u \in User \ {UserOf[k]} : userIdMap'[u] = userIdMap[u]
    BY <2>1, <2>2 DEF Typed, NodeTyped
  <2>4. PageGreets(UserOf[k], TRUE)
    BY <2>2, <2>3 DEF PageGreets
  <2>. QED
    BY <2>1, <2>4 DEF PageSteps
<1>4. CASE Disconnect(k)
  <2>1. PICK v \in User : v = socketMap[k]
    BY <1>4 DEF Disconnect, Typed, NodeTyped
  <2>2. /\ PageKeeps /\ pipe' = pipe \o Greets(v, FALSE)
        /\ userIdMap' = [userIdMap EXCEPT ![v] = None]
        /\ groupLog' = [i \in DOMAIN groupLog |-> [groupLog[i] EXCEPT !.leaving = @ \cup {v}]]
    BY <1>4, <2>1 DEF Disconnect, Open, Greets, presence, PageKeeps
  <2>3. \A u \in User \ {v} : userIdMap'[u] = userIdMap[u]
    BY <2>2 DEF Typed, NodeTyped
  <2>4. PageGreets(v, FALSE)
    BY <2>2, <2>3 DEF PageGreets
  <2>. QED
    BY <2>1, <2>4 DEF PageSteps
<1>5. ASSUME NEW u \in User, PeerMessage(k, u)
      PROVE  PageSteps
  <2>. DEFINE m == [id |-> S + 1, to |-> u, text |-> "utf8"]
  <2>1. m \in Message
    BY <1>5, MessageTyped DEF PeerMessage
  <2>2. PageKeeps /\ pipe' = Append(pipe, MsgCmd("get", m)) /\ UNCHANGED <<userIdMap, groupLog>>
    BY <1>5 DEF PeerMessage, Open, node, presence, S, PageKeeps
  <2>. HIDE DEF m
  <2>3. MsgCmd("get", m) \in Commands
    BY <2>1 DEF MsgCmd, Commands
  <2>4. pipe' = pipe \o <<MsgCmd("get", m)>>
    BY <2>2, <2>3, QueuesAre, AppendIsConcat DEF Typed
  <2>. QED
    BY <2>1, <2>2, <2>4 DEF PageSends, PageSteps
<1>6. ASSUME NEW g \in Group, GroupMessage(k, g)
      PROVE  PageSteps
  <2>1. Move /\ UserOf[k] \in User
    BY <1>6, WebAssumption DEF GroupMessage
  <2>2. L + 1 \in 1..MaxMoves
    BY <2>1, MessageTyped
  <2>3. PageAsks(g)
    BY <1>6, <2>2 DEF GroupMessage, Open, node, presence, L, PageKeeps, PageAsks, Trio
  <2>. QED
    BY <2>3 DEF PageSteps
<1>. QED
  BY <1>1, <1>2, <1>3, <1>4, <1>5, <1>6

LEMMA StepsAre ==
  ASSUME Typed, [UnreadNext]_unreadVars
  PROVE  \/ Idles \/ PageSteps
         \/ \E v \in User : Serves(v)
         \/ \E n \in 0..Len(pipe) : Crash(n)
         \/ \E c \in Commands : RedisReplies(c) /\ RedisStores(c)
         \/ \E r \in Calls, cs \in Seq(CmdsTo(S, L)) : CallbackRuns(r, cs)
<1>1. CASE Restart \/ Subscribe
  BY <1>1 DEF Restart, Subscribe, lines, presence, history, Idles
<1>2. CASE Subscriber
  BY <1>2 DEF Subscriber, Deliver, Drop, node, presence, history, Idles
<1>3. CASE \E r \in Request : DelUnread(r) \/ \E u \in User : ReadUnread(r, u)
  BY <1>3 DEF DelUnread, ReadUnread, node, lines, presence, history, Idles
<1>4. CASE UNCHANGED unreadVars
  BY <1>4 DEF unreadVars, webVars, node, lines, presence, history, Idles
<1>5. CASE MessageServer
  BY <1>5, ServersAre DEF ServesList, Idles
<1>. QED
  BY <1>1, <1>2, <1>3, <1>4, <1>5, PagesAre, RedisIs, CallbackIs DEF UnreadNext, WebNext

\* The history of the groups after a step of Redis and after a callback.
LEMMA RedisEntries ==
  ASSUME Typed, NEW c \in Commands, RedisReplies(c), RedisStores(c)
  PROVE  /\ L' = L
         /\ \A i \in 1..L :
              /\ groupLog'[i].group = groupLog[i].group /\ groupLog'[i].leaving = groupLog[i].leaving
              /\ groupLog'[i].cut = groupLog[i].cut /\ groupLog'[i].live = groupLog[i].live
              /\ groupLog'[i].counted = IF c.op = "incr" /\ c.id = i THEN c.users
                                        ELSE groupLog[i].counted
<1>1. /\ L \in Nat /\ DOMAIN groupLog = 1..L /\ \A i \in 1..L : groupLog[i] \in GroupEntry
  BY Counts, LenProperties, ElementOfSeq DEF Typed, PastTyped, L
<1>2. CASE c.op # "incr"
  BY <1>2 DEF RedisStores, L
<1>3. CASE c.op = "incr"
  <2>1. c.id \in 1..L
    BY <1>3, HeadTyped DEF Typed, RedisReplies, L
  <2>2. groupLog' = [groupLog EXCEPT ![c.id].counted = c.users]
    BY <1>3 DEF RedisStores
  <2>3. groupLog' = [groupLog EXCEPT ![c.id] = [groupLog[c.id] EXCEPT !.counted = c.users]]
    BY <2>2
  <2>4. [groupLog[c.id] EXCEPT !.counted = c.users] \in GroupEntry
    <3>1. c.users \in SUBSET User
      BY <1>3, CmdFields
    <3>. QED
      BY <1>1, <2>1, <3>1, EntryTyped
  <2>5. L' = L
    <3>1. groupLog \in Seq(GroupEntry)
      BY DEF Typed, PastTyped
    <3>. QED
      BY <2>3, <3>1, <2>1, <2>4, ExceptSeq DEF L
  <2>6. \A i \in 1..L : groupLog'[i] = IF i = c.id THEN [groupLog[i] EXCEPT !.counted = c.users] ELSE groupLog[i]
    BY <1>1, <2>3
  <2>. QED
    BY <1>1, <1>3, <2>5, <2>6 DEF GroupEntry
<1>. QED
  BY <1>2, <1>3

LEMMA CallEntries ==
  ASSUME Typed, NEW r \in Calls, NEW cs, CallbackRuns(r, cs)
  PROVE  /\ L' = L
         /\ \A i \in 1..L :
              /\ groupLog'[i].group = groupLog[i].group /\ groupLog'[i].leaving = groupLog[i].leaving
              /\ groupLog'[i].cut = groupLog[i].cut /\ groupLog'[i].counted = groupLog[i].counted
              /\ groupLog'[i].live = IF r.call = "sorted" /\ r.id = i
                                     THEN {u \in r.here : userIdMap[u] # None} ELSE groupLog[i].live
<1>1. /\ L \in Nat /\ DOMAIN groupLog = 1..L /\ \A i \in 1..L : groupLog[i] \in GroupEntry
  BY Counts, LenProperties, ElementOfSeq DEF Typed, PastTyped, L
<1>2. CASE r.call # "sorted"
  BY <1>2 DEF CallbackRuns, L
<1>3. CASE r.call = "sorted"
  <2>. DEFINE us == {u \in r.here : userIdMap[u] # None}
  <2>1. r.id \in 1..L
    BY <1>3, HeadCall DEF Typed, CallbackRuns, L, GroupCalls
  <2>2. groupLog' = [groupLog EXCEPT ![r.id].live = us]
    BY <1>3 DEF CallbackRuns
  <2>3. us \in SUBSET User
    BY <1>3, CallFields
  <2>. HIDE DEF us
  <2>4. groupLog' = [groupLog EXCEPT ![r.id] = [groupLog[r.id] EXCEPT !.live = us]]
    BY <2>2
  <2>5. [groupLog[r.id] EXCEPT !.live = us] \in GroupEntry
    BY <1>1, <2>1, <2>3, EntryTyped
  <2>6. L' = L
    <3>1. groupLog \in Seq(GroupEntry)
      BY DEF Typed, PastTyped
    <3>. QED
      BY <2>4, <3>1, <2>1, <2>5, ExceptSeq DEF L
  <2>7. \A i \in 1..L : groupLog'[i] = IF i = r.id THEN [groupLog[i] EXCEPT !.live = us] ELSE groupLog[i]
    BY <1>1, <2>4
  <2>8. \A i \in 1..L :
              /\ groupLog'[i].group = groupLog[i].group /\ groupLog'[i].leaving = groupLog[i].leaving
              /\ groupLog'[i].cut = groupLog[i].cut /\ groupLog'[i].counted = groupLog[i].counted
              /\ groupLog'[i].live = IF r.call = "sorted" /\ r.id = i THEN us ELSE groupLog[i].live
    BY <1>1, <1>3, <2>7 DEF GroupEntry
  <2>. QED
    BY <2>6, <2>8 DEF us
<1>. QED
  BY <1>2, <1>3

\* After the other steps: entries are marked or added.
LEMMA OtherEntries ==
  ASSUME Typed, \/ Idles \/ PageSteps \/ (\E v \in User : Serves(v)) \/ \E n \in 0..Len(pipe) : Crash(n)
  PROVE  /\ L <= L'
         /\ \A i \in 1..L :
              /\ i \in 1..L' /\ groupLog'[i].group = groupLog[i].group
              /\ groupLog[i].leaving \subseteq groupLog'[i].leaving
              /\ groupLog[i].cut => groupLog'[i].cut
              /\ groupLog'[i].live = groupLog[i].live /\ groupLog'[i].counted = groupLog[i].counted
<1>1. /\ L \in Nat /\ DOMAIN groupLog = 1..L /\ \A i \in 1..L : groupLog[i] \in GroupEntry
      /\ groupLog \in Seq(GroupEntry)
  BY Counts, LenProperties, ElementOfSeq DEF Typed, PastTyped, L
<1>2. CASE groupLog' = groupLog
  BY <1>1, <1>2 DEF L
<1>3. ASSUME NEW g \in Group, PageAsks(g)
      PROVE  L' = L + 1 /\ \A i \in 1..L : groupLog'[i] = groupLog[i]
  <2>. DEFINE e == [group |-> g, live |-> {}, counted |-> {},
                    leaving |-> Touching(LeaveOps, {"leave"}), cut |-> FALSE]
  <2>1. groupLog' = Append(groupLog, e)
    BY <1>3 DEF PageAsks
  <2>. HIDE DEF e
  <2>. QED
    BY <1>1, <2>1, AppendProperties DEF L
<1>4. ASSUME NEW v \in User, groupLog' = [i \in DOMAIN groupLog |-> [groupLog[i] EXCEPT !.leaving = @ \cup {v}]]
      PROVE  L' = L /\ \A i \in 1..L : groupLog'[i] = [groupLog[i] EXCEPT !.leaving = @ \cup {v}]
  BY <1>1, <1>4, LogMarked DEF L
<1>5. ASSUME NEW n \in 0..Len(pipe), Crash(n)
      PROVE  L' = L /\ \A i \in 1..L : groupLog'[i] = [groupLog[i] EXCEPT !.cut = @ \/ i \in GroupMsgsUnderWay]
  BY <1>1, <1>5, LogCut DEF L, Crash
<1>6. CASE \E g \in Group : PageAsks(g)
  BY <1>1, <1>3, <1>6
<1>7. CASE \E v \in User : groupLog' = [i \in DOMAIN groupLog |-> [groupLog[i] EXCEPT !.leaving = @ \cup {v}]]
  <2>1. PICK v \in User : L' = L /\ \A i \in 1..L : groupLog'[i] = [groupLog[i] EXCEPT !.leaving = @ \cup {v}]
    BY <1>4, <1>7
  <2>2. \A e \in GroupEntry : LET f == [e EXCEPT !.leaving = @ \cup {v}] IN
          /\ f.group = e.group /\ e.leaving \subseteq f.leaving /\ f.cut = e.cut
          /\ f.live = e.live /\ f.counted = e.counted
    BY DEF GroupEntry
  <2>3. ASSUME NEW i \in 1..L
        PROVE  /\ i \in 1..L' /\ groupLog'[i].group = groupLog[i].group
               /\ groupLog[i].leaving \subseteq groupLog'[i].leaving
               /\ groupLog[i].cut => groupLog'[i].cut
               /\ groupLog'[i].live = groupLog[i].live /\ groupLog'[i].counted = groupLog[i].counted
    <3>1. groupLog[i] \in GroupEntry /\ groupLog'[i] = [groupLog[i] EXCEPT !.leaving = @ \cup {v}]
      BY <1>1, <2>1
    <3>2. /\ groupLog'[i].group = groupLog[i].group
          /\ groupLog[i].leaving \subseteq groupLog'[i].leaving
          /\ groupLog'[i].cut = groupLog[i].cut
          /\ groupLog'[i].live = groupLog[i].live /\ groupLog'[i].counted = groupLog[i].counted
      BY <2>2, <3>1
    <3>. QED
      BY <2>1, <3>2
  <2>. QED
    BY <1>1, <2>1, <2>3
<1>8. CASE \E n \in 0..Len(pipe) : Crash(n)
  <2>1. L' = L /\ \A i \in 1..L : groupLog'[i] = [groupLog[i] EXCEPT !.cut = @ \/ i \in GroupMsgsUnderWay]
    BY <1>5, <1>8
  <2>3. ASSUME NEW i \in 1..L
        PROVE  /\ i \in 1..L' /\ groupLog'[i].group = groupLog[i].group
               /\ groupLog[i].leaving \subseteq groupLog'[i].leaving
               /\ groupLog[i].cut => groupLog'[i].cut
               /\ groupLog'[i].live = groupLog[i].live /\ groupLog'[i].counted = groupLog[i].counted
    <3>1. groupLog[i] \in GroupEntry /\ groupLog'[i] = [groupLog[i] EXCEPT !.cut = @ \/ i \in GroupMsgsUnderWay]
      BY <1>1, <2>1
    <3>2. /\ groupLog'[i].group = groupLog[i].group
          /\ groupLog'[i].leaving = groupLog[i].leaving
          /\ groupLog[i].cut => groupLog'[i].cut
          /\ groupLog'[i].live = groupLog[i].live /\ groupLog'[i].counted = groupLog[i].counted
      BY <3>1 DEF GroupEntry
    <3>. QED
      BY <2>1, <3>2
  <2>. QED
    BY <1>1, <2>1, <2>3
<1>. QED
  BY <1>2, <1>6, <1>7, <1>8 DEF Idles, PageSteps, PageSends, PageGreets, Serves

LEMMA EntriesGrow ==
  ASSUME Typed, [UnreadNext]_unreadVars
  PROVE  /\ L <= L' /\ foreign \subseteq foreign' /\ gone \subseteq gone'
         /\ \A i \in 1..L : /\ i \in 1..L' /\ groupLog'[i].group = groupLog[i].group
                            /\ groupLog[i].leaving \subseteq groupLog'[i].leaving
                            /\ groupLog[i].cut => groupLog'[i].cut
<1>1. L \in Nat
  BY Counts DEF Typed, L
<1>2. CASE \E c \in Commands : RedisReplies(c) /\ RedisStores(c)
  <2>1. PICK c \in Commands : RedisReplies(c) /\ RedisStores(c)
    BY <1>2
  <2>2. L' = L /\ \A i \in 1..L :
          /\ groupLog'[i].group = groupLog[i].group /\ groupLog'[i].leaving = groupLog[i].leaving
          /\ groupLog'[i].cut = groupLog[i].cut
    BY <2>1, RedisEntries
  <2>3. foreign' = foreign /\ gone' = gone
    BY <2>1 DEF RedisReplies
  <2>. QED
    BY <1>1, <2>2, <2>3
<1>3. CASE \E r \in Calls, cs \in Seq(CmdsTo(S, L)) : CallbackRuns(r, cs)
  <2>1. PICK r \in Calls, cs \in Seq(CmdsTo(S, L)) : CallbackRuns(r, cs)
    BY <1>3
  <2>2. L' = L /\ \A i \in 1..L :
          /\ groupLog'[i].group = groupLog[i].group /\ groupLog'[i].leaving = groupLog[i].leaving
          /\ groupLog'[i].cut = groupLog[i].cut
    BY <2>1, CallEntries
  <2>3. foreign' = foreign /\ gone' = gone
    BY <2>1 DEF CallbackRuns
  <2>. QED
    BY <1>1, <2>2, <2>3
<1>4. CASE \/ Idles \/ PageSteps \/ (\E v \in User : Serves(v)) \/ \E n \in 0..Len(pipe) : Crash(n)
  <2>1. foreign \subseteq foreign' /\ gone \subseteq gone'
    BY <1>4 DEF Idles, PageSteps, PageSends, PageAsks, PageGreets, PageKeeps, Serves, Crash
  <2>2. /\ L <= L'
        /\ \A i \in 1..L : /\ i \in 1..L' /\ groupLog'[i].group = groupLog[i].group
                           /\ groupLog[i].leaving \subseteq groupLog'[i].leaving
                           /\ groupLog[i].cut => groupLog'[i].cut
    BY <1>4, OtherEntries
  <2>. QED
    BY <2>1, <2>2
<1>5. \/ \E c \in Commands : RedisReplies(c) /\ RedisStores(c)
      \/ \E r \in Calls, cs \in Seq(CmdsTo(S, L)) : CallbackRuns(r, cs)
      \/ \/ Idles \/ PageSteps \/ (\E v \in User : Serves(v)) \/ \E n \in 0..Len(pipe) : Crash(n)
  BY StepsAre
<1>. QED
  BY <1>2, <1>3, <1>4, <1>5

-----------------------------------------------------------------------------
\* Who is leaving.
LEMMA KeepsAdded ==
  ASSUME NEW X, NEW t \in Seq(Commands), \A j \in 1..Len(t) : t[j].op \in LeaveOps => t[j].user \in X
  PROVE  t \in Seq(KeepCmds(X))
<1>1. \A j \in 1..Len(t) : t[j] \in Commands
  BY ElementOfSeq
<1>2. \A j \in 1..Len(t) : t[j] \in KeepCmds(X)
  BY <1>1 DEF KeepCmds
<1>3. Len(t) \in Nat /\ t \in [1..Len(t) -> KeepCmds(X)]
  BY <1>2, LenProperties
<1>. QED
  BY <1>3

LEMMA KeepsGrow ==
  ASSUME NEW X, NEW Y, X \subseteq Y, NEW p \in Seq(KeepCmds(X)), NEW q \in Seq(KeepCalls(X))
  PROVE  p \in Seq(KeepCmds(Y)) /\ q \in Seq(KeepCalls(Y))
<1>1. KeepCmds(X) \subseteq KeepCmds(Y) /\ KeepCalls(X) \subseteq KeepCalls(Y)
  BY DEF KeepCmds, KeepCalls
<1>. QED
  BY <1>1, SeqMonotonic

\* What a callback queues.
LEMMA CallbackOps ==
  ASSUME Typed, NEW r \in Calls, NEW cs \in Seq(CmdsTo(S, L)), CallbackRuns(r, cs)
  PROVE  /\ cs \in Seq(Commands)
         /\ \A j \in 1..Len(cs) :
              /\ cs[j].op \in MemberOps \cup {"publish", "lpush", "ltrim", "ltrim group", "incr"}
              /\ cs[j].op = "srem" => r.call = "leave" /\ cs[j].user = r.user
<1>1. cs \in Seq(Commands)
  <2>1. CmdsTo(S, L) \subseteq Commands
    BY DEF CmdsTo
  <2>. QED
    BY <2>1, SeqMonotonic
<1>2. CASE r.call \in {"join", "leave"}
  <2>1. PICK op \in MemberOps : /\ cs = ForGroups(op, r)
                                /\ op = IF r.call = "join" THEN "sadd" ELSE "srem"
    BY <1>2 DEF CallbackRuns, Queues, MemberOps
  <2>2. S \in Nat /\ L \in Nat /\ S <= MaxMoves /\ L <= MaxMoves
    BY Counts DEF Typed
  <2>3. r.user \in User /\ r.groups \in SUBSET Group
    BY <1>2, CallFields
  <2>4. \A j \in 1..Len(cs) : \E g \in r.groups : cs[j] = GroupCmd(op, r.user, g)
    BY <2>1, <2>2, <2>3, ForGroupsLists
  <2>5. \A g : GroupCmd(op, r.user, g).op = op /\ GroupCmd(op, r.user, g).user = r.user
    BY DEF GroupCmd
  <2>6. \A j \in 1..Len(cs) : cs[j].op = op /\ cs[j].user = r.user
    BY <2>4, <2>5
  <2>. QED
    BY <1>1, <1>2, <2>1, <2>6
<1>3. CASE r.call \notin {"join", "leave"}
  <2>1. \/ cs = <<>>
        \/ \E c : cs = <<c>> /\ c.op \in {"publish", "lpush", "ltrim", "ltrim group", "incr"}
    BY <1>3, QueuesQuiet DEF CallbackRuns
  <2>2. CASE cs = <<>>
    BY <1>1, <2>2
  <2>3. ASSUME NEW c, cs = <<c>>, c.op \in {"publish", "lpush", "ltrim", "ltrim group", "incr"},
               NEW j \in 1..Len(cs)
        PROVE  cs[j].op \in {"publish", "lpush", "ltrim", "ltrim group", "incr"}
    <3>1. \A i \in 1..Len(<<c>>) : <<c>>[i] = c
      OBVIOUS
    <3>. QED
      BY <2>3, <3>1
  <2>. QED
    BY <1>1, <2>1, <2>2, <2>3
<1>. QED
  BY <1>2, <1>3

LEMMA TrioTyped ==
  ASSUME NEW i \in 1..MaxMoves
  PROVE  /\ Trio(i) \in Seq(Commands) /\ Len(Trio(i)) = 3
         /\ Trio(i)[1] = SeqCmd("sort", i) /\ Trio(i)[2] = SeqCmd("lpush group", i)
         /\ Trio(i)[3] = SeqCmd("sdiff", i)
         /\ \A j \in 1..Len(Trio(i)) : Trio(i)[j].op \in SeqOps
<1>. DEFINE x == SeqCmd("sort", i)
            y == SeqCmd("lpush group", i)
            z == SeqCmd("sdiff", i)
<1>1. /\ x \in Commands /\ x.op \in SeqOps /\ y \in Commands /\ y.op \in SeqOps
      /\ z \in Commands /\ z.op \in SeqOps
  BY DEF SeqCmd, Commands, SeqOps
<1>2. Trio(i) = <<x, y, z>>
  BY DEF Trio
<1>. HIDE DEF x, y, z
<1>3. <<x, y, z>> \in Seq(Commands) /\ Len(<<x, y, z>>) = 3
  <2>1. x \in Commands /\ y \in Commands /\ z \in Commands
    BY <1>1
  <2>. QED
    BY <2>1
<1>4. \A j \in 1..Len(<<x, y, z>>) : <<x, y, z>>[j] = x \/ <<x, y, z>>[j] = y \/ <<x, y, z>>[j] = z
  OBVIOUS
<1>5. <<x, y, z>>[1] = x /\ <<x, y, z>>[2] = y /\ <<x, y, z>>[3] = z
  OBVIOUS
<1>6. Trio(i)[1] = x /\ Trio(i)[2] = y /\ Trio(i)[3] = z
  BY <1>2, <1>5
<1>7. \A j \in 1..Len(Trio(i)) : Trio(i)[j].op \in SeqOps
  BY <1>1, <1>2, <1>4
<1>. QED
  BY <1>2, <1>3, <1>6, <1>7 DEF x, y, z

\* What a page queues takes nobody out of a group, unless she disconnects.
LEMMA PageAdds ==
  ASSUME Typed, PageSteps
  PROVE  /\ up /\ up' = up /\ UNCHANGED <<replies, online, onlineGroup, foreign, gone>>
         /\ \E t \in Seq(Commands) :
              /\ pipe' = pipe \o t
              /\ \A j \in 1..Len(t), i \in 1..L : t[j].op \in LeaveOps => t[j].user \in groupLog'[i].leaving
<1>1. ASSUME NEW m \in Message, PageSends(m)
      PROVE  \E t \in Seq(Commands) : pipe' = pipe \o t /\ \A j \in 1..Len(t) : t[j].op \notin LeaveOps
  <2>. DEFINE c == MsgCmd("get", m)
  <2>1. c \in Commands /\ c.op \notin LeaveOps
    BY DEF MsgCmd, Commands, LeaveOps
  <2>2. pipe' = pipe \o <<c>>
    BY <1>1 DEF PageSends
  <2>. HIDE DEF c
  <2>3. <<c>> \in Seq(Commands) /\ \A j \in 1..Len(<<c>>) : <<c>>[j] = c
    BY <2>1
  <2>. QED
    BY <2>1, <2>2, <2>3
<1>2. ASSUME NEW g \in Group, PageAsks(g)
      PROVE  \E t \in Seq(Commands) : pipe' = pipe \o t /\ \A j \in 1..Len(t) : t[j].op \notin LeaveOps
  BY <1>2, TrioTyped DEF PageAsks, SeqOps, LeaveOps
<1>3. ASSUME NEW v \in User, NEW here \in BOOLEAN, PageGreets(v, here)
      PROVE  \E t \in Seq(Commands) : /\ pipe' = pipe \o t
               /\ \A j \in 1..Len(t), i \in 1..L : t[j].op \in LeaveOps => t[j].user \in groupLog'[i].leaving
  <2>. DEFINE t == Greets(v, here)
  <2>1. t \in Seq(Commands) /\ pipe' = pipe \o t
    BY <1>3, GreetAfter DEF PageGreets
  <2>2. \A j \in 1..Len(t) : t[j].op \in PresenceOps /\ t[j].user = v
                             /\ (t[j].op \in LeaveOps => ~here)
    BY GreetOps
  <2>. HIDE DEF t
  <2>3. ASSUME ~here, NEW i \in 1..L
        PROVE  v \in groupLog'[i].leaving
    <3>1. groupLog[i] \in GroupEntry /\ i \in DOMAIN groupLog
      BY LenProperties, ElementOfSeq DEF Typed, PastTyped, L
    <3>2. groupLog'[i] = [groupLog[i] EXCEPT !.leaving = @ \cup {v}]
      BY <1>3, <2>3, <3>1 DEF PageGreets
    <3>. QED
      BY <3>1, <3>2 DEF GroupEntry
  <2>4. \A j \in 1..Len(t), i \in 1..L : t[j].op \in LeaveOps => t[j].user \in groupLog'[i].leaving
    BY <2>2, <2>3
  <2>. QED
    BY <2>1, <2>4
<1>4. up /\ up' = up /\ UNCHANGED <<replies, online, onlineGroup, foreign, gone>>
  BY DEF PageSteps, PageSends, PageAsks, PageGreets, PageKeeps
<1>. QED
  BY <1>1, <1>2, <1>3, <1>4 DEF PageSteps

LEMMA LeavingHolds ==
  ASSUME Typed, LeavingNoted, [UnreadNext]_unreadVars
  PROVE  LeavingNoted'
<1>1. /\ pipe \in Seq(Commands) /\ replies \in Seq(Calls) /\ L \in Nat
  BY QueuesAre, Counts DEF Typed
<1>2. ASSUME UNCHANGED <<pipe, replies>>, Idles \/ \E v \in User : Serves(v)
      PROVE  LeavingNoted'
  BY <1>2 DEF LeavingNoted, Idles, Serves, L
<1>3. CASE PageSteps
  <2>1. replies' = replies
    BY <1>3, PageAdds
  <2>2. PICK t \in Seq(Commands) :
          /\ pipe' = pipe \o t
          /\ \A j \in 1..Len(t), i \in 1..L : t[j].op \in LeaveOps => t[j].user \in groupLog'[i].leaving
    BY <1>3, PageAdds
  <2>3. ASSUME NEW i \in 1..L
        PROVE  pipe' \in Seq(KeepCmds(groupLog'[i].leaving)) /\ replies' \in Seq(KeepCalls(groupLog'[i].leaving))
    <3>1. groupLog[i].leaving \subseteq groupLog'[i].leaving
      BY EntriesGrow
    <3>2. /\ pipe \in Seq(KeepCmds(groupLog'[i].leaving))
          /\ replies \in Seq(KeepCalls(groupLog'[i].leaving))
      BY <3>1, KeepsGrow DEF LeavingNoted
    <3>3. t \in Seq(KeepCmds(groupLog'[i].leaving))
      BY <2>2, KeepsAdded
    <3>. QED
      BY <2>1, <2>2, <3>2, <3>3, ConcatProperties
  <2>4. ASSUME NEW g \in Group, PageAsks(g)
        PROVE  /\ L' = L + 1
               /\ pipe' \in Seq(KeepCmds(groupLog'[L + 1].leaving))
               /\ replies' \in Seq(KeepCalls(groupLog'[L + 1].leaving))
    <3>. DEFINE X == Touching(LeaveOps, {"leave"})
                e == [group |-> g, live |-> {}, counted |-> {}, leaving |-> X, cut |-> FALSE]
    <3>1. e.leaving = X
      OBVIOUS
    <3>2. groupLog' = Append(groupLog, e)
      BY <2>4 DEF PageAsks
    <3>3. pipe \in Seq(KeepCmds(X))
      <4>1. \A j \in 1..Len(pipe) : pipe[j].op \in LeaveOps => pipe[j].user \in X
        BY DEF Touching
      <4>. HIDE DEF X
      <4>. QED
        BY <1>1, <4>1, KeepsAdded
    <3>4. replies \in Seq(KeepCalls(X))
      <4>1. \A j \in 1..Len(replies) : replies[j].call = "leave" => replies[j].user \in X
        BY DEF Touching
      <4>2. \A j \in 1..Len(replies) : replies[j] \in Calls
        BY <1>1, ElementOfSeq
      <4>. HIDE DEF X
      <4>3. \A j \in 1..Len(replies) : replies[j] \in KeepCalls(X)
        BY <4>1, <4>2 DEF KeepCalls
      <4>4. Len(replies) \in Nat /\ replies \in [1..Len(replies) -> KeepCalls(X)]
        BY <1>1, <4>3, LenProperties
      <4>. QED
        BY <4>4
    <3>. HIDE DEF X, e
    <3>5. L' = L + 1 /\ groupLog'[L + 1] = e
      <4>1. groupLog \in Seq(GroupEntry)
        BY DEF Typed, PastTyped
      <4>. QED
        BY <3>2, <4>1, AppendProperties DEF L
    <3>6. Trio(L + 1) \in Seq(KeepCmds(X))
      <4>1. L + 1 \in 1..MaxMoves
        BY <2>4 DEF PageAsks
      <4>2. Trio(L + 1) \in Seq(Commands) /\ \A j \in 1..Len(Trio(L + 1)) : Trio(L + 1)[j].op \notin LeaveOps
        BY <4>1, TrioTyped DEF SeqOps, LeaveOps
      <4>. QED
        BY <4>2, KeepsAdded
    <3>7. pipe' = pipe \o Trio(L + 1)
      BY <2>4 DEF PageAsks
    <3>8. pipe' \in Seq(KeepCmds(X))
      BY <3>3, <3>6, <3>7, ConcatProperties
    <3>. QED
      BY <2>1, <3>1, <3>4, <3>5, <3>8
  <2>5. L' = L \/ \E g \in Group : PageAsks(g)
    BY <1>1, <1>3, LogMarked DEF PageSteps, PageSends, PageGreets, L, Typed, PastTyped
  <2>6. CASE L' = L
    BY <2>3, <2>6 DEF LeavingNoted
  <2>7. CASE \E g \in Group : PageAsks(g)
    <3>1. /\ L' = L + 1
          /\ pipe' \in Seq(KeepCmds(groupLog'[L + 1].leaving))
          /\ replies' \in Seq(KeepCalls(groupLog'[L + 1].leaving))
      BY <2>4, <2>7
    <3>2. \A i \in 1..L' : i \in 1..L \/ i = L + 1
      BY <1>1, <3>1
    <3>. QED
      BY <2>3, <3>1, <3>2 DEF LeavingNoted
  <2>. QED
    BY <2>5, <2>6, <2>7
<1>4. CASE \E n \in 0..Len(pipe) : Crash(n)
  <2>1. PICK n \in 0..Len(pipe) : Crash(n)
    BY <1>4
  <2>2. L' = L
    BY <2>1, LogCut DEF L, Crash, Typed, PastTyped
  <2>3. ASSUME NEW i \in 1..L
        PROVE  pipe' \in Seq(KeepCmds(groupLog'[i].leaving)) /\ replies' \in Seq(KeepCalls(groupLog'[i].leaving))
    <3>1. groupLog[i].leaving \subseteq groupLog'[i].leaving
      BY EntriesGrow
    <3>2. pipe \in Seq(KeepCmds(groupLog'[i].leaving))
      BY <3>1, KeepsGrow DEF LeavingNoted
    <3>. DEFINE C == KeepCmds(groupLog'[i].leaving)
    <3>. HIDE DEF C
    <3>3. Len(pipe) \in Nat /\ \A j \in 1..n : pipe[j] \in C
      <4>1. Len(pipe) \in Nat /\ pipe \in Seq(C)
        BY <3>2, LenProperties DEF C
      <4>. QED
        BY <4>1, ElementOfSeq
    <3>4. SubSeq(pipe, 1, n) \in Seq(C)
      BY <1>1, <3>3, SubSeqProperties
    <3>5. pipe' = SubSeq(pipe, 1, n) /\ replies' = <<>>
      BY <2>1 DEF Crash
    <3>. QED
      BY <3>4, <3>5, NoCmd DEF C
  <2>. QED
    BY <2>2, <2>3 DEF LeavingNoted
<1>5. ASSUME NEW c \in Commands, RedisReplies(c), RedisStores(c)
      PROVE  LeavingNoted'
  <2>1. L' = L /\ \A i \in 1..L : groupLog'[i].leaving = groupLog[i].leaving
    BY <1>5, RedisEntries
  <2>2. ASSUME NEW i \in 1..L
        PROVE  pipe' \in Seq(KeepCmds(groupLog'[i].leaving)) /\ replies' \in Seq(KeepCalls(groupLog'[i].leaving))
    <3>. DEFINE X == groupLog[i].leaving
    <3>1. pipe \in Seq(KeepCmds(X)) /\ replies \in Seq(KeepCalls(X)) /\ groupLog'[i].leaving = X
      BY <2>1 DEF LeavingNoted
    <3>. HIDE DEF X
    <3>2. pipe # <<>> /\ c = Head(pipe) /\ pipe' = Tail(pipe)
      BY <1>5 DEF RedisReplies
    <3>3. pipe' \in Seq(KeepCmds(X)) /\ c \in KeepCmds(X)
      BY <3>1, <3>2, HeadTailProperties
    <3>4. ASSUME NEW r \in Calls, Answers(c, r)
          PROVE  r \in KeepCalls(X)
      BY <3>3, <3>4 DEF Answers, KeepCalls, KeepCmds, LeaveOps
    <3>5. replies' = replies \/ \E r \in Calls : Answers(c, r) /\ replies' = replies \o <<r>>
      BY <1>5 DEF RedisReplies
    <3>6. ASSUME NEW r \in Calls, Answers(c, r), replies' = replies \o <<r>>
          PROVE  replies' \in Seq(KeepCalls(X))
      <4>1. <<r>> \in Seq(KeepCalls(X))
        BY <3>4, <3>6, OneReply
      <4>. QED
        BY <3>1, <3>6, <4>1, ConcatProperties
    <3>. QED
      BY <3>1, <3>3, <3>5, <3>6
  <2>. QED
    BY <2>1, <2>2 DEF LeavingNoted
<1>6. ASSUME NEW r \in Calls, NEW cs \in Seq(CmdsTo(S, L)), CallbackRuns(r, cs)
      PROVE  LeavingNoted'
  <2>1. L' = L /\ \A i \in 1..L : groupLog'[i].leaving = groupLog[i].leaving
    BY <1>6, CallEntries
  <2>2. ASSUME NEW i \in 1..L
        PROVE  pipe' \in Seq(KeepCmds(groupLog'[i].leaving)) /\ replies' \in Seq(KeepCalls(groupLog'[i].leaving))
    <3>. DEFINE X == groupLog[i].leaving
    <3>1. pipe \in Seq(KeepCmds(X)) /\ replies \in Seq(KeepCalls(X)) /\ groupLog'[i].leaving = X
      BY <2>1 DEF LeavingNoted
    <3>. HIDE DEF X
    <3>2. replies # <<>> /\ r = Head(replies) /\ replies' = Tail(replies) /\ pipe' = pipe \o cs
      BY <1>6 DEF CallbackRuns
    <3>3. replies' \in Seq(KeepCalls(X)) /\ r \in KeepCalls(X)
      BY <3>1, <3>2, HeadTailProperties
    <3>4. cs \in Seq(Commands) /\ \A j \in 1..Len(cs) : cs[j].op \in LeaveOps => cs[j].user \in X
      <4>1. /\ cs \in Seq(Commands)
            /\ \A j \in 1..Len(cs) :
                 /\ cs[j].op \in MemberOps \cup {"publish", "lpush", "ltrim", "ltrim group", "incr"}
                 /\ cs[j].op = "srem" => r.call = "leave" /\ cs[j].user = r.user
        BY <1>6, CallbackOps
      <4>. QED
        BY <3>3, <4>1 DEF LeaveOps, MemberOps, KeepCalls
    <3>5. cs \in Seq(KeepCmds(X))
      BY <3>4, KeepsAdded
    <3>. QED
      BY <3>1, <3>2, <3>3, <3>5, ConcatProperties
  <2>. QED
    BY <2>1, <2>2 DEF LeavingNoted
<1>. QED
  BY <1>2, <1>3, <1>4, <1>5, <1>6, StepsAre DEF Idles, Serves

-----------------------------------------------------------------------------
\* What is queued together.
Trails(t, C, k, D) == \A j \in 1..Len(t) : t[j] \in C => k < j /\ t[j - k] \in D

Whole(t) ==
  /\ \A u : Trails(t, JoinsOf(u), 1, SetsOf(u)) /\ Leads(t, DelsOf(u), 1, LeavesOf(u))
  /\ \A i : /\ Trails(t, Diffs(i), 1, GroupPushes) /\ Trails(t, Diffs(i), 2, Sorts(i))
            /\ Leads(t, Sorts(i), 2, Diffs(i))

\* The commands t of a page, the n-th message to a group being the next one.
Adds(t, n) ==
  /\ Whole(t)
  /\ \A j \in 1..Len(t) : t[j].op \notin MemberOps \cup {"incr"} /\ (t[j].op \in SeqOps => t[j].id = n)
  /\ \A i : Once(t, Sorts(i)) /\ Once(t, Diffs(i) \cup Incrs(i))

LEMMA PlainWhole ==
  ASSUME NEW t, \A j \in 1..Len(t) : t[j].op \notin {"smembers to join", "del", "sdiff", "sort"}
  PROVE  Whole(t)
BY DEF Whole, Trails, Leads, JoinsOf, DelsOf, Diffs, Sorts

LEMMA OneOnly ==
  ASSUME NEW c
  PROVE  \A j \in 1..Len(<<c>>) : <<c>>[j] = c
OBVIOUS

LEMMA PlainAdds ==
  ASSUME NEW c \in Commands, c.op \notin {"smembers to join", "del", "incr"} \cup MemberOps \cup SeqOps, NEW n
  PROVE  Adds(<<c>>, n)
<1>. DEFINE t == <<c>>
<1>2. \A j \in 1..Len(t) : t[j] = c
  BY OneOnly
<1>. HIDE DEF t
<1>3. Whole(t)
  BY <1>2, PlainWhole DEF SeqOps
<1>4. \A j \in 1..Len(t) : t[j].op \notin SeqOps \cup MemberOps \cup {"incr"}
  BY <1>2
<1>5. \A i : Once(t, Sorts(i)) /\ Once(t, Diffs(i) \cup Incrs(i))
  BY <1>4 DEF Once, Sorts, Diffs, Incrs, SeqOps
<1>. QED
  BY <1>3, <1>4, <1>5 DEF Adds, t

LEMMA GreetAdds ==
  ASSUME NEW v \in User, NEW here \in BOOLEAN, NEW n
  PROVE  Adds(Greets(v, here), n)
<1>. DEFINE x == UserCmd(IF here THEN "set" ELSE "del", v)
            y == UserCmd(IF here THEN "smembers to join" ELSE "smembers to leave", v)
<1>1. Greets(v, here) = <<x, y>>
  BY DEF Greets
<1>2. /\ x \in Commands /\ x.op = (IF here THEN "set" ELSE "del") /\ x.user = v
      /\ y \in Commands /\ y.op = (IF here THEN "smembers to join" ELSE "smembers to leave")
      /\ y.user = v
  <2>1. \A op \in {"set", "del", "smembers to join", "smembers to leave"} :
          UserCmd(op, v) \in Commands /\ UserCmd(op, v).op = op /\ UserCmd(op, v).user = v
    BY DEF UserCmd, Commands
  <2>. QED
    BY <2>1
<1>. HIDE DEF x, y
<1>. DEFINE t == <<x, y>>
<1>3. Len(t) = 2 /\ t[1] = x /\ t[2] = y /\ \A j \in 1..Len(t) : j = 1 \/ j = 2
  OBVIOUS
<1>. HIDE DEF t
<1>4. ASSUME NEW u
      PROVE  Trails(t, JoinsOf(u), 1, SetsOf(u)) /\ Leads(t, DelsOf(u), 1, LeavesOf(u))
  <2>1. y \in JoinsOf(u) => x \in SetsOf(u)
    BY <1>2 DEF JoinsOf, SetsOf
  <2>2. x \in DelsOf(u) => y \in LeavesOf(u)
    BY <1>2 DEF DelsOf, LeavesOf
  <2>3. x \notin JoinsOf(u) /\ y \notin DelsOf(u)
    BY <1>2 DEF JoinsOf, DelsOf
  <2>. QED
    BY <1>3, <2>1, <2>2, <2>3 DEF Trails, Leads
<1>5. \A j \in 1..Len(t) : t[j].op \notin SeqOps \cup MemberOps \cup {"incr"}
  BY <1>2, <1>3 DEF SeqOps, MemberOps
<1>6. Whole(t)
  BY <1>4, <1>5 DEF Whole, Trails, Leads, Diffs, Sorts, SeqOps
<1>7. \A i : Once(t, Sorts(i)) /\ Once(t, Diffs(i) \cup Incrs(i))
  BY <1>5 DEF Once, Sorts, Diffs, Incrs, SeqOps
<1>. QED
  BY <1>1, <1>5, <1>6, <1>7 DEF Adds, t

LEMMA TrioAdds ==
  ASSUME NEW n \in 1..MaxMoves
  PROVE  Adds(Trio(n), n)
<1>. DEFINE x == SeqCmd("sort", n)
            y == SeqCmd("lpush group", n)
            z == SeqCmd("sdiff", n)
            t == Trio(n)
<1>1. /\ x \in Commands /\ x.op = "sort" /\ x.id = n
      /\ y \in Commands /\ y.op = "lpush group" /\ y.id = n
      /\ z \in Commands /\ z.op = "sdiff" /\ z.id = n
  BY DEF SeqCmd, Commands
<1>2. Len(t) = 3 /\ t[1] = x /\ t[2] = y /\ t[3] = z
  BY TrioTyped
<1>. HIDE DEF x, y, z, t
<1>3. \A j \in 1..Len(t) : j = 1 \/ j = 2 \/ j = 3
  BY <1>2
<1>4. \A u : Trails(t, JoinsOf(u), 1, SetsOf(u)) /\ Leads(t, DelsOf(u), 1, LeavesOf(u))
  BY <1>1, <1>2, <1>3 DEF Trails, Leads, JoinsOf, DelsOf
<1>5. ASSUME NEW i
      PROVE  /\ Trails(t, Diffs(i), 1, GroupPushes) /\ Trails(t, Diffs(i), 2, Sorts(i))
             /\ Leads(t, Sorts(i), 2, Diffs(i))
             /\ Once(t, Sorts(i)) /\ Once(t, Diffs(i) \cup Incrs(i))
  <2>1. /\ x \in Sorts(i) <=> i = n
        /\ z \in Diffs(i) <=> i = n
        /\ y \in GroupPushes /\ y \notin Sorts(i) \cup Diffs(i) \cup Incrs(i)
        /\ x \notin Diffs(i) \cup Incrs(i) /\ z \notin Sorts(i)
    BY <1>1 DEF Sorts, Diffs, Incrs, GroupPushes
  <2>. QED
    BY <1>2, <1>3, <2>1 DEF Trails, Leads, Once
<1>6. \A j \in 1..Len(t) : t[j].op \notin MemberOps \cup {"incr"} /\ (t[j].op \in SeqOps => t[j].id = n)
  BY <1>1, <1>2, <1>3 DEF MemberOps
<1>. QED
  BY <1>4, <1>5, <1>6 DEF Adds, Whole, t

LEMMA PageQueuesWhole ==
  ASSUME Typed, PageSteps
  PROVE  \E t \in Seq(Commands) : pipe' = pipe \o t /\ Adds(t, L + 1)
<1>1. ASSUME NEW m \in Message, PageSends(m)
      PROVE  \E t \in Seq(Commands) : pipe' = pipe \o t /\ Adds(t, L + 1)
  <2>. DEFINE c == MsgCmd("get", m)
  <2>1. c \in Commands /\ c.op \notin {"smembers to join", "del", "incr"} \cup MemberOps \cup SeqOps
    BY DEF MsgCmd, Commands, MemberOps, SeqOps
  <2>2. pipe' = pipe \o <<c>>
    BY <1>1 DEF PageSends
  <2>. HIDE DEF c
  <2>3. <<c>> \in Seq(Commands)
    <3>1. c \in Commands
      BY <2>1
    <3>. QED
      BY <3>1
  <2>4. Adds(<<c>>, L + 1)
    BY <2>1, PlainAdds
  <2>. QED
    BY <2>2, <2>3, <2>4
<1>2. ASSUME NEW g \in Group, PageAsks(g)
      PROVE  \E t \in Seq(Commands) : pipe' = pipe \o t /\ Adds(t, L + 1)
  BY <1>2, TrioTyped, TrioAdds DEF PageAsks
<1>3. ASSUME NEW v \in User, NEW here \in BOOLEAN, PageGreets(v, here)
      PROVE  \E t \in Seq(Commands) : pipe' = pipe \o t /\ Adds(t, L + 1)
  BY <1>3, GreetAfter, GreetAdds DEF PageGreets
<1>. QED
  BY <1>1, <1>2, <1>3 DEF PageSteps

LEMMA CallQueuesWhole ==
  ASSUME Typed, NEW r \in Calls, NEW cs \in Seq(CmdsTo(S, L)), CallbackRuns(r, cs)
  PROVE  cs \in Seq(Commands) /\ Whole(cs)
BY CallbackOps, PlainWhole DEF MemberOps

LEMMA WholeJoined ==
  ASSUME NEW p \in Seq(Commands), NEW t \in Seq(Commands), Whole(t)
  PROVE  /\ \A u : /\ Follows(p, JoinsOf(u), 1, SetsOf(u)) => Follows(p \o t, JoinsOf(u), 1, SetsOf(u))
                   /\ Leads(p, DelsOf(u), 1, LeavesOf(u)) => Leads(p \o t, DelsOf(u), 1, LeavesOf(u))
         /\ \A i :
              /\ Follows(p, Diffs(i), 1, GroupPushes) => Follows(p \o t, Diffs(i), 1, GroupPushes)
              /\ Follows(p, Diffs(i), 2, Sorts(i)) => Follows(p \o t, Diffs(i), 2, Sorts(i))
              /\ Leads(p, Sorts(i), 2, Diffs(i)) => Leads(p \o t, Sorts(i), 2, Diffs(i))
         /\ \A u : p \o t # <<>> /\ Head(p \o t) \in JoinsOf(u) => p # <<>> /\ Head(p \o t) = Head(p)
<1>1. 1 \in Nat /\ 2 \in Nat
  OBVIOUS
<1>2. ASSUME NEW C, NEW k \in Nat, NEW D
      PROVE  /\ Trails(t, C, k, D) /\ Follows(p, C, k, D) => Follows(p \o t, C, k, D)
             /\ Leads(t, C, k, D) /\ Leads(p, C, k, D) => Leads(p \o t, C, k, D)
  BY QueueJoined DEF Trails
<1>3. ASSUME NEW u, p \o t # <<>>, Head(p \o t) \in JoinsOf(u)
      PROVE  p # <<>> /\ Head(p \o t) = Head(p)
  <2>1. /\ Len(p) \in Nat /\ Len(t) \in Nat /\ Len(p \o t) = Len(p) + Len(t) /\ p \o t \in Seq(Commands)
        /\ \A i \in 1..Len(p) + Len(t) : (p \o t)[i] = IF i <= Len(p) THEN p[i] ELSE t[i - Len(p)]
    BY ConcatProperties, LenProperties
  <2>2. Len(p \o t) # 0 /\ Head(p \o t) = (p \o t)[1]
    BY <1>3, <2>1, HeadTailProperties, EmptySeq
  <2>3. CASE Len(p) = 0
    <3>1. 1 \in 1..Len(t) /\ (p \o t)[1] = t[1]
      BY <2>1, <2>2, <2>3
    <3>2. ~(1 < 1)
      OBVIOUS
    <3>. QED
      BY <1>3, <2>2, <3>1, <3>2 DEF Whole, Trails
  <2>4. CASE Len(p) # 0
    <3>1. (p \o t)[1] = p[1]
      BY <2>1, <2>4
    <3>2. p # <<>> /\ Head(p) = p[1]
      BY <2>4, HeadTailProperties, EmptySeq
    <3>. QED
      BY <2>2, <3>1, <3>2
  <2>. QED
    BY <2>3, <2>4
<1>. QED
  BY <1>1, <1>2, <1>3 DEF Whole

LEMMA OrderedHolds ==
  ASSUME Typed, Ordered, JoinIsNext, [UnreadNext]_unreadVars
  PROVE  Ordered' /\ JoinIsNext'
<1>1. pipe \in Seq(Commands) /\ foreign \subseteq foreign' /\ gone \subseteq gone'
  BY QueuesAre, EntriesGrow DEF Typed
<1>2. ASSUME UNCHANGED <<pipe, gone>>, up' = up \/ pipe = <<>>, foreign \subseteq foreign',
             \A u \in User \ foreign' : online'[u] = online[u]
      PROVE  Ordered' /\ JoinIsNext'
  BY <1>2, EmptySeq DEF Ordered, JoinIsNext, Leads
<1>3. CASE Idles
  BY <1>2, <1>3 DEF Idles
<1>4. ASSUME NEW v \in User, Serves(v)
      PROVE  Ordered' /\ JoinIsNext'
  BY <1>2, <1>4 DEF Serves
<1>5. ASSUME NEW t \in Seq(Commands), Whole(t), pipe' = pipe \o t, up, UNCHANGED <<up, gone, foreign, online>>
      PROVE  Ordered' /\ JoinIsNext'
  <2>1. Ordered'
    BY <1>1, <1>5, WholeJoined DEF Ordered
  <2>2. JoinIsNext'
    BY <1>1, <1>5, WholeJoined DEF JoinIsNext
  <2>. QED
    BY <2>1, <2>2
<1>6. CASE PageSteps
  <2>1. PICK t \in Seq(Commands) : pipe' = pipe \o t /\ Adds(t, L + 1)
    BY <1>6, PageQueuesWhole
  <2>2. up /\ up' = up /\ UNCHANGED <<online, foreign, gone>>
    BY <1>6, PageAdds
  <2>. QED
    BY <1>5, <2>1, <2>2 DEF Adds
<1>7. ASSUME NEW r \in Calls, NEW cs \in Seq(CmdsTo(S, L)), CallbackRuns(r, cs)
      PROVE  Ordered' /\ JoinIsNext'
  <2>1. cs \in Seq(Commands) /\ Whole(cs)
    BY <1>7, CallQueuesWhole
  <2>. QED
    BY <1>5, <1>7, <2>1 DEF CallbackRuns
<1>8. ASSUME NEW c \in Commands, RedisReplies(c), RedisStores(c)
      PROVE  Ordered' /\ JoinIsNext'
  <2>1. /\ pipe # <<>> /\ c = Head(pipe) /\ pipe' = Tail(pipe)
        /\ UNCHANGED <<up, gone, foreign>>
    BY <1>8 DEF RedisReplies
  <2>2. 1 \in Nat /\ 2 \in Nat
    OBVIOUS
  <2>3. ASSUME NEW C, NEW k \in Nat, NEW D
        PROVE  /\ Follows(pipe, C, k, D) => Follows(pipe', C, k, D)
               /\ Leads(pipe, C, k, D) => Leads(pipe', C, k, D)
    <3>1. pipe \in Seq(Commands) /\ pipe # <<>>
      BY <1>1, <2>1
    <3>2. /\ Follows(pipe, C, k, D) => Follows(Tail(pipe), C, k, D)
          /\ Leads(pipe, C, k, D) => Leads(Tail(pipe), C, k, D)
      BY <2>3, <3>1, OrderTaken
    <3>. QED
      BY <2>1, <3>2
  <2>4. Ordered'
    BY <2>1, <2>2, <2>3 DEF Ordered
  <2>5. ASSUME NEW u \in User \ (foreign' \cup gone'), pipe' # <<>>, Head(pipe') \in JoinsOf(u)
        PROVE  online'[u] = Here
    <3>1. /\ Len(pipe) \in Nat /\ c = pipe[1] /\ Len(pipe') = Len(pipe) - 1 /\ pipe' \in Seq(Commands)
          /\ \A i \in 1..Len(pipe') : pipe'[i] = pipe[i + 1]
      BY <1>1, <2>1, HeadTailProperties, LenProperties
    <3>2. Len(pipe') # 0 /\ Len(pipe') \in Nat /\ Head(pipe') = pipe'[1]
      BY <2>5, <3>1, HeadTailProperties, EmptySeq, LenProperties
    <3>3. 2 \in 1..Len(pipe) /\ pipe[2] \in JoinsOf(u) /\ 1 < 2 /\ 2 - 1 = 1
      BY <2>5, <3>1, <3>2
    <3>4. pipe[1] \in SetsOf(u)
      BY <3>3 DEF Ordered, Follows
    <3>. QED
      BY <1>8, <3>1, <3>4 DEF SetsOf, RedisStores, Typed, StoreTyped
  <2>6. JoinIsNext'
    BY <2>5 DEF JoinIsNext
  <2>. QED
    BY <2>4, <2>6
<1>9. ASSUME NEW n \in 0..Len(pipe), Crash(n)
      PROVE  Ordered' /\ JoinIsNext'
  <2>1. /\ pipe' = SubSeq(pipe, 1, n) /\ ~up' /\ online' = online
        /\ Touching(PresenceOps, {"join", "leave"}) \subseteq gone'
    BY <1>9 DEF Crash, presence
  <2>2. 1 \in Nat /\ 2 \in Nat
    OBVIOUS
  <2>3. ASSUME NEW C, NEW k \in Nat, NEW D
        PROVE  Follows(pipe, C, k, D) => Follows(pipe', C, k, D)
    BY <1>1, <2>1, QueueCut
  <2>4. ASSUME NEW u \in User \ gone'
        PROVE  ~Has(pipe', DelsOf(u)) /\ ~Has(pipe', JoinsOf(u))
    <3>1. ~Has(pipe, DelsOf(u)) /\ ~Has(pipe, JoinsOf(u))
      BY <2>1, <2>4 DEF Has, Touching, DelsOf, JoinsOf, PresenceOps
    <3>. QED
      BY <1>1, <2>1, <3>1, QueueCut
  <2>5. Ordered'
    BY <2>1, <2>2, <2>3, <2>4 DEF Ordered, Leads, Has
  <2>6. ASSUME NEW u \in User \ (foreign' \cup gone'), pipe' # <<>>, Head(pipe') \in JoinsOf(u)
        PROVE  FALSE
    <3>1. pipe' \in Seq(Commands)
      BY <1>1, <2>1, SubSeqProperties
    <3>2. Head(pipe') = pipe'[1] /\ Len(pipe') # 0 /\ Len(pipe') \in Nat
      BY <2>6, <3>1, HeadTailProperties, EmptySeq, LenProperties
    <3>3. 1 \in 1..Len(pipe')
      BY <3>2
    <3>. QED
      BY <2>4, <2>6, <3>2, <3>3 DEF Has
  <2>. QED
    BY <2>5, <2>6 DEF JoinIsNext
<1>. QED
  BY <1>3, <1>4, <1>6, <1>7, <1>8, <1>9, StepsAre

LEMMA JoinedOnlineHolds ==
  ASSUME Typed, PresenceInv, Ordered, JoinIsNext, JoinedOnline, [UnreadNext]_unreadVars
  PROVE  JoinedOnline'
<1>1. /\ pipe \in Seq(Commands) /\ foreign \subseteq foreign' /\ gone \subseteq gone'
      /\ \A u \in User : GroupSet[u] \subseteq Group
  BY QueuesAre, EntriesGrow, WebAssumption DEF Typed
<1>2. ASSUME \A u \in User \ (foreign' \cup gone') : \A g \in GroupSet[u] :
               /\ SoonEnd(u, g)' = SoonEnd(u, g) /\ online'[u] = online[u]
               /\ ~Has(pipe', LeavesOf(u)) => ~Has(pipe, LeavesOf(u))
      PROVE  JoinedOnline'
  BY <1>1, <1>2 DEF JoinedOnline
<1>3. CASE Idles
  BY <1>2, <1>3 DEF Idles, SoonEnd
<1>4. ASSUME NEW v \in User, Serves(v)
      PROVE  JoinedOnline'
  BY <1>1, <1>2, <1>4 DEF Serves, SoonEnd
<1>5. ASSUME NEW t \in Seq(Commands), pipe' = pipe \o t
      PROVE  \A u \in User : ~Has(pipe', LeavesOf(u)) => ~Has(pipe, LeavesOf(u))
  BY <1>1, <1>5, QueueJoined
<1>6. CASE PageSteps
  <2>1. PICK t \in Seq(Commands) : pipe' = pipe \o t /\ Adds(t, L + 1)
    BY <1>6, PageQueuesWhole
  <2>2. UNCHANGED <<replies, online, onlineGroup>>
    BY <1>6, PageAdds
  <2>3. ASSUME NEW u \in User, NEW g \in GroupSet[u]
        PROVE  SoonEnd(u, g)' = SoonEnd(u, g)
    <3>. DEFINE b == u \in onlineGroup[g]
    <3>1. b \in BOOLEAN
      OBVIOUS
    <3>2. b = (u \in onlineGroup[g])
      OBVIOUS
    <3>. HIDE DEF b
    <3>3. \A i \in 1..Len(t) : t[i] \notin SaddsOf(u, g) \cup SremsOf(u, g)
      BY <2>1 DEF Adds, SaddsOf, SremsOf, MemberOps
    <3>4. GroupSoon(pipe \o t, replies, b, u, g) = GroupSoon(pipe, replies, b, u, g)
      BY <1>1, <3>1, <3>3, PipeAdds
    <3>. QED
      BY <2>1, <2>2, <3>2, <3>4 DEF SoonEnd
  <2>. QED
    BY <1>2, <1>5, <2>1, <2>2, <2>3
<1>7. ASSUME NEW r \in Calls, NEW cs \in Seq(CmdsTo(S, L)), CallbackRuns(r, cs)
      PROVE  JoinedOnline'
  <2>1. cs \in Seq(Commands) /\ pipe' = pipe \o cs /\ online' = online
    BY <1>7, CallQueuesWhole DEF CallbackRuns
  <2>2. \A u \in User : \A g \in GroupSet[u] : SoonEnd(u, g)' = SoonEnd(u, g)
    BY <1>7, CallbackSettles DEF PresenceInv
  <2>. QED
    BY <1>2, <1>5, <2>1, <2>2
<1>8. ASSUME NEW c \in Commands, RedisReplies(c), RedisStores(c)
      PROVE  JoinedOnline'
  <2>1. /\ pipe # <<>> /\ c = Head(pipe) /\ pipe' = Tail(pipe)
        /\ UNCHANGED <<up, gone, foreign>>
    BY <1>8 DEF RedisReplies
  <2>2. /\ Len(pipe) \in Nat /\ Len(pipe) >= 1 /\ c = pipe[1]
        /\ Len(pipe') = Len(pipe) - 1 /\ \A i \in 1..Len(pipe') : pipe'[i] = pipe[i + 1]
    BY <1>1, <2>1, HeadTailProperties, LenProperties, EmptySeq
  <2>3. \A u : Has(pipe, LeavesOf(u)) => c \in LeavesOf(u) \/ Has(pipe', LeavesOf(u))
    BY <1>1, <2>1, QueueTaken
  <2>4. ASSUME NEW u \in User \ (foreign' \cup gone'), NEW g \in GroupSet[u],
               SoonEnd(u, g)', ~Has(pipe', LeavesOf(u))
        PROVE  online'[u] = Here
    <3>1. u \in User \ (foreign \cup gone) /\ g \in Group
      BY <1>1, <2>1
    <3>2. up \/ c \notin JoinsOf(u) \cup LeavesOf(u)
      <4>1. ASSUME ~up, c.op \in PresenceOps PROVE c.user \in gone
        <5>1. c.user \in Touching(PresenceOps, {"join", "leave"})
          BY <2>2, <4>1 DEF Touching
        <5>. QED
          BY <4>1, <5>1 DEF PresenceInv, DownTouched
      <4>. QED
        BY <3>1, <4>1 DEF JoinsOf, LeavesOf, PresenceOps
    <3>3. SoonEnd(u, g)' = IF c \in JoinsOf(u) \cup LeavesOf(u) THEN c \in JoinsOf(u) ELSE SoonEnd(u, g)
      BY <1>8, <3>1, <3>2, RedisSettles
    <3>4. CASE c \in JoinsOf(u)
      <4>1. online[u] = Here
        BY <2>1, <3>1, <3>4 DEF JoinIsNext
      <4>2. online' = online
        BY <1>8, <3>4 DEF JoinsOf, RedisStores
      <4>. QED
        BY <4>1, <4>2
    <3>5. CASE c \in DelsOf(u)
      <4>1. Leads(pipe, DelsOf(u), 1, LeavesOf(u))
        BY <3>1 DEF Ordered
      <4>2. 1 \in 1..Len(pipe)
        BY <2>2
      <4>3. 1 + 1 \in 1..Len(pipe) /\ pipe[1 + 1] \in LeavesOf(u)
        BY <2>2, <3>5, <4>1, <4>2 DEF Leads
      <4>4. 1 \in 1..Len(pipe') /\ pipe'[1] = pipe[1 + 1]
        BY <2>2, <4>3
      <4>5. Has(pipe', LeavesOf(u))
        BY <4>3, <4>4 DEF Has
      <4>. QED
        BY <2>4, <4>5
    <3>6. CASE c \in SetsOf(u)
      BY <1>8, <3>6 DEF SetsOf, RedisStores, Typed, StoreTyped
    <3>7. CASE c \notin JoinsOf(u) \cup DelsOf(u) \cup SetsOf(u)
      <4>1. c \notin LeavesOf(u) /\ SoonEnd(u, g)
        BY <2>4, <3>3, <3>7, Apart
      <4>2. online[u] = Here
        BY <2>3, <2>4, <3>1, <4>1 DEF JoinedOnline
      <4>3. online'[u] = online[u]
        BY <1>8, <3>7 DEF SetsOf, DelsOf, RedisStores, Typed, StoreTyped
      <4>. QED
        BY <4>2, <4>3
    <3>. QED
      BY <3>4, <3>5, <3>6, <3>7
  <2>. QED
    BY <2>4 DEF JoinedOnline
<1>9. ASSUME NEW n \in 0..Len(pipe), Crash(n)
      PROVE  JoinedOnline'
  <2>1. /\ pipe' = SubSeq(pipe, 1, n) /\ replies' = <<>> /\ online' = online /\ onlineGroup' = onlineGroup
        /\ Touching(PresenceOps, {"join", "leave"}) \subseteq gone'
    BY <1>9 DEF Crash, presence
  <2>2. Len(pipe) \in Nat /\ Len(pipe') = n /\ \A i \in 1..n : pipe'[i] = pipe[i]
    BY <1>1, <2>1, LenProperties, SubSeqProperties
  <2>3. ASSUME NEW u \in User \ (foreign' \cup gone'), NEW g \in GroupSet[u]
        PROVE  SoonEnd(u, g)' = SoonEnd(u, g) /\ ~Has(pipe, LeavesOf(u))
    <3>1. u \notin Touching(PresenceOps, {"join", "leave"})
      BY <2>1
    <3>2. SoonEnd(u, g) = (u \in onlineGroup[g])
      BY <3>1, UntouchedEnds
    <3>3. \A i \in 1..Len(pipe) : pipe[i].op \in PresenceOps => pipe[i].user # u
      BY <3>1 DEF Touching
    <3>4. \A i \in 1..Len(pipe') : pipe'[i].op \in PresenceOps => pipe'[i].user # u
      BY <2>2, <3>3
    <3>5. \A i \in 1..Len(replies') : replies'[i].call \in {"join", "leave"} => replies'[i].user # u
      BY <2>1
    <3>. DEFINE b == u \in onlineGroup[g]
    <3>6. b \in BOOLEAN
      OBVIOUS
    <3>7. b = (u \in onlineGroup[g])
      OBVIOUS
    <3>. HIDE DEF b
    <3>8. GroupSoon(pipe', replies', b, u, g) = b
      BY <3>4, <3>5, <3>6, NoneQueued
    <3>9. SoonEnd(u, g)' = b
      BY <2>1, <3>7, <3>8 DEF SoonEnd
    <3>10. ~Has(pipe, LeavesOf(u))
      BY <3>3 DEF Has, LeavesOf, PresenceOps
    <3>. QED
      BY <3>2, <3>7, <3>9, <3>10
  <2>. QED
    BY <1>2, <2>1, <2>3
<1>. QED
  BY <1>3, <1>4, <1>6, <1>7, <1>8, <1>9, StepsAre

LEMMA OneOnce ==
  ASSUME NEW r, NEW D
  PROVE  Once(<<r>>, D) /\ (Has(<<r>>, D) <=> r \in D)
BY DEF Once, Has

LEMMA SingleTaken ==
  ASSUME NEW p \in Seq(Commands), p # <<>>, NEW q \in Seq(Calls), NEW w, NEW C, NEW D, NEW X, NEW Y,
         Single(p, C, q, D, X),
         w = q \/ \E r \in Calls : w = q \o <<r>> /\ (r \in D => Head(p) \in C),
         X = {} => Y = {} \/ (Head(p) \in C /\ w = q)
  PROVE  Single(Tail(p), C, w, D, Y)
<1>1. Has(p, C) <=> Head(p) \in C \/ Has(Tail(p), C)
  BY QueueTaken
<1>2. Once(Tail(p), C) /\ ~(Head(p) \in C /\ Has(Tail(p), C))
  BY QueueTaken DEF Single
<1>3. CASE w = q
  BY <1>1, <1>2, <1>3 DEF Single
<1>4. ASSUME NEW r \in Calls, w = q \o <<r>>, r \in D => Head(p) \in C, w # q
      PROVE  Single(Tail(p), C, w, D, Y)
  <2>1. <<r>> \in Seq(Calls)
    BY <1>4, OneReply
  <2>2. Has(w, D) <=> Has(q, D) \/ r \in D
    BY <1>4, <2>1, OneOnce, QueueJoined
  <2>3. ~(Has(q, D) /\ r \in D)
    BY <1>1, <1>4 DEF Single
  <2>4. Once(w, D)
    BY <1>4, <2>1, <2>3, OneOnce, QueueJoined DEF Single
  <2>. QED
    BY <1>1, <1>2, <1>4, <2>2, <2>4 DEF Single
<1>. QED
  BY <1>3, <1>4

LEMMA SingleAnswered ==
  ASSUME NEW p \in Seq(Commands), NEW q \in Seq(Calls), q # <<>>, NEW t \in Seq(Commands),
         NEW C, NEW D, NEW X, NEW Y, Single(p, C, q, D, X),
         Once(t, C), Has(t, C) => Head(q) \in D,
         X = {} => Y = {} \/ (Head(q) \in D /\ ~Has(t, C))
  PROVE  Single(p \o t, C, Tail(q), D, Y)
<1>1. Has(q, D) <=> Head(q) \in D \/ Has(Tail(q), D)
  BY QueueTaken
<1>2. Once(Tail(q), D) /\ ~(Head(q) \in D /\ Has(Tail(q), D))
  BY QueueTaken DEF Single
<1>3. Has(p \o t, C) <=> Has(p, C) \/ Has(t, C)
  BY QueueJoined
<1>4. Once(p \o t, C)
  BY <1>1, QueueJoined DEF Single
<1>. QED
  BY <1>1, <1>2, <1>3, <1>4 DEF Single

LEMMA SingleAdded ==
  ASSUME NEW p \in Seq(Commands), NEW q, NEW t \in Seq(Commands), NEW C, NEW D, NEW X,
         Single(p, C, q, D, X), Once(t, C), Has(t, C) => ~Has(p, C) /\ ~Has(q, D) /\ X = {}
  PROVE  Single(p \o t, C, q, D, X)
<1>1. Has(p \o t, C) <=> Has(p, C) \/ Has(t, C)
  BY QueueJoined
<1>2. Once(p \o t, C)
  BY QueueJoined DEF Single
<1>. QED
  BY <1>1, <1>2 DEF Single

LEMMA SingleCut ==
  ASSUME NEW p \in Seq(Commands), NEW n \in 0..Len(p), NEW q, NEW C, NEW D, NEW X,
         Single(p, C, q, D, X)
  PROVE  Single(SubSeq(p, 1, n), C, <<>>, D, X)
<1>1. /\ Has(SubSeq(p, 1, n), C) => Has(p, C)
      /\ Once(SubSeq(p, 1, n), C)
  BY QueueCut DEF Single
<1>2. Once(<<>>, D) /\ ~Has(<<>>, D)
  BY DEF Once, Has
<1>. QED
  BY <1>1, <1>2 DEF Single

LEMMA NoneYet ==
  ASSUME Typed, NEW i \in Nat, L < i
  PROVE  /\ ~Has(pipe, Sorts(i)) /\ ~Has(pipe, Diffs(i) \cup Incrs(i))
         /\ ~Has(replies, Sorteds(i)) /\ ~Has(replies, Differs(i))
<1>1. L \in Nat
  BY Counts DEF Typed
<1>2. \A j \in 1..Len(pipe) : pipe[j] \in CmdsTo(S, L)
  BY ElementOfSeq DEF Typed, LinesTyped
<1>3. \A j \in 1..Len(replies) : replies[j] \in CallsTo(S, L)
  BY ElementOfSeq DEF Typed, LinesTyped
<1>4. ASSUME NEW c \in CmdsTo(S, L), c \in Sorts(i) \cup Diffs(i) \cup Incrs(i)
      PROVE  FALSE
  <2>1. c.op \in SeqOps \cup {"incr"} /\ c.id = i
    BY <1>4 DEF Sorts, Diffs, Incrs, SeqOps
  <2>2. i <= L
    BY <2>1 DEF CmdsTo
  <2>. QED
    BY <1>1, <2>2
<1>5. ASSUME NEW r \in CallsTo(S, L), r \in Sorteds(i) \cup Differs(i)
      PROVE  FALSE
  <2>1. r.call \in GroupCalls /\ r.id = i
    BY <1>5 DEF Sorteds, Differs, GroupCalls
  <2>2. i <= L
    BY <2>1 DEF CallsTo
  <2>. QED
    BY <1>1, <2>2
<1>. QED
  BY <1>2, <1>3, <1>4, <1>5 DEF Has

\* A page may add a message to the history; it is to be sorted for.
LEMMA NewEntry ==
  ASSUME Typed, PageSteps
  PROVE  \/ L' = L
         \/ /\ L' = L + 1 /\ Has(pipe', Sorts(L + 1))
            /\ groupLog'[L + 1].live = {} /\ groupLog'[L + 1].counted = {}
<1>1. L \in Nat /\ groupLog \in Seq(GroupEntry) /\ pipe \in Seq(Commands)
  BY Counts, QueuesAre DEF Typed, PastTyped
<1>2. ASSUME NEW g \in Group, PageAsks(g)
      PROVE  /\ L' = L + 1 /\ Has(pipe', Sorts(L + 1))
             /\ groupLog'[L + 1].live = {} /\ groupLog'[L + 1].counted = {}
  <2>. DEFINE X == Touching(LeaveOps, {"leave"})
              e == [group |-> g, live |-> {}, counted |-> {}, leaving |-> X, cut |-> FALSE]
  <2>1. e.live = {} /\ e.counted = {}
    OBVIOUS
  <2>2. groupLog' = Append(groupLog, e)
    BY <1>2 DEF PageAsks
  <2>. HIDE DEF X, e
  <2>3. L' = L + 1 /\ groupLog'[L + 1] = e
    BY <1>1, <2>2, AppendProperties DEF L
  <2>4. L + 1 \in 1..MaxMoves /\ pipe' = pipe \o Trio(L + 1)
    BY <1>2 DEF PageAsks
  <2>5. SeqCmd("sort", L + 1) \in Sorts(L + 1)
    BY <2>4 DEF Sorts, SeqCmd, Commands
  <2>6. /\ Trio(L + 1) \in Seq(Commands) /\ Len(Trio(L + 1)) = 3
        /\ Trio(L + 1)[1] = SeqCmd("sort", L + 1)
    BY <2>4, TrioTyped
  <2>7. Has(Trio(L + 1), Sorts(L + 1))
    <3>1. 1 \in 1..3
      OBVIOUS
    <3>. QED
      BY <2>5, <2>6, <3>1 DEF Has
  <2>8. Has(pipe', Sorts(L + 1))
    BY <1>1, <2>4, <2>6, <2>7, QueueJoined
  <2>. QED
    BY <2>1, <2>3, <2>8
<1>3. ASSUME NEW v \in User, NEW here \in BOOLEAN, PageGreets(v, here)
      PROVE  L' = L
  BY <1>1, <1>3, LogMarked DEF PageGreets, L
<1>. QED
  BY <1>2, <1>3 DEF PageSteps, PageSends, L

LEMMA CallIncrs ==
  ASSUME Typed, NEW r \in Calls, NEW cs \in Seq(CmdsTo(S, L)), CallbackRuns(r, cs)
  PROVE  /\ \A j \in 1..Len(cs) : cs[j].op = "incr" => j = 1 /\ r.call = "differ" /\ cs[j].id = r.id
                                                       /\ cs[j].users = r.users
         /\ r.call = "differ" => cs = <<[op |-> "incr", id |-> r.id, users |-> r.users]>>
<1>1. ASSUME NEW d, cs = <<>> \/ cs = <<d>>,
             d.op = "incr" => r.call = "differ" /\ d.id = r.id /\ d.users = r.users
      PROVE  \A j \in 1..Len(cs) : cs[j].op = "incr" => j = 1 /\ r.call = "differ" /\ cs[j].id = r.id
                                                        /\ cs[j].users = r.users
  <2>1. \A j \in 1..Len(<<d>>) : <<d>>[j] = d /\ j = 1
    OBVIOUS
  <2>. QED
    BY <1>1, <2>1
<1>2. CASE r.call \in {"join", "leave"}
  <2>1. PICK op \in MemberOps : cs = ForGroups(op, r)
    BY <1>2 DEF CallbackRuns, Queues, MemberOps
  <2>2. r.user \in User /\ r.groups \in SUBSET Group
    BY <1>2, CallFields
  <2>3. S \in Nat /\ L \in Nat /\ S <= MaxMoves /\ L <= MaxMoves
    BY Counts DEF Typed
  <2>4. \A j \in 1..Len(cs) : \E g \in r.groups : cs[j] = GroupCmd(op, r.user, g)
    BY <2>1, <2>2, <2>3, ForGroupsLists
  <2>5. \A g : GroupCmd(op, r.user, g).op = op
    BY DEF GroupCmd
  <2>. QED
    BY <1>2, <2>1, <2>4, <2>5 DEF MemberOps
<1>3. CASE r.call = "got" /\ r.server # None
  <2>. DEFINE d == [op |-> "publish", msg |-> EncodeText(r.msg), to |-> r.server]
  <2>1. cs = <<d>> /\ d.op # "incr"
    BY <1>3 DEF CallbackRuns, Queues
  <2>. HIDE DEF d
  <2>. QED
    BY <1>1, <1>3, <2>1
<1>4. CASE r.call = "got" /\ r.server = None
  <2>. DEFINE d == MsgCmd("lpush", r.msg)
  <2>1. cs = <<d>> /\ d.op # "incr"
    BY <1>4 DEF CallbackRuns, Queues, MsgCmd
  <2>. HIDE DEF d
  <2>. QED
    BY <1>1, <1>4, <2>1
<1>5. CASE r.call = "pushed"
  <2>. DEFINE d == UserCmd("ltrim", r.user)
  <2>1. (cs = <<>> \/ cs = <<d>>) /\ d.op # "incr"
    BY <1>5 DEF CallbackRuns, Queues, UserCmd
  <2>. HIDE DEF d
  <2>. QED
    BY <1>1, <1>5, <2>1
<1>6. CASE r.call = "pushed group"
  <2>. DEFINE d == SeqCmd("ltrim group", r.id)
  <2>1. (cs = <<>> \/ cs = <<d>>) /\ d.op # "incr"
    BY <1>6 DEF CallbackRuns, Queues, SeqCmd
  <2>. HIDE DEF d
  <2>. QED
    BY <1>1, <1>6, <2>1
<1>7. CASE r.call = "sorted"
  BY <1>7 DEF CallbackRuns, Queues
<1>8. CASE r.call = "differ"
  <2>. DEFINE d == [op |-> "incr", id |-> r.id, users |-> r.users]
  <2>1. cs = <<d>> /\ d.id = r.id /\ d.users = r.users
    BY <1>8 DEF CallbackRuns, Queues
  <2>2. cs = <<[op |-> "incr", id |-> r.id, users |-> r.users]>>
    BY <2>1
  <2>. HIDE DEF d
  <2>. QED
    BY <1>1, <1>8, <2>1, <2>2
<1>. QED
  BY <1>2, <1>3, <1>4, <1>5, <1>6, <1>7, <1>8, CallFields

LEMMA TokensHold ==
  ASSUME Typed, Tokens, [UnreadNext]_unreadVars
  PROVE  Tokens'
<1>1. pipe \in Seq(Commands) /\ replies \in Seq(Calls) /\ L \in Nat
  BY QueuesAre, Counts DEF Typed
<1>2. ASSUME UNCHANGED <<pipe, replies>>, Idles \/ \E v \in User : Serves(v)
      PROVE  Tokens'
  BY <1>2 DEF Tokens, Idles, Serves, L
<1>3. CASE PageSteps
  <2>1. PICK t \in Seq(Commands) : pipe' = pipe \o t /\ Adds(t, L + 1)
    BY <1>3, PageQueuesWhole
  <2>2. replies' = replies
    BY <1>3, PageAdds
  <2>3. /\ \A i : Once(t, Sorts(i)) /\ Once(t, Diffs(i) \cup Incrs(i))
        /\ \A i : Has(t, Sorts(i)) \/ Has(t, Diffs(i) \cup Incrs(i)) => i = L + 1
    <3>1. \A j \in 1..Len(t) : t[j].op # "incr" /\ (t[j].op \in SeqOps => t[j].id = L + 1)
      BY <2>1 DEF Adds
    <3>2. ASSUME NEW i, NEW j \in 1..Len(t), t[j] \in Sorts(i) \cup Diffs(i) \cup Incrs(i)
          PROVE  i = L + 1
      <4>1. t[j].op \in SeqOps \cup {"incr"} /\ t[j].id = i
        BY <3>2 DEF Sorts, Diffs, Incrs, SeqOps
      <4>. QED
        BY <3>1, <4>1
    <3>3. \A i : Has(t, Sorts(i)) \/ Has(t, Diffs(i) \cup Incrs(i)) => i = L + 1
      BY <3>2 DEF Has
    <3>. QED
      BY <2>1, <3>3 DEF Adds
  <2>4. ASSUME NEW i \in 1..L
        PROVE  /\ Single(pipe', Sorts(i), replies', Sorteds(i), groupLog'[i].live)
               /\ Single(pipe', Diffs(i) \cup Incrs(i), replies', Differs(i), groupLog'[i].counted)
    <3>1. groupLog'[i].live = groupLog[i].live /\ groupLog'[i].counted = groupLog[i].counted
      BY <1>3, OtherEntries
    <3>2. i # L + 1
      BY <1>1
    <3>3. Single(pipe \o t, Sorts(i), replies, Sorteds(i), groupLog[i].live)
      BY <1>1, <2>3, <3>2, SingleAdded DEF Tokens
    <3>4. Single(pipe \o t, Diffs(i) \cup Incrs(i), replies, Differs(i), groupLog[i].counted)
      BY <1>1, <2>3, <3>2, SingleAdded DEF Tokens
    <3>. QED
      BY <2>1, <2>2, <3>1, <3>3, <3>4
  <2>5. ASSUME L' = L + 1, groupLog'[L + 1].live = {}, groupLog'[L + 1].counted = {}
        PROVE  /\ Single(pipe', Sorts(L + 1), replies', Sorteds(L + 1), groupLog'[L + 1].live)
               /\ Single(pipe', Diffs(L + 1) \cup Incrs(L + 1), replies', Differs(L + 1),
                         groupLog'[L + 1].counted)
    <3>1. /\ ~Has(pipe, Sorts(L + 1)) /\ ~Has(pipe, Diffs(L + 1) \cup Incrs(L + 1))
          /\ ~Has(replies, Sorteds(L + 1)) /\ ~Has(replies, Differs(L + 1))
      BY <1>1, NoneYet
    <3>2. /\ Single(pipe, Sorts(L + 1), replies, Sorteds(L + 1), {})
          /\ Single(pipe, Diffs(L + 1) \cup Incrs(L + 1), replies, Differs(L + 1), {})
      BY <3>1 DEF Single, Once, Has
    <3>3. Single(pipe \o t, Sorts(L + 1), replies, Sorteds(L + 1), {})
      BY <1>1, <2>3, <3>1, <3>2, SingleAdded
    <3>4. Single(pipe \o t, Diffs(L + 1) \cup Incrs(L + 1), replies, Differs(L + 1), {})
      BY <1>1, <2>3, <3>1, <3>2, SingleAdded
    <3>. QED
      BY <2>1, <2>2, <2>5, <3>3, <3>4
  <2>6. \A i \in 1..L + 1 : i \in 1..L \/ i = L + 1
    BY <1>1
  <2>. QED
    BY <1>3, <2>4, <2>5, <2>6, NewEntry DEF Tokens
<1>4. ASSUME NEW n \in 0..Len(pipe), Crash(n)
      PROVE  Tokens'
  <2>1. L' = L /\ pipe' = SubSeq(pipe, 1, n) /\ replies' = <<>>
    BY <1>4, LogCut DEF L, Crash, Typed, PastTyped
  <2>2. ASSUME NEW i \in 1..L
        PROVE  /\ Single(pipe', Sorts(i), replies', Sorteds(i), groupLog'[i].live)
               /\ Single(pipe', Diffs(i) \cup Incrs(i), replies', Differs(i), groupLog'[i].counted)
    <3>1. groupLog'[i].live = groupLog[i].live /\ groupLog'[i].counted = groupLog[i].counted
      BY <1>4, OtherEntries
    <3>2. Single(SubSeq(pipe, 1, n), Sorts(i), <<>>, Sorteds(i), groupLog[i].live)
      BY <1>1, SingleCut DEF Tokens
    <3>3. Single(SubSeq(pipe, 1, n), Diffs(i) \cup Incrs(i), <<>>, Differs(i), groupLog[i].counted)
      BY <1>1, SingleCut DEF Tokens
    <3>. QED
      BY <2>1, <3>1, <3>2, <3>3
  <2>. QED
    BY <2>1, <2>2 DEF Tokens
<1>5. ASSUME NEW c \in Commands, RedisReplies(c), RedisStores(c)
      PROVE  Tokens'
  <2>1. /\ pipe # <<>> /\ c = Head(pipe) /\ pipe' = Tail(pipe)
        /\ replies' = replies \/ (c.op \notin SilentOps
                                  /\ \E r \in Calls : Answers(c, r) /\ replies' = replies \o <<r>>)
    BY <1>5 DEF RedisReplies
  <2>2. ASSUME NEW i \in 1..L
        PROVE  /\ Single(pipe', Sorts(i), replies', Sorteds(i), groupLog'[i].live)
               /\ Single(pipe', Diffs(i) \cup Incrs(i), replies', Differs(i), groupLog'[i].counted)
    <3>1. /\ groupLog'[i].live = groupLog[i].live
          /\ groupLog'[i].counted = IF c.op = "incr" /\ c.id = i THEN c.users ELSE groupLog[i].counted
      BY <1>5, RedisEntries
    <3>2. \A r \in Calls : Answers(c, r) =>
            /\ r \in Sorteds(i) => c \in Sorts(i)
            /\ r \in Differs(i) => c \in Diffs(i) \cup Incrs(i)
      BY DEF Answers, Sorteds, Sorts, Differs, Diffs
    <3>3. replies' = replies \/ \E r \in Calls : /\ replies' = replies \o <<r>>
                                                 /\ r \in Sorteds(i) => Head(pipe) \in Sorts(i)
      BY <2>1, <3>2
    <3>4. replies' = replies \/ \E r \in Calls : /\ replies' = replies \o <<r>>
                                                 /\ r \in Differs(i) => Head(pipe) \in Diffs(i) \cup Incrs(i)
      BY <2>1, <3>2
    <3>5. groupLog'[i].counted = groupLog[i].counted \/ (c \in Incrs(i) /\ replies' = replies)
      BY <2>1, <3>1 DEF Incrs, SilentOps
    <3>6. pipe \in Seq(Commands) /\ pipe # <<>> /\ replies \in Seq(Calls)
      BY <1>1, <2>1
    <3>7. Single(Tail(pipe), Sorts(i), replies', Sorteds(i), groupLog[i].live)
      <4>1. Single(pipe, Sorts(i), replies, Sorteds(i), groupLog[i].live)
        BY DEF Tokens
      <4>. QED
        BY <3>3, <3>6, <4>1, SingleTaken
    <3>8. Single(Tail(pipe), Diffs(i) \cup Incrs(i), replies', Differs(i), groupLog'[i].counted)
      <4>1. Single(pipe, Diffs(i) \cup Incrs(i), replies, Differs(i), groupLog[i].counted)
        BY DEF Tokens
      <4>2. groupLog'[i].counted = groupLog[i].counted
            \/ (Head(pipe) \in Diffs(i) \cup Incrs(i) /\ replies' = replies)
        BY <2>1, <3>5
      <4>. QED
        BY <3>4, <3>6, <4>1, <4>2, SingleTaken
    <3>. QED
      BY <2>1, <3>1, <3>7, <3>8
  <2>3. L' = L
    BY <1>5, RedisEntries
  <2>. QED
    BY <2>2, <2>3 DEF Tokens
<1>6. ASSUME NEW r \in Calls, NEW cs \in Seq(CmdsTo(S, L)), CallbackRuns(r, cs)
      PROVE  Tokens'
  <2>1. /\ replies # <<>> /\ r = Head(replies) /\ replies' = Tail(replies)
        /\ pipe' = pipe \o cs /\ cs \in Seq(Commands)
    BY <1>6, CallQueuesWhole DEF CallbackRuns
  <2>2. ASSUME NEW i \in 1..L
        PROVE  /\ Once(cs, Sorts(i)) /\ ~Has(cs, Sorts(i))
               /\ Once(cs, Diffs(i) \cup Incrs(i))
               /\ Has(cs, Diffs(i) \cup Incrs(i)) => r \in Differs(i)
    <3>1. \A j \in 1..Len(cs) : cs[j] \notin Sorts(i) \cup Diffs(i)
      BY <1>6, CallbackOps DEF Sorts, Diffs, MemberOps
    <3>2. /\ Once(cs, Incrs(i))
          /\ Has(cs, Incrs(i)) => r \in Differs(i)
      BY <1>6, CallIncrs DEF Once, Has, Incrs, Differs
    <3>. QED
      BY <3>1, <3>2 DEF Once, Has
  <2>3. ASSUME NEW i \in 1..L
        PROVE  /\ Single(pipe', Sorts(i), replies', Sorteds(i), groupLog'[i].live)
               /\ Single(pipe', Diffs(i) \cup Incrs(i), replies', Differs(i), groupLog'[i].counted)
    <3>1. /\ groupLog'[i].counted = groupLog[i].counted
          /\ groupLog'[i].live = groupLog[i].live \/ r \in Sorteds(i)
      BY <1>6, CallEntries DEF Sorteds
    <3>2. pipe \in Seq(Commands) /\ replies # <<>> /\ replies \in Seq(Calls) /\ cs \in Seq(Commands)
      BY <1>1, <2>1
    <3>3. Single(pipe \o cs, Sorts(i), Tail(replies), Sorteds(i), groupLog'[i].live)
      <4>1. Single(pipe, Sorts(i), replies, Sorteds(i), groupLog[i].live)
        BY DEF Tokens
      <4>2. groupLog[i].live = {} => groupLog'[i].live = {} \/ (Head(replies) \in Sorteds(i) /\ ~Has(cs, Sorts(i)))
        BY <2>1, <2>2, <3>1
      <4>. QED
        BY <2>2, <3>2, <4>1, <4>2, SingleAnswered
    <3>4. Single(pipe \o cs, Diffs(i) \cup Incrs(i), Tail(replies), Differs(i), groupLog[i].counted)
      <4>1. Single(pipe, Diffs(i) \cup Incrs(i), replies, Differs(i), groupLog[i].counted)
        BY DEF Tokens
      <4>2. Has(cs, Diffs(i) \cup Incrs(i)) => Head(replies) \in Differs(i)
        BY <2>1, <2>2
      <4>. QED
        BY <2>2, <3>2, <4>1, <4>2, SingleAnswered
    <3>. QED
      BY <2>1, <3>1, <3>3, <3>4
  <2>4. L' = L
    BY <1>6, CallEntries
  <2>. QED
    BY <2>3, <2>4 DEF Tokens
<1>. QED
  BY <1>2, <1>3, <1>4, <1>5, <1>6, StepsAre DEF Idles, Serves

\* What is still to be done for a message to a group is under way.
LEMMA GroupUnderWay ==
  ASSUME NEW i
  PROVE  Has(pipe, GroupCmds(i)) \/ Has(replies, Sorteds(i) \cup Differs(i)) => i \in GroupMsgsUnderWay
<1>1. ASSUME NEW j \in 1..Len(pipe), pipe[j] \in GroupCmds(i)
      PROVE  i \in GroupMsgsUnderWay
  <2>1. pipe[j].op \in {"sort", "lpush group", "ltrim group", "sdiff", "incr"} /\ pipe[j].id = i
    BY <1>1 DEF GroupCmds, Sorts, Diffs, Incrs
  <2>. QED
    BY <2>1 DEF GroupMsgsUnderWay
<1>2. ASSUME NEW j \in 1..Len(replies), replies[j] \in Sorteds(i) \cup Differs(i)
      PROVE  i \in GroupMsgsUnderWay
  <2>1. replies[j].call \in {"sorted", "pushed group", "differ"} /\ replies[j].id = i
    BY <1>2 DEF Sorteds, Differs
  <2>. QED
    BY <2>1 DEF GroupMsgsUnderWay
<1>. QED
  BY <1>1, <1>2 DEF Has

LEMMA CrashCuts ==
  ASSUME Typed, NEW n \in 0..Len(pipe), Crash(n), NEW i \in 1..L,
         Has(pipe, GroupCmds(i)) \/ Has(replies, Sorteds(i) \cup Differs(i))
  PROVE  groupLog'[i].cut
<1>1. i \in GroupMsgsUnderWay
  BY GroupUnderWay
<1>2. groupLog \in Seq(GroupEntry)
  BY DEF Typed, PastTyped
<1>3. groupLog'[i] = [groupLog[i] EXCEPT !.cut = @ \/ i \in GroupMsgsUnderWay]
  <2>1. DOMAIN groupLog = 1..L
    BY <1>2, LenProperties DEF L
  <2>2. groupLog' = [k \in DOMAIN groupLog |-> [groupLog[k] EXCEPT !.cut = @ \/ k \in GroupMsgsUnderWay]]
    BY DEF Crash
  <2>. QED
    BY <2>1, <2>2
<1>4. groupLog[i] \in GroupEntry
  BY <1>2, ElementOfSeq DEF L
<1>. QED
  BY <1>1, <1>3, <1>4 DEF GroupEntry

LEMMA DownCutHolds ==
  ASSUME Typed, DownCut, [UnreadNext]_unreadVars
  PROVE  DownCut'
<1>1. /\ pipe \in Seq(Commands) /\ L \in Nat
      /\ \A i \in 1..L : groupLog[i].cut => groupLog'[i].cut
  BY QueuesAre, Counts, EntriesGrow DEF Typed
<1>2. CASE up'
  BY <1>2 DEF DownCut
<1>3. ASSUME ~up', up' = up, L' = L, pipe' = pipe \/ (pipe # <<>> /\ pipe' = Tail(pipe))
      PROVE  DownCut'
  <2>1. \A C : Has(pipe', C) => Has(pipe, C)
    BY <1>1, <1>3, QueueTaken
  <2>. QED
    BY <1>1, <1>3, <2>1 DEF DownCut
<1>4. ASSUME NEW n \in 0..Len(pipe), Crash(n)
      PROVE  DownCut'
  <2>1. L' = L /\ pipe' = SubSeq(pipe, 1, n)
    BY <1>4, LogCut DEF L, Crash, Typed, PastTyped
  <2>2. \A C : Has(pipe', C) => Has(pipe, C)
    BY <1>1, <2>1, QueueCut
  <2>. QED
    BY <1>4, <2>1, <2>2, CrashCuts DEF DownCut
<1>5. ASSUME NEW c \in Commands, RedisReplies(c), RedisStores(c)
      PROVE  DownCut'
  <2>1. L' = L
    BY <1>5, RedisEntries
  <2>2. up' = up /\ pipe # <<>> /\ pipe' = Tail(pipe)
    BY <1>5 DEF RedisReplies
  <2>. QED
    BY <1>2, <1>3, <2>1, <2>2
<1>6. CASE PageSteps
  BY <1>2, <1>6, PageAdds
<1>7. ASSUME NEW r \in Calls, NEW cs \in Seq(CmdsTo(S, L)), CallbackRuns(r, cs)
      PROVE  DownCut'
  BY <1>2, <1>7 DEF CallbackRuns
<1>8. CASE Idles \/ \E v \in User : Serves(v)
  BY <1>2, <1>3, <1>8 DEF Idles, Serves, L
<1>. QED
  BY <1>4, <1>5, <1>6, <1>7, <1>8, StepsAre

\* A member who is in the group, and whom nobody takes out, is online here and present.
LEMMA StaysHere ==
  ASSUME Typed, PresenceInv, LeavingNoted, JoinedOnline, NEW i \in 1..L, NEW u \in Bound(i)
  PROVE  /\ u \in onlineGroup[groupLog[i].group] => online[u] = Here
         /\ online[u] = Here => Present(u)
<1>. DEFINE g == groupLog[i].group
<1>1. u \in User \ (foreign \cup gone) /\ g \in GroupSet[u]
  BY DEF Bound, Members
<1>2. /\ \A j \in 1..Len(pipe) : pipe[j].op \in LeaveOps => pipe[j].user # u
      /\ \A j \in 1..Len(replies) : replies[j].call = "leave" => replies[j].user # u
  <2>. DEFINE X == groupLog[i].leaving
  <2>1. pipe \in Seq(KeepCmds(X)) /\ replies \in Seq(KeepCalls(X)) /\ u \notin X
    BY DEF LeavingNoted, Bound
  <2>. HIDE DEF X
  <2>2. \A j \in 1..Len(pipe) : pipe[j] \in KeepCmds(X)
    BY <2>1, ElementOfSeq
  <2>3. \A j \in 1..Len(replies) : replies[j] \in KeepCalls(X)
    BY <2>1, ElementOfSeq
  <2>. QED
    BY <2>1, <2>2, <2>3 DEF KeepCmds, KeepCalls
<1>3. ASSUME u \in onlineGroup[g]
      PROVE  online[u] = Here
  <2>1. \A j \in 1..Len(pipe) : pipe[j] \notin SremsOf(u, g) \cup LeavesOf(u)
    BY <1>2 DEF SremsOf, LeavesOf, LeaveOps
  <2>2. \A j \in 1..Len(replies) : replies[j] \notin LeaveCallsOf(u)
    BY <1>2 DEF LeaveCallsOf
  <2>3. After(pipe, SaddsOf(u, g), SremsOf(u, g), u \in onlineGroup[g])
    BY <1>3, <2>1 DEF After
  <2>4. SoonEnd(u, g)
    BY <2>2, <2>3 DEF SoonEnd, GroupSoon, After
  <2>. QED
    BY <1>1, <2>1, <2>4 DEF JoinedOnline, Has
<1>4. ASSUME online[u] = Here
      PROVE  Present(u)
  <2>1. \A j \in 1..Len(pipe) : pipe[j] \notin DelsOf(u)
    BY <1>2 DEF DelsOf, LeaveOps
  <2>2. OnlineEnd(u)
    BY <1>4, <2>1 DEF OnlineEnd, OnlineAfter, After
  <2>. QED
    BY <1>1, <2>2 DEF PresenceInv, Settled
<1>. QED
  BY <1>3, <1>4

\* A SADD or SREM that comes before the SDIFF of a message comes before its SORT.
LEMMA SortStillQueued ==
  ASSUME Typed, Ordered, pipe # <<>>, Head(pipe).op \in MemberOps, NEW i, Has(pipe, Diffs(i))
  PROVE  Has(pipe, Sorts(i))
<1>1. pipe \in Seq(Commands) /\ Len(pipe) \in Nat /\ Head(pipe) = pipe[1]
  BY QueuesAre, LenProperties, HeadTailProperties DEF Typed
<1>2. PICK j \in 1..Len(pipe) : pipe[j] \in Diffs(i)
  BY DEF Has
<1>3. pipe[1] \notin Diffs(i) \cup GroupPushes
  BY <1>1 DEF Diffs, GroupPushes, MemberOps
<1>4. j \in Nat /\ 1 < j
  BY <1>1, <1>2, <1>3
<1>5. pipe[j - 1] \in GroupPushes
  BY <1>2, <1>4 DEF Ordered, Follows
<1>6. 2 < j /\ j - 2 \in 1..Len(pipe)
  BY <1>1, <1>2, <1>3, <1>4, <1>5
<1>7. pipe[j - 2] \in Sorts(i)
  BY <1>2, <1>6 DEF Ordered, Follows
<1>. QED
  BY <1>6, <1>7 DEF Has

\* Where a message to a group can be: not in two places.
LEMMA TokensApart ==
  ASSUME Tokens, NEW i \in 1..L
  PROVE  /\ Has(pipe, Sorts(i)) => groupLog[i].live = {} /\ ~Has(replies, Sorteds(i))
         /\ Has(replies, Sorteds(i)) => groupLog[i].live = {}
         /\ Has(pipe, Diffs(i)) => /\ groupLog[i].counted = {} /\ ~Has(replies, Differs(i))
                                   /\ ~Has(pipe, Incrs(i))
         /\ Has(replies, Differs(i)) => groupLog[i].counted = {} /\ ~Has(pipe, Incrs(i))
         /\ Has(pipe, Incrs(i)) => groupLog[i].counted = {}
<1>1. /\ Single(pipe, Sorts(i), replies, Sorteds(i), groupLog[i].live)
      /\ Single(pipe, Diffs(i) \cup Incrs(i), replies, Differs(i), groupLog[i].counted)
  BY DEF Tokens
<1>2. /\ Has(pipe, Diffs(i)) => Has(pipe, Diffs(i) \cup Incrs(i))
      /\ Has(pipe, Incrs(i)) => Has(pipe, Diffs(i) \cup Incrs(i))
  BY DEF Has
<1>3. ~(Has(pipe, Diffs(i)) /\ Has(pipe, Incrs(i)))
  <2>1. ASSUME NEW j \in 1..Len(pipe), NEW k \in 1..Len(pipe), pipe[j] \in Diffs(i), pipe[k] \in Incrs(i)
        PROVE  FALSE
    <3>1. j = k
      BY <1>1, <2>1 DEF Single, Once
    <3>. QED
      BY <2>1, <3>1 DEF Diffs, Incrs
  <2>. QED
    BY <2>1 DEF Has
<1>. QED
  BY <1>1, <1>2, <1>3 DEF Single

LEMMA RedisReaches ==
  ASSUME Typed, PresenceInv, LeavingNoted, Ordered, JoinedOnline, Tokens, DownCut, GroupReaches,
         NEW c \in Commands, RedisReplies(c), RedisStores(c), NEW i \in 1..L, NEW u \in User
  PROVE  Reaches(i, u)'
<1>. DEFINE g == groupLog[i].group
<1>1. /\ pipe \in Seq(Commands) /\ replies \in Seq(Calls) /\ pipe # <<>> /\ Head(pipe) = c
      /\ pipe' = Tail(pipe) /\ UNCHANGED <<up, userIdMap, gone, foreign>>
  BY QueuesAre DEF Typed, RedisReplies
<1>2. /\ groupLog'[i].group = g /\ groupLog'[i].leaving = groupLog[i].leaving
      /\ groupLog'[i].cut = groupLog[i].cut /\ groupLog'[i].live = groupLog[i].live
      /\ groupLog'[i].counted = IF c.op = "incr" /\ c.id = i THEN c.users ELSE groupLog[i].counted
  BY RedisEntries
<1>3. Bound(i)' = Bound(i) /\ Present(u)' = Present(u) /\ foreign' = foreign
  BY <1>1, <1>2 DEF Bound, Present
<1>4. \A C : Has(pipe, C) <=> c \in C \/ Has(pipe', C)
  BY <1>1, QueueTaken
<1>5. ASSUME NEW r \in Calls, replies' = replies \o <<r>>
      PROVE  \A D : Has(replies', D) <=> Has(replies, D) \/ r \in D
  <2>1. <<r>> \in Seq(Calls)
    BY <1>5, OneReply
  <2>. QED
    BY <1>1, <1>5, <2>1, OneOnce, QueueJoined
<1>6. Reaches(i, u)
  BY DEF GroupReaches
<1>7. /\ Single(pipe, Sorts(i), replies, Sorteds(i), groupLog[i].live)
      /\ Single(pipe, Diffs(i) \cup Incrs(i), replies, Differs(i), groupLog[i].counted)
  BY DEF Tokens
<1>8. /\ ~Has(replies, Sorteds(i)) => ~Has(replies, SortedWith(i, u))
      /\ ~Has(replies, Differs(i)) => ~Has(replies, DifferWith(i, u))
      /\ ~Has(pipe, Incrs(i)) => ~Has(pipe, IncrWith(i, u))
  BY DEF Has, SortedWith, DifferWith, IncrWith
<1>9. c.op \notin MemberOps => onlineGroup' = onlineGroup
  BY DEF RedisStores
<1>10. c.op # "incr" => groupLog'[i].counted = groupLog[i].counted
  BY <1>2
<1>11. CASE c \in Sorts(i)
  <2>1. c.op = "sort" /\ c.id = i /\ c.op \notin SilentOps \cup MemberOps \cup {"incr"}
    BY <1>11 DEF Sorts, SilentOps, MemberOps
  <2>2. groupLog[i].live = {} /\ ~Has(replies, Sorteds(i))
    BY <1>4, <1>11, TokensApart
  <2>3. (Has(pipe', Diffs(i)) <=> Has(pipe, Diffs(i))) /\ (Has(pipe', IncrWith(i, u)) <=> Has(pipe, IncrWith(i, u)))
    BY <1>4, <2>1 DEF Diffs, IncrWith, Incrs
  <2>4. Waits(i, u)' <=> Waits(i, u)
    BY <1>2, <1>9, <2>1, <2>3 DEF Waits
  <2>5. CASE replies' = replies /\ ~up
    <3>1. groupLog[i].cut
      BY <1>4, <1>11, <2>5 DEF DownCut, GroupCmds
    <3>2. (ToLive(i, u)' <=> ToLive(i, u)) /\ (ToCount(i, u)' <=> ToCount(i, u))
      BY <1>2, <1>10, <2>1, <2>3, <2>5 DEF ToLive, ToCount
    <3>. QED
      BY <1>2, <1>3, <1>6, <2>4, <2>5, <3>1, <3>2 DEF Reaches
  <2>6. ASSUME up, NEW r \in Calls, Answers(c, r), replies' = replies \o <<r>>
        PROVE  Reaches(i, u)'
    <3>1. r \in Sorteds(i) /\ r.here = {v \in onlineGroup[g] : online[v] = Here}
      BY <2>1, <2>6 DEF Answers, Sorteds
    <3>2. r \notin DifferWith(i, u)
      BY <3>1 DEF Sorteds, DifferWith, Differs
    <3>3. Has(replies', DifferWith(i, u)) <=> Has(replies, DifferWith(i, u))
      BY <1>5, <2>6, <3>2
    <3>4. ToCount(i, u)' <=> ToCount(i, u)
      BY <1>10, <2>1, <2>3, <3>3 DEF ToCount
    <3>5. r \in SortedWith(i, u) <=> u \in onlineGroup[g] /\ online[u] = Here
      BY <3>1 DEF SortedWith
    <3>6. Has(replies', SortedWith(i, u)) <=> u \in onlineGroup[g] /\ online[u] = Here
      BY <1>5, <1>8, <2>2, <2>6, <3>5
    <3>7. ToLive(i, u)' <=> u \in onlineGroup[g] /\ online[u] = Here
      BY <1>2, <2>2, <3>6 DEF ToLive
    <3>8. Has(pipe, Diffs(i))
      <4>1. Leads(pipe, Sorts(i), 2, Diffs(i))
        BY <2>6 DEF Ordered
      <4>2. 1 \in 1..Len(pipe) /\ pipe[1] = c
        BY <1>1, HeadTailProperties, LenProperties, EmptySeq
      <4>. QED
        BY <1>11, <4>1, <4>2 DEF Leads, Has
    <3>9. ~ToCount(i, u)
      BY <1>8, <3>8, TokensApart DEF ToCount
    <3>10. Waits(i, u)' <=> u \notin onlineGroup[g]
      BY <2>4, <3>8 DEF Waits
    <3>11. u \in Bound(i) => /\ u \in onlineGroup[g] => online[u] = Here
                             /\ online[u] = Here => Present(u)
      BY StaysHere
    <3>. QED
      BY <1>3, <3>4, <3>6, <3>7, <3>9, <3>10, <3>11 DEF Reaches
  <2>. QED
    BY <2>1, <2>5, <2>6 DEF RedisReplies
<1>12. CASE c \in Diffs(i)
  <2>1. c.op = "sdiff" /\ c.id = i /\ c.op \notin SilentOps \cup MemberOps \cup {"incr"}
    BY <1>12 DEF Diffs, SilentOps, MemberOps
  <2>2. /\ groupLog[i].counted = {} /\ ~Has(replies, Differs(i)) /\ ~Has(pipe, Incrs(i))
        /\ Has(pipe, Diffs(i))
    BY <1>4, <1>12, TokensApart
  <2>3. ~Has(pipe', Diffs(i)) /\ ~Has(pipe', IncrWith(i, u)) /\ (Has(pipe', Sorts(i)) <=> Has(pipe, Sorts(i)))
    <3>1. ~Has(pipe', Diffs(i) \cup Incrs(i))
      BY <1>1, <1>7, <1>12, QueueTaken DEF Single
    <3>2. c \notin Sorts(i)
      BY <2>1 DEF Sorts
    <3>. QED
      BY <1>4, <3>1, <3>2 DEF Has, IncrWith
  <2>4. ~Waits(i, u)' /\ ~ToCount(i, u)
    BY <1>8, <2>2, <2>3 DEF Waits, ToCount
  <2>5. CASE replies' = replies /\ ~up
    <3>1. groupLog[i].cut
      BY <1>4, <1>12, <2>5 DEF DownCut, GroupCmds
    <3>2. (ToLive(i, u)' <=> ToLive(i, u)) /\ ~ToCount(i, u)'
      BY <1>2, <1>8, <1>10, <2>1, <2>2, <2>3, <2>5 DEF ToLive, ToCount
    <3>. QED
      BY <1>2, <1>3, <1>6, <2>4, <2>5, <3>1, <3>2 DEF Reaches
  <2>6. ASSUME up, NEW r \in Calls, Answers(c, r), replies' = replies \o <<r>>
        PROVE  Reaches(i, u)'
    <3>1. r \in Differs(i) /\ r.users = Members(g) \ onlineGroup[g]
      BY <2>1, <2>6 DEF Answers, Differs
    <3>2. r \notin SortedWith(i, u)
      BY <3>1 DEF Differs, SortedWith, Sorteds
    <3>3. Has(replies', SortedWith(i, u)) <=> Has(replies, SortedWith(i, u))
      BY <1>5, <2>6, <3>2
    <3>4. ToLive(i, u)' <=> ToLive(i, u)
      BY <1>2, <3>3 DEF ToLive
    <3>5. r \in DifferWith(i, u) <=> u \in Members(g) \ onlineGroup[g]
      BY <3>1 DEF DifferWith
    <3>6. Has(replies', DifferWith(i, u)) <=> u \in Members(g) \ onlineGroup[g]
      BY <1>5, <1>8, <2>2, <2>6, <3>5
    <3>7. ToCount(i, u)' <=> u \in Members(g) \ onlineGroup[g]
      BY <1>10, <2>1, <2>2, <2>3, <3>6 DEF ToCount
    <3>8. Waits(i, u) <=> u \notin onlineGroup[g]
      BY <2>2 DEF Waits
    <3>9. u \in Bound(i) => u \in Members(g)
      BY DEF Bound
    <3>. QED
      BY <1>2, <1>3, <1>6, <2>3, <2>4, <3>3, <3>4, <3>7, <3>8, <3>9 DEF Reaches
  <2>. QED
    BY <2>1, <2>5, <2>6 DEF RedisReplies
<1>13. CASE c \in Incrs(i)
  <2>1. c.op = "incr" /\ c.id = i /\ c.op \in SilentOps /\ c.op \notin MemberOps
    BY <1>13 DEF Incrs, SilentOps, MemberOps
  <2>2. replies' = replies
    BY <2>1 DEF RedisReplies
  <2>3. groupLog[i].counted = {} /\ ~Has(replies, Differs(i))
    <3>1. Has(pipe, Incrs(i))
      BY <1>4, <1>13
    <3>. QED
      BY <3>1, TokensApart
  <2>4. ~Has(pipe', Diffs(i)) /\ ~Has(pipe', IncrWith(i, u)) /\ (Has(pipe', Sorts(i)) <=> Has(pipe, Sorts(i)))
    <3>1. ~Has(pipe', Diffs(i) \cup Incrs(i))
      BY <1>1, <1>7, <1>13, QueueTaken DEF Single
    <3>2. c \notin Sorts(i)
      BY <2>1 DEF Sorts
    <3>. QED
      BY <1>4, <3>1, <3>2 DEF Has, IncrWith
  <2>5. Has(pipe, IncrWith(i, u)) <=> u \in c.users
    BY <1>4, <1>13, <2>4 DEF IncrWith
  <2>6. ToCount(i, u)' <=> ToCount(i, u)
    BY <1>2, <1>8, <2>1, <2>2, <2>3, <2>4, <2>5 DEF ToCount
  <2>7. ToLive(i, u)' <=> ToLive(i, u)
    BY <1>2, <2>2 DEF ToLive
  <2>8. ~Waits(i, u)' /\ ~Waits(i, u)
    <3>1. c \notin Diffs(i)
      BY <2>1 DEF Diffs
    <3>. QED
      BY <1>4, <2>4, <3>1 DEF Waits
  <2>. QED
    BY <1>2, <1>3, <1>6, <2>2, <2>4, <2>6, <2>7, <2>8 DEF Reaches
<1>14. CASE c \notin Sorts(i) \cup Diffs(i) \cup Incrs(i)
  <2>1. /\ Has(pipe', Sorts(i)) <=> Has(pipe, Sorts(i))
        /\ Has(pipe', Diffs(i)) <=> Has(pipe, Diffs(i))
        /\ Has(pipe', IncrWith(i, u)) <=> Has(pipe, IncrWith(i, u))
    BY <1>4, <1>14 DEF IncrWith
  <2>2. groupLog'[i].counted = groupLog[i].counted
    BY <1>2, <1>14 DEF Incrs
  <2>3. /\ Has(replies', SortedWith(i, u)) <=> Has(replies, SortedWith(i, u))
        /\ Has(replies', DifferWith(i, u)) <=> Has(replies, DifferWith(i, u))
    <3>1. ASSUME NEW r \in Calls, Answers(c, r)
          PROVE  r \notin SortedWith(i, u) \cup DifferWith(i, u)
      BY <1>14, <3>1 DEF Answers, Sorts, Diffs, SortedWith, Sorteds, DifferWith, Differs
    <3>. QED
      BY <1>5, <3>1 DEF RedisReplies
  <2>4. (ToLive(i, u)' <=> ToLive(i, u)) /\ (ToCount(i, u)' <=> ToCount(i, u))
    BY <1>2, <2>1, <2>2, <2>3 DEF ToLive, ToCount
  <2>5. CASE c.op \notin MemberOps \/ ~Has(pipe, Diffs(i))
    <3>1. Waits(i, u)' <=> Waits(i, u)
      BY <1>2, <1>9, <2>1, <2>5 DEF Waits
    <3>. QED
      BY <1>2, <1>3, <1>6, <2>1, <2>3, <2>4, <3>1 DEF Reaches
  <2>6. CASE c.op \in MemberOps /\ Has(pipe, Diffs(i))
    <3>1. Has(pipe, Sorts(i))
      BY <1>1, <2>6, SortStillQueued
    <3>2. ~ToLive(i, u)
      BY <1>8, <3>1, TokensApart DEF ToLive
    <3>. QED
      BY <1>3, <1>6, <2>1, <2>3, <2>4, <3>1, <3>2 DEF Reaches
  <2>. QED
    BY <2>5, <2>6
<1>. QED
  BY <1>11, <1>12, <1>13, <1>14

LEMMA CallbackReaches ==
  ASSUME Typed, Tokens, GroupReaches,
         NEW r \in Calls, NEW cs \in Seq(CmdsTo(S, L)), CallbackRuns(r, cs), NEW i \in 1..L, NEW u \in User
  PROVE  Reaches(i, u)'
<1>1. /\ pipe \in Seq(Commands) /\ replies \in Seq(Calls) /\ replies # <<>> /\ Head(replies) = r
      /\ replies' = Tail(replies) /\ pipe' = pipe \o cs
      /\ UNCHANGED <<up, userIdMap, onlineGroup, gone, foreign>>
  BY QueuesAre DEF Typed, CallbackRuns
<1>2. /\ groupLog'[i].group = groupLog[i].group /\ groupLog'[i].leaving = groupLog[i].leaving
      /\ groupLog'[i].cut = groupLog[i].cut /\ groupLog'[i].counted = groupLog[i].counted
      /\ groupLog'[i].live = IF r.call = "sorted" /\ r.id = i THEN {v \in r.here : userIdMap[v] # None}
                             ELSE groupLog[i].live
  BY CallEntries
<1>3. Bound(i)' = Bound(i) /\ Present(u)' = Present(u) /\ foreign' = foreign
  BY <1>1, <1>2 DEF Bound, Present
<1>4. cs \in Seq(Commands) /\ \A C : Has(pipe', C) <=> Has(pipe, C) \/ Has(cs, C)
  <2>1. cs \in Seq(Commands)
    BY CallQueuesWhole
  <2>. QED
    BY <1>1, <2>1, QueueJoined
<1>5. \A D : Has(replies, D) <=> r \in D \/ Has(replies', D)
  BY <1>1, QueueTaken
<1>6. Reaches(i, u)
  BY DEF GroupReaches
<1>7. /\ Has(pipe', Sorts(i)) <=> Has(pipe, Sorts(i))
      /\ Has(pipe', Diffs(i)) <=> Has(pipe, Diffs(i))
  <2>1. \A j \in 1..Len(cs) : cs[j] \notin Sorts(i) \cup Diffs(i)
    BY CallbackOps DEF Sorts, Diffs, MemberOps
  <2>. QED
    BY <1>4, <2>1 DEF Has
<1>8. Has(cs, IncrWith(i, u)) <=> r \in DifferWith(i, u)
  <2>1. Has(cs, IncrWith(i, u)) => r \in DifferWith(i, u)
    BY CallIncrs DEF Has, IncrWith, Incrs, DifferWith, Differs
  <2>2. ASSUME r \in DifferWith(i, u)
        PROVE  Has(cs, IncrWith(i, u))
    <3>. DEFINE d == [op |-> "incr", id |-> r.id, users |-> r.users]
    <3>1. r.call = "differ" /\ r.id = i /\ u \in r.users
      BY <2>2 DEF DifferWith, Differs
    <3>2. cs = <<d>>
      BY <3>1, CallIncrs
    <3>3. d.op = "incr" /\ d.id = i /\ d.users = r.users
      BY <3>1
    <3>. HIDE DEF d
    <3>4. d \in Commands
      <4>1. 1 \in 1..Len(<<d>>) /\ <<d>>[1] = d
        OBVIOUS
      <4>2. cs[1] \in Commands
        BY <1>4, <3>2, <4>1, ElementOfSeq
      <4>. QED
        BY <3>2, <4>1, <4>2
    <3>5. d \in IncrWith(i, u)
      BY <3>1, <3>3, <3>4 DEF IncrWith, Incrs
    <3>. QED
      BY <3>2, <3>5, OneOnce
  <2>. QED
    BY <2>1, <2>2
<1>9. ToCount(i, u)' <=> ToCount(i, u)
  BY <1>2, <1>4, <1>5, <1>8 DEF ToCount
<1>10. Waits(i, u)' <=> Waits(i, u)
  BY <1>1, <1>2, <1>7 DEF Waits
<1>11. CASE r \in Sorteds(i)
  <2>1. r.call = "sorted" /\ r.id = i
    BY <1>11 DEF Sorteds
  <2>2. groupLog[i].live = {}
    BY <1>5, <1>11, TokensApart
  <2>3. ~Has(replies', SortedWith(i, u))
    <3>1. Once(replies, Sorteds(i))
      BY DEF Tokens, Single
    <3>2. ~Has(replies', Sorteds(i))
      BY <1>1, <1>11, <3>1, QueueTaken
    <3>. QED
      BY <3>2 DEF Has, SortedWith
  <2>4. ToLive(i, u)' <=> u \in r.here /\ Present(u)
    BY <1>2, <2>1, <2>3 DEF ToLive, Present
  <2>5. ToLive(i, u) <=> u \in r.here
    BY <1>5, <1>11, <2>2, <2>3 DEF ToLive, SortedWith
  <2>6. u \in Bound(i) /\ u \in r.here => Present(u)
    BY <1>5, <1>6, <1>11 DEF Reaches, SortedWith
  <2>. QED
    BY <1>2, <1>3, <1>6, <1>7, <1>9, <1>10, <2>3, <2>4, <2>5, <2>6 DEF Reaches
<1>12. CASE r \notin Sorteds(i)
  <2>1. groupLog'[i].live = groupLog[i].live
    BY <1>2, <1>12 DEF Sorteds
  <2>2. Has(replies', SortedWith(i, u)) <=> Has(replies, SortedWith(i, u))
    BY <1>5, <1>12 DEF SortedWith
  <2>3. ToLive(i, u)' <=> ToLive(i, u)
    BY <2>1, <2>2 DEF ToLive
  <2>. QED
    BY <1>2, <1>3, <1>6, <1>7, <1>9, <1>10, <2>2, <2>3 DEF Reaches
<1>. QED
  BY <1>11, <1>12

LEMMA PageReaches ==
  ASSUME Typed, GroupReaches, PageSteps, NEW u \in User
  PROVE  \A i \in 1..L' : Reaches(i, u)'
<1>1. pipe \in Seq(Commands) /\ L \in Nat /\ \A i \in 1..L : groupLog[i].leaving \subseteq groupLog'[i].leaving
  BY QueuesAre, Counts, EntriesGrow, OtherEntries DEF Typed
<1>2. PICK t \in Seq(Commands) : pipe' = pipe \o t /\ Adds(t, L + 1)
  BY PageQueuesWhole
<1>3. UNCHANGED <<replies, onlineGroup, foreign, gone>>
  BY PageAdds
<1>4. ASSUME NEW i \in 1..L
      PROVE  Reaches(i, u)'
  <2>1. /\ groupLog'[i].group = groupLog[i].group /\ groupLog'[i].live = groupLog[i].live
        /\ groupLog'[i].counted = groupLog[i].counted
        /\ groupLog[i].cut => groupLog'[i].cut
    BY OtherEntries
  <2>2. \A j \in 1..Len(t) : t[j] \notin Sorts(i) \cup Diffs(i) \cup Incrs(i)
    <3>1. ASSUME NEW j \in 1..Len(t), t[j] \in Sorts(i) \cup Diffs(i) \cup Incrs(i)
          PROVE  FALSE
      <4>1. t[j].op \in SeqOps \cup {"incr"} /\ t[j].id = i
        BY <3>1 DEF Sorts, Diffs, Incrs, SeqOps
      <4>2. t[j].id = L + 1
        BY <1>2, <4>1 DEF Adds
      <4>. QED
        BY <1>1, <4>1, <4>2
    <3>. QED
      BY <3>1
  <2>3. /\ Has(pipe', Sorts(i)) <=> Has(pipe, Sorts(i))
        /\ Has(pipe', Diffs(i)) <=> Has(pipe, Diffs(i))
        /\ Has(pipe', IncrWith(i, u)) <=> Has(pipe, IncrWith(i, u))
    <3>1. \A C : Has(pipe', C) <=> Has(pipe, C) \/ Has(t, C)
      BY <1>1, <1>2, QueueJoined
    <3>2. ~Has(t, Sorts(i)) /\ ~Has(t, Diffs(i)) /\ ~Has(t, IncrWith(i, u))
      BY <2>2 DEF Has, IncrWith
    <3>. QED
      BY <3>1, <3>2
  <2>4. /\ ToLive(i, u)' <=> ToLive(i, u)
        /\ ToCount(i, u)' <=> ToCount(i, u)
        /\ Waits(i, u)' <=> Waits(i, u)
    BY <1>3, <2>1, <2>3 DEF ToLive, ToCount, Waits
  <2>5. u \in Bound(i)' => u \in Bound(i)
    BY <1>1, <1>3, <2>1 DEF Bound
  <2>6. u \in Bound(i)' /\ Present(u) => Present(u)'
    <3>1. ASSUME NEW v \in User, NEW here \in BOOLEAN, PageGreets(v, here), u \in Bound(i)'
          PROVE  Present(u) => Present(u)'
      <4>1. CASE u # v
        BY <3>1, <4>1 DEF PageGreets, Present
      <4>2. CASE u = v /\ here
        BY <3>1, <4>2 DEF PageGreets, Present
      <4>3. CASE u = v /\ ~here
        <5>1. groupLog[i] \in GroupEntry /\ i \in DOMAIN groupLog
          BY LenProperties, ElementOfSeq DEF Typed, PastTyped, L
        <5>2. groupLog'[i] = [groupLog[i] EXCEPT !.leaving = @ \cup {v}]
          BY <3>1, <4>3, <5>1 DEF PageGreets
        <5>3. v \in groupLog'[i].leaving
          BY <5>1, <5>2 DEF GroupEntry
        <5>. QED
          BY <3>1, <4>3, <5>3 DEF Bound
      <4>. QED
        BY <4>1, <4>2, <4>3
    <3>. QED
      BY <3>1 DEF PageSteps, PageSends, PageAsks, Present
  <2>7. Reaches(i, u)
    BY DEF GroupReaches
  <2>. QED
    BY <1>3, <2>1, <2>3, <2>4, <2>5, <2>6, <2>7 DEF Reaches
<1>5. ASSUME NEW i \in Nat, i = L + 1, Has(pipe', Sorts(i)),
             groupLog'[i].live = {}, groupLog'[i].counted = {}
      PROVE  Reaches(i, u)'
  <2>1. L < i
    BY <1>1, <1>5
  <2>2. ~Has(replies, Sorteds(i)) /\ ~Has(replies, Differs(i)) /\ ~Has(pipe, Diffs(i) \cup Incrs(i))
    BY <2>1, NoneYet
  <2>3. ~Has(replies', SortedWith(i, u))
    BY <1>3, <2>2 DEF Has, SortedWith
  <2>4. ~ToLive(i, u)'
    BY <1>5, <2>3 DEF ToLive
  <2>. QED
    BY <1>5, <2>3, <2>4 DEF Reaches
<1>6. CASE L' = L
  BY <1>4, <1>6
<1>7. CASE L' = L + 1 /\ Has(pipe', Sorts(L + 1))
           /\ groupLog'[L + 1].live = {} /\ groupLog'[L + 1].counted = {}
  <2>1. ASSUME NEW i \in 1..L'
        PROVE  Reaches(i, u)'
    <3>1. CASE i \in 1..L
      BY <1>4, <3>1
    <3>2. CASE i \notin 1..L
      <4>1. i \in Nat /\ i = L + 1
        BY <1>1, <1>7, <3>2
      <4>. QED
        BY <1>5, <1>7, <4>1
    <3>. QED
      BY <3>1, <3>2
  <2>. QED
    BY <2>1
<1>. QED
  BY <1>6, <1>7, NewEntry

LEMMA CrashReaches ==
  ASSUME Typed, GroupReaches, NEW n \in 0..Len(pipe), Crash(n), NEW i \in 1..L, NEW u \in User
  PROVE  Reaches(i, u)'
<1>1. /\ pipe \in Seq(Commands) /\ pipe' = SubSeq(pipe, 1, n) /\ replies' = <<>>
      /\ foreign' = foreign /\ gone \subseteq gone' /\ onlineGroup' = onlineGroup
  BY QueuesAre DEF Typed, Crash, presence
<1>2. /\ groupLog'[i].group = groupLog[i].group /\ groupLog'[i].live = groupLog[i].live
      /\ groupLog'[i].counted = groupLog[i].counted
      /\ groupLog[i].cut => groupLog'[i].cut
      /\ groupLog[i].leaving \subseteq groupLog'[i].leaving
  BY OtherEntries
<1>3. \A C : Has(pipe', C) => Has(pipe, C)
  BY <1>1, QueueCut
<1>4. \A D : ~Has(replies', D)
  BY <1>1 DEF Has
<1>5. /\ ToLive(i, u)' => ToLive(i, u)
      /\ ToCount(i, u)' => ToCount(i, u)
      /\ Waits(i, u)' => Waits(i, u)
  BY <1>1, <1>2, <1>3, <1>4 DEF ToLive, ToCount, Waits
<1>6. Reaches(i, u)
  BY DEF GroupReaches
<1>7. ASSUME u \in Bound(i)', ~groupLog'[i].cut
      PROVE  ToLive(i, u)' \/ ToCount(i, u)'
  <2>1. u \in Bound(i) /\ ~groupLog[i].cut
    BY <1>1, <1>2, <1>7 DEF Bound
  <2>2. ~Has(pipe, GroupCmds(i)) /\ ~Has(replies, Sorteds(i) \cup Differs(i))
    BY <1>7, CrashCuts
  <2>3. /\ ~Has(pipe, Sorts(i)) /\ ~Has(pipe, Diffs(i)) /\ ~Has(pipe, IncrWith(i, u))
        /\ ~Has(replies, SortedWith(i, u)) /\ ~Has(replies, DifferWith(i, u))
    BY <2>2 DEF Has, GroupCmds, IncrWith, SortedWith, DifferWith
  <2>4. u \in groupLog[i].live \/ u \in groupLog[i].counted
    BY <1>6, <2>1, <2>3 DEF Reaches, ToLive, ToCount, Waits
  <2>. QED
    BY <1>2, <2>4 DEF ToLive, ToCount
<1>. QED
  BY <1>1, <1>4, <1>5, <1>6, <1>7 DEF Reaches

LEMMA GroupReachesHold ==
  ASSUME Typed, PresenceInv, LeavingNoted, Ordered, JoinedOnline, Tokens, DownCut, GroupReaches,
         [UnreadNext]_unreadVars
  PROVE  GroupReaches'
<1>1. CASE Idles
  BY <1>1 DEF Idles, GroupReaches, Reaches, ToLive, ToCount, Waits, Bound, Present, L
<1>2. ASSUME NEW v \in User, Serves(v), NEW i \in 1..L, NEW u \in User
      PROVE  Reaches(i, u)'
  <2>1. UNCHANGED <<userIdMap, pipe, replies, gone, groupLog>> /\ foreign' = foreign \cup {v}
    BY <1>2 DEF Serves
  <2>2. groupLog[i].group \in Group
    <3>1. groupLog[i] \in GroupEntry
      BY ElementOfSeq DEF Typed, PastTyped, L
    <3>. QED
      BY <3>1 DEF GroupEntry
  <2>3. /\ ToLive(i, u)' <=> ToLive(i, u)
        /\ ToCount(i, u)' <=> ToCount(i, u)
        /\ u # v => (Waits(i, u)' <=> Waits(i, u))
    BY <1>2, <2>1, <2>2 DEF ToLive, ToCount, Waits, Serves
  <2>4. u \in Bound(i)' => u \in Bound(i) /\ u # v
    BY <2>1 DEF Bound
  <2>5. Reaches(i, u)
    BY DEF GroupReaches
  <2>. QED
    BY <2>1, <2>3, <2>4, <2>5 DEF Reaches, Present
<1>3. ASSUME NEW v \in User, Serves(v)
      PROVE  GroupReaches'
  <2>1. L' = L
    BY <1>3 DEF Serves, L
  <2>. QED
    BY <1>2, <1>3, <2>1 DEF GroupReaches
<1>4. CASE PageSteps
  BY <1>4, PageReaches DEF GroupReaches
<1>5. ASSUME NEW n \in 0..Len(pipe), Crash(n)
      PROVE  GroupReaches'
  <2>1. L' = L
    BY <1>5, LogCut DEF L, Crash, Typed, PastTyped
  <2>. QED
    BY <1>5, <2>1, CrashReaches DEF GroupReaches
<1>6. ASSUME NEW c \in Commands, RedisReplies(c), RedisStores(c)
      PROVE  GroupReaches'
  <2>1. L' = L
    BY <1>6, RedisEntries
  <2>. QED
    BY <1>6, <2>1, RedisReaches DEF GroupReaches
<1>7. ASSUME NEW r \in Calls, NEW cs \in Seq(CmdsTo(S, L)), CallbackRuns(r, cs)
      PROVE  GroupReaches'
  <2>1. L' = L
    BY <1>7, CallEntries
  <2>. QED
    BY <1>7, <2>1, CallbackReaches DEF GroupReaches
<1>. QED
  BY <1>1, <1>3, <1>4, <1>5, <1>6, <1>7, StepsAre

-----------------------------------------------------------------------------
\* All that is said of the messages to groups.
LEMMA GroupInit ==
  ASSUME UnreadInit
  PROVE  GroupInv
<1>1. /\ pipe = <<>> /\ replies = <<>> /\ up = TRUE /\ L = 0
      /\ \A g \in Group : onlineGroup[g] = {}
  BY DEF UnreadInit, WebInit, L
<1>2. 1..L = {} /\ Len(pipe) = 0 /\ 1..Len(pipe) = {}
  BY <1>1
<1>3. Ordered /\ JoinIsNext
  BY <1>1, <1>2 DEF Ordered, JoinIsNext, Follows, Leads
<1>4. JoinedOnline
  <2>1. Touching(PresenceOps, {"join", "leave"}) = {}
    <3>1. /\ \A j \in 1..Len(pipe) : pipe[j].op \notin PresenceOps
          /\ \A j \in 1..Len(replies) : replies[j].call \notin {"join", "leave"}
      BY <1>1
    <3>. QED
      BY <3>1 DEF Touching
  <2>2. \A u \in User : \A g : SoonEnd(u, g) = (u \in onlineGroup[g])
    BY <2>1, UntouchedEnds
  <2>3. \A u \in User : GroupSet[u] \subseteq Group
    BY WebAssumption
  <2>. QED
    BY <1>1, <2>2, <2>3 DEF JoinedOnline
<1>5. LeavingNoted /\ Tokens /\ DownCut /\ GroupReaches
  BY <1>1, <1>2 DEF LeavingNoted, Tokens, DownCut, GroupReaches
<1>. QED
  BY <1>3, <1>4, <1>5 DEF GroupInv

LEMMA GroupHolds ==
  ASSUME Typed, PresenceInv, GroupInv, [UnreadNext]_unreadVars
  PROVE  GroupInv'
BY LeavingHolds, OrderedHolds, JoinedOnlineHolds, TokensHold, DownCutHolds, GroupReachesHold DEF GroupInv

LEMMA GroupReachedFollows ==
  ASSUME Typed, GroupReaches
  PROVE  GroupReached
<1>1. groupLog \in Seq(GroupEntry) /\ DOMAIN groupLog = 1..L
  BY LenProperties DEF Typed, PastTyped, L
<1>2. ASSUME NEW i \in 1..L
      PROVE  /\ groupLog[i].live \cap groupLog[i].counted \subseteq foreign
             /\ i \notin GroupMsgsUnderWay =>
                  Members(groupLog[i].group) \subseteq
                    groupLog[i].live \cup groupLog[i].counted \cup groupLog[i].leaving \cup foreign \cup gone
                    \cup (IF groupLog[i].cut THEN User ELSE {})
  <2>1. groupLog[i] \in GroupEntry
    BY <1>1, ElementOfSeq DEF L
  <2>2. groupLog[i].live \subseteq User
    BY <2>1 DEF GroupEntry
  <2>3. ASSUME NEW u \in User
        PROVE  Reaches(i, u)
    BY DEF GroupReaches
  <2>4. \A u \in User \ foreign : ~(u \in groupLog[i].live /\ u \in groupLog[i].counted)
    BY <2>3 DEF Reaches, ToLive, ToCount
  <2>5. ASSUME NEW u \in Members(groupLog[i].group), i \notin GroupMsgsUnderWay,
               u \notin groupLog[i].leaving \cup foreign \cup gone, ~groupLog[i].cut
        PROVE  u \in groupLog[i].live \cup groupLog[i].counted
    <3>1. u \in User /\ u \in Bound(i)
      BY <2>5 DEF Members, Bound
    <3>2. ~Has(pipe, GroupCmds(i)) /\ ~Has(replies, Sorteds(i) \cup Differs(i))
      BY <2>5, GroupUnderWay
    <3>3. /\ ~Has(pipe, Sorts(i)) /\ ~Has(pipe, Diffs(i)) /\ ~Has(pipe, IncrWith(i, u))
          /\ ~Has(replies, SortedWith(i, u)) /\ ~Has(replies, DifferWith(i, u))
      BY <3>2 DEF Has, GroupCmds, IncrWith, SortedWith, DifferWith
    <3>4. Reaches(i, u)
      BY <2>3, <3>1
    <3>. QED
      BY <2>5, <3>1, <3>3, <3>4 DEF Reaches, ToLive, ToCount, Waits
  <2>6. \A u \in Members(groupLog[i].group) : u \in User
    BY DEF Members
  <2>. QED
    BY <2>2, <2>4, <2>5, <2>6
<1>. QED
  BY <1>1, <1>2 DEF GroupReached

(* A message to a group is emitted to a member or counted as unread for her, both
   only if a message server changed her keys, and one of the two unless she was
   leaving, a crash cut the work short or a message server changed them, although SORT and SDIFF are two commands and the
   callbacks of others run between their replies (socket.js:150, 204). *)
THEOREM GroupReachedHolds == UnreadSpec => []GroupReached
<1>1. UnreadInit => Typed /\ ReadTyped /\ Registered /\ PresenceInv /\ GroupInv
  BY TypedInit, RegisteredInit, PresenceInit, GroupInit
<1>2. Typed /\ ReadTyped /\ Registered /\ PresenceInv /\ GroupInv /\ [UnreadNext]_unreadVars
        => (Typed /\ ReadTyped /\ Registered /\ PresenceInv /\ GroupInv)'
  BY TypedHolds, RegisteredHolds, PresenceHolds, GroupHolds
<1>3. Typed /\ GroupInv => GroupReached
  BY GroupReachedFollows DEF GroupInv
<1>. QED
  BY <1>1, <1>2, <1>3, PTL DEF UnreadSpec

-----------------------------------------------------------------------------
(* Work: the sum of a sequence of numbers is the number of its units, so the sums
   of two sequences add up; and what a step takes off the queues and adds.   *)
Units(w) == UNION {{i} \X (1..w[i]) : i \in 1..Len(w)}

LEMMA UnitIs ==
  ASSUME NEW w, NEW x
  PROVE  x \in Units(w) <=> \E i \in 1..Len(w) : \E n \in 1..w[i] : x = <<i, n>>
BY DEF Units

LEMMA UnitsFinite ==
  ASSUME NEW b \in Nat, NEW w \in Seq(0..b)
  PROVE  IsFiniteSet(Units(w)) /\ Total(w) = Cardinality(Units(w)) /\ Total(w) \in Nat
<1>1. Len(w) \in Nat /\ \A i \in 1..Len(w) : w[i] \in 0..b
  BY LenProperties, ElementOfSeq
<1>2. IsFiniteSet(1..Len(w)) /\ IsFiniteSet(1..b)
  BY <1>1, FS_Interval
<1>3. IsFiniteSet((1..Len(w)) \X (1..b))
  BY <1>2, FS_Product
<1>4. \A i \in 1..Len(w) : 1..w[i] \subseteq 1..b
  BY <1>1
<1>5. Units(w) \subseteq (1..Len(w)) \X (1..b)
  BY <1>4 DEF Units
<1>6. IsFiniteSet(Units(w))
  BY <1>3, <1>5, FS_Subset
<1>. QED
  BY <1>6, FS_CardinalityType DEF Total, Units

\* x is v followed by w.
Catenates(x, v, w) ==
  /\ Len(x) = Len(v) + Len(w)
  /\ \A i \in 1..Len(x) : x[i] = IF i <= Len(v) THEN v[i] ELSE w[i - Len(v)]

LEMMA TotalSum ==
  ASSUME NEW b \in Nat, NEW v \in Seq(0..b), NEW w \in Seq(0..b), NEW x \in Seq(0..b),
         Catenates(x, v, w)
  PROVE  Total(x) = Total(v) + Total(w)
<1>. DEFINE m == Len(v)
            U == {<<i + m, n>> : i \in 1..Len(w), n \in 1..b}
            W == {y \in U : y \in Units(x)}
<1>1. /\ m \in Nat /\ Len(w) \in Nat /\ Len(x) = m + Len(w)
      /\ \A i \in 1..Len(x) : x[i] = IF i <= m THEN v[i] ELSE w[i - m]
  BY LenProperties DEF Catenates
<1>2. \A i \in 1..m : v[i] \in 0..b
  BY ElementOfSeq
<1>3. \A i \in 1..Len(w) : w[i] \in 0..b
  BY ElementOfSeq
<1>. HIDE DEF m
<1>4. \A i \in 1..m : i \in 1..Len(x) /\ x[i] = v[i]
  BY <1>1
<1>5. \A i \in 1..Len(w) : i + m \in 1..Len(x) /\ x[i + m] = w[i]
  BY <1>1, SMTT(30)
<1>6. \A i \in 1..Len(x) : i \in 1..m \/ (i - m \in 1..Len(w) /\ i = (i - m) + m)
  BY <1>1
<1>7. ASSUME NEW i \in 1..Len(w), NEW n \in 1..w[i]
      PROVE  <<i + m, n>> \in W
  <2>1. n \in 1..b
    BY <1>3
  <2>2. <<i + m, n>> \in U
    BY <2>1
  <2>3. <<i + m, n>> \in Units(x)
    BY <1>5, UnitIs
  <2>. QED
    BY <2>2, <2>3
<1>8. ASSUME NEW y \in W
      PROVE  \E i \in 1..Len(w) : \E n \in 1..w[i] : y = <<i + m, n>>
  <2>1. PICK i \in 1..Len(w), n \in 1..b : y = <<i + m, n>>
    OBVIOUS
  <2>. y \in Units(x)
    OBVIOUS
  <2>. HIDE DEF W
  <2>2. PICK j \in 1..Len(x) : \E k \in 1..x[j] : y = <<j, k>>
    BY UnitIs
  <2>3. PICK k \in 1..x[j] : y = <<j, k>>
    BY <2>2
  <2>4. j = i + m /\ k = n
    BY <2>1, <2>3
  <2>5. n \in 1..w[i]
    BY <1>5, <2>3, <2>4
  <2>. QED
    BY <2>1, <2>5
<1>. HIDE DEF W
<1>9. Units(x) = Units(v) \cup W
  <2>1. ASSUME NEW y \in Units(x)
        PROVE  y \in Units(v) \cup W
    <3>1. PICK i \in 1..Len(x) : \E n \in 1..x[i] : y = <<i, n>>
      BY UnitIs
    <3>2. PICK n \in 1..x[i] : y = <<i, n>>
      BY <3>1
    <3>3. CASE i \in 1..m
      <4>1. n \in 1..v[i]
        BY <1>4, <3>3
      <4>2. m = Len(v)
        BY DEF m
      <4>3. y \in Units(v)
        BY <3>2, <3>3, <4>1, <4>2, UnitIs
      <4>. QED
        BY <4>3
    <3>4. CASE i - m \in 1..Len(w) /\ i = (i - m) + m
      <4>1. PICK j \in 1..Len(w) : j = i - m
        BY <3>4
      <4>2. j + m = i
        BY <3>4, <4>1
      <4>3. n \in 1..w[j]
        BY <1>5, <4>2
      <4>4. <<j + m, n>> \in W
        BY <1>7, <4>3
      <4>. QED
        BY <3>2, <4>2, <4>4
    <3>. QED
      BY <1>6, <3>3, <3>4
  <2>2. ASSUME NEW y \in Units(v)
        PROVE  y \in Units(x)
    <3>1. PICK i \in 1..m : \E n \in 1..v[i] : y = <<i, n>>
      BY UnitIs DEF m
    <3>2. i \in 1..Len(x) /\ x[i] = v[i]
      BY <1>4
    <3>. QED
      BY <3>1, <3>2, UnitIs
  <2>3. W \subseteq Units(x)
    BY DEF W
  <2>. QED
    BY <2>1, <2>2, <2>3
<1>10. Units(v) \cap W = {}
  <2>1. ASSUME NEW y \in Units(v), y \in W
        PROVE  FALSE
    <3>1. PICK i \in 1..m : \E n \in 1..v[i] : y = <<i, n>>
      BY UnitIs DEF m
    <3>2. PICK n \in 1..v[i] : y = <<i, n>>
      BY <3>1
    <3>3. PICK j \in 1..Len(w) : \E k \in 1..w[j] : y = <<j + m, k>>
      BY <1>8, <2>1
    <3>4. i = j + m
      BY <3>2, <3>3
    <3>. QED
      BY <1>1, <3>4
  <2>. QED
    BY <2>1
<1>11. IsFiniteSet(Units(v)) /\ IsFiniteSet(Units(w)) /\ IsFiniteSet(Units(x))
  BY <1>1, UnitsFinite
<1>12. IsFiniteSet(W) /\ Cardinality(W) = Cardinality(Units(w))
  <2>. DEFINE f == [y \in Units(w) |-> <<y[1] + m, y[2]>>]
  <2>1. ASSUME NEW y \in Units(w)
        PROVE  \E i \in 1..Len(w), n \in 1..b : n \in 1..w[i] /\ y = <<i, n>> /\ f[y] = <<i + m, n>>
    <3>1. PICK i \in 1..Len(w) : \E n \in 1..w[i] : y = <<i, n>>
      BY UnitIs
    <3>2. PICK n \in 1..w[i] : y = <<i, n>>
      BY <3>1
    <3>3. n \in 1..b
      BY <1>3
    <3>. QED
      BY <3>2, <3>3
  <2>2. ASSUME NEW i \in 1..Len(w), NEW n \in 1..w[i]
        PROVE  <<i, n>> \in Units(w) /\ f[<<i, n>>] = <<i + m, n>>
    BY UnitIs
  <2>3. DOMAIN f = Units(w) /\ f = [y \in Units(w) |-> f[y]]
    OBVIOUS
  <2>. HIDE DEF f
  <2>4. f \in [Units(w) -> W]
    <3>1. ASSUME NEW y \in Units(w)
          PROVE  f[y] \in W
      BY <2>1, <1>7
    <3>. QED
      BY <2>3, <3>1
  <2>5. ASSUME NEW y \in Units(w), NEW z \in Units(w), f[y] = f[z]
        PROVE  y = z
    <3>1. PICK i \in 1..Len(w), n \in 1..b : y = <<i, n>> /\ f[y] = <<i + m, n>>
      BY <2>1
    <3>2. PICK j \in 1..Len(w), k \in 1..b : z = <<j, k>> /\ f[z] = <<j + m, k>>
      BY <2>1
    <3>3. i + m = j + m /\ n = k
      BY <2>5, <3>1, <3>2
    <3>4. i = j
      BY <1>1, <3>3
    <3>. QED
      BY <3>1, <3>2, <3>3, <3>4
  <2>6. ASSUME NEW y \in W
        PROVE  \E z \in Units(w) : f[z] = y
    <3>1. PICK i \in 1..Len(w) : \E n \in 1..w[i] : y = <<i + m, n>>
      BY <1>8
    <3>2. PICK n \in 1..w[i] : y = <<i + m, n>>
      BY <3>1
    <3>. QED
      BY <2>2, <3>2
  <2>7. f \in Bijection(Units(w), W)
    BY <2>4, <2>5, <2>6 DEF Bijection, Injection, Surjection, IsInjective
  <2>8. ExistsBijection(Units(w), W)
    BY <2>7 DEF ExistsBijection
  <2>. QED
    BY <1>11, <2>8, FS_Bijection
<1>13. Cardinality(Units(x)) = Cardinality(Units(v)) + Cardinality(W) - Cardinality(Units(v) \cap W)
  BY <1>9, <1>11, <1>12, FS_Union
<1>14. Cardinality(Units(v) \cap W) = 0
  BY <1>10, FS_EmptySet
<1>15. Total(x) = Cardinality(Units(x)) /\ Total(v) = Cardinality(Units(v)) /\ Total(w) = Cardinality(Units(w))
       /\ Total(v) \in Nat /\ Total(w) \in Nat
  BY <1>1, UnitsFinite
<1>. QED
  BY <1>12, <1>13, <1>14, <1>15

LEMMA TotalOne ==
  ASSUME NEW b \in Nat, NEW n \in 0..b
  PROVE  Total(<<n>>) = n
<1>1. <<n>> \in Seq(0..b) /\ Len(<<n>>) = 1 /\ <<n>>[1] = n
  OBVIOUS
<1>2. Units(<<n>>) = {1} \X (1..n)
  BY <1>1 DEF Units
<1>3. IsFiniteSet(1..n) /\ Cardinality(1..n) = n
  BY FS_Interval
<1>4. IsFiniteSet({1}) /\ Cardinality({1}) = 1
  BY FS_Singleton
<1>5. Cardinality({1} \X (1..n)) = Cardinality({1}) * Cardinality(1..n)
  BY <1>3, <1>4, FS_Product
<1>6. Total(<<n>>) = Cardinality(Units(<<n>>))
  BY <1>1, UnitsFinite
<1>7. Total(<<n>>) = 1 * n
  BY <1>2, <1>3, <1>4, <1>5, <1>6
<1>. QED
  BY ONLY <1>7, n \in 0..b, b \in Nat

LEMMA UpTo ==
  ASSUME NEW n \in Nat
  PROVE  IsFiniteSet(1..n) /\ Cardinality(1..n) = n
BY FS_Interval

LEMMA TotalOnes ==
  ASSUME NEW b \in Nat, NEW w \in Seq(0..b), \A i \in 1..Len(w) : w[i] = 1
  PROVE  Total(w) = Len(w)
<1>1. Len(w) \in Nat
  BY LenProperties
<1>2. Units(w) = (1..Len(w)) \X {1}
  <2>1. ASSUME NEW y \in Units(w)
        PROVE  y \in (1..Len(w)) \X {1}
    <3>1. PICK i \in 1..Len(w) : \E n \in 1..w[i] : y = <<i, n>>
      BY UnitIs
    <3>2. PICK n \in 1..w[i] : y = <<i, n>>
      BY <3>1
    <3>3. n = 1
      OBVIOUS
    <3>. QED
      BY <3>2, <3>3
  <2>2. ASSUME NEW y \in (1..Len(w)) \X {1}
        PROVE  y \in Units(w)
    <3>1. PICK i \in 1..Len(w) : y = <<i, 1>>
      OBVIOUS
    <3>2. 1 \in 1..w[i]
      OBVIOUS
    <3>. QED
      BY <3>1, <3>2, UnitIs
  <2>3. PICK X : X = (1..Len(w)) \X {1}
    OBVIOUS
  <2>4. \A y : y \in Units(w) <=> y \in X
    BY <2>1, <2>2, <2>3
  <2>5. Units(w) = X
    BY ONLY <2>4
  <2>. QED
    BY ONLY <2>3, <2>5, Zenon
<1>3. PICK n \in Nat : n = Len(w)
  BY <1>1
<1>4. IsFiniteSet(1..n) /\ Cardinality(1..n) = n
  BY UpTo
<1>5. IsFiniteSet({1}) /\ Cardinality({1}) = 1
  BY FS_Singleton
<1>6. Cardinality((1..n) \X {1}) = Cardinality(1..n) * Cardinality({1})
  BY <1>4, <1>5, FS_Product
<1>7. Total(w) = Cardinality(Units(w))
  BY UnitsFinite
<1>8. Total(w) = n * 1
  BY <1>2, <1>3, <1>4, <1>5, <1>6, <1>7
<1>. QED
  BY ONLY <1>1, <1>3, <1>8

\* No command and no callback weighs more than Most.
Most == 5 + Cardinality(Group)

LEMMA Weighed ==
  /\ Cardinality(Group) \in Nat /\ Most \in Nat
  /\ \A c : CmdWork(c) \in 1..Most
  /\ \A r : CallWork(r) \in 1..Most
<1>1. Cardinality(Group) \in Nat
  BY WebAssumption, FS_CardinalityType
<1>2. \A c : CmdWork(c) \in {1, 2, 3, 5, 2 + Cardinality(Group)}
  BY DEF CmdWork
<1>3. \A r : CallWork(r) \in {1, 2, 4, 1 + Cardinality(Group)}
  BY DEF CallWork
<1>. QED
  BY <1>1, <1>2, <1>3 DEF Most

\* The weights of the commands, and of the callbacks, in a queue.
CmdWeights(p) == [i \in 1..Len(p) |-> CmdWork(p[i])]
CallWeights(q) == [i \in 1..Len(q) |-> CallWork(q[i])]

LEMMA CmdWeightsAre ==
  ASSUME NEW T, NEW p \in Seq(T)
  PROVE  /\ CmdWeights(p) \in Seq(0..Most) /\ Len(CmdWeights(p)) = Len(p)
         /\ \A i \in 1..Len(p) : CmdWeights(p)[i] = CmdWork(p[i])
         /\ PipeWork(p) = Total(CmdWeights(p)) /\ PipeWork(p) \in Nat
<1>1. Len(p) \in Nat
  BY LenProperties
<1>2. CmdWeights(p) \in [1..Len(p) -> 0..Most]
  BY Weighed DEF CmdWeights
<1>3. CmdWeights(p) \in Seq(0..Most) /\ Len(CmdWeights(p)) = Len(p)
  <2>1. PICK f : f = CmdWeights(p)
    OBVIOUS
  <2>2. PICK N : N = 0..Most
    OBVIOUS
  <2>3. f \in [1..Len(p) -> N]
    BY <1>2, <2>1, <2>2
  <2>4. f \in Seq(N) /\ Len(f) = Len(p)
    BY <1>1, <2>3
  <2>. QED
    BY <2>1, <2>2, <2>4
<1>4. Total(CmdWeights(p)) \in Nat
  BY <1>3, Weighed, UnitsFinite
<1>. QED
  BY <1>3, <1>4 DEF CmdWeights, PipeWork

LEMMA CallWeightsAre ==
  ASSUME NEW T, NEW q \in Seq(T)
  PROVE  /\ CallWeights(q) \in Seq(0..Most) /\ Len(CallWeights(q)) = Len(q)
         /\ \A i \in 1..Len(q) : CallWeights(q)[i] = CallWork(q[i])
         /\ ReplyWork(q) = Total(CallWeights(q)) /\ ReplyWork(q) \in Nat
<1>1. Len(q) \in Nat
  BY LenProperties
<1>2. CallWeights(q) \in [1..Len(q) -> 0..Most]
  BY Weighed DEF CallWeights
<1>3. CallWeights(q) \in Seq(0..Most) /\ Len(CallWeights(q)) = Len(q)
  <2>1. PICK f : f = CallWeights(q)
    OBVIOUS
  <2>2. PICK N : N = 0..Most
    OBVIOUS
  <2>3. f \in [1..Len(q) -> N]
    BY <1>2, <2>1, <2>2
  <2>4. f \in Seq(N) /\ Len(f) = Len(q)
    BY <1>1, <2>3
  <2>. QED
    BY <2>1, <2>2, <2>4
<1>4. Total(CallWeights(q)) \in Nat
  BY <1>3, Weighed, UnitsFinite
<1>. QED
  BY <1>3, <1>4 DEF CallWeights, ReplyWork

LEMMA CatenateWeights ==
  ASSUME NEW T, NEW p \in Seq(T), NEW q \in Seq(T), NEW x \in Seq(T), Catenates(x, p, q)
  PROVE  /\ Catenates(CmdWeights(x), CmdWeights(p), CmdWeights(q))
         /\ Catenates(CallWeights(x), CallWeights(p), CallWeights(q))
<1>1. /\ Len(CmdWeights(p)) = Len(p) /\ Len(CmdWeights(q)) = Len(q) /\ Len(CmdWeights(x)) = Len(x)
      /\ Len(CallWeights(p)) = Len(p) /\ Len(CallWeights(q)) = Len(q) /\ Len(CallWeights(x)) = Len(x)
  BY CmdWeightsAre, CallWeightsAre
<1>2. /\ \A i \in 1..Len(p) : CmdWeights(p)[i] = CmdWork(p[i]) /\ CallWeights(p)[i] = CallWork(p[i])
      /\ \A i \in 1..Len(q) : CmdWeights(q)[i] = CmdWork(q[i]) /\ CallWeights(q)[i] = CallWork(q[i])
      /\ \A i \in 1..Len(x) : CmdWeights(x)[i] = CmdWork(x[i]) /\ CallWeights(x)[i] = CallWork(x[i])
  BY CmdWeightsAre, CallWeightsAre
<1>3. Len(p) \in Nat /\ Len(q) \in Nat /\ Len(x) = Len(p) + Len(q)
  BY LenProperties DEF Catenates
<1>4. ASSUME NEW i \in 1..Len(x)
      PROVE  /\ CmdWeights(x)[i] = IF i <= Len(p) THEN CmdWeights(p)[i] ELSE CmdWeights(q)[i - Len(p)]
             /\ CallWeights(x)[i] = IF i <= Len(p) THEN CallWeights(p)[i] ELSE CallWeights(q)[i - Len(p)]
  <2>1. CASE i <= Len(p)
    <3>1. i \in 1..Len(p)
      BY <1>3, <2>1
    <3>2. x[i] = p[i]
      BY <2>1 DEF Catenates
    <3>. QED
      BY <1>2, <2>1, <3>1, <3>2
  <2>2. CASE ~(i <= Len(p))
    <3>1. i - Len(p) \in 1..Len(q)
      BY <1>3, <2>2
    <3>2. x[i] = q[i - Len(p)]
      BY <2>2 DEF Catenates
    <3>. QED
      BY <1>2, <2>2, <3>1, <3>2
  <2>. QED
    BY <2>1, <2>2
<1>. QED
  BY <1>1, <1>3, <1>4 DEF Catenates

LEMMA PipeWorkSum ==
  ASSUME NEW T, NEW p \in Seq(T), NEW q \in Seq(T)
  PROVE  PipeWork(p \o q) = PipeWork(p) + PipeWork(q)
<1>1. PICK x : x = p \o q
  OBVIOUS
<1>2. x \in Seq(T) /\ Catenates(x, p, q)
  BY <1>1, ConcatProperties DEF Catenates
<1>3. Catenates(CmdWeights(x), CmdWeights(p), CmdWeights(q))
  BY <1>2, CatenateWeights
<1>4. Total(CmdWeights(x)) = Total(CmdWeights(p)) + Total(CmdWeights(q))
  BY <1>2, <1>3, Weighed, CmdWeightsAre, TotalSum
<1>5. /\ PipeWork(x) = Total(CmdWeights(x))
      /\ PipeWork(p) = Total(CmdWeights(p)) /\ PipeWork(q) = Total(CmdWeights(q))
  BY <1>2, CmdWeightsAre
<1>. QED
  BY <1>1, <1>4, <1>5

LEMMA ReplyWorkSum ==
  ASSUME NEW T, NEW p \in Seq(T), NEW q \in Seq(T)
  PROVE  ReplyWork(p \o q) = ReplyWork(p) + ReplyWork(q)
<1>1. PICK x : x = p \o q
  OBVIOUS
<1>2. x \in Seq(T) /\ Catenates(x, p, q)
  BY <1>1, ConcatProperties DEF Catenates
<1>3. Catenates(CallWeights(x), CallWeights(p), CallWeights(q))
  BY <1>2, CatenateWeights
<1>4. Total(CallWeights(x)) = Total(CallWeights(p)) + Total(CallWeights(q))
  BY <1>2, <1>3, Weighed, CallWeightsAre, TotalSum
<1>5. /\ ReplyWork(x) = Total(CallWeights(x))
      /\ ReplyWork(p) = Total(CallWeights(p)) /\ ReplyWork(q) = Total(CallWeights(q))
  BY <1>2, CallWeightsAre
<1>. QED
  BY <1>1, <1>4, <1>5

LEMMA OneWork ==
  ASSUME NEW T, NEW c \in T
  PROVE  PipeWork(<<c>>) = CmdWork(c) /\ ReplyWork(<<c>>) = CallWork(c)
<1>1. <<c>> \in Seq(T) /\ Len(<<c>>) = 1 /\ <<c>>[1] = c
  OBVIOUS
<1>2. CmdWeights(<<c>>) = <<CmdWork(c)>> /\ CallWeights(<<c>>) = <<CallWork(c)>>
  BY <1>1 DEF CmdWeights, CallWeights
<1>3. PipeWork(<<c>>) = Total(CmdWeights(<<c>>)) /\ ReplyWork(<<c>>) = Total(CallWeights(<<c>>))
  BY <1>1, CmdWeightsAre, CallWeightsAre
<1>4. CmdWork(c) \in 0..Most /\ CallWork(c) \in 0..Most /\ Most \in Nat
  BY Weighed
<1>5. Total(<<CmdWork(c)>>) = CmdWork(c) /\ Total(<<CallWork(c)>>) = CallWork(c)
  BY <1>4, TotalOne
<1>. QED
  BY <1>2, <1>3, <1>5

LEMMA TailWork ==
  ASSUME NEW T, NEW p \in Seq(T), p # <<>>
  PROVE  /\ PipeWork(p) = CmdWork(Head(p)) + PipeWork(Tail(p))
         /\ ReplyWork(p) = CallWork(Head(p)) + ReplyWork(Tail(p))
<1>1. Head(p) \in T /\ Tail(p) \in Seq(T) /\ <<Head(p)>> \o Tail(p) = p
  BY HeadTailProperties
<1>2. <<Head(p)>> \in Seq(T)
  BY <1>1
<1>3. /\ PipeWork(<<Head(p)>> \o Tail(p)) = PipeWork(<<Head(p)>>) + PipeWork(Tail(p))
      /\ ReplyWork(<<Head(p)>> \o Tail(p)) = ReplyWork(<<Head(p)>>) + ReplyWork(Tail(p))
  BY <1>1, <1>2, PipeWorkSum, ReplyWorkSum
<1>. QED
  BY <1>1, <1>3, OneWork

\* Nothing queued is no work; commands that weigh one each, as many as they are.
LEMMA LightWork ==
  ASSUME NEW T, NEW p \in Seq(T), \A i \in 1..Len(p) : CmdWork(p[i]) = 1
  PROVE  PipeWork(p) = Len(p)
<1>1. /\ CmdWeights(p) \in Seq(0..Most) /\ Len(CmdWeights(p)) = Len(p)
      /\ \A i \in 1..Len(p) : CmdWeights(p)[i] = CmdWork(p[i])
      /\ PipeWork(p) = Total(CmdWeights(p))
  BY CmdWeightsAre
<1>2. Total(CmdWeights(p)) = Len(CmdWeights(p))
  BY <1>1, Weighed, TotalOnes
<1>. QED
  BY <1>1, <1>2

\* One SADD or SREM for each group of the reply weighs less than the reply.
LEMMA ForGroupsWork ==
  ASSUME NEW op \in MemberOps, NEW r, r.user \in User, r.groups \in SUBSET Group
  PROVE  PipeWork(ForGroups(op, r)) <= Cardinality(Group)
<1>1. IsFiniteSet(Group) /\ IsFiniteSet(r.groups) /\ Cardinality(r.groups) <= Cardinality(Group)
  BY WebAssumption, FS_Subset
<1>. DEFINE gs == SetToSeq(r.groups)
            cs == ForGroups(op, r)
<1>2. gs \in Seq(r.groups) /\ Len(gs) = Cardinality(r.groups)
  BY <1>1, SetListed
<1>3. Len(gs) \in Nat
  BY <1>2, LenProperties
<1>. HIDE DEF gs
<1>4. cs = [i \in 1..Len(gs) |-> GroupCmd(op, r.user, gs[i])]
  BY DEF ForGroups, gs
<1>. DEFINE T == {GroupCmd(op, r.user, gs[i]) : i \in 1..Len(gs)}
<1>. HIDE DEF cs
<1>5. cs \in [1..Len(gs) -> T]
  BY <1>4
<1>6. \A i \in 1..Len(gs) : CmdWork(cs[i]) = 1
  <2>1. ASSUME NEW i \in 1..Len(gs)
        PROVE  cs[i].op \in MemberOps
    BY <1>4 DEF GroupCmd
  <2>. QED
    BY <2>1 DEF MemberOps, CmdWork
<1>. HIDE DEF T
<1>7. cs \in Seq(T) /\ Len(cs) = Len(gs)
  BY <1>3, <1>5
<1>8. PipeWork(cs) = Len(cs)
  BY <1>6, <1>7, LightWork
<1>. QED
  BY <1>1, <1>2, <1>7, <1>8 DEF cs

\* What a callback queues weighs less than its reply.
LEMMA QueuesLess ==
  ASSUME NEW r \in Calls, NEW cs, Queues(r, cs)
  PROVE  PipeWork(cs) < CallWork(r)
<1>1. Cardinality(Group) \in Nat
  BY Weighed
<1>2. PipeWork(<<>>) = 0
  <2>1. PICK p : p = <<>>
    OBVIOUS
  <2>2. p \in Seq(Commands) /\ Len(p) = 0
    BY <2>1
  <2>3. \A i \in 1..Len(p) : CmdWork(p[i]) = 1
    BY <2>2
  <2>4. PipeWork(p) = Len(p)
    BY <2>2, <2>3, LightWork
  <2>. QED
    BY <2>1, <2>2, <2>4
<1>3. CASE r.call \in {"join", "leave"}
  <2>1. cs = ForGroups("sadd", r) \/ cs = ForGroups("srem", r)
    BY <1>3 DEF Queues
  <2>2. r.user \in User /\ r.groups \in SUBSET Group
    BY <1>3, CallFields
  <2>3. PipeWork(cs) <= Cardinality(Group)
    BY <2>1, <2>2, ForGroupsWork DEF MemberOps
  <2>4. CallWork(r) = 1 + Cardinality(Group)
    BY <1>3 DEF CallWork
  <2>5. PipeWork(cs) \in Nat
    <3>1. ForGroups("sadd", r) \in Seq(CmdsTo(0, 0)) /\ ForGroups("srem", r) \in Seq(CmdsTo(0, 0))
      BY <2>2, WebAssumption, ForGroupsLists DEF MemberOps
    <3>. QED
      BY <2>1, <3>1, CmdWeightsAre
  <2>. QED
    BY ONLY <1>1, <2>3, <2>4, <2>5
<1>4. CASE r.call = "got"
  <2>1. PICK c : cs = <<c>> /\ c.op \in {"publish", "lpush"}
    BY <1>4 DEF Queues, MsgCmd
  <2>2. CmdWork(c) \in {2, 3} /\ CallWork(r) = 4
    BY <1>4, <2>1 DEF CmdWork, CallWork
  <2>3. PipeWork(cs) = CmdWork(c)
    BY <2>1, OneWork
  <2>. QED
    BY <2>2, <2>3
<1>5. CASE r.call \in {"pushed", "pushed group", "differ"}
  <2>1. CallWork(r) = 2
    BY <1>5 DEF CallWork
  <2>2. CASE cs = <<>>
    BY <1>2, <2>1, <2>2
  <2>3. CASE cs # <<>>
    <3>. DEFINE cut == UserCmd("ltrim", r.user)
                shorten == SeqCmd("ltrim group", r.id)
                count == [op |-> "incr", id |-> r.id, users |-> r.users]
    <3>4. cs \in {<<cut>>, <<shorten>>, <<count>>}
      BY <1>5, <2>3 DEF Queues
    <3>5. cut.op = "ltrim" /\ shorten.op = "ltrim group" /\ count.op = "incr"
      BY DEF UserCmd, SeqCmd
    <3>. HIDE DEF cut, shorten, count
    <3>1. PICK c : cs = <<c>> /\ c.op \in {"ltrim", "ltrim group", "incr"}
      BY <3>4, <3>5
    <3>2. CmdWork(c) = 1
      BY <3>1 DEF CmdWork
    <3>3. PipeWork(cs) = CmdWork(c)
      BY <3>1, OneWork
    <3>. QED
      BY <2>1, <3>2, <3>3
  <2>. QED
    BY <2>2, <2>3
<1>6. CASE r.call = "sorted"
  <2>1. cs = <<>> /\ CallWork(r) = 1
    BY <1>6 DEF Queues, CallWork
  <2>. QED
    BY <1>2, <2>1
<1>. QED
  BY <1>3, <1>4, <1>5, <1>6, CallFields

\* A reply weighs less than its command, and a message in the channel less than PUBLISH.
LEMMA RepliesLess ==
  ASSUME NEW c \in Commands
  PROVE  /\ \A r \in Calls : Answers(c, r) => CallWork(r) < CmdWork(c)
         /\ c.op = "publish" => CmdWork(c) = 2
         /\ CmdWork(c) \in Nat \ {0}
<1>1. Cardinality(Group) \in Nat
  BY Weighed
<1>2. ASSUME NEW r \in Calls, Answers(c, r)
      PROVE  CallWork(r) < CmdWork(c)
  <2>1. \/ c.op \in {"smembers to join", "smembers to leave"} /\ r.call \in {"join", "leave"}
        \/ c.op = "get" /\ r.call = "got"
        \/ c.op \in {"lpush", "lpush group", "sdiff"} /\ r.call \in {"pushed", "pushed group", "differ"}
        \/ c.op = "sort" /\ r.call = "sorted"
    BY <1>2 DEF Answers
  <2>2. \/ CmdWork(c) = 2 + Cardinality(Group) /\ CallWork(r) = 1 + Cardinality(Group)
        \/ CmdWork(c) = 5 /\ CallWork(r) = 4
        \/ CmdWork(c) = 3 /\ CallWork(r) = 2
        \/ CmdWork(c) = 2 /\ CallWork(r) = 1
    BY <2>1 DEF CmdWork, CallWork
  <2>. QED
    BY ONLY <1>1, <2>2
<1>3. c.op = "publish" => CmdWork(c) = 2
  BY DEF CmdWork
<1>4. CmdWork(c) \in 1..Most /\ Most \in Nat
  BY Weighed
<1>. QED
  BY <1>2, <1>3, <1>4

\* The work of what is queued, as numbers.
LEMMA WorkTyped ==
  ASSUME Typed
  PROVE  /\ PipeWork(pipe) \in Nat /\ ReplyWork(replies) \in Nat /\ Len(channel) \in Nat
         /\ pipe \in Seq(Commands) /\ replies \in Seq(Calls) /\ channel \in Seq(Message)
<1>1. CmdsTo(S, L) \subseteq Commands /\ CallsTo(S, L) \subseteq Calls
  BY DEF CmdsTo, CallsTo
<1>2. pipe \in Seq(Commands) /\ replies \in Seq(Calls) /\ channel \in Seq(Message)
  BY <1>1, SeqMonotonic DEF Typed, LinesTyped
<1>. QED
  BY <1>2, CmdWeightsAre, CallWeightsAre, LenProperties

LEMMA RedisLess ==
  ASSUME Typed, Redis
  PROVE  Work' < Work
<1>1. PICK c \in Commands : RedisReplies(c) /\ RedisStores(c)
  BY RedisIs
<1>2. /\ PipeWork(pipe) \in Nat /\ ReplyWork(replies) \in Nat /\ Len(channel) \in Nat
      /\ pipe \in Seq(Commands) /\ replies \in Seq(Calls) /\ channel \in Seq(Message)
  BY WorkTyped
<1>3. pipe # <<>> /\ Head(pipe) = c /\ pipe' = Tail(pipe)
  BY <1>1 DEF RedisReplies
<1>4. PICK p : p = Tail(pipe)
  OBVIOUS
<1>5. p \in Seq(Commands)
  BY <1>2, <1>3, <1>4, HeadTailProperties
<1>6. PipeWork(pipe) = CmdWork(c) + PipeWork(p) /\ PipeWork(p) \in Nat
  BY <1>2, <1>3, <1>4, <1>5, TailWork, CmdWeightsAre
<1>7. PICK q, h : q = replies' /\ h = channel'
  OBVIOUS
<1>8. Work' = PipeWork(p) + ReplyWork(q) + Len(h)
  BY <1>3, <1>4, <1>7 DEF Work
<1>9. /\ \A r \in Calls : Answers(c, r) => CallWork(r) < CmdWork(c)
      /\ c.op = "publish" => CmdWork(c) = 2
      /\ CmdWork(c) \in Nat \ {0}
  BY RepliesLess
<1>10. CASE q = replies /\ h = channel
  BY <1>2, <1>6, <1>8, <1>9, <1>10 DEF Work
<1>11. CASE q = replies /\ h # channel
  <2>1. c.op = "publish" /\ h = Append(channel, c.msg)
    BY <1>1, <1>7, <1>11 DEF RedisStores
  <2>2. c.msg \in Message
    BY <2>1, CmdFields DEF MsgOps
  <2>3. Len(h) = Len(channel) + 1
    BY <1>2, <2>1, <2>2, AppendProperties
  <2>. QED
    BY <1>2, <1>6, <1>8, <1>9, <1>11, <2>1, <2>3 DEF Work
<1>12. CASE q # replies
  <2>1. PICK r \in Calls : Answers(c, r) /\ q = replies \o <<r>> /\ c.op \notin SilentOps
    BY <1>1, <1>7, <1>12 DEF RedisReplies
  <2>2. h = channel
    BY <1>1, <1>7, <2>1 DEF RedisStores, SilentOps
  <2>3. <<r>> \in Seq(Calls)
    OBVIOUS
  <2>4. ReplyWork(q) = ReplyWork(replies) + CallWork(r)
    BY <1>2, <2>1, <2>3, ReplyWorkSum, OneWork
  <2>5. CallWork(r) < CmdWork(c) /\ CallWork(r) \in Nat
    BY <1>9, <2>1, Weighed
  <2>. QED
    BY <1>2, <1>6, <1>8, <1>9, <2>2, <2>4, <2>5 DEF Work
<1>. QED
  BY <1>10, <1>11, <1>12

LEMMA CallbackLess ==
  ASSUME Typed, Callback
  PROVE  Work' < Work
<1>1. PICK r \in Calls, cs \in Seq(CmdsTo(S, L)) : CallbackRuns(r, cs)
  BY CallbackIs
<1>2. /\ PipeWork(pipe) \in Nat /\ ReplyWork(replies) \in Nat /\ Len(channel) \in Nat
      /\ pipe \in Seq(Commands) /\ replies \in Seq(Calls) /\ channel \in Seq(Message)
  BY WorkTyped
<1>3. /\ replies # <<>> /\ Head(replies) = r /\ replies' = Tail(replies)
      /\ Queues(r, cs) /\ pipe' = pipe \o cs /\ channel' = channel
  BY <1>1 DEF CallbackRuns
<1>4. cs \in Seq(Commands)
  <2>1. CmdsTo(S, L) \subseteq Commands
    BY DEF CmdsTo
  <2>. QED
    BY <2>1, SeqMonotonic
<1>5. PICK p, q : p = pipe \o cs /\ q = Tail(replies)
  OBVIOUS
<1>6. PipeWork(p) = PipeWork(pipe) + PipeWork(cs) /\ PipeWork(cs) \in Nat
  BY <1>2, <1>4, <1>5, PipeWorkSum, CmdWeightsAre
<1>7. q \in Seq(Calls)
  BY <1>2, <1>3, <1>5, HeadTailProperties
<1>8. ReplyWork(replies) = CallWork(r) + ReplyWork(q) /\ ReplyWork(q) \in Nat
  BY <1>2, <1>3, <1>5, <1>7, TailWork, CallWeightsAre
<1>9. PipeWork(cs) < CallWork(r)
  BY <1>3, QueuesLess
<1>10. CallWork(r) \in Nat
  BY Weighed
<1>11. Work' = PipeWork(p) + ReplyWork(q) + Len(channel)
  BY <1>3, <1>5 DEF Work
<1>. QED
  BY <1>2, <1>6, <1>8, <1>9, <1>10, <1>11 DEF Work

LEMMA SubscriberLess ==
  ASSUME Typed, Subscriber
  PROVE  Work' < Work
<1>1. /\ PipeWork(pipe) \in Nat /\ ReplyWork(replies) \in Nat /\ Len(channel) \in Nat
      /\ channel \in Seq(Message)
  BY WorkTyped
<1>2. channel # <<>> /\ channel' = Tail(channel) /\ pipe' = pipe /\ replies' = replies
  BY DEF Subscriber, Deliver, Drop
<1>3. PICK h : h = Tail(channel)
  OBVIOUS
<1>4. Len(h) = Len(channel) - 1
  BY <1>1, <1>2, <1>3, HeadTailProperties
<1>5. Work' = PipeWork(pipe) + ReplyWork(replies) + Len(h)
  BY <1>2, <1>3 DEF Work
<1>6. Work = PipeWork(pipe) + ReplyWork(replies) + Len(channel)
  BY DEF Work
<1>. QED
  BY ONLY <1>1, <1>4, <1>5, <1>6

(* Every command, callback and message from the channel leaves less work than it
   found, so what is queued comes to an end once the pages are quiet (socket.js:49-260). *)
THEOREM WorkShrinksHolds == UnreadSpec => WorkShrinks
<1>1. UnreadInit => Typed /\ ReadTyped
  BY TypedInit
<1>2. Typed /\ ReadTyped /\ [UnreadNext]_unreadVars => (Typed /\ ReadTyped)'
  BY TypedHolds
<1>3. Typed => [Redis \/ Callback \/ Subscriber => Work' < Work]_webVars
  BY RedisLess, CallbackLess, SubscriberLess
<1>. QED
  BY <1>1, <1>2, <1>3, PTL DEF UnreadSpec, WorkShrinks

(* What Work counts is finite, so it can shrink only so often: with WorkShrinks, the
   commands, callbacks and messages that follow without a page are at most as many. *)
THEOREM WorkCounts == UnreadSpec => [](Work \in Nat)
<1>1. UnreadInit => Typed /\ ReadTyped
  BY TypedInit
<1>2. Typed /\ ReadTyped /\ [UnreadNext]_unreadVars => (Typed /\ ReadTyped)'
  BY TypedHolds
<1>3. Typed => Work \in Nat
  BY WorkTyped DEF Work
<1>. QED
  BY <1>1, <1>2, <1>3, PTL DEF UnreadSpec
=============================================================================
