-------------------------- MODULE GroupChatProofs --------------------------
(* Theorems of GroupChat, for any users, groups, servers, connections, buckets
   and any number of messages.                                               *)
EXTENDS GroupChat, PresenceProofs, SequenceTheorems, FiniteSetTheorems

-----------------------------------------------------------------------------
(* Group chat changes nothing of presence.                                   *)

\* A step of the servers with group chat is a step of presence or leaves it alone.
LEMMA GroupPresenceNext == [GroupNext]_allVars => [Next]_vars
<1>. SUFFICES ASSUME [GroupNext]_allVars PROVE [Next]_vars
  OBVIOUS
<1>1. CASE PresenceStep
  BY <1>1 DEF PresenceStep, Next
<1>2. CASE GroupStep
  BY <1>2
  DEF GroupStep, SendGroup, GroupContinue, PublishGroup, PushGroup, TrimGroup, SdiffGroup,
      IncrGroup, Subscribe, ConsumeGroup
<1>3. CASE UNCHANGED allVars
  BY <1>3 DEF allVars
<1>. QED
  BY <1>1, <1>2, <1>3 DEF GroupNext

\* The servers with group chat implement the servers without.
THEOREM GroupImplementsPresence == GroupSpec => Spec
<1>1. GroupInit => Init
  BY DEF GroupInit
<1>. QED
  BY <1>1, GroupPresenceNext, PTL DEF GroupSpec, Spec

-----------------------------------------------------------------------------
(* Queues.                                                                   *)

Elem(q, m) == \E k \in 1..Len(q) : q[k] = m

LEMMA ElemAppend ==
  ASSUME NEW S, NEW q \in Seq(S), NEW n \in S
  PROVE  /\ Append(q, n) \in Seq(S)
         /\ \A m : Elem(Append(q, n), m) <=> Elem(q, m) \/ m = n
<1>1. /\ Append(q, n) \in Seq(S) /\ Len(Append(q, n)) = Len(q) + 1
      /\ \A k \in 1..Len(q) : Append(q, n)[k] = q[k]
      /\ Append(q, n)[Len(q) + 1] = n
  BY AppendProperties
<1>. QED
  BY <1>1 DEF Elem

LEMMA ElemTail ==
  ASSUME NEW S, NEW q \in Seq(S), q # <<>>
  PROVE  /\ Head(q) \in S /\ Tail(q) \in Seq(S)
         /\ \A m : Elem(q, m) <=> Elem(Tail(q), m) \/ m = Head(q)
<1>1. /\ Head(q) \in S /\ Tail(q) \in Seq(S) /\ Len(Tail(q)) = Len(q) - 1
      /\ \A k \in 1..Len(Tail(q)) : Tail(q)[k] = q[k + 1]
      /\ Head(q) = q[1]
  BY HeadTailProperties
<1>2. Len(q) \in Nat /\ Len(q) # 0
  BY EmptySeq
<1>3. ASSUME NEW m, Elem(q, m), m # Head(q) PROVE Elem(Tail(q), m)
  <2>1. PICK k \in 1..Len(q) : q[k] = m
    BY <1>3 DEF Elem
  <2>2. k - 1 \in 1..Len(Tail(q)) /\ (k - 1) + 1 = k
    BY <1>1, <1>2, <1>3, <2>1
  <2>. QED
    BY <1>1, <2>1, <2>2 DEF Elem
<1>4. ASSUME NEW m, Elem(Tail(q), m) PROVE Elem(q, m)
  <2>1. PICK k \in 1..Len(Tail(q)) : Tail(q)[k] = m
    BY <1>4 DEF Elem
  <2>2. k + 1 \in 1..Len(q)
    BY <1>1, <1>2
  <2>. QED
    BY <1>1, <2>1, <2>2 DEF Elem
<1>5. Elem(q, Head(q))
  BY <1>1, <1>2 DEF Elem
<1>. QED
  BY <1>1, <1>3, <1>4, <1>5
-----------------------------------------------------------------------------
(* Types, and that what is under way is in the log and has one handler.       *)

GroupMessage == [id : 1..MaxMsg, users : SUBSET User]

Sent == 1..Len(groupLog)

Typed ==
  /\ group \in [Server -> GroupState]
  /\ groupChannel \in [Server -> Seq(GroupMessage)]
  /\ groupMsg \in [Group -> Seq(1..MaxMsg)]
  /\ groupLog \in Seq(Entry) /\ Len(groupLog) <= MaxMsg

HandlersOK ==
  /\ \A s \in Server : group[s] # NoMsg => group[s].id \in Sent /\ s \in running
  /\ \A s, t \in Server : group[s] # NoMsg /\ group[t] # NoMsg /\ group[s].id = group[t].id => s = t
  /\ \A s \in Server : \A m \in GroupMessage : Elem(groupChannel[s], m) => m.id \in Sent

GroupInv == Typed /\ HandlersOK

\* What a stage carries.
LEMMA StageTyped ==
  ASSUME Typed, NEW s \in Server
  PROVE  /\ group[s].op = "idle" <=> group[s] = NoMsg
         /\ group[s].op \in {"idle", "publish", "push", "trim", "sdiff", "incr"}
         /\ group[s] # NoMsg => group[s].id \in 1..MaxMsg
         /\ group[s].op = "publish" =>
              /\ group[s].remote \in Remotes
              /\ group[s] = [op |-> "publish", id |-> group[s].id, remote |-> group[s].remote]
         /\ group[s].op = "incr" => group[s].users \subseteq User
  BY DEF Typed, GroupState, NoMsg

\* The states a handler goes to.
LEMMA StatesTyped ==
  ASSUME NEW i \in 1..MaxMsg
  PROVE  /\ NoMsg \in GroupState
         /\ \A stage \in {"push", "trim", "sdiff"} :
              /\ InStage(stage, i) \in GroupState /\ InStage(stage, i) # NoMsg
              /\ InStage(stage, i).op = stage /\ InStage(stage, i).id = i
         /\ \A r \in Remotes : [op |-> "publish", id |-> i, remote |-> r] \in GroupState
         /\ \A U \in SUBSET User : [op |-> "incr", id |-> i, users |-> U] \in GroupState
  BY DEF GroupState, NoMsg, InStage

\* A map from servers to users is in Remotes.
LEMMA RemoteTyped ==
  /\ \A r \in Remotes : DOMAIN r \subseteq Server /\ \A t \in DOMAIN r : r[t] \in User
  /\ \A S \in SUBSET Server : \A r \in [S -> User] : r \in Remotes
  BY DEF Remotes

\* A change of one entry of the log.
LEMMA LogExcept ==
  ASSUME Typed, NEW i \in Sent, NEW e \in Entry
  PROVE  LET L == [groupLog EXCEPT ![i] = e]
         IN  /\ L \in Seq(Entry) /\ Len(L) = Len(groupLog)
             /\ L[i] = e /\ \A j \in Sent \ {i} : L[j] = groupLog[j]
<1>. DEFINE L == [groupLog EXCEPT ![i] = e]
<1>1. groupLog \in Seq(Entry) /\ i \in 1..Len(groupLog)
  BY DEF Typed, Sent
<1>2. /\ L \in Seq(Entry) /\ Len(L) = Len(groupLog)
      /\ \A j \in 1..Len(groupLog) : L[j] = IF j = i THEN e ELSE groupLog[j]
  BY <1>1, ExceptSeq
<1>. QED
  BY <1>1, <1>2 DEF Sent

\* An entry that is in the log.
LEMMA EntryTyped ==
  ASSUME Typed, NEW i \in Sent
  PROVE  /\ groupLog[i] \in Entry /\ i \in 1..MaxMsg /\ i \in DOMAIN groupLog
         /\ DOMAIN groupLog = Sent
  BY GroupAssumption DEF Typed, Sent

\* LTRIM keeps numbers of messages.
LEMMA LtrimTyped ==
  ASSUME NEW q \in Seq(1..MaxMsg)
  PROVE  Ltrim(q) \in Seq(1..MaxMsg)
<1>. DEFINE n == IF Len(q) <= Keep THEN Len(q) ELSE Keep + 1
<1>1. n \in Nat /\ n <= Len(q)
  BY GroupAssumption
<1>2. \A i \in 1..n : q[i] \in 1..MaxMsg
  <2>1. \A i \in 1..Len(q) : q[i] \in 1..MaxMsg
    BY ElementOfSeq
  <2>. QED
    BY <1>1, <2>1
<1>. HIDE DEF n
<1>3. SubSeq(q, 1, n) \in Seq(1..MaxMsg)
  BY <1>1, <1>2, SubSeqProperties
<1>. QED
  BY <1>3 DEF Ltrim, n

-----------------------------------------------------------------------------
(* The inductive invariant: where a message is for a user.                   *)

Publishing(s, i, u) ==
  /\ group[s].op = "publish" /\ group[s].id = i
  /\ \E t \in DOMAIN group[s].remote : group[s].remote[t] = u

OnChannel(t, i, u) ==
  \E m \in GroupMessage : Elem(groupChannel[t], m) /\ m.id = i /\ u \in m.users

OnItsWay(i, u) == \E s \in Server : Publishing(s, i, u) \/ OnChannel(s, i, u)

Counting(i, u) ==
  \E s \in Server : group[s].op = "incr" /\ group[s].id = i /\ u \in group[s].users

ToCount(i) ==
  \E s \in Server : group[s].op \in {"publish", "push", "trim", "sdiff"} /\ group[s].id = i

Excused(i, u) ==
  u \in groupLog[i].overlooked \cup groupLog[i].unheard \cup groupLog[i].leaving

\* Whom a message is on its way to is found there, but for those excused.
WayOK ==
  /\ \A s \in Server :
       group[s].op = "publish" =>
         \A t \in DOMAIN group[s].remote :
           Excused(group[s].id, group[s].remote[t]) \/ Reaches(t, group[s].remote[t])
  /\ \A t \in Server, i \in Sent, u \in User :
       OnChannel(t, i, u) => Excused(i, u) \/ Reaches(t, u)

\* Nothing is counted before its INCR.
FreshOK == \A s \in Server : group[s] # NoMsg => groupLog[group[s].id].counted = {}

\* Where member u is with message i.
Covered(i, u) ==
  \/ u = groupLog[i].from \/ u \in groupLog[i].live \cup groupLog[i].joined \cup groupLog[i].counted
  \/ Excused(i, u) \/ OnItsWay(i, u) \/ Counting(i, u)
  \/ ToCount(i) /\ u \notin onlineGroup[groupLog[i].group]

CoverOK ==
  \A i \in Sent : groupLog[i].cut \/ \A u \in Members(groupLog[i].group) : Covered(i, u)

\* Who is handed a message, or will be, is not counted.
OnceOK ==
  \A i \in Sent, u \in User :
    (u \in groupLog[i].live \/ OnItsWay(i, u)) /\ u \notin groupLog[i].leaving =>
      /\ u \notin groupLog[i].counted /\ ~ Counting(i, u)
      /\ ToCount(i) => u \in onlineGroup[groupLog[i].group]

Where == WayOK /\ FreshOK /\ CoverOK /\ OnceOK

-----------------------------------------------------------------------------
(* Each step.                                                                *)

\* LPUSH and LTRIM: the handler goes from one stage to another, and that is all.
LEMMA StageStep ==
  ASSUME GroupInv, Where, NEW s \in Server, NEW stage \in {"trim", "sdiff"},
         UNCHANGED <<vars, groupChannel, groupLog>>, group[s].op \in {"push", "trim"},
         group' = [group EXCEPT ![s] = InStage(stage, @.id)],
         groupMsg' \in [Group -> Seq(1..MaxMsg)]
  PROVE  GroupInv' /\ Where'
<1>1. /\ group[s] # NoMsg /\ group[s].id \in 1..MaxMsg
      /\ group' \in [Server -> GroupState]
      /\ \A t \in Server \ {s} : group'[t] = group[t]
      /\ group'[s] # NoMsg /\ group'[s].op = stage /\ group'[s].id = group[s].id
  BY StageTyped, StatesTyped DEF GroupInv, Typed
<1>2. GroupInv'
  BY <1>1 DEF GroupInv, Typed, HandlersOK, Sent, vars
<1>3. \A t \in Server : \A i, u :
        /\ Publishing(t, i, u)' <=> Publishing(t, i, u)
        /\ OnChannel(t, i, u)' <=> OnChannel(t, i, u)
  BY <1>1 DEF Publishing, OnChannel
<1>4. \A i, u : Counting(i, u)' <=> Counting(i, u)
  BY <1>1 DEF Counting
<1>5. \A i : ToCount(i)' <=> ToCount(i)
  BY <1>1 DEF ToCount
<1>6. /\ \A t, u : Reaches(t, u)' <=> Reaches(t, u)
      /\ \A g : Members(g)' = Members(g)
      /\ Sent' = Sent /\ onlineGroup' = onlineGroup
      /\ \A i, u : Excused(i, u)' <=> Excused(i, u)
  BY DEF vars, sessionVars, redisVars, Reaches, Members, Sent, Excused
<1>7. \A i, u : OnItsWay(i, u)' <=> OnItsWay(i, u)
  BY <1>3 DEF OnItsWay
<1>8. WayOK'
  BY <1>1, <1>3, <1>6 DEF Where, WayOK
<1>9. FreshOK'
  BY <1>1 DEF Where, FreshOK
<1>10. CoverOK'
  BY <1>4, <1>5, <1>6, <1>7 DEF Where, CoverOK, Covered
<1>11. OnceOK'
  BY <1>4, <1>5, <1>6, <1>7 DEF Where, OnceOK
<1>. QED
  BY <1>2, <1>8, <1>9, <1>10, <1>11 DEF Where

LEMMA PushStep ==
  ASSUME GroupInv, Where, NEW s \in Server, PushGroup(s) \/ TrimGroup(s)
  PROVE  GroupInv' /\ Where'
<1>1. /\ group[s].op \in {"push", "trim"} /\ group[s] # NoMsg /\ group[s].id \in Sent
      /\ groupLog[group[s].id] \in Entry /\ group[s].id \in 1..MaxMsg
  BY StageTyped, EntryTyped DEF PushGroup, TrimGroup, GroupInv, HandlersOK
<1>. DEFINE g == groupLog[group[s].id].group
<1>2. g \in Group /\ groupMsg[g] \in Seq(1..MaxMsg)
  BY <1>1 DEF Entry, GroupInv, Typed
<1>3. CASE PushGroup(s)
  <2>1. <<group[s].id>> \o groupMsg[g] \in Seq(1..MaxMsg)
    BY <1>1, <1>2, ConcatProperties
  <2>2. groupMsg' \in [Group -> Seq(1..MaxMsg)]
    BY <1>2, <1>3, <2>1 DEF PushGroup, GroupInv, Typed
  <2>3. \E stage \in {"trim", "sdiff"} : group' = [group EXCEPT ![s] = InStage(stage, @.id)]
    BY <1>3 DEF PushGroup
  <2>. QED
    BY <1>1, <1>3, <2>2, <2>3, StageStep DEF PushGroup
<1>4. CASE TrimGroup(s)
  <2>1. groupMsg' \in [Group -> Seq(1..MaxMsg)]
    BY <1>2, <1>4, LtrimTyped DEF TrimGroup, GroupInv, Typed
  <2>. QED
    BY <1>1, <1>4, <2>1, StageStep DEF TrimGroup
<1>. QED
  BY <1>3, <1>4

\* SDIFF: the members who are not in onlineGroup are those to count.
LEMMA SdiffStep ==
  ASSUME GroupInv, Where, NEW s \in Server, SdiffGroup(s)
  PROVE  GroupInv' /\ Where'
<1>1. PICK n \in 1..MaxMsg :
        n = group[s].id /\ group[s] # NoMsg /\ n \in Sent /\ s \in running /\ groupLog[n] \in Entry
  BY StageTyped, EntryTyped DEF SdiffGroup, GroupInv, HandlersOK
<1>2. PICK U \in SUBSET User : U = Sdiff(groupLog[n].group)
  BY DEF Sdiff, Members
<1>3. /\ group' = [group EXCEPT ![s] = [op |-> "incr", id |-> n, users |-> U]]
      /\ [op |-> "incr", id |-> n, users |-> U] \in GroupState
  BY <1>1, <1>2, StatesTyped DEF SdiffGroup
<1>4. /\ group' \in [Server -> GroupState]
      /\ \A t \in Server \ {s} : group'[t] = group[t]
      /\ group'[s].op = "incr" /\ group'[s].id = n /\ group'[s].users = U
      /\ group'[s] # NoMsg
  BY <1>3 DEF GroupInv, Typed, NoMsg
<1>5. UNCHANGED <<vars, groupChannel, groupMsg, groupLog>>
  BY DEF SdiffGroup
<1>6. GroupInv'
  <2>1. Typed'
    BY <1>4, <1>5 DEF GroupInv, Typed
  <2>2. Sent' = Sent /\ running' = running
    BY <1>5 DEF Sent, vars
  <2>3. \A t \in Server : group'[t] # NoMsg => group[t] # NoMsg /\ group'[t].id = group[t].id
    BY <1>1, <1>4
  <2>4. HandlersOK'
    BY <1>5, <2>2, <2>3 DEF GroupInv, HandlersOK
  <2>. QED
    BY <2>1, <2>4 DEF GroupInv
<1>7. \A t \in Server : \A i, u :
        /\ Publishing(t, i, u)' <=> Publishing(t, i, u)
        /\ OnChannel(t, i, u)' <=> OnChannel(t, i, u)
  BY <1>4, <1>5 DEF Publishing, OnChannel, SdiffGroup
<1>8. \A i, u : OnItsWay(i, u)' <=> OnItsWay(i, u)
  BY <1>7 DEF OnItsWay
<1>9. \A i, u : Counting(i, u)' <=> Counting(i, u) \/ (i = n /\ u \in U)
  <2>1. group[s].op # "incr"
    BY DEF SdiffGroup
  <2>2. ASSUME NEW i, NEW u, Counting(i, u)' PROVE Counting(i, u) \/ (i = n /\ u \in U)
    <3>1. PICK t \in Server : group'[t].op = "incr" /\ group'[t].id = i /\ u \in group'[t].users
      BY <2>2 DEF Counting
    <3>. QED
      BY <1>4, <3>1 DEF Counting
  <2>3. ASSUME NEW i, NEW u, Counting(i, u) PROVE Counting(i, u)'
    BY <1>4, <2>1, <2>3 DEF Counting
  <2>4. ASSUME NEW u \in U PROVE Counting(n, u)'
    BY <1>4, <2>4 DEF Counting
  <2>. QED
    BY <2>2, <2>3, <2>4
<1>10. /\ \A i : ToCount(i)' => ToCount(i)
       /\ \A i : i # n /\ ToCount(i) => ToCount(i)'
       /\ ToCount(n)
  BY <1>1, <1>4 DEF ToCount, SdiffGroup
<1>11. ~ ToCount(n)'
  BY <1>1, <1>4, StageTyped DEF ToCount, GroupInv, HandlersOK, NoMsg
<1>12. /\ \A t, u : Reaches(t, u)' <=> Reaches(t, u)
       /\ \A g : Members(g)' = Members(g)
       /\ Sent' = Sent /\ onlineGroup' = onlineGroup
       /\ \A i, u : Excused(i, u)' <=> Excused(i, u)
  BY <1>5 DEF vars, sessionVars, redisVars, Reaches, Members, Sent, Excused
<1>13. \A u : u \in U <=> u \in Members(groupLog[n].group) /\ u \notin onlineGroup[groupLog[n].group]
  BY <1>2 DEF Sdiff
<1>14. WayOK'
  BY <1>4, <1>5, <1>7, <1>12 DEF Where, WayOK
<1>15. FreshOK'
  BY <1>1, <1>4, <1>5 DEF Where, FreshOK
<1>16. CoverOK'
  <2>1. ASSUME NEW i \in Sent, NEW u \in Members(groupLog[i].group), Covered(i, u)
        PROVE  Covered(i, u)'
    BY <1>5, <1>8, <1>9, <1>10, <1>12, <1>13, <2>1 DEF Covered
  <2>. QED
    BY <1>5, <1>12, <2>1 DEF Where, CoverOK
<1>17. OnceOK'
  BY <1>5, <1>8, <1>9, <1>10, <1>11, <1>12, <1>13 DEF Where, OnceOK
<1>. QED
  BY <1>6, <1>14, <1>15, <1>16, <1>17 DEF Where

\* INCR: those to count are counted, and the handler is done.
LEMMA IncrStep ==
  ASSUME GroupInv, Where, NEW s \in Server, IncrGroup(s)
  PROVE  GroupInv' /\ Where'
<1>1. PICK n \in 1..MaxMsg :
        n = group[s].id /\ group[s] # NoMsg /\ n \in Sent /\ s \in running /\ groupLog[n] \in Entry
  BY StageTyped, EntryTyped DEF IncrGroup, GroupInv, HandlersOK
<1>2. PICK U \in SUBSET User : U = group[s].users
  BY StageTyped DEF IncrGroup, GroupInv
<1>3. PICK e \in Entry :
        /\ e = [groupLog[n] EXCEPT !.counted = U]
        /\ groupLog' = [groupLog EXCEPT ![n] = e]
  BY <1>1, <1>2 DEF IncrGroup, Entry
<1>4. /\ groupLog' \in Seq(Entry) /\ Len(groupLog') = Len(groupLog) /\ groupLog'[n] = e
      /\ \A j \in Sent \ {n} : groupLog'[j] = groupLog[j]
  BY <1>1, <1>3, LogExcept DEF GroupInv
<1>5. /\ e.group = groupLog[n].group /\ e.from = groupLog[n].from /\ e.live = groupLog[n].live
      /\ e.overlooked = groupLog[n].overlooked /\ e.unheard = groupLog[n].unheard
      /\ e.joined = groupLog[n].joined
      /\ e.leaving = groupLog[n].leaving /\ e.cut = groupLog[n].cut /\ e.counted = U
  BY <1>1, <1>3 DEF Entry
<1>6. \A i \in Sent :
        /\ groupLog'[i].group = groupLog[i].group /\ groupLog'[i].from = groupLog[i].from
        /\ groupLog'[i].live = groupLog[i].live /\ groupLog'[i].joined = groupLog[i].joined
        /\ groupLog'[i].overlooked = groupLog[i].overlooked /\ groupLog'[i].leaving = groupLog[i].leaving
        /\ groupLog'[i].unheard = groupLog[i].unheard
        /\ groupLog'[i].cut = groupLog[i].cut
        /\ groupLog'[i].counted = IF i = n THEN U ELSE groupLog[i].counted
  BY <1>4, <1>5
<1>7. /\ group' \in [Server -> GroupState] /\ group'[s] = NoMsg
      /\ \A t \in Server \ {s} : group'[t] = group[t]
  BY <1>1, StatesTyped DEF IncrGroup, GroupInv, Typed
<1>8. UNCHANGED <<vars, groupChannel, groupMsg>> /\ Sent' = Sent
  BY <1>4 DEF IncrGroup, Sent
<1>9. GroupInv'
  <2>1. Typed'
    BY <1>4, <1>7, <1>8 DEF GroupInv, Typed
  <2>2. HandlersOK'
    BY <1>7, <1>8 DEF GroupInv, HandlersOK, vars
  <2>. QED
    BY <2>1, <2>2 DEF GroupInv
<1>10. group[s].op = "incr" /\ group'[s].op = "idle"
  BY <1>7 DEF IncrGroup, NoMsg
<1>11. \A t \in Server : \A i, u :
        /\ Publishing(t, i, u)' <=> Publishing(t, i, u)
        /\ OnChannel(t, i, u)' <=> OnChannel(t, i, u)
  BY <1>7, <1>8, <1>10 DEF Publishing, OnChannel
<1>12. \A i, u : OnItsWay(i, u)' <=> OnItsWay(i, u)
  BY <1>11 DEF OnItsWay
<1>13. /\ \A i, u : Counting(i, u)' => Counting(i, u)
       /\ \A i, u : Counting(i, u) => Counting(i, u)' \/ (i = n /\ u \in U)
       /\ \A u : u \in U => Counting(n, u)
  <2>1. ASSUME NEW i, NEW u, Counting(i, u) PROVE Counting(i, u)' \/ (i = n /\ u \in U)
    <3>1. PICK t \in Server : group[t].op = "incr" /\ group[t].id = i /\ u \in group[t].users
      BY <2>1 DEF Counting
    <3>. QED
      BY <1>1, <1>2, <1>7, <3>1 DEF Counting
  <2>. QED
    BY <1>1, <1>2, <1>7, <1>10, <2>1 DEF Counting
<1>14. ASSUME NEW u PROVE ~ Counting(n, u)'
  BY <1>1, <1>7, <1>10, StageTyped DEF Counting, GroupInv, HandlersOK, NoMsg
<1>15. /\ \A i : ToCount(i)' <=> ToCount(i)
       /\ ~ ToCount(n)
  BY <1>1, <1>7, <1>10, StageTyped DEF ToCount, GroupInv, HandlersOK, NoMsg
<1>16. /\ \A t, u : Reaches(t, u)' <=> Reaches(t, u)
       /\ \A g : Members(g)' = Members(g)
       /\ onlineGroup' = onlineGroup
       /\ \A i \in Sent : \A u : Excused(i, u)' <=> Excused(i, u)
  BY <1>6, <1>8 DEF vars, sessionVars, redisVars, Reaches, Members, Excused
<1>17. WayOK'
  <2>1. \A t \in Server : group'[t].op = "publish" => group'[t] = group[t] /\ group[t].id \in Sent
    BY <1>7, <1>10, StageTyped DEF GroupInv, HandlersOK, NoMsg
  <2>. QED
    BY <1>8, <1>11, <1>16, <2>1 DEF Where, WayOK
<1>18. FreshOK'
  <2>1. ASSUME NEW t \in Server, group'[t] # NoMsg PROVE groupLog'[group'[t].id].counted = {}
    <3>1. t # s /\ group'[t] = group[t] /\ group[t].id # n /\ group[t].id \in Sent
      BY <1>1, <1>7, <2>1 DEF GroupInv, HandlersOK
    <3>. QED
      BY <1>6, <3>1, <2>1 DEF Where, FreshOK
  <2>. QED
    BY <2>1 DEF FreshOK
<1>19. groupLog[n].counted = {}
  BY <1>1 DEF Where, FreshOK
<1>20. CoverOK'
  <2>1. ASSUME NEW i \in Sent, NEW u \in Members(groupLog[i].group), Covered(i, u)
        PROVE  Covered(i, u)'
    BY <1>6, <1>12, <1>13, <1>15, <1>16, <1>19, <2>1 DEF Covered
  <2>. QED
    BY <1>6, <1>8, <1>16, <2>1 DEF Where, CoverOK
<1>21. OnceOK'
  BY <1>6, <1>8, <1>12, <1>13, <1>14, <1>15, <1>16 DEF Where, OnceOK
<1>. QED
  BY <1>9, <1>17, <1>18, <1>20, <1>21 DEF Where

\* The subscriber thread: a message leaves the channel, and its users are handed
\* it, or excused.
LEMMA ConsumeStep ==
  ASSUME GroupInv, Where, NEW s \in Server, ConsumeGroup(s)
  PROVE  GroupInv' /\ Where'
<1>1. PICK m \in GroupMessage :
        /\ m = Head(groupChannel[s]) /\ Tail(groupChannel[s]) \in Seq(GroupMessage)
        /\ \A x : Elem(groupChannel[s], x) <=> Elem(Tail(groupChannel[s]), x) \/ x = m
  BY ElemTail DEF ConsumeGroup, GroupInv, Typed
<1>2. /\ groupChannel' \in [Server -> Seq(GroupMessage)]
      /\ groupChannel'[s] = Tail(groupChannel[s])
      /\ \A t \in Server \ {s} : groupChannel'[t] = groupChannel[t]
  BY <1>1 DEF ConsumeGroup, GroupInv, Typed
<1>3. PICK n \in 1..MaxMsg : n = m.id /\ n \in Sent /\ groupLog[n] \in Entry
  BY <1>1, EntryTyped DEF GroupInv, HandlersOK
<1>4. PICK H \in SUBSET User : H = {u \in m.users : Reaches(s, u)}
  BY DEF GroupMessage
<1>5. PICK e \in Entry :
        /\ e = [groupLog[n] EXCEPT !.live = @ \cup H]
        /\ groupLog' = [groupLog EXCEPT ![n] = e]
  BY <1>1, <1>3, <1>4 DEF ConsumeGroup, Entry
<1>6. /\ groupLog' \in Seq(Entry) /\ Len(groupLog') = Len(groupLog) /\ groupLog'[n] = e
      /\ \A j \in Sent \ {n} : groupLog'[j] = groupLog[j]
  <2>1. groupLog' = [groupLog EXCEPT ![n] = e]
    BY <1>5
  <2>. QED
    BY <1>3, <2>1, LogExcept DEF GroupInv
<1>7. /\ e.group = groupLog[n].group /\ e.from = groupLog[n].from /\ e.counted = groupLog[n].counted
      /\ e.overlooked = groupLog[n].overlooked /\ e.unheard = groupLog[n].unheard
      /\ e.joined = groupLog[n].joined
      /\ e.leaving = groupLog[n].leaving /\ e.cut = groupLog[n].cut
      /\ e.live = groupLog[n].live \cup H
  BY <1>3, <1>5 DEF Entry
<1>8. \A i \in Sent :
        /\ groupLog'[i].group = groupLog[i].group /\ groupLog'[i].from = groupLog[i].from
        /\ groupLog'[i].counted = groupLog[i].counted /\ groupLog'[i].joined = groupLog[i].joined
        /\ groupLog'[i].overlooked = groupLog[i].overlooked /\ groupLog'[i].leaving = groupLog[i].leaving
        /\ groupLog'[i].unheard = groupLog[i].unheard
        /\ groupLog'[i].cut = groupLog[i].cut
        /\ groupLog'[i].live = IF i = n THEN groupLog[i].live \cup H ELSE groupLog[i].live
  BY <1>6, <1>7
<1>9. UNCHANGED <<vars, group, groupMsg>> /\ Sent' = Sent
  BY <1>6 DEF ConsumeGroup, Sent
<1>10. \A t \in Server : \A x : Elem(groupChannel'[t], x) => Elem(groupChannel[t], x)
  BY <1>1, <1>2
<1>11. GroupInv'
  <2>1. Typed'
    BY <1>2, <1>6, <1>9 DEF GroupInv, Typed
  <2>2. HandlersOK'
    BY <1>9, <1>10 DEF GroupInv, HandlersOK, vars
  <2>. QED
    BY <2>1, <2>2 DEF GroupInv
<1>12. \A t \in Server : \A i, u : Publishing(t, i, u)' <=> Publishing(t, i, u)
  BY <1>9 DEF Publishing
<1>13. \A t \in Server : \A i, u : OnChannel(t, i, u)' => OnChannel(t, i, u)
  BY <1>10 DEF OnChannel
<1>14. ASSUME NEW t \in Server, NEW i, NEW u, OnChannel(t, i, u)
       PROVE  OnChannel(t, i, u)' \/ (t = s /\ i = n /\ u \in m.users)
  <2>1. PICK x \in GroupMessage : Elem(groupChannel[t], x) /\ x.id = i /\ u \in x.users
    BY <1>14 DEF OnChannel
  <2>. QED
    BY <1>1, <1>2, <1>3, <2>1 DEF OnChannel
<1>15. \A u \in m.users : OnChannel(s, n, u)
  <2>1. Elem(groupChannel[s], m)
    BY <1>1
  <2>. QED
    BY <1>3, <2>1 DEF OnChannel
<1>16. /\ \A i, u : Counting(i, u)' <=> Counting(i, u)
       /\ \A i : ToCount(i)' <=> ToCount(i)
  BY <1>9 DEF Counting, ToCount
<1>17. /\ \A t, u : Reaches(t, u)' <=> Reaches(t, u)
       /\ \A g : Members(g)' = Members(g)
       /\ onlineGroup' = onlineGroup
       /\ \A i \in Sent : \A u : Excused(i, u)' <=> Excused(i, u)
  BY <1>8, <1>9 DEF vars, sessionVars, redisVars, Reaches, Members, Excused
<1>18. \A u \in m.users : Excused(n, u) \/ u \in H
  <2>1. m.users \subseteq User
    BY DEF GroupMessage
  <2>. QED
    BY <1>3, <1>4, <1>15, <2>1 DEF Where, WayOK
<1>19. WayOK'
  <2>1. \A t \in Server : group[t].op = "publish" => group[t].id \in Sent
    BY StageTyped DEF GroupInv, HandlersOK, NoMsg
  <2>. QED
    BY <1>9, <1>13, <1>17, <2>1 DEF Where, WayOK
<1>20. FreshOK'
  <2>1. \A t \in Server : group[t] # NoMsg => group[t].id \in Sent
    BY DEF GroupInv, HandlersOK
  <2>. QED
    BY <1>8, <1>9, <2>1 DEF Where, FreshOK
<1>21. CoverOK'
  <2>1. ASSUME NEW i \in Sent, NEW u \in Members(groupLog[i].group), Covered(i, u)
        PROVE  Covered(i, u)'
    <3>1. OnItsWay(i, u) => OnItsWay(i, u)' \/ (i = n /\ u \in m.users)
      BY <1>12, <1>14 DEF OnItsWay
    <3>2. i = n /\ u \in m.users => u \in groupLog'[i].live \/ Excused(i, u)'
      BY <1>8, <1>17, <1>18
    <3>3. groupLog[i].live \subseteq groupLog'[i].live
      BY <1>8
    <3>4. groupLog'[i].group = groupLog[i].group
      BY <1>8
    <3>5. CASE OnItsWay(i, u)
      BY <3>1, <3>2, <3>5 DEF Covered
    <3>6. CASE ~ OnItsWay(i, u)
      BY <1>8, <1>16, <1>17, <2>1, <3>3, <3>4, <3>6 DEF Covered
    <3>. QED
      BY <3>5, <3>6
  <2>. QED
    BY <1>8, <1>9, <1>17, <2>1 DEF Where, CoverOK
<1>22. OnceOK'
  <2>1. \A i, u : OnItsWay(i, u)' => OnItsWay(i, u)
    BY <1>12, <1>13 DEF OnItsWay
  <2>2. \A u \in H : OnItsWay(n, u)
    BY <1>4, <1>15 DEF OnItsWay
  <2>3. ASSUME NEW i \in Sent, NEW u \in User, u \in groupLog'[i].live \/ OnItsWay(i, u)'
        PROVE  u \in groupLog[i].live \/ OnItsWay(i, u)
    BY <1>8, <2>1, <2>2, <2>3
  <2>. QED
    BY <1>8, <1>9, <1>16, <1>17, <2>3 DEF Where, OnceOK
<1>. QED
  BY <1>11, <1>19, <1>20, <1>21, <1>22 DEF Where

\* What PUBLISH does: users U go to t, of whom those in O are not there; the
\* servers in rest are still to come.
Published(s, t, n, r, q, U, O, H) ==
  /\ n = group[s].id /\ group[s].op = "publish" /\ r = group[s].remote
  /\ t \in DOMAIN r /\ DOMAIN q \subseteq DOMAIN r
  /\ \A x \in DOMAIN r : x \notin DOMAIN q => r[x] \in U
  /\ \A x \in DOMAIN q : q[x] = r[x]
  /\ \A u \in U : \E x \in DOMAIN r : u = r[x]
  /\ r[t] \in U /\ \A u \in U : u \in O \/ u = r[t]
  /\ t \in running \ subscribed => r[t] \in H
  /\ group' = [group EXCEPT ![s] =
       IF DOMAIN q = {} THEN InStage("push", n)
       ELSE [op |-> "publish", id |-> n, remote |-> q]]
  /\ groupChannel' =
       IF t \in subscribed
       THEN [groupChannel EXCEPT ![t] = Append(@, [id |-> n, users |-> U])]
       ELSE groupChannel
  /\ groupLog' = [groupLog EXCEPT ![n] = [groupLog[n] EXCEPT !.overlooked = @ \cup O, !.unheard = @ \cup H]]
  /\ UNCHANGED <<vars, groupMsg>>

\* Every PUBLISH is of that form.
LEMMA PublishEffect ==
  ASSUME GroupInv, NEW s \in Server, NEW t \in Server, PublishGroup(s, t)
  PROVE  \E n \in Sent, r \in Remotes, q \in Remotes, U \in SUBSET User, O \in SUBSET User, H \in SUBSET User :
           Published(s, t, n, r, q, U, O, H)
<1>. DEFINE n == group[s].id
            r == group[s].remote
            B == {x \in DOMAIN r : Bucket[x] = Bucket[t]}
            rest == DOMAIN r \ B
            q == [x \in rest |-> r[x]]
            U == {r[x] : x \in B}
            O == {r[x] : x \in B \ {t}}
            H == IF t \in running \ subscribed THEN {r[t]} ELSE {}
<1>1. /\ group[s].op = "publish" /\ t \in DOMAIN r
      /\ groupLog' = [groupLog EXCEPT ![n] = [groupLog[n] EXCEPT !.overlooked = @ \cup O, !.unheard = @ \cup H]]
      /\ groupChannel' =
           IF t \in subscribed
           THEN [groupChannel EXCEPT ![t] = Append(@, [id |-> n, users |-> U])]
           ELSE groupChannel
      /\ group' = [group EXCEPT ![s] =
           IF rest = {} THEN InStage("push", n) ELSE [@ EXCEPT !.remote = q]]
      /\ UNCHANGED <<vars, groupMsg>>
  <2>1. group[s].op = "publish" /\ t \in DOMAIN r /\ UNCHANGED <<vars, groupMsg>>
    BY DEF PublishGroup
  <2>2. groupLog' = [groupLog EXCEPT ![n] = [groupLog[n] EXCEPT !.overlooked = @ \cup O, !.unheard = @ \cup H]]
    <3>1. groupLog' = [groupLog EXCEPT ![n].overlooked = @ \cup O, ![n].unheard = @ \cup H]
      BY Zenon DEF PublishGroup
    <3>. HIDE DEF n, O, H
    <3>. QED
      BY <3>1
  <2>3. groupChannel' =
           IF t \in subscribed
           THEN [groupChannel EXCEPT ![t] = Append(@, [id |-> n, users |-> U])]
           ELSE groupChannel
    BY Zenon DEF PublishGroup
  <2>4. group' = [group EXCEPT ![s] =
           IF rest = {} THEN InStage("push", n) ELSE [@ EXCEPT !.remote = q]]
    BY Zenon DEF PublishGroup
  <2>. QED
    BY <2>1, <2>2, <2>3, <2>4
<1>2. group[s] # NoMsg
  BY <1>1 DEF NoMsg
<1>3. /\ r \in Remotes /\ group[s] = [op |-> "publish", id |-> n, remote |-> r]
      /\ n \in Sent
  BY <1>1, <1>2, StageTyped DEF GroupInv, HandlersOK
<1>4. DOMAIN r \subseteq Server /\ \A x \in DOMAIN r : r[x] \in User
  BY <1>3, RemoteTyped
<1>5. /\ DOMAIN q = rest /\ rest \subseteq DOMAIN r
      /\ \A x \in DOMAIN r : x \notin rest => r[x] \in U
      /\ \A x \in rest : q[x] = r[x]
      /\ \A u \in U : \E x \in DOMAIN r : u = r[x]
      /\ r[t] \in U /\ \A u \in U : u \in O \/ u = r[t]
      /\ U \in SUBSET User /\ O \in SUBSET User /\ H \in SUBSET User
      /\ t \in running \ subscribed => r[t] \in H
  BY <1>1, <1>4
<1>6. q \in Remotes
  <2>1. q \in [rest -> User]
    BY <1>4
  <2>2. rest \in SUBSET Server
    BY <1>4
  <2>. HIDE DEF q, rest
  <2>. QED
    BY <2>1, <2>2, RemoteTyped
<1>7. [group[s] EXCEPT !.remote = q] = [op |-> "publish", id |-> n, remote |-> q]
  <2>. HIDE DEF q, n, r
  <2>. QED
    BY <1>3
<1>8. group' = [group EXCEPT ![s] =
        IF DOMAIN q = {} THEN InStage("push", n) ELSE [op |-> "publish", id |-> n, remote |-> q]]
  <2>. HIDE DEF q, n, rest
  <2>. QED
    BY <1>1, <1>5, <1>7
<1>. HIDE DEF n, r, rest, q, U, O, H
<1>9. n = group[s].id /\ r = group[s].remote
  BY DEF n, r
<1>10. /\ n \in Sent /\ r \in Remotes /\ q \in Remotes
       /\ U \in SUBSET User /\ O \in SUBSET User /\ H \in SUBSET User
  BY <1>3, <1>5, <1>6
<1>11. groupLog' = [groupLog EXCEPT ![n] = [groupLog[n] EXCEPT !.overlooked = @ \cup O, !.unheard = @ \cup H]]
  BY <1>1
<1>12. groupChannel' =
           IF t \in subscribed
           THEN [groupChannel EXCEPT ![t] = Append(@, [id |-> n, users |-> U])]
           ELSE groupChannel
  BY <1>1
<1>13. PICK n1 \in Sent, r1 \in Remotes, q1 \in Remotes, U1 \in SUBSET User, O1 \in SUBSET User,
            H1 \in SUBSET User :
         n1 = n /\ r1 = r /\ q1 = q /\ U1 = U /\ O1 = O /\ H1 = H
  BY <1>10
<1>14. group' = [group EXCEPT ![s] =
         IF DOMAIN q1 = {} THEN InStage("push", n1)
         ELSE [op |-> "publish", id |-> n1, remote |-> q1]]
  BY Zenon, <1>8, <1>13
<1>15. groupChannel' =
         IF t \in subscribed
         THEN [groupChannel EXCEPT ![t] = Append(@, [id |-> n1, users |-> U1])]
         ELSE groupChannel
  BY Zenon, <1>12, <1>13
<1>16. groupLog' = [groupLog EXCEPT ![n1] =
          [groupLog[n1] EXCEPT !.overlooked = @ \cup O1, !.unheard = @ \cup H1]]
  BY Zenon, <1>11, <1>13
<1>17. /\ n1 = group[s].id /\ group[s].op = "publish" /\ r1 = group[s].remote
       /\ t \in DOMAIN r1 /\ DOMAIN q1 \subseteq DOMAIN r1
       /\ \A x \in DOMAIN r1 : x \notin DOMAIN q1 => r1[x] \in U1
       /\ \A x \in DOMAIN q1 : q1[x] = r1[x]
       /\ \A u \in U1 : \E x \in DOMAIN r1 : u = r1[x]
       /\ r1[t] \in U1 /\ \A u \in U1 : u \in O1 \/ u = r1[t]
       /\ t \in running \ subscribed => r1[t] \in H1
       /\ UNCHANGED <<vars, groupMsg>>
  BY <1>1, <1>5, <1>9, <1>13
<1>18. Published(s, t, n1, r1, q1, U1, O1, H1)
  BY <1>14, <1>15, <1>16, <1>17 DEF Published
<1>. QED
  BY <1>18

\* PUBLISH: the users of a bucket go to the channel of server t; the one found
\* on t is on its way there, or t has ended and does not find her; the others
\* are passed over.
LEMMA PublishStep ==
  ASSUME EndedOK, GroupInv, Where, NEW s \in Server, NEW t \in Server, PublishGroup(s, t)
  PROVE  GroupInv' /\ Where'
<1>0. PICK n \in Sent, r \in Remotes, q \in Remotes, U \in SUBSET User, O \in SUBSET User, H \in SUBSET User :
        Published(s, t, n, r, q, U, O, H)
  BY PublishEffect
<1>1. /\ n = group[s].id /\ group[s].op = "publish" /\ r = group[s].remote
      /\ t \in DOMAIN r /\ DOMAIN q \subseteq DOMAIN r
      /\ \A x \in DOMAIN r : x \notin DOMAIN q => r[x] \in U
      /\ \A x \in DOMAIN q : q[x] = r[x]
      /\ \A u \in U : \E x \in DOMAIN r : u = r[x]
      /\ r[t] \in U /\ \A u \in U : u \in O \/ u = r[t]
      /\ t \in running \ subscribed => r[t] \in H
      /\ group' = [group EXCEPT ![s] =
           IF DOMAIN q = {} THEN InStage("push", n)
           ELSE [op |-> "publish", id |-> n, remote |-> q]]
      /\ groupChannel' =
           IF t \in subscribed
           THEN [groupChannel EXCEPT ![t] = Append(@, [id |-> n, users |-> U])]
           ELSE groupChannel
      /\ groupLog' = [groupLog EXCEPT ![n] = [groupLog[n] EXCEPT !.overlooked = @ \cup O, !.unheard = @ \cup H]]
      /\ UNCHANGED <<vars, groupMsg>>
  BY <1>0 DEF Published
<1>2. n \in 1..MaxMsg /\ groupLog[n] \in Entry
  BY EntryTyped DEF GroupInv
<1>3. n = group[s].id /\ group[s].op = "publish" /\ r = group[s].remote /\ group[s] # NoMsg
  BY <1>1 DEF NoMsg
<1>4. s \in running
  BY <1>3 DEF GroupInv, HandlersOK
<1>5. \A u \in U : u \in O \/ u = r[t]
  BY <1>1
<1>6. r[t] \in User
  BY <1>1
<1>8. [id |-> n, users |-> U] \in GroupMessage
  BY <1>2 DEF GroupMessage
<1>9. PICK m \in GroupMessage : m = [id |-> n, users |-> U] /\ m.id = n /\ m.users = U
  BY <1>8
<1>10. PICK e \in Entry :
        /\ e = [groupLog[n] EXCEPT !.overlooked = @ \cup O, !.unheard = @ \cup H]
        /\ groupLog' = [groupLog EXCEPT ![n] = e]
  <2>1. [groupLog[n] EXCEPT !.overlooked = @ \cup O, !.unheard = @ \cup H] \in Entry
    BY <1>2 DEF Entry
  <2>2. groupLog' = [groupLog EXCEPT ![n] = [groupLog[n] EXCEPT !.overlooked = @ \cup O, !.unheard = @ \cup H]]
    BY <1>1
  <2>. QED
    BY <2>1, <2>2
<1>11. /\ groupLog' \in Seq(Entry) /\ Len(groupLog') = Len(groupLog) /\ groupLog'[n] = e
       /\ \A j \in Sent \ {n} : groupLog'[j] = groupLog[j]
  <2>1. groupLog' = [groupLog EXCEPT ![n] = e]
    BY <1>10
  <2>. QED
    BY <2>1, LogExcept DEF GroupInv
<1>12. /\ e.group = groupLog[n].group /\ e.from = groupLog[n].from /\ e.counted = groupLog[n].counted
       /\ e.live = groupLog[n].live /\ e.joined = groupLog[n].joined
       /\ e.leaving = groupLog[n].leaving /\ e.cut = groupLog[n].cut
       /\ e.overlooked = groupLog[n].overlooked \cup O /\ e.unheard = groupLog[n].unheard \cup H
  BY <1>2, <1>10 DEF Entry
<1>13. \A i \in Sent :
        /\ groupLog'[i].group = groupLog[i].group /\ groupLog'[i].from = groupLog[i].from
        /\ groupLog'[i].counted = groupLog[i].counted /\ groupLog'[i].joined = groupLog[i].joined
        /\ groupLog'[i].live = groupLog[i].live /\ groupLog'[i].leaving = groupLog[i].leaving
        /\ groupLog'[i].cut = groupLog[i].cut
        /\ groupLog'[i].overlooked = IF i = n THEN groupLog[i].overlooked \cup O
                                              ELSE groupLog[i].overlooked
        /\ groupLog'[i].unheard = IF i = n THEN groupLog[i].unheard \cup H ELSE groupLog[i].unheard
  BY <1>11, <1>12
<1>14. UNCHANGED <<vars, groupMsg>> /\ Sent' = Sent
  BY <1>1, <1>11 DEF Sent
<1>15. PICK st \in GroupState :
        /\ group' = [group EXCEPT ![s] = st]
        /\ st.id = n /\ st # NoMsg /\ st.op \in {"publish", "push"}
        /\ st.op = "push" => DOMAIN q = {}
        /\ st.op = "publish" => st.remote = q
  <2>1. CASE DOMAIN q = {}
    <3>1. group' = [group EXCEPT ![s] = InStage("push", n)]
      BY <1>1, <2>1
    <3>. QED
      BY <1>2, <2>1, <3>1, StatesTyped
  <2>2. CASE DOMAIN q # {}
    <3>. DEFINE st == [op |-> "publish", id |-> n, remote |-> q]
    <3>1. group' = [group EXCEPT ![s] = st]
      BY <1>1, <2>2
    <3>2. st \in GroupState /\ st # NoMsg /\ st.op = "publish" /\ st.id = n /\ st.remote = q
      BY <1>2, StatesTyped DEF NoMsg
    <3>. QED
      BY <3>1, <3>2
  <2>. QED
    BY <2>1, <2>2
<1>16. /\ group' \in [Server -> GroupState] /\ group'[s] = st
       /\ \A v \in Server \ {s} : group'[v] = group[v]
  BY <1>15 DEF GroupInv, Typed
<1>17. /\ groupChannel' \in [Server -> Seq(GroupMessage)]
       /\ \A v \in Server : \A x :
            Elem(groupChannel'[v], x) <=> Elem(groupChannel[v], x) \/ (v = t /\ x = m /\ t \in subscribed)
  <2>1. /\ Append(groupChannel[t], m) \in Seq(GroupMessage)
        /\ \A x : Elem(Append(groupChannel[t], m), x) <=> Elem(groupChannel[t], x) \/ x = m
    BY ElemAppend DEF GroupInv, Typed
  <2>2. groupChannel' = IF t \in subscribed THEN [groupChannel EXCEPT ![t] = Append(@, m)] ELSE groupChannel
    BY <1>1, <1>9
  <2>. QED
    BY <2>1, <2>2 DEF GroupInv, Typed
<1>18. GroupInv'
  <2>1. Typed'
    BY <1>11, <1>14, <1>16, <1>17 DEF GroupInv, Typed
  <2>2. \A v \in Server : group'[v] # NoMsg => group[v] # NoMsg /\ group'[v].id = group[v].id
    BY <1>3, <1>15, <1>16
  <2>3. \A v \in Server, x \in GroupMessage : Elem(groupChannel'[v], x) => x.id \in Sent
    BY <1>9, <1>17 DEF GroupInv, HandlersOK
  <2>4. HandlersOK'
    BY <1>14, <2>2, <2>3 DEF GroupInv, HandlersOK, vars
  <2>. QED
    BY <2>1, <2>4 DEF GroupInv
<1>19. ASSUME NEW v \in Server, NEW i, NEW u
       PROVE  /\ Publishing(v, i, u)' => Publishing(v, i, u)
              /\ Publishing(v, i, u) =>
                   Publishing(v, i, u)' \/ (v = s /\ i = n /\ u \in U)
  <2>1. CASE v # s
    BY <1>16, <2>1 DEF Publishing
  <2>2. CASE v = s
    <3>1. ASSUME Publishing(s, i, u)' PROVE Publishing(s, i, u)
      <4>1. st.op = "publish" /\ i = n /\ \E x \in DOMAIN q : q[x] = u
        BY <1>15, <1>16, <3>1 DEF Publishing
      <4>. QED
        BY <1>1, <1>3, <4>1 DEF Publishing
    <3>2. ASSUME Publishing(s, i, u), u \notin U PROVE Publishing(s, i, u)'
      <4>1. PICK x \in DOMAIN r : r[x] = u
        BY <1>3, <3>2 DEF Publishing
      <4>2. i = n /\ x \in DOMAIN q /\ q[x] = u
        BY <1>1, <1>3, <3>2, <4>1 DEF Publishing
      <4>3. st.op = "publish" /\ st.remote = q
        BY <1>15, <4>2
      <4>. QED
        BY <1>15, <1>16, <4>2, <4>3 DEF Publishing
    <3>3. Publishing(s, i, u) => i = n
      BY <1>3 DEF Publishing
    <3>. QED
      BY <2>2, <3>1, <3>2, <3>3
  <2>. QED
    BY <2>1, <2>2
<1>20. \A u \in U : Publishing(s, n, u)
  BY <1>1, <1>3 DEF Publishing
<1>21. /\ \A v \in Server : \A i, u : OnChannel(v, i, u) => OnChannel(v, i, u)'
       /\ \A v \in Server : \A i, u :
            OnChannel(v, i, u)' => OnChannel(v, i, u) \/ (v = t /\ i = n /\ u \in U)
       /\ t \in subscribed => \A u \in U : OnChannel(t, n, u)'
  BY <1>9, <1>17 DEF OnChannel
<1>22. \A i, u : Counting(i, u)' <=> Counting(i, u)
  <2>1. group[s].op # "incr" /\ group'[s].op # "incr"
    BY <1>3, <1>15, <1>16
  <2>. QED
    BY <1>16, <2>1 DEF Counting
<1>23. \A i : ToCount(i)' <=> ToCount(i)
  <2>1. ASSUME NEW i, ToCount(i)' PROVE ToCount(i)
    BY <1>3, <1>15, <1>16, <2>1 DEF ToCount
  <2>2. ASSUME NEW i, ToCount(i) PROVE ToCount(i)'
    <3>1. PICK v \in Server : group[v].op \in {"publish", "push", "trim", "sdiff"} /\ group[v].id = i
      BY <2>2 DEF ToCount
    <3>. QED
      BY <1>3, <1>15, <1>16, <3>1 DEF ToCount
  <2>. QED
    BY <2>1, <2>2
<1>24. /\ \A v, u : Reaches(v, u)' <=> Reaches(v, u)
       /\ \A g : Members(g)' = Members(g)
       /\ onlineGroup' = onlineGroup
       /\ \A i \in Sent : \A u : Excused(i, u)' <=> (Excused(i, u) \/ (i = n /\ u \in O \cup H))
  BY <1>13, <1>14 DEF vars, sessionVars, redisVars, Reaches, Members, Excused
<1>25. t \notin running => \A u \in User : ~ Reaches(t, u)
  BY DEF EndedOK, NoSessions, Reaches
<1>26. Excused(n, r[t]) \/ Reaches(t, r[t])
  BY <1>1, <1>3 DEF Where, WayOK
<1>27. WayOK'
  <2>1. \A v \in Server : group'[v].op = "publish" =>
          /\ group[v].op = "publish" /\ group'[v].id = group[v].id /\ group[v].id \in Sent
          /\ DOMAIN group'[v].remote \subseteq DOMAIN group[v].remote
          /\ \A x \in DOMAIN group'[v].remote : group'[v].remote[x] = group[v].remote[x]
    <3>1. ASSUME NEW v \in Server, group'[v].op = "publish", v # s
          PROVE  group'[v] = group[v] /\ group[v].id \in Sent
      BY <1>16, <3>1, StageTyped DEF GroupInv, HandlersOK, NoMsg
    <3>2. group'[s].op = "publish" =>
            /\ group'[s].id = n /\ group'[s].remote = q
      BY <1>15, <1>16
    <3>. QED
      BY <1>1, <1>3, <3>1, <3>2
  <2>2. ASSUME NEW v \in Server, group'[v].op = "publish", NEW x \in DOMAIN group'[v].remote
        PROVE  (Excused(group[v].id, group[v].remote[x]) \/ Reaches(x, group[v].remote[x]))'
    <3>1. PICK i \in Sent, u \in User :
                               /\ i = group[v].id /\ u = group[v].remote[x] /\ group[v].op = "publish"
                               /\ x \in DOMAIN group[v].remote
                               /\ i = group'[v].id /\ u = group'[v].remote[x]
      BY <2>1, <2>2, StageTyped, RemoteTyped, ZenonT(30) DEF GroupInv
    <3>2. Excused(i, u) \/ Reaches(x, u)
      BY <3>1 DEF Where, WayOK
    <3>3. Excused(i, u)' \/ Reaches(x, u)'
      BY <1>24, <3>2
    <3>. QED
      BY <3>1, <3>3 DEF Excused, Reaches
  <2>3. \A v \in Server, i \in Sent, u \in User :
          OnChannel(v, i, u)' => Excused(i, u)' \/ Reaches(v, u)'
    BY <1>5, <1>21, <1>24, <1>26 DEF Where, WayOK
  <2>. QED
    BY <1>14, <2>2, <2>3 DEF WayOK
<1>28. FreshOK'
  <2>1. \A v \in Server : group'[v] # NoMsg =>
          group[v] # NoMsg /\ group'[v].id = group[v].id /\ group[v].id \in Sent
    BY <1>3, <1>15, <1>16 DEF GroupInv, HandlersOK
  <2>2. ASSUME NEW v \in Server, group'[v] # NoMsg PROVE groupLog'[group'[v].id].counted = {}
    <3>1. PICK i \in Sent : i = group[v].id /\ i = group'[v].id /\ group[v] # NoMsg
      BY <2>1, <2>2
    <3>2. groupLog[i].counted = {}
      BY <3>1 DEF Where, FreshOK
    <3>. QED
      BY <1>13, <3>1, <3>2
  <2>. QED
    BY <2>2 DEF FreshOK
<1>29. CoverOK'
  <2>1. ASSUME NEW i \in Sent, NEW u \in Members(groupLog[i].group), Covered(i, u)
        PROVE  Covered(i, u)'
    <3>1. i = n /\ u \in U => OnItsWay(i, u)' \/ Excused(i, u)'
      BY <1>1, <1>5, <1>6, <1>21, <1>24, <1>25, <1>26 DEF OnItsWay
    <3>2. OnItsWay(i, u) => OnItsWay(i, u)' \/ Excused(i, u)'
      BY <1>19, <1>21, <3>1 DEF OnItsWay
    <3>. QED
      BY <1>13, <1>22, <1>23, <1>24, <2>1, <3>2 DEF Covered
  <2>. QED
    BY <1>13, <1>14, <1>24, <2>1 DEF Where, CoverOK
<1>30. OnceOK'
  <2>1. \A i, u : OnItsWay(i, u)' => OnItsWay(i, u)
    BY <1>19, <1>20, <1>21 DEF OnItsWay
  <2>. QED
    BY <1>13, <1>14, <1>22, <1>23, <1>24, <2>1 DEF Where, OnceOK
<1>. QED
  BY <1>18, <1>27, <1>28, <1>29, <1>30 DEF Where

\* What SORT and the loop over its reply do: entry x is new in the log, and the
\* handler of s goes on to st, with the users of r still to be published to.
Posted(s, g, r, x, st) ==
  /\ group[s] = NoMsg /\ s \in running /\ Len(groupLog) < MaxMsg
  /\ group' = [group EXCEPT ![s] = st] /\ groupLog' = Append(groupLog, x)
  /\ st # NoMsg /\ st.id = Len(groupLog) + 1 /\ st.op \in {"publish", "push"}
  /\ st.op = "push" => DOMAIN r = {}
  /\ st.op = "publish" => st.remote = r
  /\ x.group = g /\ x.counted = {} /\ x.joined = {} /\ x.leaving = {} /\ x.unheard = {}
  /\ x.live \subseteq onlineGroup[g]
  /\ \A t \in DOMAIN r : r[t] \in onlineGroup[g] /\ (r[t] \in x.overlooked \/ Reaches(t, r[t]))
  /\ \A u \in onlineGroup[g] :
       u \in {x.from} \cup x.live \cup x.overlooked \/ \E t \in DOMAIN r : r[t] = u
  /\ UNCHANGED <<vars, groupChannel, groupMsg>>

\* Every message that is sent is of that form.
LEMMA SendEffect ==
  ASSUME TypeOK, GroupInv, NEW s \in Server, NEW c \in Conn, NEW g \in Group, SendGroup(s, c, g)
  PROVE  \E r \in Remotes, x \in Entry, st \in GroupState : Posted(s, g, r, x, st)
<1>. DEFINE F == Found(g)
            here == {u \in F : online[u] = s}
            n == Len(groupLog) + 1
            from == ClientOf[c]
            live == {u \in here \ {from} : Reaches(s, u)}
<1>1. /\ onlineGroup[g] \in SUBSET User /\ F \subseteq onlineGroup[g] /\ from \in User
      /\ \A u \in F : online[u] \in Server
  BY PresenceAssumption DEF TypeOK, Found
<1>2. PICK r \in RemoteMaps(s, g) :
        /\ group' = [group EXCEPT ![s] =
             IF DOMAIN r = {} THEN InStage("push", n) ELSE [op |-> "publish", id |-> n, remote |-> r]]
        /\ groupLog' = Append(groupLog,
             [group |-> g, from |-> from, live |-> live, counted |-> {},
              overlooked |-> (onlineGroup[g] \ (here \cup {r[t] : t \in DOMAIN r}))
                             \cup {u \in F : ~ Reaches(online[u], u)},
              unheard |-> {}, joined |-> {}, leaving |-> {}, cut |-> FALSE])
  BY Zenon DEF SendGroup
<1>3. /\ group[s] = NoMsg /\ s \in running /\ Len(groupLog) < MaxMsg /\ n \in 1..MaxMsg
      /\ UNCHANGED <<vars, groupChannel, groupMsg>>
  BY GroupAssumption DEF SendGroup, Free, IoIdle, GroupInv, Typed
<1>4. /\ r \in [{online[u] : u \in F} \ {s} -> F]
      /\ \A t \in DOMAIN r : online[r[t]] = t
  BY DEF RemoteMaps
<1>5. DOMAIN r \subseteq Server /\ \A t \in DOMAIN r : r[t] \in F
  BY <1>1, <1>4
<1>6. r \in Remotes
  <2>1. r \in [DOMAIN r -> User]
    BY <1>1, <1>4
  <2>. QED
    BY <1>5, <2>1, RemoteTyped
<1>. DEFINE over == (onlineGroup[g] \ (here \cup {r[t] : t \in DOMAIN r}))
                    \cup {u \in F : ~ Reaches(online[u], u)}
            x == [group |-> g, from |-> from, live |-> live, counted |-> {}, overlooked |-> over,
                  unheard |-> {}, joined |-> {}, leaving |-> {}, cut |-> FALSE]
            st == IF DOMAIN r = {} THEN InStage("push", n) ELSE [op |-> "publish", id |-> n, remote |-> r]
<1>7. live \in SUBSET User /\ over \in SUBSET User /\ live \subseteq onlineGroup[g]
  BY <1>1
<1>8. \A t \in DOMAIN r : r[t] \in onlineGroup[g] /\ (r[t] \in over \/ Reaches(t, r[t]))
  BY <1>1, <1>4, <1>5
<1>9. \A u \in onlineGroup[g] :
        u = from \/ u \in live \/ u \in over \/ \E t \in DOMAIN r : r[t] = u
  <2>1. ASSUME NEW u \in onlineGroup[g], u \notin over, u \in here PROVE u = from \/ u \in live
    BY <1>1, <2>1
  <2>2. ASSUME NEW u \in onlineGroup[g], u \notin over, u \notin here
        PROVE  \E t \in DOMAIN r : r[t] = u
    BY <2>2
  <2>. QED
    BY <2>1, <2>2
<1>10. groupLog' = Append(groupLog, x) /\ group' = [group EXCEPT ![s] = st]
  BY <1>2
<1>. HIDE DEF live, over, n, from
<1>11. /\ x \in Entry /\ x.group = g /\ x.counted = {} /\ x.joined = {} /\ x.leaving = {}
       /\ x.unheard = {}
       /\ x.live = live /\ x.overlooked = over /\ x.from = from
  BY <1>1, <1>7 DEF Entry
<1>12. /\ st \in GroupState /\ st # NoMsg /\ st.id = n /\ st.op \in {"publish", "push"}
       /\ st.op = "push" => DOMAIN r = {}
       /\ st.op = "publish" => st.remote = r
  <2>1. CASE DOMAIN r = {}
    BY <1>3, <2>1, StatesTyped
  <2>2. CASE DOMAIN r # {}
    BY <1>3, <1>6, <2>2, StatesTyped DEF NoMsg
  <2>. QED
    BY <2>1, <2>2
<1>. HIDE DEF x, st
<1>13. Posted(s, g, r, x, st)
  <2>1. n = Len(groupLog) + 1
    BY DEF n
  <2>. QED
    BY <1>3, <1>7, <1>8, <1>9, <1>10, <1>11, <1>12, <2>1 DEF Posted
<1>. QED
  BY <1>6, <1>11, <1>12, <1>13

\* A message is sent: its server has it in hand, and every member in onlineGroup
\* is handed it, passed over or to be published to.
LEMMA SendStep ==
  ASSUME TypeOK, GroupInv, Where, NEW s \in Server, NEW c \in Conn, NEW g \in Group,
         SendGroup(s, c, g)
  PROVE  GroupInv' /\ Where'
<1>1. PICK r \in Remotes, x \in Entry, st \in GroupState : Posted(s, g, r, x, st)
  BY SendEffect
<1>2. /\ group[s] = NoMsg /\ s \in running /\ Len(groupLog) < MaxMsg
      /\ st # NoMsg /\ st.id = Len(groupLog) + 1 /\ st.op \in {"publish", "push"}
      /\ st.op = "push" => DOMAIN r = {}
      /\ st.op = "publish" => st.remote = r
      /\ x.group = g /\ x.counted = {} /\ x.joined = {} /\ x.leaving = {} /\ x.unheard = {}
      /\ x.live \subseteq onlineGroup[g]
      /\ UNCHANGED <<vars, groupChannel, groupMsg>>
  BY <1>1 DEF Posted
<1>3. /\ \A t \in DOMAIN r : r[t] \in onlineGroup[g] /\ (r[t] \in x.overlooked \/ Reaches(t, r[t]))
      /\ \A u \in onlineGroup[g] :
           u \in {x.from} \cup x.live \cup x.overlooked \/ \E t \in DOMAIN r : r[t] = u
      /\ DOMAIN r \subseteq Server /\ \A t \in DOMAIN r : r[t] \in User
  BY <1>1, RemoteTyped DEF Posted
<1>4. PICK n \in 1..MaxMsg : n = Len(groupLog) + 1 /\ Sent = 1..(n - 1) /\ n \notin Sent
  BY <1>2, GroupAssumption DEF GroupInv, Typed, Sent
<1>5. /\ groupLog' \in Seq(Entry) /\ Len(groupLog') = n /\ groupLog'[n] = x
      /\ \A j \in Sent : groupLog'[j] = groupLog[j]
      /\ Sent' = Sent \cup {n}
  <2>1. groupLog \in Seq(Entry) /\ groupLog' = Append(groupLog, x)
    BY <1>1 DEF Posted, GroupInv, Typed
  <2>. QED
    BY <1>4, <2>1, AppendProperties DEF Sent
<1>6. /\ group' \in [Server -> GroupState] /\ group'[s] = st
      /\ \A v \in Server \ {s} : group'[v] = group[v]
  BY <1>1 DEF Posted, GroupInv, Typed
<1>7. st.id = n
  BY <1>2, <1>4
<1>8. group[s].op = "idle"
  BY <1>2 DEF NoMsg
<1>9. GroupInv'
  <2>1. Typed'
    BY <1>2, <1>4, <1>5, <1>6 DEF GroupInv, Typed
  <2>2. \A v \in Server : v # s /\ group'[v] # NoMsg => group'[v].id \in Sent
    BY <1>6 DEF GroupInv, HandlersOK
  <2>3. HandlersOK'
    BY <1>2, <1>4, <1>5, <1>6, <1>7, <2>2 DEF GroupInv, HandlersOK, vars
  <2>. QED
    BY <2>1, <2>3 DEF GroupInv
<1>10. \A v \in Server : group[v] # NoMsg => group[v].id # n /\ group[v].id \in Sent
  BY <1>4 DEF GroupInv, HandlersOK
<1>11. \A v \in Server : group[v].op # "idle" => group[v] # NoMsg
  BY DEF NoMsg
<1>12. \A v \in Server : \A i, u : OnChannel(v, i, u)' <=> OnChannel(v, i, u)
  BY <1>2 DEF OnChannel
<1>13. \A v \in Server : \A u : ~ OnChannel(v, n, u)
  BY <1>4 DEF OnChannel, GroupInv, HandlersOK
<1>14. /\ \A v \in Server : \A i, u : i # n => (Publishing(v, i, u)' <=> Publishing(v, i, u))
       /\ \A v \in Server : \A u :
            Publishing(v, n, u)' <=> (v = s /\ \E t \in DOMAIN r : r[t] = u)
  <2>1. ASSUME NEW v \in Server \ {s}, NEW i, NEW u
        PROVE  (Publishing(v, i, u)' <=> Publishing(v, i, u)) /\ ~ Publishing(v, n, u)
    BY <1>6, <1>10, <1>11 DEF Publishing
  <2>2. ASSUME NEW i, NEW u PROVE ~ Publishing(s, i, u)
    BY <1>8 DEF Publishing
  <2>3. ASSUME NEW i, NEW u
        PROVE  Publishing(s, i, u)' <=> (i = n /\ \E t \in DOMAIN r : r[t] = u)
    BY <1>2, <1>6, <1>7 DEF Publishing
  <2>. QED
    BY <2>1, <2>2, <2>3
<1>15. /\ \A i, u : i # n => (OnItsWay(i, u)' <=> OnItsWay(i, u))
       /\ \A u : OnItsWay(n, u)' <=> \E t \in DOMAIN r : r[t] = u
  BY <1>12, <1>13, <1>14 DEF OnItsWay
<1>16. /\ \A i, u : Counting(i, u)' <=> Counting(i, u)
       /\ \A u : ~ Counting(n, u)
  <2>1. st.op # "incr"
    BY <1>2
  <2>. QED
    BY <1>6, <1>8, <1>10, <1>11, <2>1 DEF Counting
<1>17. /\ \A i : i # n => (ToCount(i)' <=> ToCount(i))
       /\ ToCount(n)'
  <2>1. st.op \in {"publish", "push", "trim", "sdiff"}
    BY <1>2
  <2>. QED
    BY <1>6, <1>7, <1>8, <2>1 DEF ToCount
<1>18. /\ \A v, u : Reaches(v, u)' <=> Reaches(v, u)
       /\ \A h : Members(h)' = Members(h)
       /\ onlineGroup' = onlineGroup
       /\ \A i \in Sent : \A u : Excused(i, u)' <=> Excused(i, u)
       /\ \A u : Excused(n, u)' <=> u \in x.overlooked
  BY <1>2, <1>5 DEF vars, sessionVars, redisVars, Reaches, Members, Excused
<1>19. WayOK'
  <2>1. ASSUME NEW v \in Server, group'[v].op = "publish", NEW t \in DOMAIN group'[v].remote
        PROVE  (Excused(group[v].id, group[v].remote[t]) \/ Reaches(t, group[v].remote[t]))'
    <3>1. CASE v = s
      <4>1. PICK u : u = r[t] /\ u = group'[v].remote[t] /\ group'[v].id = n /\ t \in DOMAIN r
        BY <1>2, <1>6, <1>7, <2>1, <3>1
      <4>2. Excused(n, u)' \/ Reaches(t, u)'
        BY <1>3, <1>18, <4>1
      <4>. QED
        BY <4>1, <4>2 DEF Excused, Reaches
    <3>2. CASE v # s
      <4>1. PICK i \in Sent, u \in User :
              /\ i = group[v].id /\ u = group[v].remote[t] /\ group[v].op = "publish"
              /\ t \in DOMAIN group[v].remote
              /\ i = group'[v].id /\ u = group'[v].remote[t]
        <5>1. /\ group'[v] = group[v] /\ group[v].op = "publish" /\ group[v] # NoMsg
              /\ t \in DOMAIN group[v].remote
          BY <1>6, <1>11, <2>1, <3>2
        <5>2. group[v].remote[t] \in User
          BY <5>1, StageTyped, RemoteTyped DEF GroupInv
        <5>. QED
          BY <1>10, <5>1, <5>2
      <4>2. Excused(i, u) \/ Reaches(t, u)
        BY <4>1 DEF Where, WayOK
      <4>3. Excused(i, u)' \/ Reaches(t, u)'
        BY <1>18, <4>2
      <4>. QED
        BY <4>1, <4>3 DEF Excused, Reaches
    <3>. QED
      BY <3>1, <3>2
  <2>2. \A v \in Server, i \in Sent', u \in User :
          OnChannel(v, i, u)' => Excused(i, u)' \/ Reaches(v, u)'
    BY <1>5, <1>12, <1>13, <1>18 DEF Where, WayOK
  <2>. QED
    BY <2>1, <2>2 DEF WayOK
<1>20. FreshOK'
  <2>1. ASSUME NEW v \in Server, group'[v] # NoMsg PROVE groupLog'[group'[v].id].counted = {}
    <3>1. CASE v = s
      BY <1>2, <1>5, <1>6, <1>7, <3>1
    <3>2. CASE v # s
      <4>1. PICK i \in Sent : i = group[v].id /\ i = group'[v].id /\ group[v] # NoMsg
        BY <1>6, <1>10, <2>1, <3>2
      <4>2. groupLog[i].counted = {}
        BY <4>1 DEF Where, FreshOK
      <4>. QED
        BY <1>5, <4>1, <4>2
    <3>. QED
      BY <3>1, <3>2
  <2>. QED
    BY <2>1 DEF FreshOK
<1>21. CoverOK'
  <2>1. ASSUME NEW i \in Sent, NEW u \in Members(groupLog[i].group), Covered(i, u)
        PROVE  Covered(i, u)'
    <3>1. i # n /\ groupLog'[i] = groupLog[i]
      BY <1>4, <1>5
    <3>. QED
      BY <1>15, <1>16, <1>17, <1>18, <2>1, <3>1 DEF Covered
  <2>2. ASSUME NEW u PROVE Covered(n, u)'
    BY <1>2, <1>3, <1>5, <1>15, <1>17, <1>18 DEF Covered
  <2>. QED
    BY <1>5, <1>18, <2>1, <2>2 DEF Where, CoverOK
<1>22. OnceOK'
  <2>1. ASSUME NEW i \in Sent, NEW u \in User
        PROVE  (u \in groupLog'[i].live \/ OnItsWay(i, u)') /\ u \notin groupLog'[i].leaving =>
                 /\ u \notin groupLog'[i].counted /\ ~ Counting(i, u)'
                 /\ ToCount(i)' => u \in onlineGroup'[groupLog'[i].group]
    <3>1. i # n /\ groupLog'[i] = groupLog[i]
      BY <1>4, <1>5
    <3>. QED
      BY <1>15, <1>16, <1>17, <1>18, <3>1 DEF Where, OnceOK
  <2>2. ASSUME NEW u, u \in groupLog'[n].live \/ OnItsWay(n, u)'
        PROVE  /\ u \notin groupLog'[n].counted /\ ~ Counting(n, u)'
               /\ u \in onlineGroup'[groupLog'[n].group]
    BY <1>2, <1>3, <1>5, <1>15, <1>16, <1>18, <2>2
  <2>. QED
    BY <1>5, <2>1, <2>2 DEF OnceOK
<1>. QED
  BY <1>9, <1>19, <1>20, <1>21, <1>22 DEF Where

-----------------------------------------------------------------------------
(* Steps of presence.                                                        *)

\* Uncounted and UnderWay name the messages of ToCount, OnItsWay and the handlers.
LEMMA UnderWayIs ==
  ASSUME GroupInv
  PROVE  /\ \A i : i \in Uncounted <=> ToCount(i)
         /\ \A s \in Server : group[s] # NoMsg => group[s].id \in UnderWay
         /\ \A s \in Server : \A i, u : OnChannel(s, i, u) => i \in UnderWay
<1>1. \A i : i \in Uncounted <=> ToCount(i)
  BY DEF Uncounted, ToCount
<1>2. \A s \in Server : group[s] # NoMsg => group[s].id \in UnderWay
  BY DEF UnderWay
<1>3. ASSUME NEW s \in Server, NEW i, NEW u, OnChannel(s, i, u) PROVE i \in UnderWay
  <2>1. PICK m \in GroupMessage, k \in 1..Len(groupChannel[s]) : groupChannel[s][k] = m /\ m.id = i
    BY <1>3 DEF OnChannel, Elem
  <2>2. groupChannel[s] \in Seq(GroupMessage)
    BY DEF GroupInv, Typed
  <2>3. k \in DOMAIN groupChannel[s]
    BY <2>1, <2>2
  <2>. QED
    BY <2>1, <2>3 DEF UnderWay
<1>. QED
  BY <1>1, <1>2, <1>3

\* What a step of presence does to the log, entry by entry.
LogStep(i) ==
  LET e == groupLog[i]
      f == groupLog'[i]
  IN  /\ f.group = e.group /\ f.from = e.from /\ f.live = e.live /\ f.counted = e.counted
      /\ f.overlooked = e.overlooked /\ f.unheard = e.unheard
      /\ e.joined \subseteq f.joined /\ e.leaving \subseteq f.leaving
      /\ i \in Uncounted => \A u \in onlineGroup'[e.group] : u \in onlineGroup[e.group] \cup f.joined
      /\ i \in UnderWay => /\ Lost \subseteq f.leaving
                           /\ \A u \in onlineGroup[e.group] : u \in onlineGroup'[e.group] \cup f.leaving
      /\ e.cut => f.cut
      /\ \A s \in running \ running' : group[s] # NoMsg /\ group[s].id = i => f.cut

LEMMA LogSteps ==
  ASSUME TypeOK, TypeOK', GroupInv, PresenceStep
  PROVE  /\ groupLog' \in Seq(Entry) /\ Len(groupLog') = Len(groupLog) /\ Sent' = Sent
         /\ \A i \in Sent : LogStep(i)
<1>. DEFINE J(i) == IF i \in Uncounted
                    THEN groupLog[i].joined
                           \cup (onlineGroup'[groupLog[i].group] \ onlineGroup[groupLog[i].group])
                    ELSE groupLog[i].joined
            L(i) == IF i \in UnderWay
                    THEN (groupLog[i].leaving \cup Lost)
                           \cup (onlineGroup[groupLog[i].group] \ onlineGroup'[groupLog[i].group])
                    ELSE groupLog[i].leaving
            C(i) == groupLog[i].cut \/ \E s \in running \ running' : group[s] # NoMsg /\ group[s].id = i
            F(i) == [groupLog[i] EXCEPT !.joined = J(i), !.leaving = L(i), !.cut = C(i)]
<1>1. groupLog' = [i \in Sent |-> F(i)]
  <2>1. DOMAIN groupLog = Sent
    BY DEF GroupInv, Typed, Sent
  <2>. QED
    BY <2>1 DEF PresenceStep
<1>2. Len(groupLog) \in Nat /\ Sent = 1..Len(groupLog)
  BY DEF GroupInv, Typed, Sent
<1>3. ASSUME NEW i \in Sent
      PROVE  F(i) \in Entry /\ LogStep(i)
  <2>1. groupLog[i] \in Entry /\ groupLog[i].group \in Group
    BY EntryTyped DEF GroupInv, Entry
  <2>2. PICK e \in Entry : e = groupLog[i]
    BY <2>1
  <2>3. onlineGroup'[e.group] \subseteq User /\ onlineGroup[e.group] \subseteq User /\ Lost \subseteq User
    BY <2>1, <2>2 DEF TypeOK, Lost
  <2>4. J(i) \in SUBSET User /\ L(i) \in SUBSET User /\ C(i) \in BOOLEAN
    BY <2>2, <2>3 DEF Entry
  <2>5. PICK j \in SUBSET User, l \in SUBSET User, b \in BOOLEAN : j = J(i) /\ l = L(i) /\ b = C(i)
    BY <2>4
  <2>6. F(i) = [e EXCEPT !.joined = j, !.leaving = l, !.cut = b]
    BY <2>2, <2>5, Zenon
  <2>7. groupLog'[i] = F(i)
    BY <1>1
  <2>8. PICK f : f = groupLog'[i] /\ f = [e EXCEPT !.joined = j, !.leaving = l, !.cut = b]
    BY <2>6, <2>7
  <2>9. /\ f \in Entry
        /\ f.group = e.group /\ f.from = e.from /\ f.live = e.live /\ f.counted = e.counted
        /\ f.overlooked = e.overlooked /\ f.unheard = e.unheard
        /\ f.joined = j /\ f.leaving = l /\ f.cut = b
    BY <2>8 DEF Entry
  <2>10. LogStep(i)
    BY <2>2, <2>5, <2>8, <2>9 DEF LogStep
  <2>. QED
    BY <2>7, <2>8, <2>9, <2>10
<1>4. groupLog' \in [1..Len(groupLog) -> Entry]
  BY <1>1, <1>2, <1>3
<1>5. groupLog' \in Seq(Entry) /\ Len(groupLog') = Len(groupLog)
  BY <1>2, <1>4
<1>. QED
  BY <1>3, <1>5 DEF Sent

\* A process that ends takes its handler and its channel with it, and its
\* sessions: those a message was on its way to are leaving.
LEMMA PresenceGroupStep ==
  ASSUME TypeOK, TypeOK', EndedOK', GroupInv, Where, PresenceStep
  PROVE  GroupInv' /\ Where'
<1>1. /\ \A s \in Server : group'[s] = IF s \in running' THEN group[s] ELSE NoMsg
      /\ \A s \in Server : groupChannel'[s] = IF s \in running' THEN groupChannel[s] ELSE <<>>
      /\ groupMsg' = groupMsg
      /\ group' = [s \in Server |-> IF s \in running' THEN group[s] ELSE NoMsg]
      /\ groupChannel' = [s \in Server |-> IF s \in running' THEN groupChannel[s] ELSE <<>>]
  BY DEF PresenceStep
<1>2. /\ groupLog' \in Seq(Entry) /\ Len(groupLog') = Len(groupLog) /\ Sent' = Sent
      /\ \A i \in Sent : LogStep(i)
  BY LogSteps
<1>3. Typed'
  <2>1. NoMsg \in GroupState /\ <<>> \in Seq(GroupMessage)
    BY EmptySeq DEF GroupState
  <2>2. group' \in [Server -> GroupState] /\ groupChannel' \in [Server -> Seq(GroupMessage)]
    BY <1>1, <2>1 DEF GroupInv, Typed
  <2>. QED
    BY <1>1, <1>2, <2>2 DEF GroupInv, Typed
<1>4. \A t \in Server : \A m : Elem(groupChannel'[t], m) => t \in running' /\ Elem(groupChannel[t], m)
  <2>1. \A m : ~ Elem(<<>>, m)
    BY DEF Elem
  <2>. QED
    BY <1>1, <2>1
<1>5. HandlersOK'
  <2>1. \A s \in Server : group'[s] # NoMsg => s \in running' /\ group'[s] = group[s]
    BY <1>1
  <2>. QED
    BY <1>2, <1>4, <2>1 DEF GroupInv, HandlersOK
<1>6. \A s \in Server : group'[s].op # "idle" => group'[s] = group[s] /\ group[s] # NoMsg
  BY <1>1 DEF NoMsg
<1>7. \A s \in Server, i \in Sent :
        group[s] # NoMsg /\ group[s].id = i /\ ~ groupLog'[i].cut => group'[s] = group[s]
  BY <1>1, <1>2 DEF LogStep, GroupInv, HandlersOK
<1>8. \A s \in Server : group[s].op # "idle" => group[s] # NoMsg
  BY DEF NoMsg
<1>9. /\ \A i \in Sent : \A u : Excused(i, u) => Excused(i, u)'
      /\ \A i \in Sent \cap UnderWay, u \in User, t \in Server :
           Reaches(t, u) => Reaches(t, u)' \/ Excused(i, u)'
  BY <1>2 DEF LogStep, Excused, Lost
<1>10. \A t \in Server, u \in User : t \notin running' => ~ Reaches(t, u)'
  BY DEF EndedOK, NoSessions, Reaches
<1>11. \A t \in Server : \A i, u : OnChannel(t, i, u)' => OnChannel(t, i, u)
  BY <1>4 DEF OnChannel
<1>12. \A t \in Server, i \in Sent, u \in User :
         OnChannel(t, i, u) => OnChannel(t, i, u)' \/ Excused(i, u)'
  <2>1. ASSUME NEW t \in Server, NEW i \in Sent, NEW u \in User, OnChannel(t, i, u), t \notin running'
        PROVE  Excused(i, u)'
    BY <1>9, <1>10, <2>1, UnderWayIs DEF Where, WayOK
  <2>2. \A t \in running' : \A i, u : t \in Server /\ OnChannel(t, i, u) => OnChannel(t, i, u)'
    BY <1>1 DEF OnChannel
  <2>. QED
    BY <2>1, <2>2
<1>13. \A s \in Server : \A i, u : Publishing(s, i, u)' => Publishing(s, i, u)
  BY <1>6 DEF Publishing
<1>14. \A i, u : Counting(i, u)' => Counting(i, u)
  BY <1>6 DEF Counting
<1>15. \A i : ToCount(i)' => ToCount(i)
  BY <1>6 DEF ToCount
<1>16. \A i, u : OnItsWay(i, u)' => OnItsWay(i, u)
  BY <1>11, <1>13 DEF OnItsWay
<1>17. \A g : Members(g)' = Members(g)
  BY DEF Members
<1>18. WayOK'
  <2>1. ASSUME NEW s \in Server, group'[s].op = "publish", NEW t \in DOMAIN group'[s].remote
        PROVE  (Excused(group[s].id, group[s].remote[t]) \/ Reaches(t, group[s].remote[t]))'
    <3>1. group'[s] = group[s] /\ group[s] # NoMsg /\ group[s].op = "publish"
      BY <1>6, <2>1
    <3>2. t \in Server /\ group[s].remote[t] \in User /\ group[s].id \in Sent \cap UnderWay
      BY <2>1, <3>1, StageTyped, RemoteTyped, UnderWayIs DEF GroupInv, HandlersOK
    <3>3. PICK i \in Sent \cap UnderWay, u \in User :
            i = group[s].id /\ u = group[s].remote[t] /\ i = group'[s].id /\ u = group'[s].remote[t]
      BY <3>1, <3>2
    <3>4. Excused(i, u) \/ Reaches(t, u)
      BY <2>1, <3>1, <3>3 DEF Where, WayOK
    <3>5. Excused(i, u)' \/ Reaches(t, u)'
      BY <1>9, <3>2, <3>4
    <3>. QED
      BY <3>3, <3>5 DEF Excused, Reaches
  <2>2. \A t \in Server, i \in Sent, u \in User :
          OnChannel(t, i, u)' => Excused(i, u)' \/ Reaches(t, u)'
    BY <1>9, <1>11, UnderWayIs DEF Where, WayOK
  <2>. QED
    BY <1>2, <2>1, <2>2 DEF WayOK
<1>19. FreshOK'
  <2>1. \A s \in Server : group'[s] # NoMsg =>
          group'[s] = group[s] /\ group[s] # NoMsg /\ group[s].id \in Sent
    BY <1>1 DEF GroupInv, HandlersOK
  <2>2. ASSUME NEW s \in Server, group'[s] # NoMsg PROVE groupLog'[group'[s].id].counted = {}
    <3>1. PICK i \in Sent : i = group[s].id /\ i = group'[s].id /\ group[s] # NoMsg
      BY <2>1, <2>2
    <3>2. groupLog[i].counted = {}
      BY <3>1 DEF Where, FreshOK
    <3>. QED
      BY <1>2, <3>1, <3>2 DEF LogStep
  <2>. QED
    BY <2>2 DEF FreshOK
<1>20. CoverOK'
  <2>1. ASSUME NEW i \in Sent, ~ groupLog'[i].cut, NEW u \in Members(groupLog[i].group), Covered(i, u)
        PROVE  Covered(i, u)'
    <3>1. \A s \in Server : group[s] # NoMsg /\ group[s].id = i => group'[s] = group[s]
      BY <1>7, <2>1
    <3>2. ASSUME OnItsWay(i, u) PROVE OnItsWay(i, u)' \/ Excused(i, u)'
      <4>1. u \in User
        BY DEF Members
      <4>2. \A s \in Server : Publishing(s, i, u) => Publishing(s, i, u)'
        BY <1>8, <3>1 DEF Publishing
      <4>. QED
        BY <1>12, <3>2, <4>1, <4>2 DEF OnItsWay
    <3>3. Counting(i, u) => Counting(i, u)'
      BY <1>8, <3>1 DEF Counting
    <3>4. ToCount(i) => ToCount(i)'
      BY <1>8, <3>1 DEF ToCount
    <3>5. Excused(i, u) => Excused(i, u)'
      BY <1>9
    <3>6. LogStep(i) /\ (i \in Uncounted <=> ToCount(i))
      BY <1>2, UnderWayIs
    <3>. QED
      BY <2>1, <3>2, <3>3, <3>4, <3>5, <3>6 DEF Covered, LogStep
  <2>2. \A i \in Sent : (groupLog[i].cut => groupLog'[i].cut) /\ groupLog'[i].group = groupLog[i].group
    BY <1>2 DEF LogStep
  <2>. QED
    BY <1>2, <1>17, <2>1, <2>2 DEF Where, CoverOK
<1>21. OnceOK'
  <2>1. ASSUME NEW i \in Sent, NEW u \in User, u \in groupLog'[i].live \/ OnItsWay(i, u)',
               u \notin groupLog'[i].leaving
        PROVE  /\ u \notin groupLog'[i].counted /\ ~ Counting(i, u)'
               /\ ToCount(i)' => u \in onlineGroup'[groupLog'[i].group]
    <3>1. LogStep(i)
      BY <1>2
    <3>2. (u \in groupLog[i].live \/ OnItsWay(i, u)) /\ u \notin groupLog[i].leaving
      BY <1>16, <2>1, <3>1 DEF LogStep
    <3>3. /\ u \notin groupLog[i].counted /\ ~ Counting(i, u)
          /\ ToCount(i) => u \in onlineGroup[groupLog[i].group]
      BY <3>2 DEF Where, OnceOK
    <3>4. ToCount(i) => i \in UnderWay
      BY <1>8, UnderWayIs DEF ToCount
    <3>. QED
      BY <1>14, <1>15, <2>1, <3>1, <3>3, <3>4 DEF LogStep
  <2>. QED
    BY <1>2, <2>1 DEF OnceOK
<1>. QED
  BY <1>3, <1>5, <1>18, <1>19, <1>20, <1>21 DEF GroupInv, Where

-----------------------------------------------------------------------------
(* The theorems.                                                             *)

LEMMA GroupStart == GroupInit => GroupInv /\ Where
<1>. SUFFICES ASSUME GroupInit PROVE GroupInv /\ Where
  OBVIOUS
<1>1. /\ \A s \in Server : group[s] = NoMsg /\ group[s].op = "idle" /\ groupChannel[s] = <<>>
      /\ groupLog = <<>> /\ Sent = {}
      /\ group \in [Server -> GroupState]
  BY EmptySeq DEF GroupInit, NoMsg, GroupState, Sent
<1>2. \A m : ~ Elem(<<>>, m)
  BY DEF Elem
<1>3. GroupInv
  <2>1. /\ groupChannel \in [Server -> Seq(GroupMessage)]
        /\ groupMsg \in [Group -> Seq(1..MaxMsg)]
        /\ groupLog \in Seq(Entry) /\ Len(groupLog) <= MaxMsg
    BY EmptySeq, GroupAssumption DEF GroupInit
  <2>. QED
    BY <1>1, <1>2, <2>1 DEF GroupInv, Typed, HandlersOK
<1>4. Where
  BY <1>1, <1>2 DEF Where, WayOK, FreshOK, CoverOK, OnceOK
<1>. QED
  BY <1>3, <1>4

LEMMA GroupNextStep ==
  ASSUME TypeOK, TypeOK', EndedOK, EndedOK', GroupInv, Where, [GroupNext]_allVars
  PROVE  GroupInv' /\ Where'
<1>1. CASE PresenceStep
  BY <1>1, PresenceGroupStep
<1>2. ASSUME NEW s \in Server, NEW c \in Conn, NEW g \in Group, SendGroup(s, c, g)
      PROVE  GroupInv' /\ Where'
  BY <1>2, SendStep
<1>3. ASSUME NEW s \in Server, NEW t \in Server, PublishGroup(s, t) PROVE GroupInv' /\ Where'
  BY <1>3, PublishStep
<1>4. ASSUME NEW s \in Server, PushGroup(s) \/ TrimGroup(s) PROVE GroupInv' /\ Where'
  BY <1>4, PushStep
<1>5. ASSUME NEW s \in Server, SdiffGroup(s) PROVE GroupInv' /\ Where'
  BY <1>5, SdiffStep
<1>6. ASSUME NEW s \in Server, IncrGroup(s) PROVE GroupInv' /\ Where'
  BY <1>6, IncrStep
<1>7. ASSUME NEW s \in Server, ConsumeGroup(s) PROVE GroupInv' /\ Where'
  BY <1>7, ConsumeStep
<1>8. ASSUME UNCHANGED <<vars, group, groupChannel, groupMsg, groupLog>> PROVE GroupInv' /\ Where'
  <2>1. GroupInv'
    BY <1>8 DEF vars, GroupInv, Typed, HandlersOK, Sent
  <2>2. UNCHANGED <<group, groupChannel, groupLog, onlineGroup, m_SessionMap, phase>>
    BY <1>8 DEF vars, sessionVars, redisVars
  <2>3. /\ \A s \in Server : \A i, u :
             /\ Publishing(s, i, u)' <=> Publishing(s, i, u)
             /\ OnChannel(s, i, u)' <=> OnChannel(s, i, u)
        /\ \A i, u : Counting(i, u)' <=> Counting(i, u)
        /\ \A i : ToCount(i)' <=> ToCount(i)
        /\ \A i, u : Excused(i, u)' <=> Excused(i, u)
        /\ \A t, u : Reaches(t, u)' <=> Reaches(t, u)
        /\ \A g : Members(g)' = Members(g)
        /\ Sent' = Sent
    BY <2>2 DEF Publishing, OnChannel, Counting, ToCount, Excused, Reaches, Members, Sent
  <2>4. \A i, u : OnItsWay(i, u)' <=> OnItsWay(i, u)
    BY <2>3 DEF OnItsWay
  <2>5. WayOK' /\ FreshOK'
    BY <2>2, <2>3 DEF Where, WayOK, FreshOK
  <2>6. CoverOK' /\ OnceOK'
    BY <2>2, <2>3, <2>4 DEF Where, CoverOK, OnceOK, Covered
  <2>. QED
    BY <2>1, <2>5, <2>6 DEF Where
<1>. QED
  BY <1>1, <1>2, <1>3, <1>4, <1>5, <1>6, <1>7, <1>8
  DEF GroupNext, GroupStep, GroupContinue, Subscribe, allVars, groupVars

\* Where each message is for each member of its group, at every moment.
THEOREM GroupInvariance == GroupSpec => [](GroupInv /\ Where)
<1>1. GroupSpec => [](TypeOK /\ EndedOK)
  <2>1. TypeInv => TypeOK
    BY DEF TypeInv
  <2>. QED
    BY <2>1, GroupImplementsPresence, TypeCorrect, EndedHolds, PTL
<1>2. TypeOK /\ TypeOK' /\ EndedOK /\ EndedOK' /\ GroupInv /\ Where /\ [GroupNext]_allVars
        => GroupInv' /\ Where'
  BY GroupNextStep
<1>. QED
  BY <1>1, <1>2, GroupStart, PTL DEF GroupSpec

\* Of the state alone: what is done has nothing left to count or to hand over.
LEMMA DoneIsReached ==
  ASSUME GroupInv, Where
  PROVE  MembersReached
<1>1. ASSUME NEW i \in DOMAIN groupLog \ UnderWay, ~ groupLog[i].cut,
             NEW u \in Members(groupLog[i].group)
      PROVE  u \in {groupLog[i].from} \cup groupLog[i].live \cup groupLog[i].counted
                   \cup groupLog[i].overlooked \cup groupLog[i].unheard
                   \cup groupLog[i].joined \cup groupLog[i].leaving
  <2>1. i \in Sent
    BY DEF GroupInv, Typed, Sent
  <2>2. Covered(i, u)
    BY <1>1, <2>1 DEF Where, CoverOK
  <2>3. \A s \in Server : group[s].op # "idle" => group[s] # NoMsg
    BY DEF NoMsg
  <2>4. ~ OnItsWay(i, u) /\ ~ Counting(i, u) /\ ~ ToCount(i)
    BY <2>3, UnderWayIs DEF OnItsWay, Publishing, Counting, ToCount
  <2>. QED
    BY <2>2, <2>4 DEF Covered, Excused
<1>. QED
  BY <1>1 DEF MembersReached

\* A message that is done was handed to every member of its group or counted for
\* her, but for those the code passes over, those on a server that was published
\* to before it subscribed, and those who came or went.
THEOREM MembersReachedHolds == GroupSpec => []MembersReached
<1>1. GroupInv /\ Where => MembersReached
  BY DoneIsReached
<1>. QED
  BY <1>1, GroupInvariance, PTL

\* Nobody is handed a message and has it counted as unread as well, but for those
\* who were leaving.
THEOREM ReachedOnceHolds == GroupSpec => []ReachedOnce
<1>1. GroupInv /\ Where => ReachedOnce
  <2>. SUFFICES ASSUME GroupInv, Where PROVE ReachedOnce
    OBVIOUS
  <2>1. ASSUME NEW i \in DOMAIN groupLog, NEW u \in groupLog[i].live \cap groupLog[i].counted
        PROVE  u \in groupLog[i].leaving
    <3>1. i \in Sent /\ u \in User
      BY EntryTyped, <2>1 DEF GroupInv, Typed, Sent, Entry
    <3>. QED
      BY <2>1, <3>1 DEF Where, OnceOK
  <2>. QED
    BY <2>1 DEF ReachedOnce
<1>. QED
  BY <1>1, GroupInvariance, PTL

-----------------------------------------------------------------------------
(* The counters: unreadNumber:<u>:<g> is the number of messages counted for u,
   whence its bound.                                                         *)

CountedFor(u, g) == {i \in Sent : groupLog[i].group = g /\ u \in groupLog[i].counted}

CountOK ==
  /\ unreadNumber \in [User -> [Group -> Nat]]
  /\ \A u \in User, g \in Group : unreadNumber[u][g] = Cardinality(CountedFor(u, g))

\* Nobody is counted by the step.
NoneCounted ==
  /\ unreadNumber' = unreadNumber /\ Sent \subseteq Sent'
  /\ \A i \in Sent : groupLog'[i].group = groupLog[i].group /\ groupLog'[i].counted = groupLog[i].counted
  /\ \A i \in Sent' \ Sent : groupLog'[i].counted = {}

LEMMA NoneCountedKeeps ==
  ASSUME CountOK, NoneCounted
  PROVE  CountOK'
<1>1. ASSUME NEW u, NEW g PROVE CountedFor(u, g)' = CountedFor(u, g)
  <2>1. \A i \in Sent' : groupLog'[i].group = g /\ u \in groupLog'[i].counted => i \in CountedFor(u, g)
    BY DEF NoneCounted, CountedFor
  <2>2. \A i \in Sent : groupLog[i].group = g /\ u \in groupLog[i].counted => i \in CountedFor(u, g)'
    BY DEF NoneCounted, CountedFor
  <2>. QED
    BY <2>1, <2>2 DEF CountedFor
<1>. QED
  BY <1>1 DEF CountOK, NoneCounted

\* A message that one entry of the log is changed for, its group and those
\* counted for it apart, counts nobody.
LEMMA EntryChanged ==
  ASSUME GroupInv, unreadNumber' = unreadNumber, NEW n \in Sent, NEW e \in Entry,
         groupLog' = [groupLog EXCEPT ![n] = e],
         e.group = groupLog[n].group, e.counted = groupLog[n].counted
  PROVE  NoneCounted
<1>1. /\ Len(groupLog') = Len(groupLog) /\ groupLog'[n] = e
      /\ \A j \in Sent \ {n} : groupLog'[j] = groupLog[j]
  BY LogExcept DEF GroupInv
<1>. QED
  BY <1>1 DEF NoneCounted, Sent

LEMMA CountPublish ==
  ASSUME GroupInv, NEW s \in Server, NEW t \in Server, PublishGroup(s, t)
  PROVE  NoneCounted
<1>1. PICK n \in Sent, r \in Remotes, q \in Remotes, U \in SUBSET User, O \in SUBSET User, H \in SUBSET User :
        Published(s, t, n, r, q, U, O, H)
  BY PublishEffect
<1>2. groupLog' = [groupLog EXCEPT ![n] = [groupLog[n] EXCEPT !.overlooked = @ \cup O, !.unheard = @ \cup H]]
  BY <1>1 DEF Published
<1>3. PICK e \in Entry :
        /\ e = [groupLog[n] EXCEPT !.overlooked = @ \cup O, !.unheard = @ \cup H]
        /\ groupLog' = [groupLog EXCEPT ![n] = e]
  <2>1. [groupLog[n] EXCEPT !.overlooked = @ \cup O, !.unheard = @ \cup H] \in Entry
    BY EntryTyped DEF GroupInv, Entry
  <2>. QED
    BY <1>2, <2>1
<1>4. e.group = groupLog[n].group /\ e.counted = groupLog[n].counted
  BY <1>3, EntryTyped DEF GroupInv, Entry
<1>. QED
  BY <1>3, <1>4, EntryChanged DEF PublishGroup

LEMMA CountConsume ==
  ASSUME GroupInv, NEW s \in Server, ConsumeGroup(s)
  PROVE  NoneCounted
<1>1. PICK m \in GroupMessage : m = Head(groupChannel[s]) /\ Elem(groupChannel[s], m)
  BY ElemTail DEF ConsumeGroup, GroupInv, Typed
<1>2. PICK n \in 1..MaxMsg : n = m.id /\ n \in Sent /\ groupLog[n] \in Entry
  BY <1>1, EntryTyped DEF GroupInv, HandlersOK
<1>3. PICK H \in SUBSET User : H = {u \in m.users : Reaches(s, u)}
  BY DEF GroupMessage
<1>4. PICK e \in Entry :
        /\ e = [groupLog[n] EXCEPT !.live = @ \cup H]
        /\ groupLog' = [groupLog EXCEPT ![n] = e]
  BY <1>1, <1>2, <1>3 DEF ConsumeGroup, Entry
<1>5. e.group = groupLog[n].group /\ e.counted = groupLog[n].counted
  BY <1>2, <1>4 DEF Entry
<1>. QED
  BY <1>2, <1>4, <1>5, EntryChanged DEF ConsumeGroup

LEMMA CountSend ==
  ASSUME TypeOK, GroupInv, NEW s \in Server, NEW c \in Conn, NEW g \in Group, SendGroup(s, c, g)
  PROVE  NoneCounted
<1>1. PICK r \in Remotes, x \in Entry, st \in GroupState : Posted(s, g, r, x, st)
  BY SendEffect
<1>2. groupLog \in Seq(Entry) /\ groupLog' = Append(groupLog, x) /\ x.counted = {}
  BY <1>1 DEF Posted, GroupInv, Typed
<1>3. /\ Len(groupLog) \in Nat /\ Len(groupLog') = Len(groupLog) + 1
      /\ groupLog'[Len(groupLog) + 1] = x
      /\ \A j \in 1..Len(groupLog) : groupLog'[j] = groupLog[j]
  BY <1>2, AppendProperties
<1>4. Sent \subseteq Sent' /\ \A i \in Sent' \ Sent : i = Len(groupLog) + 1
  BY <1>3 DEF Sent
<1>5. unreadNumber' = unreadNumber
  BY DEF SendGroup
<1>. QED
  BY <1>2, <1>3, <1>4, <1>5 DEF NoneCounted, Sent

\* INCR: the message was not counted for anybody, and is for each of users now.
LEMMA CountIncr ==
  ASSUME GroupInv, Where, CountOK, NEW s \in Server, IncrGroup(s)
  PROVE  CountOK'
<1>1. PICK n \in 1..MaxMsg :
        n = group[s].id /\ group[s] # NoMsg /\ n \in Sent /\ groupLog[n] \in Entry
  BY StageTyped, EntryTyped DEF IncrGroup, GroupInv, HandlersOK
<1>2. PICK U \in SUBSET User, h \in Group : U = group[s].users /\ h = groupLog[n].group
  BY <1>1, StageTyped DEF IncrGroup, GroupInv, Entry
<1>3. PICK e \in Entry :
        /\ e = [groupLog[n] EXCEPT !.counted = U]
        /\ groupLog' = [groupLog EXCEPT ![n] = e]
  BY <1>1, <1>2 DEF IncrGroup, Entry
<1>4. /\ Len(groupLog') = Len(groupLog) /\ groupLog'[n] = e
      /\ \A j \in Sent \ {n} : groupLog'[j] = groupLog[j]
      /\ e.group = h /\ e.counted = U /\ groupLog[n].counted = {}
  BY <1>1, <1>2, <1>3, LogExcept, SMTT(30) DEF GroupInv, Entry, Where, FreshOK
<1>5. Sent' = Sent
  BY <1>4 DEF Sent
<1>6. unreadNumber' = [u \in User |->
        IF u \in U THEN [unreadNumber[u] EXCEPT ![h] = @ + 1] ELSE unreadNumber[u]]
  BY <1>1, <1>2 DEF IncrGroup, Incr
<1>7. unreadNumber' \in [User -> [Group -> Nat]]
  BY <1>6 DEF CountOK
<1>8. ASSUME NEW u \in User, NEW g \in Group
      PROVE  unreadNumber'[u][g] = Cardinality(CountedFor(u, g)')
  <2>1. IsFiniteSet(CountedFor(u, g))
    BY FS_Interval, FS_Subset DEF CountedFor, Sent, GroupInv, Typed
  <2>2. n \notin CountedFor(u, g)
    BY <1>4 DEF CountedFor
  <2>3. CASE u \in U /\ g = h
    <3>1. CountedFor(u, g)' = CountedFor(u, g) \cup {n}
      BY <1>1, <1>4, <1>5, <2>3 DEF CountedFor
    <3>2. Cardinality(CountedFor(u, g) \cup {n}) = Cardinality(CountedFor(u, g)) + 1
      BY <2>1, <2>2, FS_AddElement
    <3>3. unreadNumber'[u][g] = unreadNumber[u][g] + 1
      BY <1>6, <2>3 DEF CountOK
    <3>. QED
      BY <3>1, <3>2, <3>3 DEF CountOK
  <2>4. CASE ~ (u \in U /\ g = h)
    <3>1. CountedFor(u, g)' = CountedFor(u, g)
      BY <1>1, <1>2, <1>4, <1>5, <2>4 DEF CountedFor
    <3>2. unreadNumber'[u][g] = unreadNumber[u][g]
      BY <1>6, <2>4 DEF CountOK
    <3>. QED
      BY <3>1, <3>2 DEF CountOK
  <2>. QED
    BY <2>3, <2>4
<1>. QED
  BY <1>7, <1>8 DEF CountOK

LEMMA CountStep ==
  ASSUME TypeOK, TypeOK', GroupInv, Where, CountOK, [GroupNext]_allVars
  PROVE  CountOK'
<1>1. CASE PresenceStep
  <2>1. NoneCounted
    BY <1>1, LogSteps DEF NoneCounted, LogStep, PresenceStep
  <2>. QED
    BY <2>1, NoneCountedKeeps
<1>2. ASSUME NEW s \in Server, NEW c \in Conn, NEW g \in Group, SendGroup(s, c, g) PROVE CountOK'
  BY <1>2, CountSend, NoneCountedKeeps
<1>3. ASSUME NEW s \in Server, NEW t \in Server, PublishGroup(s, t) PROVE CountOK'
  BY <1>3, CountPublish, NoneCountedKeeps
<1>4. ASSUME UNCHANGED <<unreadNumber, groupLog>> PROVE CountOK'
  <2>1. NoneCounted
    BY <1>4 DEF NoneCounted, Sent
  <2>. QED
    BY <2>1, NoneCountedKeeps
<1>5. ASSUME NEW s \in Server, PushGroup(s) \/ TrimGroup(s) \/ SdiffGroup(s) PROVE CountOK'
  BY <1>4, <1>5 DEF PushGroup, TrimGroup, SdiffGroup
<1>6. ASSUME NEW s \in Server, IncrGroup(s) PROVE CountOK'
  BY <1>6, CountIncr
<1>7. ASSUME NEW s \in Server, ConsumeGroup(s) PROVE CountOK'
  BY <1>7, CountConsume, NoneCountedKeeps
<1>8. CASE UNCHANGED allVars
  BY <1>4, <1>8 DEF allVars, groupVars
<1>. QED
  BY <1>1, <1>2, <1>3, <1>4, <1>5, <1>6, <1>7, <1>8 DEF GroupNext, GroupStep, GroupContinue, Subscribe

\* unreadNumber:<u>:<g> is the number of messages to g that were counted for u:
\* INCR comes once for each message and user.
THEOREM UnreadNumberCounts == GroupSpec => []CountOK
<1>1. GroupInit => CountOK
  <2>. SUFFICES ASSUME GroupInit PROVE CountOK
    OBVIOUS
  <2>1. \A u, g : CountedFor(u, g) = {}
    BY EmptySeq DEF GroupInit, CountedFor, Sent
  <2>. QED
    BY <2>1, FS_EmptySet DEF GroupInit, CountOK
<1>2. GroupSpec => []TypeOK
  <2>1. TypeInv => TypeOK
    BY DEF TypeInv
  <2>. QED
    BY <2>1, GroupImplementsPresence, TypeCorrect, PTL
<1>3. TypeOK /\ TypeOK' /\ GroupInv /\ Where /\ CountOK /\ [GroupNext]_allVars => CountOK'
  BY CountStep
<1>. QED
  BY <1>1, <1>2, <1>3, GroupInvariance, PTL DEF GroupSpec

\* Every variable of group chat keeps its type; a counter never exceeds the
\* number of messages sent.
THEOREM GroupTypeCorrect == GroupSpec => []GroupTypeOK
<1>1. GroupInv /\ CountOK /\ subscribed \subseteq running => GroupTypeOK
  <2>. SUFFICES ASSUME GroupInv, CountOK, subscribed \subseteq running PROVE GroupTypeOK
    OBVIOUS
  <2>1. ASSUME NEW u \in User, NEW g \in Group PROVE unreadNumber[u][g] \in 0..MaxMsg
    <3>1. Len(groupLog) \in Nat /\ Len(groupLog) <= MaxMsg
      BY DEF GroupInv, Typed
    <3>2. IsFiniteSet(Sent) /\ Cardinality(Sent) = Len(groupLog)
      BY <3>1, FS_Interval, SMTT(30) DEF Sent
    <3>3. CountedFor(u, g) \in SUBSET Sent
      BY DEF CountedFor
    <3>4. Cardinality(CountedFor(u, g)) <= Cardinality(Sent)
      BY <3>2, <3>3, FS_Subset
    <3>5. unreadNumber[u][g] \in Nat /\ unreadNumber[u][g] = Cardinality(CountedFor(u, g))
      BY DEF CountOK
    <3>. QED
      BY <3>1, <3>2, <3>4, <3>5, GroupAssumption
  <2>2. unreadNumber \in [User -> [Group -> 0..MaxMsg]]
    BY <2>1 DEF CountOK
  <2>. QED
    BY <2>2 DEF GroupInv, Typed, GroupTypeOK, GroupMessage
<1>2. GroupSpec => [](subscribed \subseteq running)
  <2>1. GroupInit => subscribed \subseteq running
    BY DEF GroupInit
  <2>2. subscribed \subseteq running /\ [GroupNext]_allVars => (subscribed \subseteq running)'
    BY DEF GroupNext, PresenceStep, GroupStep, SendGroup, GroupContinue, PublishGroup, PushGroup,
           TrimGroup, SdiffGroup, IncrGroup, Subscribe, ConsumeGroup, allVars, groupVars, vars
  <2>. QED
    BY <2>1, <2>2, PTL DEF GroupSpec
<1>. QED
  BY <1>1, <1>2, GroupInvariance, UnreadNumberCounts, PTL
=============================================================================
