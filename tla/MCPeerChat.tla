----------------------------- MODULE MCPeerChat -----------------------------
(* Small instances of PeerChat for TLC.                                      *)
EXTENDS PeerChat, TLC

CONSTANTS c1, c2, c3, s1, s2, u1, u2, g1

\* Two connections of one user, one of another.
MCClientOf == c1 :> u1 @@ c2 :> u1 @@ c3 :> u2

\* One connection of each user.
MCPair == c1 :> u1 @@ c2 :> u2

\* One user is in every group, the other in none.
MCGroupSet == [u \in User |-> IF u = u1 THEN Group ELSE {}]

Symmetry == Permutations({c1, c2}) \cup Permutations(Server)

\* With one connection each and no groups, nothing tells the two users apart.
SwapPair(p) == [u \in {u1, u2} |-> p[u]] @@ [c \in {c1, c2} |-> IF p[MCPair[c]] = u1 THEN c1 ELSE c2]
PairSymmetry == {SwapPair(p) : p \in Permutations({u1, u2})}

\* Who has logged in stays known: a bound of the instance.
LoginsGrow == loginMap \subseteq loginMap'

\* s1 subscribes as soon as it is up; s2 late, before anybody hangs up or asks for
\* anything, any server ends and the second message is sent, or never: a bound of
\* the instance.
OneLate ==
  /\ s1 \in running \ subscribed => s1 \in subscribed'
  /\ s2 \notin subscribed' => Len(sent') <= 1 /\ asked' \cup gone' = {} /\ running' = Server

\* Every server subscribes as soon as it is up: a bound of the instance.
NoneLate == subscribed # running => subscribed' # subscribed

\* A server is shut down: in stop_all, or its sessions were closed by it.
ShutDown == (\E s \in Server : io[s].op = "stopAll") \/ (\E c \in Conn \ gone : phase[c] = "closed")

\* The other user does not hang up, and where a server is shut down she stays away
\* and nobody sends or asks for anything: a bound of the instance.
ShutdownsApart ==
  /\ c3 \notin gone'
  /\ ShutDown' => phase'[c3] = "unused" /\ sent' = <<>> /\ asked' = {}
=============================================================================
