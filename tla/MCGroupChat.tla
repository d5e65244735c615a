---------------------------- MODULE MCGroupChat ----------------------------
(* Three members of one group, a connection each, on three servers whose names
   share a bucket.                                                           *)
EXTENDS GroupChat, TLC

CONSTANTS c1, c2, c3, s1, s2, s3, u1, u2, u3, g1

MCClientOf == c1 :> u1 @@ c2 :> u2 @@ c3 :> u3
MCGroupSet == [u \in User |-> Group]
MCBucket == [s \in Server |-> 0]

\* The members with their connections.
Swap(p) == [u \in {u1, u2, u3} |-> p[u]] @@
           [c \in {c1, c2, c3} |-> CHOOSE d \in {c1, c2, c3} : MCClientOf[d] = p[MCClientOf[c]]]
MemberSymmetry == {Swap(p) : p \in Permutations({u1, u2, u3})}
Symmetry == MemberSymmetry \cup Permutations(Server \ StopHosts)

\* Everybody has logged in when the first client connects, and stays known: a
\* bound of the instance, with which no client is turned away as a stranger.
LoginsFirst ==
  IF loginMap = User THEN loginMap' = User ELSE \A c \in Conn : phase'[c] = "unused"

\* The servers that never end subscribe before the first client connects.  So does
\* the other one, or it serves that client and subscribes late, before it ends,
\* anybody hangs up and the message is done, or never: a bound of the instance.
OneLate ==
  LET quiet == \A c \in Conn : phase'[c] = "unused"
  IN  /\ quiet \/ Server \ StopHosts \subseteq subscribed'
      /\ \A s \in StopHosts \cap running \cap running' :
           \/ quiet \/ s \in subscribed'
           \/ /\ gone' \cup crashed' = {} /\ m_sessionSet'[s] # {}
              /\ groupLog # <<>> => \E t \in Server : group[t] # NoMsg

\* At most two of the three clients hang up: a bound of the instance.
TwoHangUp == gone' # Conn
=============================================================================
