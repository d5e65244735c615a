------------------------------ MODULE MCLogin ------------------------------
(* Small instances of Login for TLC.                                         *)
EXTENDS Login, TLC

CONSTANTS c1, c2, c3, d1, d2, d3, s1, s2, u1, nobody, g1

\* Two connections of one user, one of a client without a user id.
MCClientOf == c1 :> u1 @@ c2 :> u1 @@ c3 :> nobody
MCGroupSet == [u \in User |-> Group]

\* Two dialogs of the user with the connections, one with no name typed in.
MCUserName == d1 :> u1 @@ d2 :> u1 @@ d3 :> nobody

Symmetry == Permutations({c1, c2}) \cup Permutations({d1, d2})

\* Clients who are told the other server's address give up: a bound of the
\* instance, with which one server has all the sessions.  The client without a
\* user id stays connected.
OneServer == m_sessionSet'[s2] = {} /\ c3 \notin gone'

\* The other server leaves for good, and where one has crashed none is shut down:
\* a bound of the instance.
FewFailures ==
  /\ s2 \in running' => s2 \in running
  /\ crashed' # {} => s2 \in running' /\ Stopping' = {}

\* The dialog without a name is the first, if the button is pressed in it at all,
\* and the login server does not die while it waits: a bound of the instance.
NamelessFirst ==
  /\ dialog[d3] = "idle" /\ dialog'[d3] = "asking" => asked = 0
  /\ dialog'[d3] # "lost"
=============================================================================
