---------------------------- MODULE MCWebUnread ----------------------------
(* Small instances of WebUnread for TLC.                                     *)
EXTENDS WebUnread

CONSTANTS k1, k2, k3, u1, u2, g1

\* Two connections of one user, one of another.
MCUserOf == [k \in {k1, k2, k3} |-> IF k = k3 THEN u2 ELSE u1]

\* Every user is in every group.
MCGroupSet == [u \in User |-> Group]

\* The two connections of one user differ in their names only.
MCSymmetry == Permutations({k1, k2})

\* The other user's connects first and stays, unless the process crashes: it only
\* sends.  A bound of the instance.
SenderStays ==
  /\ phase'[k3] = "new" => phase' = phase
  /\ phase[k3] = "open" /\ up' => phase'[k3] = "open"

\* redisSub subscribes before the first page connects, or only after a message was
\* published in vain; until then nothing but messages to users is moved, and at most
\* one of k1 and k2 connects.  A bound of the instance.
EarlyOrLate ==
  LET late == up' /\ \E k \in Sock : phase'[k] = "open"
  IN  /\ late /\ ~subscribed' => moves' = Len(sent') /\ "new" \in {phase'[k1], phase'[k2]}
      /\ late /\ subscribed' # subscribed => unheard # {}
=============================================================================
