----------------------------- MODULE MCPresence -----------------------------
(* Small instances of Presence for TLC.                                      *)
EXTENDS Presence

CONSTANTS c1, c2, c3, s1, s2, u1, g1

\* One user opens every connection, and belongs to every group.
MCSameClient == [c \in Conn |-> u1]
MCGroupSet == [u \in User |-> Group]
=============================================================================
