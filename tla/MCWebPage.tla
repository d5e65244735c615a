----------------------------- MODULE MCWebPage -----------------------------
(* Two friends and a group on the chat page.                                 *)
EXTENDS WebPage, TLC

CONSTANTS u1, u2, g1

MCPeer == {u1, u2}
MCGroup == {g1}

\* Nothing tells two friends apart.
MCSymmetry == Permutations(MCPeer)
=============================================================================
