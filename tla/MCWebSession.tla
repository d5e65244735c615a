---------------------------- MODULE MCWebSession ----------------------------
(* Small instances of WebSession for TLC.                                    *)
EXTENDS WebSession, TLC

CONSTANTS u1, u2, b1, b2

MCUser == {u1, u2}
MCBrowser == {b1, b2}

\* Nothing tells two users or two browsers apart.
MCSymmetry == Permutations(User) \cup Permutations(Browser)

\* Who logs in or registers does so with one of the first requests, so that there
\* is another to tell what became of it: a bound of the instance.
LastReads ==
  req'[MaxRequests].stage # "unsent" => req'[MaxRequests].url \in {"chat", "data", "logout"}
=============================================================================
