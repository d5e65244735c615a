----------------------------- MODULE WebUnread -----------------------------
(* /data/unreadPeerMsg of the web server, websocket/websocket/server.js, beside
   the chat server of WebChat: another process, with a connection to Redis of
   its own, on the same lists unreadMsg:<u>.

   The callback of LRANGE only looks at the reply, answers the request and
   queues the DEL, so it is part of the step of LRANGE.                      *)
EXTENDS WebChat

CONSTANTS Request   \* the requests for unread messages; each is made once

ASSUME UnreadAssumption == "done" \notin User \cup {None} /\ None \notin Stored

VARIABLES
  reading,   \* reading[r]: None, the user of r whose DEL is to come, or "done"
  answer,    \* answer[r]: the message the request was answered with, or None
  asked      \* history: the users who have asked for their unread messages

readVars == <<reading, answer, asked>>
unreadVars == <<webVars, readVars>>

UnreadTypeOK ==
  /\ WebTypeOK
  /\ reading \in [Request -> User \cup {None, "done"}]
  /\ answer \in [Request -> Stored \cup {None}]
  /\ asked \subseteq User

UnreadInit ==
  /\ WebInit
  /\ reading = [r \in Request |-> None]
  /\ answer = [r \in Request |-> None]
  /\ asked = {}

-----------------------------------------------------------------------------
(* LRANGE unreadMsg:<u> 0 -1.  The loop parses reply[0] each time and the answer
   is the last object parsed: the newest message alone, decoded from GBK.    *)
ReadUnread(r, u) ==
  /\ reading[r] = None /\ Move
  /\ reading' = [reading EXCEPT ![r] = u]
  /\ answer' = [answer EXCEPT ![r] =
                  IF unread[u] = <<>> THEN None ELSE DecodeText(Head(unread[u]))]
  /\ asked' = asked \cup {u}
  /\ UNCHANGED <<node, lines, presence, lists, inbox, sent, left, gone, foreign, marks, groupLog>>

\* DEL unreadMsg:<u>, with what was pushed since.
DelUnread(r) ==
  /\ reading[r] \in User
  /\ unread' = [unread EXCEPT ![reading[r]] = <<>>]
  /\ reading' = [reading EXCEPT ![r] = "done"]
  /\ UNCHANGED <<node, lines, presence, groupMsg, unreadNumber, elsewhere, inbox, history,
                 answer, asked>>

UnreadNext ==
  \/ WebNext /\ UNCHANGED readVars
  \/ \E r \in Request : DelUnread(r) \/ \E u \in User : ReadUnread(r, u)

UnreadSpec == UnreadInit /\ [][UnreadNext]_unreadVars

-----------------------------------------------------------------------------
(* Properties.                                                               *)
AnsweredIds == {answer[r].id : r \in {q \in Request : answer[q] # None}} \ {0}

(* Where a message to a user is; "twice", which Delivery does not know, if it is in
   two places.  A message published to a message server has been handed over; one
   that a request was answered with is in the list until the DEL.  What a message
   server reads and deletes counts as lost, though it hands it over.         *)
Fate ==
  LET live == GivenIds
      read == AnsweredIds
      kept == KeptIds
      moving == MovingIds
      twice == (live \cap kept) \cup (moving \cap (live \cup read \cup kept))
  IN  [i \in 1..MaxMoves |->
         IF i > Len(sent) THEN "unsent"
         ELSE IF i \in twice THEN "twice"
         ELSE IF i \in moving THEN "moving"
         ELSE IF i \in live \cup read THEN "given"
         ELSE IF i \in kept THEN "kept" ELSE "lost"]

Promise == INSTANCE Delivery WITH Msg <- 1..MaxMoves, fate <- Fate

(* The chat server with the reader implements Delivery: no message comes back after
   it was handed over, deleted or dropped, and none is in two places, although
   the process, Redis, the channel and the request for unread messages pass it on
   in steps of their own (socket.js:119-140, server.js:333-344).             *)
ImplementsDelivery == Promise!Spec

(* A message to a user is lost in these ways only: she disconnected after it was
   sent and before it came through the channel; a crash touched her or it; it was
   published to this server before redisSub had subscribed (socket.js:23, 94); LTRIM
   cut it behind later ones; a request deleted the list (server.js:344), which is
   answered with one message; or, after it was sent, a message server pushed to the
   list or deleted it (Server.cpp:284, 449).  In particular the server does not lose
   messages to a user who stays, or who stays away.                          *)
PeerLostKnownWays ==
  \A i \in {j \in 1..Len(sent) : Fate[j] = "lost"} :
    \/ left[sent[i]] >= i \/ meddled[sent[i]] >= i
    \/ sent[i] \in gone \cup asked \/ i \in unheard
    \/ Cardinality({j \in 1..Len(sent) : j > i /\ sent[j] = sent[i]}) > Keep
=============================================================================
