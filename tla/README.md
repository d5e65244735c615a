# MutexIM in TLA+

MutexIM is an instant-messaging system: C++ message servers and a C++ login
server, two Node.js servers for the web (chat, and login with sessions), a web
page, and an MFC desktop client. All servers share one Redis database, which is
their only means of coordination. This directory holds TLA+ models of the servers
and the page, the TLC configurations that check them on small instances, and
proofs, checked by TLAPS, of the properties that matter most for instances of any
size.

Source paths below are relative to the repository root; C++ sources of
`server/DemoServer`, `socket.js` and `server.js` of `websocket/websocket`, and
`ChatGood.js` of its `public/js` are named by their file name alone.

## 1. The system

| Component | State it keeps | Operations | Interacts with | Hard behaviour |
|---|---|---|---|---|
| Message server (`server/DemoServer`): presence | per process: `m_sessionSet`, `m_SessionMap`; in Redis: `online:<u>`, `onlineGroup:<g>` | accept, handshake (`onShakeHandleReq`), `Connection_Manager::stop`, `stop_all` | other message servers (Redis keys), login server (`loginMap:<u>`) | handlers of different servers interleave between Redis commands; crash between two commands; undefined behaviour of `erase(end())` |
| Message server: one-to-one chat | `unreadMsg:<u>`, channels `peerMsg:<server>` | `doPeerMsg`, `SubscribePeerMsg`, `onUnreadMsgRequest` | presence keys, subscriber thread, `m_mutex` | routing by a stale key, several servers on one list, two threads |
| Message server: group chat | `groupMsg:<g>`, `unreadNumber:<u>:<g>`, channels `groupMsg:<server>` | `doOnlineGroupMsg`, `doOfflineGroupMsg`, `SubscribeGroupMsg`, `appendGroupMsg` | presence keys, `m_mutex` | members come and go between the commands; one user kept per remote server, one server per hash bucket; counters |
| Message server: friend and group queries | none (reads Redis) | `onAllUsersInfoRequest`, `onAllGroupRequest`, `onGroupMemberRequest` | Redis | indexing with one group or friend |
| Message server: TCP session | `m_socket`, `m_isConnected`, queue of writes | `start`, `read`, `Send`, `stop`, the two completion handlers | `Connection_Manager` | pending completions after `stop`, lifetime through a raw `this` |
| Wire format (`ProtobufCodec`, `MyBuffer`) | stream buffer | `Encode`, `Decode`, `makeSpace` | all C++ parts | delimiter inside a payload |
| Login server (`server/LoginServer`) | `loginMap:<u>`, `serverRank`, `user:<u>` | `onMsgServerRequest`, `onLoginRequest` | login dialogs; message servers (`online:<u>`, `serverRank`) | a message server that leaves between two commands; two logins at once, a failed one undoing the other; a refusal that says SUCCESS |
| Web chat server (`socket.js`) | `userIdMap`, `socketMap`, the presence keys, lists and counters | handshake, peer and group message, disconnect, subscriber of `peerMsg:<server>` | message servers (keys, channels), pages (socket.io) | every handler is a chain of callbacks, and chains overlap; keys deleted whoever owns them; crash with commands on the way |
| Web login and session server (`server.js`) | session and user hashes, cookies, the global `sessionObj` | login, register, logout, check and refresh of a session, lists, unread messages | Redis (two connections), browsers | one object shared by concurrent requests; check then act; answers counted over several callbacks; cookies of two directories |
| Web chat page (`ChatGood.js`, `chat.html`) | the tabs and sections of the DOM | clicks, messages, lists of friends, groups and members | web chat server, web login server (ajax) | clicks in any order among late answers and messages |
| Desktop client (`client/Client`) | login dialog (address, user id), connection, chat dialogs | login dialog, connect and handshake, message handlers | login server, message server | a send before the connect completes |

Properties that make each correct: presence must name a server that really has
the user, each user once, and must be withdrawn in the end; a message must reach
its addressee and nobody else, once, in order, and be kept while she is away;
group members must get each group message once, live or counted as unread; a
session must be valid for the browser it was given to, and no longer than until
the logout; every request must be answered once; the page must show one chat and
every message of it; the completions of a TCP session must not act on one that has
been stopped; a login must reserve a server and release what it reserved; frames
must be parsed as they were sent.

## 2. Modules

| Module | Models | Extends |
|---|---|---|
| `Presence` | message servers: accept, handshake, disconnection, shutdown, crash, restart | - |
| `Login` | the login server, the login dialog and `serverRank`, composed with `Presence` | `Presence` |
| `PeerChat` | one-to-one chat, composed with `Presence` | `Presence` |
| `GroupChat` | group chat, composed with `Presence` | `Presence` |
| `Delivery` | abstract: what a chat service promises about a message | - |
| `WebChat` | `socket.js`, with message servers as its environment | - |
| `WebUnread` | the unread messages of `server.js`, composed with `WebChat` | `WebChat` |
| `WebSession` | login, registration, sessions and lists of `server.js`, with the browsers' cookies | - |
| `WebPage` | the chat page | - |
| `WebChatInv` | the inductive invariants that `WebChatProofs` proves | `WebUnread` |
| `PresenceProofs`, `LoginProofs`, `PeerChatProofs`, `GroupChatProofs`, `WebSessionProofs`, `WebCookieProofs`, `WebChatProofs`, `WebPageProofs` | theorems | the module they are about, `WebChatProofs` by way of `WebChatInv`; those of `Login` and the desktop chat modules also `PresenceProofs`, `WebCookieProofs` also `WebSessionProofs` |
| `MCPresence`, `MCLogin`, `MCPeerChat`, `MCGroupChat`, `MCWebUnread`, `MCWebSession`, `MCWebPage` | small instances for TLC | the module they instantiate |

`PeerChat` and `WebUnread` are each proved to implement `Delivery` under a refinement
mapping (`Fate`); `Login`, `PeerChat` and `GroupChat` are proved to implement `Presence`.

### Presence

A step is one Redis command together with the local work around it, for no other
process can see a process between two of its commands. `io[s]` says which handler
the io thread of server `s` is in and which command comes next:

- handshake (`Server.cpp:173-227`): `ShakeKnown` (HGETALL) ->
  `ShakeAlreadyOnline` or `ShakeRegister` (EXISTS, then the local map) ->
  `ShakeSet` (SET, SMEMBERS) -> `ShakeSadd` for each group -> `ShakeReply`;
- `Connection_Manager::stop` (`Connection_Manager.cpp:20-43`): `StopSession` ->
  `StopDel` (DEL, LRANGE) -> `Srem` for each group LRANGE returned (none: the key
  is a set, so Redis refuses, and the vector is empty) -> `StopErase`, or `EraseEnd` when the entry is missing;
  a session whose user id is empty is only closed;
- `stop_all` (`Connection_Manager.cpp:45-73`): `Shutdown` -> `StopAllDel` for each user ->
  `Srem` for each group -> `StopAllDone`.

`phase[c]` follows a connection as its client sees it. `Crash` ends a process
between any two commands and leaves its keys; `Restart` brings it back on the same
address, where it serves at once. What its subscriber thread does is in `PeerChat` and `GroupChat`. `erase(end())`
(`Connection_Manager.cpp:41`) is undefined: `StopEraseEnd` lets the
process die, `StopEraseThrow` lets an exception reach `main`, which runs
`stop_all`. `handle_write` may run `stop` a second time for a session with
pending writes (`Tcp_Session.cpp:90-93`); that second `stop` starts with an `erase(end())` of
its own (`Connection_Manager.cpp:22`), so to the other processes it is a `Crash` or a `Shutdown`.

The client, the network and the login server are the environment: a client has
logged in as one user, `loginMap:<u>` appears and disappears at any moment, and a
connection may be lost at any moment. A user id may be empty (`Nobody`). It contains no blank, which
`CRedis::HMSet` and others would take for the end of an argument. `crashed` is a history variable, which
no guard reads.

### Login

In `Presence`, `loginMap:<u>` comes and goes at will; here the login server writes it. Its one thread is
in the handler `login`, one step per Redis command, and clients and message servers act between any two:

- `onMsgServerRequest` (`LoginServer/Server.cpp:53-82`): `BestServer` or `NoServer` (ZREVRANGE) -> `Weigh` (ZINCRBY -10)
  -> `Reserve` (HMSET, and the answer);
- `onLoginRequest` (`:84-163`): `LoginOnline` or `LoginOffline` (EXISTS) -> `LoginRight` (HSET, and the answer), or
  `LoginWrong` (HGETALL) -> `Forget` (DEL) -> `GiveBack` (ZINCRBY 10, and the answer).

`dialog[d]` is a run of the login dialog, which asks for a server, then logs in, and waits for each answer
(`DlgLogin.cpp:128-203`). When it closes, `CClientDlg` connects to the address it was told, for the user id of the answer
(`Connect`). `ServerStep` is any other step of `Presence`; the ZADD of a server that starts and the ZREM of one that
is shut down are part of the step. `LoginServerDies` ends the process in the middle of a handler.

Four things the code does show in the model. After a wrong password nothing is set in the answer, and
the default of its result is SUCCESS: the dialog closes with an empty user id (`Nobody`), and the client connects and shakes hands
with it. Nothing checks the name that is typed in either (`DlgLogin.cpp:108-113`, `172-188`): for an empty one the login server
records `loginMap:` as for any other (`LoginServer/Server.cpp:72-78`), and such a client is then let in. If `loginMap:<u>` is gone by then,
`HGETALL` gives no address, and the 10 points go to a member
`:` of `serverRank` (`Nowhere`), which a later ZREVRANGE may return. And ZINCRBY brings back a
server that has left. The scores of such strays are not kept: once there is one (`strays`), it may be the best. `doubled` and
`budget` are history.

### PeerChat

The handlers of chat run on the same io thread as those of presence (`Free`), and hold
`m_mutex`, which the subscriber thread takes to consume a message
(`CanConsume`). A handler of presence does not hold it, so the subscriber thread
runs between any two commands of a handshake or a `stop`. `chat[s]` holds the
stage: `SendLocal`, or `SendRemote` -> `GetOnline` -> `PublishPeerMsg`, or
`PushUnread` (LPUSH) -> `TrimUnread` (LTRIM); and `AskUnread` (LRANGE) ->
`DelUnread` -> `AnswerUnread`. `Subscribe` is the SUBSCRIBE of the thread that the constructor detaches
(`Server.cpp:41-43`, `Redis.cpp:510-551`): the io thread may have registered users before, and where the thread's own connection,
`auth` or `select` fails it ends and the server never subscribes. What is published meanwhile reaches nobody. `channel[s]` is what Redis
has for the subscriber of `s`, in order; it is lost with the process, and so is the subscription. `PresenceStep` is any step of
`Presence`; it waits when the io thread is in a chat handler.

A message carries as history its number and the session it was routed to (`via`).
`sent`, `doubled` and `ousted` are history, except that `sent` bounds the number of messages.
Looking up `m_SessionMap` is atomic here, though the subscriber
thread reads it without a lock against the handlers of presence
(`Connection_Manager.cpp:89`); the handler that asks for unread *group* messages
as well is cut down to its half about peer messages. LTRIM 0 99 keeps 100
elements, where the comment beside it speaks of 99; `Ltrim` keeps `Keep + 1`. Who is written to are `Contacts`: the client
offers its friends and the members of its groups (`DlgFriends.cpp:45`), whose ids are not empty.

### GroupChat

`group[s]` is the stage of the io thread: `SendGroup` (SORT, and the members on this
server are sent the message) -> `PublishGroup` for each bucket of the map of remote
users (`doOnlineGroupMsg`, `Server.cpp:303-362`) -> `PushGroup` (LPUSH) -> `TrimGroup` ->
`SdiffGroup` (SDIFF) -> `IncrGroup` (the INCRs of one pipeline) (`doOfflineGroupMsg`,
`Server.cpp:365-405`). `Subscribe` is as in `PeerChat`, for one SUBSCRIBE names all channels, and
`ConsumeGroup` is `SubscribeGroupMsg` on the subscriber thread. The two
functions take `m_mutex` separately, so the subscriber runs between them (`Locked`).

Two things the code does are modelled as they are. Of the members found on one
remote server `dataUnorderMap` keeps the last read (`Server.cpp:329`, `RemoteMaps`: SORT
has no order, so any). The loop over the buckets publishes the users of all
servers of a bucket on the channel of the first of them (`Server.cpp:350`); which servers share a bucket
is the constant `Bucket`, and which is first is a free choice of `PublishGroup`.

`groupLog` is history: to whom each message was handed, for whom it was counted, whom the code passed
over, for whom it was published to a server that had not subscribed, who joined or left while it was under way, and whether its server ended. No
guard reads it, except for the bound and to know the group of a message.

### Delivery

Five fates of a message: unsent, moving, kept in a list, given, lost. A
message that was given or is lost never changes again, a message is never in two
places (the mapping gives it a fate that `Delivery` does not have), and none comes into being.
A user who asks twice may read an unread message twice: the mappings count that as given.

### WebChat and WebUnread

`socket.js` is single-threaded. A handler queues Redis commands (`pipe`), Redis executes them in order and
queues the replies (`replies`), and a callback runs per reply, which may queue more commands.
Pages, other servers and the subscriber (`channel`, the second connection) act between any two of
these. `Crash(n)` lets the first `n` queued commands reach Redis and drops the rest;
the keys stay. `Subscribe` is the SUBSCRIBE that `listen` queues on `redisSub` (`socket.js:17-25`, `92-95`), which
pages and commands on `redisDB` may precede. `MessageServer` is what message servers do to
the same keys, a command at a time: SET, DEL, SADD and SREM of presence (handshake, `stop`, `stop_all`), LPUSH, LTRIM and DEL of
the lists `unreadMsg:<u>` (`doPeerMsg`, `appendPeerMsg`). Their own state is not kept, so any of these may come at any moment, for the users in
`Remote`, or, LPUSH and LTRIM, for any; an LTRIM follows an LPUSH of theirs that found the list too long. What they store carries the number
0. Left out are their commands
on `groupMsg:<g>` and `unreadNumber:<u>:<g>` and what they publish to this server, none of which touches a message the properties follow.
Sockets are of two kinds: opened by a page as it is loaded, which shakes
hands, and opened by socket.io after a lost connection, which never does
(`chat.html` emits the handshake once). Text is UTF-8 or GBK, so that a decoding that is
forgotten or done twice shows. `userIdMap[id]` on a Map (`socket.js:111`) is always
undefined, so a user on this server is looked up in Redis as well; `PUBLISH groupMsg:<user>`, which uses a
user for a server, reaches nobody.

`WebUnread` adds the handler of `/data/unreadPeerMsg` (`server.js:322-346`), which runs in
another process and deletes from the same lists. It may be answered with a message of a message server.

### WebSession

One process, two connections to Redis (`db` for accounts and lists, `pipe` for sessions). `req[r]` is
a request and how far it has got, `jar[b]` the cookies of a browser, `store[u]` the session of `u`
with its age and time to live, and `sessionObj` the one object that all requests
share: a refresh reads it after TTL, whatever another request has put there since. `cookieSerialize` computes
`opt | {}`, which is 0: no cookie has the path or age that was asked for, so a cookie
set below `/data` is another one than that of `/`. Time is three actions (`HalfHour`,
`NearEnd`, `Lapse`). The histories `owner`, `out`, `mixed`, `contested`, `registered` and `racing` say who logged in where and which
requests overlapped in the ways the properties except.

### WebPage

A handler and all that it calls are one action, as in a browser. `page` holds the tabs in order, the
section of each chat, and the tab with the class of the current one; operators on it (`Clicked`,
`Created`, `Closed`, `Appended`) are the functions of `ChatGood.js`. Requests for
group members are counted (`asked`), and answered at any later moment; the user's own group messages,
which the server sends back, are `echoes`.

## 3. Runs

| Run | Instance | Checks |
|---|---|---|
| `presence_one_server` | the login server and 3 dialogs, one with an empty name; 2 message servers that stop, of which the one that has the sessions crashes and restarts too; 3 connections | `LoginTypeOK`, `ExclusiveSession`, `StopFindsItsEntry`, `BudgetKept`, `LoginsRecorded` |
| `presence_live` | 2 servers, one crashes, stops and restarts; 1 user, 3 connections, 1 group | `OnlineNamesSession`, `MapNamesSession`, `HangUpFreesName` |
| `presence_exclusive` | 2 servers; 1 user, 2 connections | violation of `ExclusiveSession` |
| `presence_online_group` | 1 server; 1 user, 2 connections | violation of `OnlineGroupIsOnline` |
| `peer_safety` | 2 servers, which may be shut down; 2 users, 3 connections, 1 group, 1 message | `OnlyAddressee`, `RoutedToSession`, `DeliveredOnce`, `ReadyInGroups` |
| `peer_order` | 2 servers, one crashes and restarts, one subscribes late or never; 2 users, 2 messages, lists of 1 | `LiveOrder`, `UnreadBound`, `LostKnownWays` |
| `peer_live` | 2 servers, one stops, one subscribes late or never; 2 users, 1 message | `RoutedArrives`, `ImplementsDelivery` |
| `peer_unread_lost` | 2 servers; 2 users, 1 message | violation of `KeptUntilRead` |
| `group_chat` | 3 servers of one bucket, one crashes, stops, restarts and subscribes late or never; 3 users, 1 group, 1 message | `GroupTypeOK`, `MembersReached`, `ReachedOnce` |
| `web_chat` | 2 users with 3 sockets, one of them opened by socket.io; 1 group, 1 reader; 2 moves among messages, crashes and steps of message servers; a late subscription | `UnreadTypeOK`, `MapNamesOpenSocket`, `PresenceSettles`, `LiveInOrder`, `GroupReached`, `PeerLostKnownWays`, `ImplementsDelivery`, `WorkShrinks` |
| `web_session` | 2 users, 2 browsers, 3 requests, 2 of them at once, 2 steps of time | `SessionTypeOK`, `CookieFollowsStore`, `LogoutHolds`, `IdsApart`, `RegistrationLasts`, `AnsweredOnce`, `RevivedOnlyByRace` |
| `web_page` | 2 friends, 1 group, 3 messages, 3 requests for members | `PageTypeOK`, `OneShown`, `TabsMatchSections`, `LogComplete`, `MembersOnce` |

What they show, for the message servers:

- **`OnlineNamesSession`**: `GET online:<u>` never leads to a server without a session of `u`
  in its map, between any two commands, because the handshake maps before SET and
  `stop` deletes the key before it erases the entry. A server that has died without
  clean-up is exempt, for good: nothing removes its keys.
- **`MapNamesSession`**: `findUser` returns a session of the user asked for; it is
  closed only while the io thread is inside `stop` or `stop_all`.
- **`BudgetKept`**: the score of a message server and the points its reservations may still return
  never exceed what there was when it last came or left, though ZREM and ZADD fall between any two commands of
  the login server. Points are lost (a handler that dies, a second reservation of a user, who keeps one), never made.
- **`LoginsRecorded`**: as long as no user is in two unfinished logins at a time, who was let in is
  recorded, with the server she was told, until her handshake, which therefore knows her; who was refused, and believes otherwise, never
  gets a session as long as nobody has asked for a server with an empty name, after which the empty user id is one the message servers let
  in; and `serverRank` holds addresses of servers. With two logins of a user at a time all but the second fail:
  a wrong password in one deletes the record of the other.
- **`ExclusiveSession`, `StopFindsItsEntry`** hold while one server has all sessions. With two, EXISTS and
  SET interleave and one user gets two sessions (`presence_exclusive`).
- **`ReadyInGroups`**: an answered user is in `onlineGroup` of all her groups, with shutdowns
  too, except where `stop_all` of a server she was on is late: it deletes the key first and leaves the
  groups one by one, and a user who reconnects elsewhere in between is
  taken out of them (`ousted`). Nothing else takes out a user with one client.
- **`OnlineGroupIsOnline`** fails: `stop` reads the set `groupSet:<u>` with LRANGE and so
  removes the user from no group.
- **`HangUpFreesName`**: who has hung up everywhere becomes offline.
- **`OnlyAddressee`, `DeliveredOnce`, `LiveOrder`**: a message is handed to its addressee's
  connections, at most once, and in order over one connection.
- **`RoutedToSession`, `RoutedArrives`**: a published message finds the session that GET
  led to, or one that has ended since, and it arrives if the server has subscribed.
- **`LostKnownWays`**: messages are lost only by a DEL of what was not read, by LTRIM, by a PUBLISH to a server
  that serves and has not subscribed, with a connection that ended, with a user who had two clients at work, or around a crash.
- **`UnreadBound`**: a list is longer than LTRIM leaves it only by the pushes that are not trimmed yet.
- **`KeptUntilRead`** fails: a push of another server between LRANGE and DEL is deleted.
- **`MembersReached`**: a group message that is done was handed to each member or counted for
  her; the exceptions are those the code makes (several members on one remote server, several servers in one bucket, who
  disconnected and is still in `onlineGroup`), members on a server that was published to before it subscribed, and members who came or went
  between SORT and SDIFF.
- **`ReachedOnce`**: nobody gets a message and has it counted, except who was leaving:
  the shutdown of a server takes its users out of `onlineGroup` after they may have come back elsewhere.
- **`ImplementsDelivery`**: no message is in two places or comes back.

For the web servers:

- **`MapNamesOpenSocket`**: messages are emitted on open sockets of the right user only, also when
  she has two.
- **`PresenceSettles`**: once nothing that is queued concerns a user, Redis and the process
  agree whether she is here; callbacks of a handshake and a disconnection that overlap leave nothing behind. Users
  touched by message servers or a crash are exempt: nothing clears their keys.
- **`LiveInOrder`**: as for the message servers.
- **`GroupReached`**: SORT and SDIFF on one connection never pass over a member who stays here. Both reach only one whose presence a message server
  changes: `stop_all` may delete `online:<u>`, and take her out of her groups when she has come here and SORT has found her.
- **`PeerLostKnownWays`**: no message to a user who stays, or who stays away, is lost by the server itself. The ways are: she left after it
  was sent; the
  process died; it was published before the subscription; a request answered with one message deleted the list; more than `Keep` later
  ones were sent to her; a message server pushed to her list or deleted it after it was sent.
- **`CookieFollowsStore`**: the browser that logged in last holds an id the store
  knows, in the cookie of `/` or of `/data`, however refreshes change it, unless its requests overlapped. Which of the two it
  presents depends on the path: `/chat` may go on with the stale one (`server.js:32`, `455`).
- **`LogoutHolds`, `RevivedOnlyByRace`**: after the logout it holds none, although only the
  cookie of `/` is cleared; a deleted session comes back only by a refresh that
  was past its GET when the DEL was queued.
- **`IdsApart`**: two users share an id only if `sessionObj` was overwritten during a refresh.
- **`RegistrationLasts`**: a registered name keeps its password, unless two requests registered it at once.
- **`AnsweredOnce`**: every request without an answer waits for exactly the commands that will answer it.

For the page:

- **`OneShown`, `TabsMatchSections`**: in whatever order tabs are opened, clicked and closed, one is
  current, its section alone is shown, and no handler finds null for a section.
- **`LogComplete`**: a section shows the messages of its chat since it was opened, once and in order.
- **`MembersOnce`**: a list of members is there once, and once more at most for each request
  under way as the tab was opened.

### Bounds

Message servers: a connection is used once, so the number of connections bounds reconnection: three let a
user log in on one server, again on another, and a third time while both
are in the middle of a handler, which is what it takes to reach
`EraseEnd` and two sessions of one user. Two servers are what interleaving needs:
a handler sees other processes through Redis only, and the third server could do nothing to
a key that the second cannot. Group chat needs three: the sender's, and two more; the names of all three share
a bucket. In `MCGroupChat`, `LoginsFirst` lets
everybody log in before the first client connects: a client that is turned away is in no map and no
`onlineGroup`, as one that never connects. In `peer_safety`, `LoginsGrow` keeps whom the login server has let in;
strangers may connect before. `loginMap` comes and goes in the other runs of `Presence` and `PeerChat`. 
When a server subscribes is bounded by `OneLate` and `NoneLate`: in `peer_order` and `peer_live` one server subscribes as soon as it is
up, the other after it has served, or never, and what else can go wrong comes after it; in `group_chat` the server that fails subscribes
first or after a client was
registered and before it ends, or never; in `peer_safety` all subscribe at once, since its properties do not depend on it. By `ShutdownsApart` the
shutdowns of `peer_safety` meet the user who reconnects, while nobody sends; by `TwoHangUp` one of the three members of `group_chat` stays.

`Keep` stands for 99 and is 0 or 1, so that lists do overflow with
`MaxMsg` = 2 messages. Crashes and restarts are not bounded; what they may do is bounded
by the connections.

Logins: in `presence_one_server` the constraint `OneServer` lets no client connect to the second server: it takes part in
`serverRank`, so that reservations are spread, and a client told its address gives up. A crash leaves the server in
`serverRank`, a shutdown does not. By `FewFailures` the second server leaves for good, and where one has crashed none is shut down; the first
leaves and comes back between any two commands of the login server, alone or with the second gone. Two dialogs of
one user overlap, are refused or succeed in turn. The third has no name typed in, and its client no user id: by `NamelessFirst` it is the
first, if it asks at all,
and goes on with a wrong password while the others do.
`MaxAsk` = 3 is one request for a server each, or two of one dialog after ONLYONE_ERROR. The connection of the client without a user id
does not end.

Web chat: `MaxMoves` counts messages, requests to read, crashes and steps of message servers together; two
are a message and what may disturb it, or two messages that may overtake each
other, and all handshakes and disconnections of two sockets come besides. The third, which was not opened by a page and only sends,
connects first and stays until a crash (`SenderStays`): without a handshake its comings and goings touch nothing else. One user, of
`Remote`, uses the desktop client as well. By `EarlyOrLate` the server subscribes before the first page connects, or after a message was
published in vain. Web sessions:
`MaxRequests` = 3 with `AtOnce` = 2 are a login and two requests that overlap, which is what every race through
`sessionObj` takes; `MaxAges` = 2 lets a session grow old and come near its end. By
`LastReads` the last request is for a page or a logout: what a login or a registration leaves behind shows in a request that follows it. The
page: three messages and
three requests open a tab, close it and open it again while the first answer is out.

`SYMMETRY` is used in runs of invariants and action properties only, over values that nothing
tells apart: connections, and dialogs, of one user, and servers; in `group_chat` members together with their
connections, and servers that do not fail; in `peer_order` users, again with their connections; sockets of one user; users and browsers;
friends. Deadlock is not checked for
the web modules, whose pages and bounds may simply come to an end.

### Fairness

`Presence!Fairness`: a handler that has begun goes on (the io thread is not
blocked between commands), and a read error that is queued is handled. `PeerFairness`
adds the chat handlers and the subscriber thread, the latter strongly
fair, because it competes for `m_mutex`, which every handler releases. No fairness
makes a client act, a server stop or crash, or a restart happen.

The web modules assume none. What must happen eventually is stated without it: `WorkShrinks` is a measure
that every command, callback and turn of the channel decreases, so what is
queued ends and `PresenceSettles` applies; `AnsweredOnce` says that a request
without an answer has commands queued that will give it one.

## 4. Proofs

### PresenceProofs

Assumed: `PresenceAssumption` (the types of the constants). Proved for any sets of
users, connections, servers and groups:

- `TypeCorrect`: `TypeOK`, with `HandlerNamed` (a handler that names a user to Redis has one),
  without which it is not inductive.
- `Invariance`: the inductive invariant `IInv`. Beyond the types it says that a session
  belongs to one server (`SessionsOK`), a connection has no user before its
  handshake (`UnnamedBefore`), and what a handler has read or written by its stage is
  still so (`HandlerOK`): a session in the handshake is still in `m_sessionSet` and
  `open`; from `ShakeRegister` on, the map has it; after DEL, the key does not name
  this server; in `stop_all`, a key that names this server belongs to a user still to be gone
  through. The last two are what `OnlineNamesSession` needs to survive
  `StopErase` and `StopAllDone`. No other process writes the value `s` to a key, so they are stable.
- `OnlineNamesSessionHolds`, `MapNamesSessionHolds`: from `IInv`.
- `SoleServerStops`, `SoleServerExclusive`: with one server. `SoleInv` says that a
  session with a user is the one in the map, and that the user's key is present or about
  to be set, so EXISTS refuses the next.
- `EndedHolds`: a process that has ended is in no handler and holds no session; a
  message published to it meanwhile finds nobody (used for group chat and for `LostKnownWaysHolds`).

### LoginProofs

Assumed: `PresenceAssumption` and `LoginAssumption` (the types of the constants; `Nobody` is a user id, which may be typed in;
finitely many users).

- `LoginImplementsPresence`: `LoginSpec => Spec`, so the theorems above hold with logins.
- `LoginInvariance`, `LoginTypeCorrect`: the types, with `ServingOK`: the handler's dialog waits for its answer,
  and a server is in its hand when it is passed to ZINCRBY.
- `BudgetKeptHolds`: inductive by itself. `Weigh` moves ten points from the score to the handler's hand, `Reserve` from there
  to the record, `Forget` back into the hand and `GiveBack` to the score; a record that is overwritten or a
  handler that dies loses them. That a record names one server makes the number of records (`OneMoreOrLess`) change by one.
- `LoginsRecordedHolds`: the invariant `Recorded` adds what a dialog knows and the connection its client has (`ClientsOK`), that of two
  unfinished logins of a user the second was noticed (`AloneOK`), that the record of a login under way is there
  (`LoggingOK`), and that no session and no record is of the empty user id (`NamesOK`) until somebody has
  asked for a server with it (`NamelessTold`). Of presence it uses that
  a handshake names a connection after its client (`HandlerOK` of `IInv`).

### PeerChatProofs

Assumed: `PresenceAssumption` and `PeerAssumption` (`MaxMsg` and `Keep` are natural numbers).

- `PeerImplementsPresence`: `PeerSpec => Spec`. A chat handler leaves the variables of
  presence alone, so the theorems above hold with chat and are used below.
- `ChatInvariance`: the inductive invariant `ChatInv`, the types and `Addressed`: the list a
  handler has read for a connection, every unread list and every inbox hold
  messages to that user only. The list in the handler's hand is what makes it
  inductive. A message that comes over a channel is handed to what `findUser`
  returns, and `MapNamesSession` says that this is a session of the addressee;
  no invariant of the channels beyond their type is needed, so a stale key cannot do harm.
- `PeerTypeCorrect`, `OnlyAddresseeHolds`: from `ChatInv`.
- `UnreadBoundHolds`: for finitely many servers. `BoundInv` adds that a server in a
  chat handler is running (`BusyRuns`): as long as no server has died, no step of
  presence ends a process between its LPUSH and its LTRIM.

The other proofs see a step of presence through `SessionStep` (a connection goes from `unused` over `open`
and `ready` to `closed`, gets its user once, and nothing but `stop` takes it off the map) and a step of
chat through the lemma `ChatSteps`, a digest of the kinds of step: what is sent, passed on, handed over,
stored, read, deleted, answered or dropped, or nothing but a subscription. They share `Mapped` (a session in a map is still in
`m_sessionSet`, or closed, and in one map only), `BusyOK` (nothing of its own sessions changes while a
server is in a chat handler, for both run on the io thread), `Twins` (two clients of one user are in `doubled`) and
`Contents` (every message anywhere is one that was sent, with its sender's session; one in a list has no `via`).

- `RoutedToSessionHolds`: for finitely many connections, since `doubled` counts them. `RoutedInv` says
  of a message in a channel, and of one about to be published, that the target's map still has the session
  it was routed to, that this session has ended, or that the user is doubled (`Way`). `StopsOwn` is
  what a `stop` between GET and `findUser` needs: the entry it erases is the one of its own session,
  but for a user who has two. With a dead server nothing is claimed of what Redis holds for it.
- `LiveOrderHolds`: for any number of connections. Numbers rise along every channel and inbox, and per sender what an inbox got
  live is below what is in the channel of the session's server, which is below what is in hand (`LiveInv`). That a
  session is in one map only is what keeps two channels from feeding one inbox.
- `PeerImplementsDelivery`: `PeerSpec => Promise!Spec`. `Placed` says that a message is in hand or in a channel at most once,
  then in no list and in no inbox, and once handed over live in no list. `Shift` says of a step that one message goes
  on, or that one list is read, deleted or answered, and all else at most gets less; from these `FateAt` moves as
  `Delivery` allows, for every message at once.
- `DeliveredOnceHolds`: for finitely many connections. Without a second client, `OnceInv` adds that a message handed over is in no list
  and in no handler that read one (`GivenOnce`), and that a list about to be answered has left `unreadMsg:<u>`.
- `ReadyInGroupsHolds`: for finitely many connections. `KeyInv` says of a user without a second client that the map
  entry of a server is the session of hers it has, or is stopping, and that the key names a server whose entry no handler is about to
  withdraw; `GroupsInv` that she is in the groups her handshake has
  added her to, since with the key set only an ousting step takes her out, and without it she has no answered connection.
- `LostKnownWaysHolds`: for finitely many connections, an action property. Of each kind of step in the digest: what a
  handler drops was routed (`Way` of `RoutedInv`) to a session that has ended or to a user who is doubled, or published to a server that
  serves and has not subscribed, or the handler stores it; a list gets shorter by LTRIM or is deleted by DEL only. The channel of a server
  that stops is the hard case: it
  exits when no session is left (`ExitsEmpty`) and gets none afterwards (`EndedHolds`), so whom its messages were routed to has ended.

### GroupChatProofs

Assumed: `PresenceAssumption` and `GroupAssumption` (the types of `MaxMsg`, `Keep` and `Bucket`). Any users,
groups, servers and messages, whichever server names share a bucket.

- `GroupImplementsPresence`: `GroupSpec => Spec`.
- `GroupInvariance`: the inductive invariant `GroupInv /\ Where`. `GroupInv` gives the types, and
  one running handler to each message in hand. `Where` says where a message is for each member.
  `CoverOK`: she is the sender, was handed it, counted or excused, or it is published or in a channel for
  her, or about to be counted for her, or SDIFF is still to come and she is not in `onlineGroup`.
  `OnceOK`: whom it was, or will be, handed to is not counted, and is in
  `onlineGroup` as long as SDIFF is to come. They need `WayOK` (whom a message is on its way to is found
  at the other end, or excused; here `EndedHolds` is used) and `FreshOK` (nothing
  is counted before its INCR).
- `MembersReachedHolds`, `ReachedOnceHolds`: from it, for a message of which nothing is left.
- `UnreadNumberCounts`, `GroupTypeCorrect`: a counter is the number of messages counted for
  the user, a cardinality, whence its bound in `GroupTypeOK`.

### WebSessionProofs

Assumed: `SessionAssumption` (the types of the constants) and `NoneAssumption` (`None` is neither a number nor a session).
The callbacks of one request are told apart by the command they answer, so the invariant speaks of the
commands that are queued: `Typed`; `Fits` (a command is of the stage of its request);
`Budget` (no id above the number of ids the requests so far can have used up, which is what bounds `lastId`); `WaitsOnce` (a
request waits for as many replies as it has commands on the two connections).

- `SessionTypeCorrect`: from these.
- `AnsweredOnceHolds`: from `WaitsOnce`, a cardinality that every command executed makes one smaller.
- `RegistrationLastsHolds`: `RegistersInv` orders the EXISTS and HMSET of registrations of one name on the connection
  (`RegistersApart`), and says that a HMSET still finds no account (`FreeAtHmset`), but for the names in `contested`.

### WebCookieProofs

Assumed: the same. Proved on top of `WebSessionProofs`.

- `IdsApartHolds`: `HeldApart` extends `IdsApart` to everything that can become a session: what is
  stored, what a SET on its way is to store, and `sessionObj` while somebody's refresh waits for TTL. `Given` says that none of these is
  above `lastId`.
- `RevivedOnlyByRaceHolds`, an action property: `RefreshSafe` says that a DEL of the user never comes between the TTL of a
  refresh and its SET, but for the requests in `racing`.
- `CookieFollowsStoreHolds`: `OwnerHolds`, with `OneRequest` (a browser that asks one thing at a time has one
  request under way, as the user its cookie names) and `AnswerFits` (what an answer may set). It looks one answer ahead: the
  cookies a browser has, or will have when an answer under way is received, hold the id its user will have.
- `LogoutHoldsAlways`: `LogoutInv` says of a browser that has left, or whose logout is under way, that its ids are hidden from every
  command on the connection to come, the DEL of the logout included (`LoggedOut`).

### WebChatProofs

Assumed: `WebAssumption` (the types of the constants, finitely many members of each group) and `UnreadAssumption`. The theorems
are about `UnreadSpec`, so the reader of unread lists, the message servers on the same keys and lists, crashes and restarts are in all of them.

The invariants and what they are built from are in `WebChatInv`.

Nine actions of Redis and seven callbacks touch three queues, so every proof starts from a
digest: `StepsAre` (a step is a page's, one command of Redis, one callback, a step of another process, a crash or a restart),
`RedisIs` and `CallbackIs` (what the command at the head replies and stores, what the callback queues), `PageQueues`.

- `UnreadTypeCorrect`: `Typed`, with the users and messages a queued command or reply may name.
- `MapNamesOpenSocketHolds`: `Registered` adds that an entry of `socketMap` names the user of an open connection, and
  that a process that is down has no entries and hears no replies.
- `PresenceSettlesHolds`: `PresenceInv` reads the queues to their end: what `online:<u>` and `onlineGroup:<g>` will be once the pipeline is
  executed and the callbacks have run (`OnlineEnd`, `GroupEnd`) is what `userIdMap` says now. Every command executed leaves that
  prophecy as it is, every handler changes both sides. On an empty pipeline the prophecy is the store.
- `LiveInOrderHolds`: `LettersInv`. No message overtakes another: GETs, the replies to them, what is passed on and what
  an inbox has are each in order (`LineOrder`), and the stages are behind one another (`StageOrder`).
- `DeliveryImplemented`: `UnreadSpec => Promise!Spec`. `LettersInv` puts a message in one place, `Flow` says that a step moves
  one message on or makes places smaller, and `FateOf` writes `Fate` as a function of the places.
- `PeerLostKnownWaysHolds`: `LossInv`. Every message is somewhere, or excused by one of the ways the property names. It needs that Redis names
  this server, and this server is published to, only for messages that are awaited (`Expected`), that `online:<u>` names this server in the
  end only for a user
  who is present (`HereIsPresent`), that what was asked before a DEL was sent before its user left (`LeftAfter`), what a dead process left
  (`DownGone`), and, for
  what LTRIM cuts, that a list falls in numbers and that what stands behind a message of a message server was sent before that was pushed
  (`Shadows`): so it is
  `meddled` with, or has `Keep` later ones in front of it (`CutExcused`).
- `GroupReachedHolds`: `GroupInv`. `GroupReaches` is the property with every stage in it at which a member may still be reached: by the
  SORT still to come, by its reply, by SDIFF, by the reply to it, by an INCR. To pass from one to the next it needs that
  what is queued together is executed together unless a crash cuts it (`Ordered`, `DownCut`), that SORT
  and SDIFF of a message are asked once (`Tokens`), and that who is in a group is online here unless her SMEMBERS is still queued
  (`JoinedOnline`, `JoinIsNext`, `LeavingNoted`). Of users whose presence a message server changes it says nothing, since any of this may be undone.
- `WorkShrinksHolds`, with `WorkCounts`: an action property. The sum of the weights of a queue is the size of a disjoint union, so lemmas
  on cardinalities give what no induction over the queue can here: the sum of two queues joined (`TotalSum`, by a bijection), and of as many
  SADDs as a reply has groups (`LightWork`). Then every reply weighs less than its command (`RepliesLess`), and what a callback
  queues less than its reply (`QueuesLess`).

### WebPageProofs

Assumed: `PageAssumption`. The inductive invariant `PInv` has the types, `Good` (tabs and sections match, and only
sections are shown), `One` (one current tab, shown alone) and `Owed` (lists of members and
requests under way). One lemma for each function of the page (`ClickedIsOnly`, `AddedIsGood`,
`ClosedIsGood`) says what it makes of a good page. Closing the current tab clicks another in the same action, so `ClosedIsGood`
rests on `ClickedIsOnly`.

- `PageTypeCorrect`, `OneShownHolds`, `TabsMatchSectionsHolds`, `MembersOnceHolds`: from `PInv`.
- `LogCompleteHolds`: `Logged` adds that no section was opened at a number above the messages said, and that its log has
  those of its chat since then, rising. A message said is above all of them (`ShownMore`, `SinceMore`); no function of the page but `Appended`,
  and no opening or closing but that of the chat itself, touches a log (`KeepsLogs`).

### Only model-checked

Liveness: `HangUpFreesName` and `RoutedArrives`. It needs fairness and ENABLED, which the prover does not treat.
Every other property of the passing runs is a theorem. The theorems are about the models as they are: that the three properties
of the other runs fail is shown by TLC's counterexamples.

## 5. Plan

In order of importance:

1. `SessionLifecycle`: completion handlers, the double `stop`, object lifetime; that no
   completion acts on a stopped session once the double `stop` is excluded.
2. `Framing` (codec and buffer, as functions checked against a reference) and `ClientSession`
   (connect and handshake of the desktop client).

## 6. Not modelled

- `appendGroupMsg`, which reads the unread messages of a group and resets the counter: it passes a
  `std::string` through the varargs of `redisCommand` (`Server.cpp:495`), so what LRANGE is asked is undefined. Its
  race with the INCR of another server (`Server.cpp:527`) is listed as a hazard without a property.
- Failing Redis commands and lost Redis connections; the hash `user:<u>` and the comparison of passwords; TLS; the queue of
  writes of a TCP session; the codec; the asynchronous connection of the desktop client (see the plan).
- Handlers that change nothing: the friend and group queries of the message server, `checkUserId`, the
  home, login and register pages. `socket.js` subscribes to `groupMsg:<server>` too and emits what comes without the
  fields a page looks for, so nothing is shown and nothing is stored. `server.js` writes `unreadNumber<u><g>`, without
  the colons, a key that nobody reads.
- Route modules that `server.js` does not load, an older copy of the page's script, and the vendored libraries
  (`jquery-2.1.3.js`, `md5.js`, `pnglib.js`, `identicon.js`, `cbpFWTabs.js`), which are most of the JavaScript lines of
  the repository.
- Generated protobuf code; the user interface and local database of the client; the
  parts of the message server that `main` does not reach (`UDP_Server`, `AsyncRedis`, `Server_Info`).

Hazards of code that is not modelled, beyond those `PROJECT.json` lists, are memory-safety questions (an exception of
`remote_endpoint()` for a peer that has gone, `Tcp_Session.cpp:29`; a `c_str()` handed to a starting thread, `Server.cpp:41`)
and missing checks of a reply or of input (`Server.cpp:659`, `socket.js:41`, `server.js:153`): no
interleaving is needed to meet them, and a model would only restate them.

`PROJECT.json` lists every component with its status, and every hazard with the
properties that cover it or the module that is to.
