------------------------------ MODULE WebPage ------------------------------
(* The chat page in a browser: websocket/public/js/ChatGood.js and the scripts
   of websocket/views/chat.html.

   A page is single-threaded, and a dispatched click runs its handlers before
   dispatchEvent returns: a handler and all it calls are one action.  What is
   not in its hands is the order of clicks, answers to ajax requests and
   messages from the server.

   The list of tabs starts empty, so chat.html:80 throws, no handler is set on
   an li, and LiElemClick never runs.                                        *)
EXTENDS Naturals, Sequences, SequencesExt

CONSTANTS
  Peer, Group,  \* the friends and groups there are
  MaxMsgs,      \* how many messages are sent and received: a bound
  MaxAsked,     \* how many requests for members are under way: a bound
  None

ASSUME PageAssumption ==
  /\ MaxMsgs \in Nat /\ MaxAsked \in Nat
  /\ Peer \cap Group = {} /\ None \notin Peer \cup Group

VARIABLES
  page,    \* the tabs and sections of the page, see Pages
  lists,   \* lists["friends"], lists["groups"]: "asked", "there" or "failed"
  asked,   \* asked[g]: the requests for the members of g under way
  echoes,  \* the own group messages that the server may still send back
  said     \* history: the messages, in order: of which chat, sent by whom

pageVars == <<page, lists, asked, echoes, said>>

-----------------------------------------------------------------------------
Chat == Peer \cup Group

(* A section: whether it is shown, its messages as numbers in said, and how
   often the list of members was appended.  "opened" and "asked" are history:
   how much was said, and how many requests were under way, as it was made.  *)
Section ==
  [shown : BOOLEAN, log : Seq(1..MaxMsgs), members : Nat,
   opened : 0..MaxMsgs, asked : 0..MaxAsked]

ASSUME NoneIsNoSection == None \notin Section

(* tabs: the list of tabs; current: those with the class tab-current;
   section[c]: the section with the id of c, or None.                        *)
Pages == [tabs : Seq(Chat), current : SUBSET Chat, section : [Chat -> Section \cup {None}]]

PageTypeOK ==
  /\ page \in Pages
  /\ lists \in [{"friends", "groups"} -> {"asked", "there", "failed"}]
  /\ asked \in [Group -> 0..MaxAsked]
  /\ echoes \subseteq 1..Len(said)
  /\ said \in Seq([chat : Chat, mine : BOOLEAN]) /\ Len(said) <= MaxMsgs

\* chat.html asks for both lists as it is loaded.
PageInit ==
  /\ page = [tabs |-> <<>>, current |-> {}, section |-> [c \in Chat |-> None]]
  /\ lists = [l \in {"friends", "groups"} |-> "asked"]
  /\ asked = [g \in Group |-> 0]
  /\ echoes = {} /\ said = <<>>

-----------------------------------------------------------------------------
Tabs(p) == {p.tabs[i] : i \in 1..Len(p.tabs)}

\* querySelector(".tab-current"): the first of the current tabs.
Lasts(p) ==
  {p.tabs[i] : i \in {j \in 1..Len(p.tabs) :
     p.tabs[j] \in p.current /\ \A k \in 1..(j - 1) : p.tabs[k] \notin p.current}}

\* A click on the tab of c, on its a or on the span in it: the last tab and its
\* section lose their classes, then those of c get them.
Clicked(p, c) ==
  [p EXCEPT !.current = (@ \ Lasts(p)) \cup {c},
            !.section = [d \in Chat |-> IF d \in Lasts(p) \cup {c}
                                        THEN [@[d] EXCEPT !.shown = (d = c)] ELSE @[d]]]

\* A new tab for c at the end, and its section.
Added(p, c, section) ==
  [tabs |-> Append(p.tabs, c), current |-> p.current,
   section |-> [p.section EXCEPT ![c] = section]]

\* The new tab is clicked.
Created(p, c, pending) ==
  Clicked(Added(p, c, [shown |-> FALSE, log |-> <<>>, members |-> 0,
                       opened |-> Len(said), asked |-> pending]), c)

\* Mutant: nothing takes over from the current tab.
Closed_Plain(p, i) ==
  [tabs |-> RemoveAt(p.tabs, i),
   current |-> p.current \ {p.tabs[i]},
   section |-> [p.section EXCEPT ![p.tabs[i]] = None]]

\* The section and the tab at i go; the first one left takes over from the current one.
Closed(p, i) ==
  LET c == p.tabs[i]
      rest == [tabs |-> RemoveAt(p.tabs, i),
               current |-> p.current \ {c},
               section |-> [p.section EXCEPT ![c] = None]]
  IN IF c \in p.current /\ rest.tabs # <<>> THEN Clicked(rest, Head(rest.tabs)) ELSE rest

WithSection(p, c, section) == [p EXCEPT !.section[c] = section]

\* Message n is added at the end of the section of c, if there is one.
Appended(p, c, n) ==
  IF p.section[c] = None THEN p
  ELSE WithSection(p, c, [p.section[c] EXCEPT !.log = Append(@, n)])

\* A list of members is added to the section of g, if there is one.
MembersAppended(p, g) ==
  IF p.section[g] = None THEN p
  ELSE WithSection(p, g, [p.section[g] EXCEPT !.members = @ + 1])

-----------------------------------------------------------------------------
(* The answer to a request for a list.  JSON.parse throws at the login page,
   which is what the server answers when the session is not valid.           *)
AppendFriendsList ==
  /\ lists["friends"] = "asked"
  /\ \E answer \in {"there", "failed"} : lists' = [lists EXCEPT !["friends"] = answer]
  /\ UNCHANGED <<page, asked, echoes, said>>

AppendGroupList ==
  /\ lists["groups"] = "asked"
  /\ \E answer \in {"there", "failed"} : lists' = [lists EXCEPT !["groups"] = answer]
  /\ UNCHANGED <<page, asked, echoes, said>>

\* Mutant: only the current tab is looked at.
HandlePeerChat_OnlyCurrent(p) ==
  /\ lists["friends"] = "there"
  /\ page' = IF p \in page.current THEN Clicked(page, p) ELSE Created(page, p, 0)
  /\ UNCHANGED <<lists, asked, echoes, said>>

\* A click on a friend: to the tab that is there, or a new one.
HandlePeerChat(p) ==
  /\ lists["friends"] = "there"
  /\ page' = IF p \in Tabs(page) THEN Clicked(page, p) ELSE Created(page, p, 0)
  /\ UNCHANGED <<lists, asked, echoes, said>>

\* Mutant: a tab that is there asks for the members, too.
HandleGroupChat_AsksAgain(g) ==
  /\ lists["groups"] = "there" /\ asked[g] < MaxAsked
  /\ page' = IF g \in Tabs(page) THEN Clicked(page, g) ELSE Created(page, g, asked[g])
  /\ asked' = [asked EXCEPT ![g] = @ + 1]
  /\ UNCHANGED <<lists, echoes, said>>

\* A click on a group.  A new tab asks for the members.
HandleGroupChat(g) ==
  /\ lists["groups"] = "there"
  /\ \/ /\ g \in Tabs(page)
        /\ page' = Clicked(page, g)
        /\ UNCHANGED asked
     \/ /\ g \notin Tabs(page) /\ asked[g] < MaxAsked
        /\ page' = Created(page, g, asked[g])
        /\ asked' = [asked EXCEPT ![g] = @ + 1]
  /\ UNCHANGED <<lists, echoes, said>>

\* Mutant: an answer may come twice.
AppendGroupMember_Repeated(g) ==
  /\ asked' = [asked EXCEPT ![g] = @ - 1]
  /\ \/ page' = MembersAppended(page, g)
     \/ UNCHANGED page
  /\ UNCHANGED <<lists, echoes, said>>

(* The answer to one of the requests.  Without the section it throws, and so
   does JSON.parse at the login page.                                        *)
AppendGroupMember(g) ==
  /\ asked[g] > 0
  /\ asked' = [asked EXCEPT ![g] = @ - 1]
  /\ \/ page' = MembersAppended(page, g)
     \/ UNCHANGED page
  /\ UNCHANGED <<lists, echoes, said>>

HandleChatClick(c) ==
  /\ c \in Tabs(page)
  /\ page' = Clicked(page, c)
  /\ UNCHANGED <<lists, asked, echoes, said>>

HandleCloseClick(i) ==
  /\ page' = Closed(page, i)
  /\ UNCHANGED <<lists, asked, echoes, said>>

Says(c, mine) ==
  /\ Len(said) < MaxMsgs
  /\ said' = Append(said, [chat |-> c, mine |-> mine])

\* A click on the button of the section that is shown: the message is added, then emitted.
SendClick(c) ==
  /\ page.section[c] # None /\ page.section[c].shown
  /\ Says(c, TRUE)
  /\ page' = Appended(page, c, Len(said) + 1)
  /\ echoes' = IF c \in Group THEN echoes \cup {Len(said) + 1} ELSE echoes
  /\ UNCHANGED <<lists, asked>>

\* A message from a friend, or from another member of a group.
AppendNetPeerMsg(p) ==
  /\ Says(p, FALSE)
  /\ page' = Appended(page, p, Len(said) + 1)
  /\ UNCHANGED <<lists, asked, echoes>>

\* Mutant: those from the user himself are added, too.
NetGroupMsg_Echoed(g, n, mine) == page' = Appended(page, g, n)

\* Those from the user himself are dropped: he is one of the members the server sends to.
NetGroupMsg(g, n, mine) == page' = IF mine THEN page ELSE Appended(page, g, n)

AppendNetGroupMsg(g) ==
  \/ /\ Says(g, FALSE)
     /\ NetGroupMsg(g, Len(said) + 1, FALSE)
     /\ UNCHANGED <<lists, asked, echoes>>
  \/ \E n \in echoes :
       /\ said[n].chat = g
       /\ echoes' = echoes \ {n}
       /\ NetGroupMsg(g, n, TRUE)
       /\ UNCHANGED <<lists, asked, said>>

PageNext ==
  \/ AppendFriendsList \/ AppendGroupList
  \/ \E p \in Peer : HandlePeerChat(p) \/ AppendNetPeerMsg(p)
  \/ \E g \in Group : HandleGroupChat(g) \/ AppendGroupMember(g) \/ AppendNetGroupMsg(g)
  \/ \E c \in Chat : HandleChatClick(c) \/ SendClick(c)
  \/ \E i \in 1..Len(page.tabs) : HandleCloseClick(i)

PageSpec == PageInit /\ [][PageNext]_pageVars

-----------------------------------------------------------------------------
(* When there are tabs one of them is current, and no other, and its section is
   shown, and no other, however tabs were opened, clicked and closed: the
   handlers undo what the last click did by looking for its class
   (ChatGood.js:124-135), which HandleCloseClick may have removed.           *)
OneShown ==
  /\ IF page.tabs = <<>> THEN page.current = {} ELSE \E c \in Tabs(page) : page.current = {c}
  /\ {c \in Chat : page.section[c] # None /\ page.section[c].shown} = page.current

(* No chat has two tabs, and those with a tab are those with a section, so no
   handler finds null where it looks for a section (ChatGood.js:86, 130, 167).  *)
TabsMatchSections ==
  /\ \A i, j \in 1..Len(page.tabs) : page.tabs[i] = page.tabs[j] => i = j
  /\ Tabs(page) = {c \in Chat : page.section[c] # None}

(* A section shows every message of its chat since it was made, sent or
   received, once and in order; the server sends the user's own messages to a
   group back to him, late and in any order (ChatGood.js:321).               *)
LogComplete ==
  \A c \in Tabs(page) :
    LET section == page.section[c]
        shows == section.log
    IN  /\ {shows[i] : i \in 1..Len(shows)}
             = {n \in (section.opened + 1)..Len(said) : said[n].chat = c}
        /\ \A i, j \in 1..Len(shows) : i < j => shows[i] < shows[j]

(* The list of members is appended once, and once more at most for each request
   that was under way as the tab was opened: an answer that comes after the tab
   was closed and opened again goes to the new section (ChatGood.js:262-355).   *)
MembersOnce ==
  \A g \in Group \cap Tabs(page) :
    page.section[g].members + asked[g] <= 1 + page.section[g].asked
=============================================================================
