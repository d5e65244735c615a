--------------------------- MODULE WebPageProofs ---------------------------
(* Theorems of WebPage, for any friends and groups and any number of messages
   and requests.                                                             *)
EXTENDS WebPage, SequenceTheorems, TLAPS

-----------------------------------------------------------------------------
(* Pages on which the tabs and the sections belong together, and what is shown
   is what is current: the handlers take such a page to such a page.         *)

Matched(p) ==
  /\ \A i, j \in 1..Len(p.tabs) : p.tabs[i] = p.tabs[j] => i = j
  /\ Tabs(p) = {c \in Chat : p.section[c] # None}
  /\ {c \in Chat : p.section[c] # None /\ p.section[c].shown} = p.current

\* None current, or one: between the removal of the current tab and the click none is.
AtMostOne(p) == p.current = {} \/ \E c \in Tabs(p) : p.current = {c}

One(p) == IF p.tabs = <<>> THEN p.current = {} ELSE \E c \in Tabs(p) : p.current = {c}

Good(p) == p \in Pages /\ Matched(p) /\ AtMostOne(p)

\* After a click on c only c is shown.
Only(p, c) ==
  [tabs |-> p.tabs, current |-> {c},
   section |-> [d \in Chat |-> IF p.section[d] = None THEN None
                               ELSE [p.section[d] EXCEPT !.shown = (d = c)]]]

LEMMA TabsInChat == ASSUME NEW p \in Pages PROVE Tabs(p) \subseteq Chat
BY DEF Pages, Tabs

\* The handler finds the class of the last click wherever it is.
LEMMA LastsIsCurrent ==
  ASSUME NEW p, Good(p) PROVE Lasts(p) = p.current
<1>1. p.tabs \in Seq(Chat)
  BY DEF Good, Pages
<1>2. CASE p.current = {}
  BY <1>2 DEF Lasts
<1>3. CASE \E c \in Tabs(p) : p.current = {c}
  <2>1. PICK c \in Tabs(p) : p.current = {c}
    BY <1>3
  <2>2. PICK i \in 1..Len(p.tabs) : p.tabs[i] = c
    BY DEF Tabs
  <2>3. \A k \in 1..Len(p.tabs) : p.tabs[k] = c <=> k = i
    BY <2>2 DEF Good, Matched
  <2>4. \A k \in 1..(i - 1) : p.tabs[k] \notin p.current
    <3>1. SUFFICES ASSUME NEW k \in 1..(i - 1) PROVE p.tabs[k] \notin p.current
      OBVIOUS
    <3>2. k \in 1..Len(p.tabs) /\ k # i
      BY <1>1, <2>2
    <3>. QED
      BY <2>1, <2>3, <3>2
  <2>5. i \in {j \in 1..Len(p.tabs) :
                 p.tabs[j] \in p.current /\ \A k \in 1..(j - 1) : p.tabs[k] \notin p.current}
    BY <2>1, <2>2, <2>4
  <2>6. c \in Lasts(p)
    BY <2>2, <2>5 DEF Lasts
  <2>7. Lasts(p) \subseteq {c}
    BY <2>1 DEF Lasts
  <2>. QED
    BY <2>1, <2>6, <2>7
<1>. QED
  BY <1>2, <1>3 DEF Good, AtMostOne

\* What a click on the tab of c does.
LEMMA ClickedIsOnly ==
  ASSUME NEW p, Good(p), NEW c \in Tabs(p) PROVE Clicked(p, c) = Only(p, c)
<1>1. /\ p = [tabs |-> p.tabs, current |-> p.current, section |-> p.section]
      /\ p.section \in [Chat -> Section \cup {None}]
  BY DEF Good, Pages
<1>2. c \in Chat /\ p.section[c] # None /\ p.section[c] \in Section
  BY <1>1, TabsInChat DEF Good, Matched
<1>3. Lasts(p) = p.current
  BY LastsIsCurrent
<1>4. \A d \in Chat : d \in p.current <=> p.section[d] # None /\ p.section[d].shown
  BY DEF Good, Matched
<1>5. p.current = {} \/ \E d \in Chat : p.current = {d}
  BY TabsInChat DEF Good, AtMostOne
<1>. DEFINE section == [d \in Chat |-> IF d \in p.current \cup {c}
                                       THEN [p.section[d] EXCEPT !.shown = (d = c)] ELSE p.section[d]]
<1>6. Clicked(p, c) = [tabs |-> p.tabs, current |-> (p.current \ p.current) \cup {c}, section |-> section]
  <2>1. Clicked(p, c) = [p EXCEPT !.current = (p.current \ p.current) \cup {c}, !.section = section]
    BY <1>3 DEF Clicked
  <2>. HIDE DEF section
  <2>. QED
    BY <1>1, <2>1
<1>7. (p.current \ p.current) \cup {c} = {c}
  OBVIOUS
<1>8. ASSUME NEW d \in Chat
      PROVE  section[d] = IF p.section[d] = None THEN None ELSE [p.section[d] EXCEPT !.shown = (d = c)]
  <2>1. CASE p.section[d] = None
    BY <1>2, <1>4, <2>1
  <2>2. CASE p.section[d] # None
    <3>1. p.section[d] \in Section
      BY <1>1, <2>2
    <3>2. CASE d \in p.current \cup {c}
      BY <2>2, <3>2
    <3>3. CASE d \notin p.current \cup {c}
      <4>1. p.section[d].shown = FALSE /\ d # c
        BY <1>4, <2>2, <3>1, <3>3 DEF Section
      <4>2. p.section[d] = [p.section[d] EXCEPT !.shown = FALSE]
        BY <3>1, <4>1 DEF Section
      <4>. QED
        BY <2>2, <3>3, <4>1, <4>2
    <3>. QED
      BY <3>2, <3>3
  <2>. QED
    BY <2>1, <2>2
<1>9. section = [d \in Chat |-> IF p.section[d] = None THEN None
                                ELSE [p.section[d] EXCEPT !.shown = (d = c)]]
  BY <1>8
<1>. QED
  BY <1>6, <1>7, <1>9 DEF Only

\* It leaves a page that is as it should be, with c the one that is shown.
LEMMA OnlyIsGood ==
  ASSUME NEW p, Good(p), NEW c \in Tabs(p)
  PROVE  Good(Only(p, c)) /\ One(Only(p, c))
<1>. DEFINE q == Only(p, c)
<1>1. /\ q.tabs = p.tabs /\ q.current = {c}
      /\ \A d \in Chat : q.section[d] = IF p.section[d] = None THEN None
                                       ELSE [p.section[d] EXCEPT !.shown = (d = c)]
  BY DEF Only
<1>2. c \in Chat /\ p.section[c] # None /\ p \in Pages
  BY TabsInChat DEF Good, Matched
<1>3. \A d \in Chat : p.section[d] # None =>
        /\ q.section[d] \in Section /\ q.section[d].shown = (d = c)
  <2>1. SUFFICES ASSUME NEW d \in Chat, p.section[d] # None
                 PROVE  q.section[d] \in Section /\ q.section[d].shown = (d = c)
    OBVIOUS
  <2>2. p.section[d] \in Section
    BY <1>2, <2>1 DEF Pages
  <2>. QED
    BY <1>1, <2>1, <2>2 DEF Section
<1>4. \A d \in Chat : q.section[d] = None <=> p.section[d] = None
  BY <1>1, <1>3, NoneIsNoSection
<1>5. q \in Pages
  BY <1>1, <1>2, <1>3, <1>4 DEF Only, Pages
<1>6. Tabs(q) = Tabs(p) /\ c \in Tabs(q)
  BY <1>1 DEF Tabs
<1>7. {d \in Chat : q.section[d] # None /\ q.section[d].shown} = {c}
  BY <1>2, <1>3, <1>4
<1>8. Matched(q)
  BY <1>1, <1>4, <1>6, <1>7 DEF Good, Matched
<1>9. One(q)
  <2>1. q.tabs # <<>>
    BY <1>6 DEF Tabs
  <2>. QED
    BY <1>1, <1>6, <2>1 DEF One
<1>. QED
  BY <1>1, <1>5, <1>6, <1>8, <1>9 DEF Good, AtMostOne

\* The handlers that do not ask for members leave the lists of members alone.
KeepsLists(p, q) ==
  \A d \in Chat : q.section[d] # None =>
    /\ p.section[d] # None
    /\ q.section[d].members = p.section[d].members /\ q.section[d].asked = p.section[d].asked

\* Those that show no message leave the messages of a section alone.
KeepsLogs(p, q) ==
  \A d \in Chat : q.section[d] # None =>
    /\ p.section[d] # None
    /\ q.section[d].log = p.section[d].log /\ q.section[d].opened = p.section[d].opened

Keeps(p, q) == KeepsLists(p, q) /\ KeepsLogs(p, q)

LEMMA OnlyKeeps ==
  ASSUME NEW p, Good(p), NEW c PROVE Keeps(p, Only(p, c))
<1>1. \A d \in Chat : p.section[d] # None => p.section[d] \in Section
  BY DEF Good, Pages
<1>2. \A d \in Chat : Only(p, c).section[d] =
        IF p.section[d] = None THEN None ELSE [p.section[d] EXCEPT !.shown = (d = c)]
  BY DEF Only
<1>. QED
  BY <1>1, <1>2, ZenonT(30) DEF Keeps, KeepsLists, KeepsLogs, Section

\* Changing what a section holds, but not whether it is shown, leaves a page as it is.
LEMMA WithSectionIsGood ==
  ASSUME NEW p, Good(p), One(p), NEW c \in Chat, p.section[c] # None,
         NEW section \in Section, section.shown = p.section[c].shown
  PROVE  /\ Good(WithSection(p, c, section)) /\ One(WithSection(p, c, section))
         /\ WithSection(p, c, section).section = [p.section EXCEPT ![c] = section]
<1>. DEFINE q == WithSection(p, c, section)
            sections == [p.section EXCEPT ![c] = section]
<1>1. p \in Pages
  BY DEF Good
<1>2. q = [tabs |-> p.tabs, current |-> p.current, section |-> sections]
  <2>1. q = [p EXCEPT !.section = sections]
    BY DEF WithSection
  <2>. HIDE DEF sections
  <2>. QED
    BY <1>1, <2>1 DEF Pages
<1>3. sections \in [Chat -> Section \cup {None}]
  BY <1>1 DEF Pages
<1>4. q \in Pages
  BY <1>1, <1>2, <1>3 DEF Pages
<1>5. Tabs(q) = Tabs(p)
  BY <1>2 DEF Tabs
<1>6. \A d \in Chat : /\ q.section[d] = None <=> p.section[d] = None
                      /\ q.section[d] # None => q.section[d].shown = p.section[d].shown
  BY <1>1, <1>2, NoneIsNoSection DEF Pages
<1>7. Matched(q)
  BY <1>2, <1>5, <1>6 DEF Good, Matched
<1>. QED
  BY <1>2, <1>4, <1>5, <1>7 DEF Good, AtMostOne, One

\* A new tab at the end, with its section, which is not shown yet.
LEMMA AddedIsGood ==
  ASSUME NEW p, Good(p), NEW c \in Chat \ Tabs(p),
         NEW section \in Section, section.shown = FALSE
  PROVE  LET q == Added(p, c, section)
         IN  Good(q) /\ c \in Tabs(q)
<1>. DEFINE q == Added(p, c, section)
            tabs == Append(p.tabs, c)
            sections == [p.section EXCEPT ![c] = section]
<1>1. p \in Pages /\ p.tabs \in Seq(Chat)
  BY DEF Good, Pages
<1>2. q = [tabs |-> tabs, current |-> p.current, section |-> sections]
  BY DEF Added
<1>3. sections \in [Chat -> Section \cup {None}]
  BY <1>1 DEF Pages
<1>4. /\ tabs \in Seq(Chat) /\ Len(tabs) = Len(p.tabs) + 1
      /\ \A i \in 1..Len(tabs) : tabs[i] = IF i <= Len(p.tabs) THEN p.tabs[i] ELSE c
  BY <1>1, AppendProperties
<1>5. q \in Pages
  BY <1>1, <1>2, <1>3, <1>4 DEF Pages
<1>6. Tabs(q) = Tabs(p) \cup {c}
  <2>1. Len(p.tabs) \in Nat
    BY <1>1, LenProperties
  <2>2. \A i \in 1..Len(p.tabs) : i \in 1..Len(tabs) /\ tabs[i] = p.tabs[i]
    BY <1>4, <2>1
  <2>3. Len(tabs) \in 1..Len(tabs) /\ tabs[Len(tabs)] = c
    BY <1>4, <2>1
  <2>4. \A i \in 1..Len(tabs) : i \in 1..Len(p.tabs) \/ tabs[i] = c
    BY <1>4, <2>1
  <2>5. \A d \in Tabs(p) \cup {c} : \E i \in 1..Len(tabs) : tabs[i] = d
    BY <2>2, <2>3 DEF Tabs
  <2>6. \A i \in 1..Len(tabs) : tabs[i] \in Tabs(p) \cup {c}
    BY <2>2, <2>4 DEF Tabs
  <2>7. Tabs(q) = {tabs[i] : i \in 1..Len(tabs)}
    BY <1>2 DEF Tabs
  <2>. HIDE DEF tabs
  <2>. QED
    BY <2>5, <2>6, <2>7
<1>7. \A i, j \in 1..Len(tabs) : tabs[i] = tabs[j] => i = j
  <2>1. Len(p.tabs) \in Nat
    BY <1>1, LenProperties
  <2>2. \A i \in 1..Len(p.tabs) : p.tabs[i] # c
    BY DEF Tabs
  <2>3. \A i, j \in 1..Len(p.tabs) : p.tabs[i] = p.tabs[j] => i = j
    BY DEF Good, Matched
  <2>. HIDE DEF tabs
  <2>. QED
    BY <1>4, <2>1, <2>2, <2>3
<1>8. p.section[c] = None
  BY DEF Good, Matched
<1>9. \A d \in Chat : /\ q.section[d] # None <=> p.section[d] # None \/ d = c
                      /\ q.section[d] # None /\ q.section[d].shown
                           <=> p.section[d] # None /\ p.section[d].shown
  BY <1>1, <1>2, <1>8, NoneIsNoSection DEF Pages
<1>10. Matched(q)
  <2>1. \A i, j \in 1..Len(q.tabs) : q.tabs[i] = q.tabs[j] => i = j
    <3>. HIDE DEF tabs
    <3>. QED
      BY <1>2, <1>7
  <2>2. Tabs(q) = {d \in Chat : q.section[d] # None}
    <3>1. Tabs(p) = {d \in Chat : p.section[d] # None}
      BY DEF Good, Matched
    <3>. HIDE DEF q
    <3>. QED
      BY <1>6, <1>9, <3>1
  <2>3. {d \in Chat : q.section[d] # None /\ q.section[d].shown} = q.current
    <3>1. {d \in Chat : p.section[d] # None /\ p.section[d].shown} = q.current
      BY <1>2 DEF Good, Matched
    <3>. HIDE DEF q
    <3>. QED
      BY <1>9, <3>1
  <2>. HIDE DEF q
  <2>. QED
    BY <2>1, <2>2, <2>3 DEF Matched
<1>11. AtMostOne(q)
  <2>1. q.current = p.current
    BY <1>2
  <2>. HIDE DEF q
  <2>. QED
    BY <1>6, <2>1 DEF Good, AtMostOne
<1>12. Good(q) /\ c \in Tabs(q)
  <2>. HIDE DEF q
  <2>. QED
    BY <1>5, <1>6, <1>10, <1>11 DEF Good
<1>. QED
  BY <1>12

\* A tab and its section go.
LEMMA RemoveAtRemoves ==
  ASSUME NEW S, NEW s \in Seq(S), NEW k \in 1..Len(s)
  PROVE  /\ RemoveAt(s, k) \in Seq(S)
         /\ Len(RemoveAt(s, k)) = Len(s) - 1
         /\ \A i \in 1..(Len(s) - 1) : RemoveAt(s, k)[i] = IF i < k THEN s[i] ELSE s[i + 1]
<1>. DEFINE before == SubSeq(s, 1, k - 1)
            after == SubSeq(s, k + 1, Len(s))
<1>1. Len(s) \in Nat /\ k \in Int /\ 1 <= k /\ k <= Len(s)
  BY LenProperties
<1>2. /\ before \in Seq(S) /\ Len(before) = k - 1
      /\ \A i \in 1..(k - 1) : before[i] = s[i]
  <2>1. \A i \in 1..(k - 1) : i \in 1..Len(s)
    BY <1>1
  <2>. QED
    BY <1>1, <2>1, SubSeqProperties
<1>3. /\ after \in Seq(S) /\ Len(after) = Len(s) - k
      /\ \A i \in 1..(Len(s) - k) : after[i] = s[k + i]
  <2>1. \A i \in (k + 1)..Len(s) : i \in 1..Len(s)
    BY <1>1
  <2>. QED
    BY <1>1, <2>1, SubSeqProperties
<1>4. RemoveAt(s, k) = before \o after
  BY DEF RemoveAt
<1>. HIDE DEF before, after
<1>5. /\ before \o after \in Seq(S)
      /\ Len(before \o after) = Len(before) + Len(after)
      /\ \A i \in 1..(Len(before) + Len(after)) :
           (before \o after)[i] = IF i <= Len(before) THEN before[i] ELSE after[i - Len(before)]
  BY <1>2, <1>3, ConcatProperties
<1>6. \A i \in 1..(Len(s) - 1) : (before \o after)[i] = IF i < k THEN s[i] ELSE s[i + 1]
  <2>1. SUFFICES ASSUME NEW i \in 1..(Len(s) - 1)
                 PROVE  (before \o after)[i] = IF i < k THEN s[i] ELSE s[i + 1]
    OBVIOUS
  <2>2. CASE i < k
    BY <1>1, <1>2, <1>3, <1>5, <2>2
  <2>3. CASE ~(i < k)
    <3>. DEFINE j == i - (k - 1)
    <3>1. j \in 1..(Len(s) - k) /\ k + j = i + 1
      BY <1>1, <2>3
    <3>2. (before \o after)[i] = after[j]
      BY <1>1, <1>2, <1>3, <1>5, <2>3
    <3>3. after[j] = s[k + j]
      <4>. HIDE DEF j
      <4>. QED
        BY <1>3, <3>1
    <3>. QED
      BY <2>3, <3>1, <3>2, <3>3
  <2>. QED
    BY <2>2, <2>3
<1>. QED
  BY <1>1, <1>2, <1>3, <1>4, <1>5, <1>6

LEMMA RestIsGood ==
  ASSUME NEW p, Good(p), NEW k \in 1..Len(p.tabs)
  PROVE  LET c == p.tabs[k]
             q == [tabs |-> RemoveAt(p.tabs, k), current |-> p.current \ {c},
                   section |-> [p.section EXCEPT ![c] = None]]
         IN  Good(q) /\ Tabs(q) = Tabs(p) \ {c}
<1>. DEFINE c == p.tabs[k]
            tabs == RemoveAt(p.tabs, k)
            sections == [p.section EXCEPT ![c] = None]
            q == [tabs |-> tabs, current |-> p.current \ {c}, section |-> sections]
<1>1. /\ p \in Pages /\ p.tabs \in Seq(Chat) /\ Len(p.tabs) \in Nat
      /\ p.section \in [Chat -> Section \cup {None}]
  BY LenProperties DEF Good, Pages
<1>2. /\ tabs \in Seq(Chat) /\ Len(tabs) = Len(p.tabs) - 1
      /\ \A i \in 1..(Len(p.tabs) - 1) : tabs[i] = IF i < k THEN p.tabs[i] ELSE p.tabs[i + 1]
  BY <1>1, RemoveAtRemoves
<1>3. \A i, j \in 1..Len(p.tabs) : p.tabs[i] = p.tabs[j] => i = j
  BY DEF Good, Matched
<1>4. c \in Tabs(p) /\ c \in Chat
  BY <1>1, TabsInChat DEF Tabs
<1>5. \A i \in 1..Len(tabs) : \E j \in 1..Len(p.tabs) : j # k /\ tabs[i] = p.tabs[j]
  <2>1. SUFFICES ASSUME NEW i \in 1..Len(tabs)
                 PROVE  \E j \in 1..Len(p.tabs) : j # k /\ tabs[i] = p.tabs[j]
    OBVIOUS
  <2>2. CASE i < k
    BY <1>1, <1>2, <2>2
  <2>3. CASE ~(i < k)
    BY <1>1, <1>2, <2>3
  <2>. QED
    BY <2>2, <2>3
<1>6. \A j \in 1..Len(p.tabs) : j # k => \E i \in 1..Len(tabs) : tabs[i] = p.tabs[j]
  <2>1. SUFFICES ASSUME NEW j \in 1..Len(p.tabs), j # k
                 PROVE  \E i \in 1..Len(tabs) : tabs[i] = p.tabs[j]
    OBVIOUS
  <2>2. CASE j < k
    BY <1>1, <1>2, <2>2
  <2>3. CASE j > k
    <3>1. j - 1 \in 1..(Len(p.tabs) - 1) /\ ~(j - 1 < k) /\ (j - 1) + 1 = j
      BY <1>1, <2>3
    <3>. HIDE DEF tabs
    <3>. QED
      BY <1>2, <3>1
  <2>. QED
    BY <2>1, <2>2, <2>3
<1>7. Tabs(q) = Tabs(p) \ {c}
  <2>1. Tabs(q) = {tabs[i] : i \in 1..Len(tabs)}
    BY DEF Tabs
  <2>2. \A d \in Tabs(q) : d \in Tabs(p) \ {c}
    <3>1. SUFFICES ASSUME NEW i \in 1..Len(tabs) PROVE tabs[i] \in Tabs(p) \ {c}
      BY <2>1
    <3>. HIDE DEF tabs
    <3>2. PICK j \in 1..Len(p.tabs) : j # k /\ tabs[i] = p.tabs[j]
      BY <1>5
    <3>3. p.tabs[j] # c
      BY <1>3, <3>2
    <3>. QED
      BY <3>2, <3>3 DEF Tabs
  <2>3. \A d \in Tabs(p) \ {c} : d \in Tabs(q)
    <3>. HIDE DEF tabs, q
    <3>. QED
      BY <1>6, <2>1 DEF Tabs
  <2>. QED
    BY <2>2, <2>3
<1>8. \A i, j \in 1..Len(tabs) : tabs[i] = tabs[j] => i = j
  <2>1. SUFFICES ASSUME NEW i \in 1..Len(tabs), NEW j \in 1..Len(tabs), tabs[i] = tabs[j]
                 PROVE  i = j
    OBVIOUS
  <2>. HIDE DEF tabs
  <2>2. i \in 1..Len(p.tabs) /\ i + 1 \in 1..Len(p.tabs) /\ tabs[i] = IF i < k THEN p.tabs[i] ELSE p.tabs[i + 1]
    BY <1>1, <1>2
  <2>3. j \in 1..Len(p.tabs) /\ j + 1 \in 1..Len(p.tabs) /\ tabs[j] = IF j < k THEN p.tabs[j] ELSE p.tabs[j + 1]
    BY <1>1, <1>2
  <2>. DEFINE I == IF i < k THEN i ELSE i + 1
              J == IF j < k THEN j ELSE j + 1
  <2>4. I \in 1..Len(p.tabs) /\ J \in 1..Len(p.tabs) /\ p.tabs[I] = p.tabs[J]
    BY <2>1, <2>2, <2>3
  <2>5. I = J
    BY <1>3, <2>4
  <2>. QED
    BY <2>5
<1>9. q \in Pages
  BY <1>1, <1>2 DEF Pages
<1>10. \A d \in Chat : sections[d] = IF d = c THEN None ELSE p.section[d]
  BY <1>1
<1>11. Matched(q)
  <2>1. \A i, j \in 1..Len(q.tabs) : q.tabs[i] = q.tabs[j] => i = j
    <3>1. q.tabs = tabs
      OBVIOUS
    <3>. HIDE DEF tabs, q
    <3>. QED
      BY <1>8, <3>1
  <2>2. q.section = sections /\ q.current = p.current \ {c}
    OBVIOUS
  <2>. HIDE DEF q, sections
  <2>3. Tabs(q) = {d \in Chat : q.section[d] # None}
    BY <1>4, <1>7, <1>10, <2>2 DEF Good, Matched
  <2>4. {d \in Chat : q.section[d] # None /\ q.section[d].shown} = q.current
    BY <1>10, <2>2 DEF Good, Matched
  <2>. QED
    BY <2>1, <2>3, <2>4 DEF Matched
<1>12. AtMostOne(q)
  <2>1. q.current = p.current \ {c}
    OBVIOUS
  <2>. HIDE DEF q
  <2>. QED
    BY <1>7, <2>1 DEF Good, AtMostOne
<1>. HIDE DEF q
<1>. QED
  BY <1>7, <1>9, <1>11, <1>12 DEF Good, q

\* When the tab was current the first one left takes over.
LEMMA ClosedIsGood ==
  ASSUME NEW p, Good(p), One(p), NEW k \in 1..Len(p.tabs)
  PROVE  Good(Closed(p, k)) /\ One(Closed(p, k)) /\ Keeps(p, Closed(p, k))
<1>. DEFINE c == p.tabs[k]
            q == [tabs |-> RemoveAt(p.tabs, k), current |-> p.current \ {c},
                  section |-> [p.section EXCEPT ![c] = None]]
<1>1. Good(q) /\ Tabs(q) = Tabs(p) \ {c}
  BY RestIsGood
<1>2. /\ q.current = p.current \ {c}
      /\ q.section = [p.section EXCEPT ![c] = None]
  OBVIOUS
<1>3. Closed(p, k) = IF c \in p.current /\ q.tabs # <<>> THEN Clicked(q, Head(q.tabs)) ELSE q
  BY DEF Closed
<1>4. Keeps(p, q)
  <2>1. p.section \in [Chat -> Section \cup {None}]
    BY DEF Good, Pages
  <2>. QED
    BY <1>2, <2>1 DEF Keeps, KeepsLists, KeepsLogs
<1>. HIDE DEF q
<1>5. CASE c \in p.current /\ q.tabs # <<>>
  <2>1. Head(q.tabs) \in Tabs(q)
    <3>1. q.tabs \in Seq(Chat)
      BY <1>1 DEF Good, Pages
    <3>2. Head(q.tabs) = q.tabs[1] /\ 1 \in 1..Len(q.tabs)
      BY <1>5, <3>1
    <3>. QED
      BY <3>2 DEF Tabs
  <2>2. Clicked(q, Head(q.tabs)) = Only(q, Head(q.tabs))
    BY <1>1, <2>1, ClickedIsOnly
  <2>3. Keeps(q, Only(q, Head(q.tabs)))
    BY <1>1, OnlyKeeps
  <2>4. Keeps(p, Only(q, Head(q.tabs)))
    BY <1>4, <2>3 DEF Keeps, KeepsLists, KeepsLogs
  <2>. QED
    BY <1>1, <1>3, <1>5, <2>1, <2>2, <2>4, OnlyIsGood
<1>6. CASE ~(c \in p.current /\ q.tabs # <<>>)
  <2>1. CASE q.tabs = <<>>
    <3>1. Tabs(q) = {}
      BY <2>1 DEF Tabs
    <3>2. q.current = {}
      BY <1>1, <3>1 DEF Good, AtMostOne
    <3>. QED
      BY <1>1, <1>3, <1>4, <1>6, <2>1, <3>2 DEF One
  <2>2. CASE c \notin p.current /\ q.tabs # <<>>
    <3>1. p.tabs # <<>>
      <4>1. 1..Len(p.tabs) # {}
        OBVIOUS
      <4>. QED
        BY <4>1
    <3>2. PICK d \in Tabs(p) : p.current = {d}
      BY <3>1 DEF One
    <3>3. d \in Tabs(q) /\ q.current = {d}
      BY <1>1, <1>2, <2>2, <3>2
    <3>. QED
      BY <1>1, <1>3, <1>4, <1>6, <2>2, <3>3 DEF One
  <2>. QED
    BY <1>6, <2>1, <2>2
<1>. QED
  BY <1>5, <1>6

LEMMA CreatedIsGood ==
  ASSUME NEW p, Good(p), NEW c \in Chat \ Tabs(p), NEW pending \in 0..MaxAsked,
         Len(said) \in 0..MaxMsgs
  PROVE  /\ Good(Created(p, c, pending)) /\ One(Created(p, c, pending))
         /\ \A d \in Chat : Created(p, c, pending).section[d] # None =>
              LET new == Created(p, c, pending).section[d] IN
              IF d = c THEN /\ new.members = 0 /\ new.asked = pending
                            /\ new.log = <<>> /\ new.opened = Len(said)
              ELSE /\ p.section[d] # None
                   /\ new.members = p.section[d].members /\ new.asked = p.section[d].asked
                   /\ new.log = p.section[d].log /\ new.opened = p.section[d].opened
<1>. DEFINE section == [shown |-> FALSE, log |-> <<>>, members |-> 0,
                        opened |-> Len(said), asked |-> pending]
            q == Added(p, c, section)
<1>1. /\ section \in Section /\ section.shown = FALSE
      /\ section.members = 0 /\ section.asked = pending
      /\ section.log = <<>> /\ section.opened = Len(said)
  BY DEF Section
<1>2. Created(p, c, pending) = Clicked(q, c)
  BY DEF Created
<1>. HIDE DEF section
<1>3. Good(q) /\ c \in Tabs(q)
  BY <1>1, AddedIsGood
<1>4. \A d \in Chat : q.section[d] = IF d = c THEN section ELSE p.section[d]
  BY DEF Good, Pages, Added
<1>. HIDE DEF q
<1>5. Clicked(q, c) = Only(q, c)
  BY <1>3, ClickedIsOnly
<1>6. Keeps(q, Only(q, c))
  BY <1>3, OnlyKeeps
<1>7. Good(Only(q, c)) /\ One(Only(q, c))
  BY <1>3, OnlyIsGood
<1>. QED
  BY <1>1, <1>2, <1>4, <1>5, <1>6, <1>7 DEF Keeps, KeepsLists, KeepsLogs

LEMMA ClickedIsGood ==
  ASSUME NEW p, Good(p), NEW c \in Tabs(p)
  PROVE  Good(Clicked(p, c)) /\ One(Clicked(p, c)) /\ Keeps(p, Clicked(p, c))
BY ClickedIsOnly, OnlyIsGood, OnlyKeeps

LEMMA AppendedIsGood ==
  ASSUME NEW p, Good(p), One(p), NEW c \in Chat, NEW n \in 1..MaxMsgs
  PROVE  LET q == Appended(p, c, n) IN
         /\ Good(q) /\ One(q) /\ KeepsLists(p, q)
         /\ \A d \in Chat : q.section[d] # None =>
              /\ p.section[d] # None /\ q.section[d].opened = p.section[d].opened
              /\ q.section[d].log = IF d = c THEN Append(p.section[d].log, n) ELSE p.section[d].log
<1>1. CASE p.section[c] = None
  BY <1>1 DEF Appended, KeepsLists
<1>2. CASE p.section[c] # None
  <2>. DEFINE section == [p.section[c] EXCEPT !.log = Append(@, n)]
  <2>1. p.section[c] \in Section
    BY <1>2 DEF Good, Pages
  <2>2. Append(p.section[c].log, n) \in Seq(1..MaxMsgs)
    BY <2>1, AppendProperties DEF Section
  <2>3. /\ section \in Section
        /\ section.shown = p.section[c].shown
        /\ section.members = p.section[c].members /\ section.asked = p.section[c].asked
        /\ section.opened = p.section[c].opened /\ section.log = Append(p.section[c].log, n)
    BY <2>1, <2>2 DEF Section
  <2>4. Appended(p, c, n) = WithSection(p, c, section)
    BY <1>2 DEF Appended
  <2>. HIDE DEF section
  <2>5. /\ Good(WithSection(p, c, section)) /\ One(WithSection(p, c, section))
        /\ WithSection(p, c, section).section = [p.section EXCEPT ![c] = section]
    BY <1>2, <2>3, WithSectionIsGood
  <2>6. \A d \in Chat : WithSection(p, c, section).section[d] = IF d = c THEN section ELSE p.section[d]
    BY <2>5 DEF Good, Pages
  <2>. QED
    BY <1>2, <2>3, <2>4, <2>5, <2>6 DEF KeepsLists
<1>. QED
  BY <1>1, <1>2

LEMMA MembersAppendedIsGood ==
  ASSUME NEW p, Good(p), One(p), NEW g \in Group
  PROVE  LET q == MembersAppended(p, g) IN
         /\ Good(q) /\ One(q)
         /\ \A d \in Chat : q.section[d] # None =>
              /\ p.section[d] # None /\ q.section[d].asked = p.section[d].asked
              /\ q.section[d].members = p.section[d].members + IF d = g THEN 1 ELSE 0
         /\ KeepsLogs(p, q)
<1>0. g \in Chat
  BY DEF Chat
<1>1. \A d \in Chat : p.section[d] # None => p.section[d] \in Section /\ p.section[d].members \in Nat
  BY DEF Good, Pages, Section
<1>2. CASE p.section[g] = None
  BY <1>1, <1>2 DEF MembersAppended, KeepsLogs
<1>3. CASE p.section[g] # None
  <2>. DEFINE section == [p.section[g] EXCEPT !.members = @ + 1]
  <2>1. p.section[g] \in Section
    BY <1>0, <1>1, <1>3
  <2>2. p.section[g].members + 1 \in Nat
    BY <1>0, <1>1, <1>3
  <2>3. /\ section \in Section
        /\ section.shown = p.section[g].shown
        /\ section.members = p.section[g].members + 1 /\ section.asked = p.section[g].asked
        /\ section.opened = p.section[g].opened /\ section.log = p.section[g].log
    BY <2>1, <2>2 DEF Section
  <2>4. MembersAppended(p, g) = WithSection(p, g, section)
    BY <1>3 DEF MembersAppended
  <2>. HIDE DEF section
  <2>5. /\ Good(WithSection(p, g, section)) /\ One(WithSection(p, g, section))
        /\ WithSection(p, g, section).section = [p.section EXCEPT ![g] = section]
    BY <1>0, <1>3, <2>3, WithSectionIsGood
  <2>6. \A d \in Chat : WithSection(p, g, section).section[d] = IF d = g THEN section ELSE p.section[d]
    BY <2>5 DEF Good, Pages
  <2>. QED
    BY <1>1, <1>3, <2>3, <2>4, <2>5, <2>6 DEF KeepsLogs
<1>. QED
  BY <1>2, <1>3

-----------------------------------------------------------------------------
(* The invariant: what the handlers rely on, and that no request for members
   was made that its section does not know of.                               *)

Owed(p, pending) ==
  \A g \in Group : p.section[g] # None => p.section[g].members + pending[g] <= 1 + p.section[g].asked

PInv == PageTypeOK /\ Good(page) /\ One(page) /\ Owed(page, asked)

LEMMA OwedKept ==
  ASSUME NEW p, NEW q, NEW pending, Owed(p, pending), KeepsLists(p, q) PROVE Owed(q, pending)
BY DEF Owed, KeepsLists, Chat

LEMMA PInvInit == PageInit => PInv
<1>. SUFFICES ASSUME PageInit PROVE PInv
  OBVIOUS
<1>. USE PageAssumption DEF PageInit
<1>1. page \in Pages
  BY DEF Pages
<1>2. PageTypeOK
  BY <1>1 DEF PageTypeOK
<1>3. Tabs(page) = {}
  BY DEF Tabs
<1>4. Matched(page) /\ AtMostOne(page) /\ One(page)
  <2>1. /\ page.tabs = <<>> /\ page.current = {}
        /\ \A c \in Chat : page.section[c] = None
    OBVIOUS
  <2>2. Len(page.tabs) = 0
    BY <2>1
  <2>3. AtMostOne(page) /\ One(page)
    BY <2>1 DEF AtMostOne, One
  <2>4. \A i, j \in 1..Len(page.tabs) : page.tabs[i] = page.tabs[j] => i = j
    BY <2>2
  <2>5. Tabs(page) = {c \in Chat : page.section[c] # None}
    BY <1>3, <2>1
  <2>6. {c \in Chat : page.section[c] # None /\ page.section[c].shown} = page.current
    BY <2>1
  <2>. QED
    BY <2>3, <2>4, <2>5, <2>6 DEF Matched
<1>5. Owed(page, asked)
  BY DEF Owed, Chat
<1>. QED
  BY <1>1, <1>2, <1>4, <1>5 DEF PInv, Good

LEMMA SaysTypes ==
  ASSUME PageTypeOK, NEW c \in Chat, NEW mine \in BOOLEAN, Says(c, mine)
  PROVE  /\ Len(said) \in 0..MaxMsgs /\ Len(said) + 1 \in 1..MaxMsgs
         /\ said' \in Seq([chat : Chat, mine : BOOLEAN]) /\ Len(said') = Len(said) + 1
<1>. DEFINE Message == [chat : Chat, mine : BOOLEAN]
            message == [chat |-> c, mine |-> mine]
<1>1. said \in Seq(Message) /\ message \in Message /\ said' = Append(said, message)
  BY DEF PageTypeOK, Says
<1>2. Len(said) \in Nat /\ Len(said) < MaxMsgs
  BY <1>1, LenProperties DEF Says
<1>. HIDE DEF Message, message
<1>3. said' \in Seq(Message) /\ Len(said') = Len(said) + 1
  BY <1>1, AppendProperties
<1>. QED
  BY <1>2, <1>3, PageAssumption DEF Message

LEMMA PInvStep == PInv /\ [PageNext]_pageVars => PInv'
<1>. SUFFICES ASSUME PInv, [PageNext]_pageVars PROVE PInv'
  OBVIOUS
<1>0. /\ PageTypeOK /\ Good(page) /\ One(page) /\ Owed(page, asked)
      /\ Len(said) \in 0..MaxMsgs /\ Len(said) \in Nat
  BY PageAssumption, LenProperties DEF PInv, PageTypeOK
\* A step that says nothing, with a page that is as it should be.
<1>1. ASSUME Good(page'), One(page'), Owed(page', asked'), asked' \in [Group -> 0..MaxAsked],
             lists' \in [{"friends", "groups"} -> {"asked", "there", "failed"}],
             echoes' \subseteq echoes, UNCHANGED said
      PROVE  PInv'
  <2>1. PageTypeOK'
    BY <1>0, <1>1 DEF PageTypeOK, Good
  <2>. QED
    BY <1>1, <2>1 DEF PInv, Good, Matched, AtMostOne, One, Owed, Tabs
<1>2. CASE UNCHANGED pageVars
  <2>1. Good(page') /\ One(page') /\ Owed(page', asked')
    BY <1>0, <1>2 DEF pageVars
  <2>. QED
    BY <1>0, <1>1, <1>2, <2>1 DEF pageVars, PageTypeOK
\* A step that says a message of c.
<1>3. ASSUME NEW c \in Chat, NEW mine \in BOOLEAN, Says(c, mine), UNCHANGED <<lists, asked>>,
             page' = Appended(page, c, Len(said) + 1), echoes' \subseteq echoes \cup {Len(said) + 1}
      PROVE  PInv'
  <2>1. /\ Len(said) + 1 \in 1..MaxMsgs
        /\ said' \in Seq([chat : Chat, mine : BOOLEAN]) /\ Len(said') = Len(said) + 1
    BY <1>0, <1>3, SaysTypes
  <2>2. Good(page') /\ One(page') /\ KeepsLists(page, page')
    BY <1>0, <1>3, <2>1, AppendedIsGood
  <2>3. Owed(page', asked')
    BY <1>0, <1>3, <2>2, OwedKept
  <2>4. echoes' \subseteq 1..Len(said')
    BY <1>0, <1>3, <2>1 DEF PageTypeOK
  <2>5. Len(said') <= MaxMsgs
    BY <1>0, <2>1, PageAssumption
  <2>6. PageTypeOK'
    BY <1>0, <1>3, <2>1, <2>2, <2>4, <2>5 DEF PageTypeOK, Good
  <2>. QED
    BY <2>2, <2>3, <2>6 DEF PInv, Good, Matched, AtMostOne, One, Owed, Tabs
<1>4. CASE AppendFriendsList
  BY <1>0, <1>1, <1>4 DEF AppendFriendsList, PageTypeOK
<1>5. CASE AppendGroupList
  BY <1>0, <1>1, <1>5 DEF AppendGroupList, PageTypeOK
<1>6. ASSUME NEW p \in Peer, HandlePeerChat(p) PROVE PInv'
  <2>1. CASE p \in Tabs(page)
    <3>1. page' = Clicked(page, p)
      BY <1>6, <2>1 DEF HandlePeerChat
    <3>2. Good(page') /\ One(page') /\ KeepsLists(page, page')
      BY <1>0, <2>1, <3>1, ClickedIsGood DEF Keeps
    <3>3. Owed(page', asked)
      BY <1>0, <3>2, OwedKept
    <3>. QED
      BY <1>0, <1>1, <1>6, <3>2, <3>3 DEF HandlePeerChat, PageTypeOK
  <2>2. CASE p \notin Tabs(page)
    <3>1. page' = Created(page, p, 0)
      BY <1>6, <2>2 DEF HandlePeerChat
    <3>2. p \in Chat \ Tabs(page) /\ p \notin Group /\ 0 \in 0..MaxAsked
      BY <2>2, PageAssumption DEF Chat
    <3>3. Good(page') /\ One(page') /\ Owed(page', asked)
      BY <1>0, <3>1, <3>2, CreatedIsGood DEF Owed, Chat
    <3>. QED
      BY <1>0, <1>1, <1>6, <3>3 DEF HandlePeerChat, PageTypeOK
  <2>. QED
    BY <2>1, <2>2
<1>7. ASSUME NEW p \in Peer, AppendNetPeerMsg(p) PROVE PInv'
  BY <1>3, <1>7 DEF AppendNetPeerMsg, Chat
<1>8. ASSUME NEW g \in Group, HandleGroupChat(g) PROVE PInv'
  <2>0. g \in Chat /\ asked[g] \in 0..MaxAsked
    BY <1>0 DEF Chat, PageTypeOK
  <2>1. CASE g \in Tabs(page) /\ page' = Clicked(page, g) /\ UNCHANGED asked
    <3>1. Good(page') /\ One(page') /\ KeepsLists(page, page')
      BY <1>0, <2>1, ClickedIsGood DEF Keeps
    <3>2. Owed(page', asked')
      BY <1>0, <2>1, <3>1, OwedKept
    <3>. QED
      BY <1>0, <1>1, <1>8, <2>1, <3>1, <3>2 DEF HandleGroupChat, PageTypeOK
  <2>2. CASE /\ g \notin Tabs(page) /\ asked[g] < MaxAsked
             /\ page' = Created(page, g, asked[g])
             /\ asked' = [asked EXCEPT ![g] = @ + 1]
    <3>1. /\ asked' \in [Group -> 0..MaxAsked]
          /\ \A h \in Group : asked'[h] = asked[h] + IF h = g THEN 1 ELSE 0
      BY <1>0, <2>0, <2>2, PageAssumption DEF PageTypeOK
    <3>2. Good(page') /\ One(page')
      BY <1>0, <2>0, <2>2, CreatedIsGood
    <3>3. Owed(page', asked')
      <4>1. SUFFICES ASSUME NEW h \in Group, page'.section[h] # None
                     PROVE  page'.section[h].members + asked'[h] <= 1 + page'.section[h].asked
        BY DEF Owed
      <4>2. h \in Chat /\ asked[h] \in 0..MaxAsked
        BY <1>0 DEF Chat, PageTypeOK
      <4>3. IF h = g THEN page'.section[h].members = 0 /\ page'.section[h].asked = asked[g]
            ELSE /\ page.section[h] # None
                 /\ page'.section[h].members = page.section[h].members
                 /\ page'.section[h].asked = page.section[h].asked
        BY <1>0, <2>0, <2>2, <4>1, <4>2, CreatedIsGood
      <4>. QED
        BY <1>0, <3>1, <4>2, <4>3 DEF Owed
    <3>. QED
      BY <1>0, <1>1, <1>8, <3>1, <3>2, <3>3 DEF HandleGroupChat, PageTypeOK
  <2>. QED
    BY <1>8, <2>1, <2>2 DEF HandleGroupChat
<1>9. ASSUME NEW g \in Group, AppendGroupMember(g) PROVE PInv'
  <2>1. /\ asked' \in [Group -> 0..MaxAsked]
        /\ \A h \in Group : asked[h] \in Nat /\ asked'[h] = IF h = g THEN asked[h] - 1 ELSE asked[h]
    BY <1>0, <1>9, PageAssumption DEF AppendGroupMember, PageTypeOK
  <2>2. CASE page' = MembersAppended(page, g)
    <3>1. Good(page') /\ One(page')
      BY <1>0, <2>2, MembersAppendedIsGood
    <3>2. Owed(page', asked')
      <4>1. SUFFICES ASSUME NEW h \in Group, page'.section[h] # None
                     PROVE  page'.section[h].members + asked'[h] <= 1 + page'.section[h].asked
        BY DEF Owed
      <4>2. h \in Chat
        BY DEF Chat
      <4>3. /\ page.section[h] # None /\ page'.section[h].asked = page.section[h].asked
            /\ page'.section[h].members = page.section[h].members + IF h = g THEN 1 ELSE 0
        BY <1>0, <2>2, <4>1, <4>2, MembersAppendedIsGood
      <4>4. page.section[h].members \in Nat
        BY <1>0, <4>2, <4>3 DEF Good, Pages, Section
      <4>5. page.section[h].members + asked[h] <= 1 + page.section[h].asked
        BY <1>0, <4>3 DEF Owed
      <4>. QED
        BY <2>1, <4>3, <4>4, <4>5
    <3>. QED
      BY <1>0, <1>1, <1>9, <2>1, <3>1, <3>2 DEF AppendGroupMember, PageTypeOK
  <2>3. CASE UNCHANGED page
    <3>1. Good(page') /\ One(page')
      BY <1>0, <2>3
    <3>2. \A h \in Group : page.section[h] # None =>
            page.section[h].members \in Nat /\ page.section[h].asked \in Nat
      BY <1>0, PageAssumption DEF Good, Pages, Section, Chat
    <3>3. Owed(page', asked')
      <4>1. SUFFICES ASSUME NEW h \in Group, page.section[h] # None
                     PROVE  page.section[h].members + asked'[h] <= 1 + page.section[h].asked
        BY <2>3 DEF Owed
      <4>2. page.section[h].members + asked[h] <= 1 + page.section[h].asked
        BY <1>0, <4>1 DEF Owed
      <4>. QED
        BY <2>1, <3>2, <4>1, <4>2
    <3>. QED
      BY <1>0, <1>1, <1>9, <2>1, <3>1, <3>3 DEF AppendGroupMember, PageTypeOK
  <2>. QED
    BY <1>9, <2>2, <2>3 DEF AppendGroupMember
<1>10. ASSUME NEW g \in Group, AppendNetGroupMsg(g) PROVE PInv'
  <2>1. CASE /\ Says(g, FALSE) /\ NetGroupMsg(g, Len(said) + 1, FALSE)
             /\ UNCHANGED <<lists, asked, echoes>>
    BY <1>3, <2>1 DEF NetGroupMsg, Chat
  <2>2. ASSUME NEW n \in echoes, echoes' = echoes \ {n}, NetGroupMsg(g, n, TRUE),
               UNCHANGED <<lists, asked, said>>
        PROVE  PInv'
    <3>1. page' = page
      BY <2>2 DEF NetGroupMsg
    <3>2. Good(page') /\ One(page') /\ Owed(page', asked')
      BY <1>0, <2>2, <3>1
    <3>. QED
      BY <1>0, <1>1, <2>2, <3>2 DEF PageTypeOK
  <2>. QED
    BY <1>10, <2>1, <2>2 DEF AppendNetGroupMsg
<1>11. ASSUME NEW c \in Chat, HandleChatClick(c) PROVE PInv'
  <2>1. Good(page') /\ One(page') /\ KeepsLists(page, page')
    BY <1>0, <1>11, ClickedIsGood DEF Keeps, HandleChatClick
  <2>2. Owed(page', asked)
    BY <1>0, <2>1, OwedKept
  <2>. QED
    BY <1>0, <1>1, <1>11, <2>1, <2>2 DEF HandleChatClick, PageTypeOK
<1>12. ASSUME NEW c \in Chat, SendClick(c) PROVE PInv'
  BY <1>3, <1>12 DEF SendClick
<1>13. ASSUME NEW i \in 1..Len(page.tabs), HandleCloseClick(i) PROVE PInv'
  <2>1. Good(page') /\ One(page') /\ KeepsLists(page, page')
    BY <1>0, <1>13, ClosedIsGood DEF Keeps, HandleCloseClick
  <2>2. Owed(page', asked)
    BY <1>0, <2>1, OwedKept
  <2>. QED
    BY <1>0, <1>1, <1>13, <2>1, <2>2 DEF HandleCloseClick, PageTypeOK
<1>. QED
  BY <1>2, <1>4, <1>5, <1>6, <1>7, <1>8, <1>9, <1>10, <1>11, <1>12, <1>13 DEF PageNext

LEMMA PInvHolds == PageSpec => []PInv
<1>. QED
  BY PInvInit, PInvStep, PTL DEF PageSpec

-----------------------------------------------------------------------------
(* The page keeps its shape: sections hold messages that there are, and counts
   of requests stay in their range (ChatGood.js).                            *)
THEOREM PageTypeCorrect == PageSpec => []PageTypeOK
<1>1. PInv => PageTypeOK
  BY DEF PInv
<1>. QED
  BY <1>1, PInvHolds, PTL

(* Whatever tabs are opened, clicked and closed, in any order, one tab is
   current and its section alone is shown (ChatGood.js:72-187).              *)
THEOREM OneShownHolds == PageSpec => []OneShown
<1>1. PInv => OneShown
  BY DEF PInv, Good, Matched, One, OneShown
<1>. QED
  BY <1>1, PInvHolds, PTL

(* Every tab has its section, every section its tab, and no chat two of them
   (ChatGood.js:33-103).                                                     *)
THEOREM TabsMatchSectionsHolds == PageSpec => []TabsMatchSections
<1>1. PInv => TabsMatchSections
  BY DEF PInv, Good, Matched, TabsMatchSections
<1>. QED
  BY <1>1, PInvHolds, PTL

(* However late the answers come and however often a tab is closed and opened
   again, a list of members is there at most once more than requests were
   under way as its tab was opened (ChatGood.js:262-364).                    *)
THEOREM MembersOnceHolds == PageSpec => []MembersOnce
<1>1. PInv => MembersOnce
  BY DEF PInv, Good, Matched, Owed, MembersOnce
<1>. QED
  BY <1>1, PInvHolds, PTL

-----------------------------------------------------------------------------
(* What the sections show.                                                   *)

Shows(log) == {log[i] : i \in 1..Len(log)}
Increases(log) == \A i, j \in 1..Len(log) : i < j => log[i] < log[j]

\* The messages of c since number n.
Since(c, n, words) == {k \in (n + 1)..Len(words) : words[k].chat = c}

Logged(p, words) ==
  \A c \in Chat : p.section[c] # None =>
    /\ p.section[c].opened <= Len(words)
    /\ Shows(p.section[c].log) = Since(c, p.section[c].opened, words)
    /\ Increases(p.section[c].log)

\* A number above all that are shown is added at the end.
LEMMA ShownMore ==
  ASSUME NEW log \in Seq(Nat), NEW n \in Nat, \A k \in Shows(log) : k < n
  PROVE  /\ Shows(Append(log, n)) = Shows(log) \cup {n}
         /\ Increases(log) => Increases(Append(log, n))
<1>. DEFINE more == Append(log, n)
<1>1. Len(log) \in Nat
  BY LenProperties
<1>2. Len(more) = Len(log) + 1 /\ \A i \in 1..Len(more) : more[i] = IF i <= Len(log) THEN log[i] ELSE n
  BY AppendProperties
<1>. HIDE DEF more
<1>3. \A i \in 1..Len(log) : i \in 1..Len(more) /\ more[i] = log[i] /\ i # Len(more) /\ log[i] < n
  BY <1>1, <1>2 DEF Shows
<1>4. Len(more) \in 1..Len(more) /\ more[Len(more)] = n
  BY <1>1, <1>2
<1>5. \A i \in 1..Len(more) : i \in 1..Len(log) \/ i = Len(more)
  BY <1>1, <1>2
<1>6. Shows(more) = Shows(log) \cup {n}
  <2>1. \A k \in Shows(more) : k \in Shows(log) \cup {n}
    BY <1>3, <1>4, <1>5 DEF Shows
  <2>2. \A k \in Shows(log) \cup {n} : k \in Shows(more)
    BY <1>3, <1>4 DEF Shows
  <2>. QED
    BY <2>1, <2>2
<1>7. ASSUME Increases(log), NEW i \in 1..Len(more), NEW j \in 1..Len(more), i < j
      PROVE  more[i] < more[j]
  <2>1. i \in 1..Len(log)
    BY <1>1, <1>2, <1>5, <1>7
  <2>2. CASE j \in 1..Len(log)
    BY <1>3, <1>7, <2>1, <2>2 DEF Increases
  <2>3. CASE j = Len(more)
    BY <1>3, <1>4, <2>1, <2>3
  <2>. QED
    BY <1>5, <2>2, <2>3
<1>8. Increases(log) => Increases(more)
  BY <1>7 DEF Increases
<1>. QED
  BY <1>6, <1>8 DEF more

\* A word about c is one of c only.
LEMMA SinceMore ==
  ASSUME NEW W, NEW words \in Seq(W), NEW word \in W, NEW c, NEW n \in 0..Len(words)
  PROVE  Since(c, n, Append(words, word))
           = IF word.chat = c THEN Since(c, n, words) \cup {Len(words) + 1} ELSE Since(c, n, words)
<1>. DEFINE more == Append(words, word)
            top == Len(words) + 1
<1>1. Len(words) \in Nat
  BY LenProperties
<1>2. Len(more) = top /\ \A k \in 1..Len(more) : more[k] = IF k <= Len(words) THEN words[k] ELSE word
  BY AppendProperties
<1>. HIDE DEF more
<1>3. \A k \in (n + 1)..Len(words) : k \in (n + 1)..Len(more) /\ more[k] = words[k]
  BY <1>1, <1>2
<1>4. top \in (n + 1)..Len(more) /\ more[top] = word
  BY <1>1, <1>2
<1>5. \A k \in (n + 1)..Len(more) : k \in (n + 1)..Len(words) \/ k = top
  BY <1>1, <1>2
<1>6. \A k : k \in Since(c, n, more) <=> k \in Since(c, n, words) \/ (k = top /\ word.chat = c)
  BY <1>3, <1>4, <1>5 DEF Since
<1>7. Since(c, n, more) = IF word.chat = c THEN Since(c, n, words) \cup {top} ELSE Since(c, n, words)
  BY <1>6
<1>. QED
  BY <1>7 DEF more

LEMMA LoggedStep == PInv /\ Logged(page, said) /\ [PageNext]_pageVars => Logged(page', said')
<1>. SUFFICES ASSUME PInv, Logged(page, said), [PageNext]_pageVars PROVE Logged(page', said')
  OBVIOUS
<1>0. /\ PageTypeOK /\ Good(page) /\ One(page)
      /\ Len(said) \in 0..MaxMsgs /\ Len(said) \in Nat
  BY PageAssumption, LenProperties DEF PInv, PageTypeOK
<1>1. ASSUME KeepsLogs(page, page'), UNCHANGED said PROVE Logged(page', said')
  BY <1>1 DEF Logged, KeepsLogs
<1>2. ASSUME UNCHANGED <<page, said>> PROVE Logged(page', said')
  BY <1>2
<1>3. ASSUME NEW c \in Chat \ Tabs(page), NEW pending \in 0..MaxAsked,
             page' = Created(page, c, pending), UNCHANGED said
      PROVE  Logged(page', said')
  <2>. SUFFICES ASSUME NEW d \in Chat, page'.section[d] # None
                PROVE  /\ page'.section[d].opened <= Len(said)
                       /\ Shows(page'.section[d].log) = Since(d, page'.section[d].opened, said)
                       /\ Increases(page'.section[d].log)
    BY <1>3 DEF Logged
  <2>1. IF d = c THEN page'.section[d].log = <<>> /\ page'.section[d].opened = Len(said)
        ELSE /\ page.section[d] # None
             /\ page'.section[d].log = page.section[d].log
             /\ page'.section[d].opened = page.section[d].opened
    BY <1>0, <1>3, CreatedIsGood
  <2>2. CASE d = c
    <3>0. PICK log, n : log = <<>> /\ n = Len(said)
      OBVIOUS
    <3>1. Shows(log) = {} /\ Increases(log)
      BY <3>0 DEF Shows, Increases
    <3>2. Since(d, n, said) = {} /\ n <= Len(said)
      BY <1>0, <3>0 DEF Since
    <3>3. page'.section[d].log = log /\ page'.section[d].opened = n
      BY <2>1, <2>2, <3>0
    <3>. QED
      BY <3>1, <3>2, <3>3
  <2>3. CASE d # c
    BY <2>1, <2>3 DEF Logged
  <2>. QED
    BY <2>2, <2>3
<1>4. ASSUME NEW c \in Chat, NEW mine \in BOOLEAN, Says(c, mine),
             page' = Appended(page, c, Len(said) + 1)
      PROVE  Logged(page', said')
  <2>. DEFINE top == Len(said) + 1
  <2>1. top \in 1..MaxMsgs /\ top \in Nat
    BY <1>0, <1>4, SaysTypes
  <2>2. PICK word \in [chat : Chat, mine : BOOLEAN] : word.chat = c /\ said' = Append(said, word)
    BY <1>4 DEF Says
  <2>. SUFFICES ASSUME NEW d \in Chat, page'.section[d] # None
                PROVE  /\ page'.section[d].opened <= Len(said')
                       /\ Shows(page'.section[d].log) = Since(d, page'.section[d].opened, said')
                       /\ Increases(page'.section[d].log)
    BY DEF Logged
  <2>3. PICK log, n : log = page.section[d].log /\ n = page.section[d].opened
    OBVIOUS
  <2>4. /\ page.section[d] # None /\ page'.section[d].opened = n
        /\ page'.section[d].log = IF d = c THEN Append(log, top) ELSE log
    BY <1>0, <1>4, <2>1, <2>3, AppendedIsGood
  <2>5. n <= Len(said) /\ Shows(log) = Since(d, n, said) /\ Increases(log)
    BY <2>3, <2>4 DEF Logged
  <2>6. n \in Nat /\ log \in Seq(1..MaxMsgs)
    BY <1>0, <2>3, <2>4, PageAssumption DEF Good, Pages, Section
  <2>7. Since(d, n, said') = IF d = c THEN Since(d, n, said) \cup {top} ELSE Since(d, n, said)
    <3>1. PICK W : W = [chat : Chat, mine : BOOLEAN]
      OBVIOUS
    <3>2. said \in Seq(W) /\ n \in 0..Len(said) /\ word \in W
      BY <1>0, <2>2, <2>5, <2>6, <3>1 DEF PageTypeOK
    <3>3. Since(d, n, Append(said, word))
            = IF word.chat = d THEN Since(d, n, said) \cup {Len(said) + 1} ELSE Since(d, n, said)
      BY ONLY <3>2, SinceMore
    <3>. QED
      BY <2>2, <3>3
  <2>8. n <= Len(said')
    <3>1. Len(said') = Len(said) + 1
      BY <1>0, <1>4, SaysTypes
    <3>. QED
      BY ONLY <1>0, <2>5, <2>6, <3>1
  <2>9. /\ Shows(Append(log, top)) = Shows(log) \cup {top}
        /\ Increases(Append(log, top))
    <3>1. \A k \in Shows(log) : k < top
      BY <1>0, <2>5, <2>6 DEF Since
    <3>2. log \in Seq(Nat)
      BY <2>6, PageAssumption
    <3>. QED
      BY <2>1, <2>5, <3>1, <3>2, ShownMore
  <2>. HIDE DEF top
  <2>. QED
    BY <2>4, <2>5, <2>7, <2>8, <2>9
<1>5. CASE UNCHANGED pageVars \/ AppendFriendsList \/ AppendGroupList
  BY <1>2, <1>5 DEF pageVars, AppendFriendsList, AppendGroupList
<1>6. ASSUME NEW p \in Peer, HandlePeerChat(p) PROVE Logged(page', said')
  <2>1. CASE p \in Tabs(page)
    BY <1>0, <1>1, <1>6, <2>1, ClickedIsGood DEF HandlePeerChat, Keeps
  <2>2. CASE p \notin Tabs(page)
    <3>1. p \in Chat \ Tabs(page) /\ 0 \in 0..MaxAsked
      BY <2>2, PageAssumption DEF Chat
    <3>. QED
      BY <1>3, <1>6, <2>2, <3>1 DEF HandlePeerChat
  <2>. QED
    BY <2>1, <2>2
<1>7. ASSUME NEW p \in Peer, AppendNetPeerMsg(p) PROVE Logged(page', said')
  BY <1>4, <1>7 DEF AppendNetPeerMsg, Chat
<1>8. ASSUME NEW g \in Group, HandleGroupChat(g) PROVE Logged(page', said')
  <2>1. g \in Chat /\ asked[g] \in 0..MaxAsked
    BY <1>0 DEF Chat, PageTypeOK
  <2>2. CASE g \in Tabs(page) /\ page' = Clicked(page, g)
    BY <1>0, <1>1, <1>8, <2>2, ClickedIsGood DEF HandleGroupChat, Keeps
  <2>3. CASE g \notin Tabs(page) /\ page' = Created(page, g, asked[g])
    BY <1>3, <1>8, <2>1, <2>3 DEF HandleGroupChat
  <2>. QED
    BY <1>8, <2>2, <2>3 DEF HandleGroupChat
<1>9. ASSUME NEW g \in Group, AppendGroupMember(g) PROVE Logged(page', said')
  BY <1>0, <1>1, <1>2, <1>9, MembersAppendedIsGood DEF AppendGroupMember
<1>10. ASSUME NEW g \in Group, AppendNetGroupMsg(g) PROVE Logged(page', said')
  BY <1>2, <1>4, <1>10 DEF AppendNetGroupMsg, NetGroupMsg, Chat
<1>11. ASSUME NEW c \in Chat, HandleChatClick(c) PROVE Logged(page', said')
  BY <1>0, <1>1, <1>11, ClickedIsGood DEF HandleChatClick, Keeps
<1>12. ASSUME NEW c \in Chat, SendClick(c) PROVE Logged(page', said')
  BY <1>4, <1>12 DEF SendClick
<1>13. ASSUME NEW i \in 1..Len(page.tabs), HandleCloseClick(i) PROVE Logged(page', said')
  BY <1>0, <1>1, <1>13, ClosedIsGood DEF HandleCloseClick, Keeps
<1>. QED
  BY <1>5, <1>6, <1>7, <1>8, <1>9, <1>10, <1>11, <1>12, <1>13 DEF PageNext

(* A section shows every message of its chat since it was made, once and in
   order, whatever the server sends back and however often the chat was closed
   and opened again (ChatGood.js:288-355).                                   *)
THEOREM LogCompleteHolds == PageSpec => []LogComplete
<1>1. PageInit => PInv /\ Logged(page, said)
  BY PInvInit DEF PageInit, Logged
<1>2. PInv /\ Logged(page, said) /\ [PageNext]_pageVars => PInv' /\ Logged(page, said)'
  BY PInvStep, LoggedStep
<1>3. PInv /\ Logged(page, said) => LogComplete
  BY DEF PInv, Good, Matched, Logged, Shows, Increases, Since, LogComplete
<1>. QED
  BY <1>1, <1>2, <1>3, PTL DEF PageSpec
=============================================================================
