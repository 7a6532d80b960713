--------------------------- MODULE DesignerProofs ---------------------------
(***************************************************************************)
(* Theorems about Designer.                                                *)
(*                                                                         *)
(* A request differs from the copy it was made of only where its change    *)
(* does.  Of a tab that changed the cards last and met no other call, one  *)
(* call at most is in flight, it will reload, and what it has read already *)
(* is what the table holds.                                                *)
(***************************************************************************)
EXTENDS Designer, WellFoundedInduction, TLAPS

\* What requests carry.
Asked ==
  \A x \in Calls : calls[x] # Idle => \A r \in calls[x].todo :
    /\ r.kind = "move" => r.card.source = r.base.source
    /\ r.kind = "save" => r.card.at = r.base.at /\ calls[x].todo = {r}
    /\ r.kind = "create" => r.card.source = None /\ r.card.sources = {}

\* A reload that reads sources has some to read, of cards it has read.
Reading ==
  \A x \in Calls : calls[x] # Idle /\ calls[x].at = "reading" =>
    calls[x].unread # {} /\ \A c \in calls[x].unread : calls[x].got[c] # NoCard

\* A tab apart from others has one call, and that one reloads.
Single ==
  \A t \in Tabs : apart[t] => \A x, y \in Waiting(t) : x = y /\ calls[x].reload

\* What call x has read is what the table holds.
Matches(x) ==
  /\ calls[x].at = "reading" =>
       \A c \in Ids : IF c \in calls[x].unread
                      THEN Exists(c) /\ calls[x].got[c] = [cards[c] EXCEPT !.sources = {}]
                      ELSE calls[x].got[c] = cards[c]
  /\ calls[x].at = "answered" => calls[x].got = cards

UpToDate ==
  \A t \in Tabs : last = t /\ apart[t] =>
    /\ Waiting(t) = {} => view[t] = cards
    /\ \A x \in Waiting(t) : Matches(x)

IInv == TypeOK /\ Asked /\ Reading /\ Single /\ UpToDate
---------------------------------------------------------------------------
(* Cards, requests and calls.                                              *)

LEMMA MinType ==
  ASSUME NEW S \in SUBSET Nat, S # {}
  PROVE  Min(S) \in S
<1>. DEFINE R == {ss \in Nat \X Nat : ss[1] < ss[2]}
<1>1. IsWellFoundedOn(R, Nat)
  BY NatLessThanWellFounded DEF OpToRel
<1>. HIDE DEF R
<1>2. PICK x \in S : \A y \in S : ~(<<y, x>> \in R)
  BY <1>1, WFMin, Zenon
<1>3. ASSUME NEW y \in S PROVE x <= y
  <2>1. x \in Nat /\ y \in Nat
    OBVIOUS
  <2>2. <<y, x>> \in R <=> y < x
    BY <2>1 DEF R
  <2>. QED
    BY <1>2, <2>1, <2>2
<1>4. (CHOOSE z \in S : \A y \in S : z <= y) \in S
  BY <1>3
<1>. QED
  BY <1>4 DEF Min

LEMMA FirstType ==
  ASSUME NEW S \in SUBSET Instances
  PROVE  First(S) \in S \cup {None}
<1>1. CASE S = {}
  BY <1>1 DEF First
<1>2. CASE S # {}
  BY <1>2, MinType, DesignerAssumption DEF First
<1>. QED
  BY <1>1, <1>2

LEMMA CardType ==
  ASSUME NEW k \in Card
  PROVE  /\ k.at \in Places /\ k.source \in Instances \cup {None} /\ k.sources \subseteq Instances
         /\ \A p \in Places :
              LET m == [k EXCEPT !.at = p, !.header = NoHeader]
              IN m \in Card /\ m.source = k.source /\ m.sources = k.sources
         /\ \A p \in Places : [k EXCEPT !.at = p] \in Card
         /\ \A s \in SUBSET Instances :
              LET m == [k EXCEPT !.sources = s]
              IN /\ m \in Card /\ m.source = k.source /\ m.sources = s /\ m.at = k.at
                 /\ [m EXCEPT !.sources = k.sources] = k
         /\ \A s \in SUBSET Instances, i \in Instances \cup {None} :
              LET m == [k EXCEPT !.sources = s, !.source = i]
              IN m \in Card /\ m.source = i /\ m.sources = s
  BY DEF Card

LEMMA ChangeType ==
  ASSUME NEW kind \in {"move", "save", "create", "delete"}, NEW c \in Ids,
         NEW old \in Card, NEW new \in Card
  PROVE  /\ Change(kind, c, old, new) \in Request
         /\ Change(kind, c, old, new).kind = kind
         /\ Change(kind, c, old, new).card = new /\ Change(kind, c, old, new).base = old
  BY DEF Change, Request

LEMMA NewCallType ==
  ASSUME NEW t \in Tabs, NEW at \in {"saving", "load"}, NEW rs \in SUBSET Request
  PROVE  LET k == NewCall(t, at, rs)
         IN /\ k \in Call /\ k # Idle /\ k.tab = t /\ k.at = at /\ k.todo = rs /\ k.reload
<1>1. NoCards \in Screen
  BY DEF NoCards, Screen
<1>2. NewCall(t, at, rs) \in Call
  BY <1>1 DEF NewCall, Call
<1>. QED
  BY <1>2, DesignerAssumption DEF NewCall

LEMMA CallType ==
  ASSUME TypeOK, NEW x \in Calls, calls[x] # Idle
  PROVE  /\ calls[x] \in Call /\ calls[x].tab \in Tabs /\ calls[x].todo \subseteq Request
         /\ calls[x].reload \in BOOLEAN /\ calls[x].unread \subseteq Ids /\ calls[x].got \in Screen
         /\ \A r \in calls[x].todo : r.id \in Ids /\ r.card \in Card /\ r.base \in Card
  BY DEF TypeOK, Call, Request

LEMMA AnsweredType ==
  ASSUME NEW k \in Call, NEW r \in k.todo, NEW reload \in BOOLEAN, reload => k.reload
  PROVE  LET a == Answered(k, r, reload)
         IN /\ a \in Call \cup {Idle}
            /\ a = Idle => k.todo = {r} /\ ~reload
            /\ a # Idle =>
                 /\ a.tab = k.tab /\ a.todo = k.todo \ {r} /\ a.reload = reload
                 /\ a.unread = k.unread /\ a.got = k.got
                 /\ a.at = k.at \/ (a.at = "load" /\ a.todo = {})
<1>1. CASE k.todo # {r}
  <2>. DEFINE a == [k EXCEPT !.todo = @ \ {r}, !.reload = reload]
  <2>1. Answered(k, r, reload) = a
    BY <1>1 DEF Answered
  <2>2. /\ a \in Call /\ a.tab = k.tab /\ a.todo = k.todo \ {r} /\ a.reload = reload
        /\ a.unread = k.unread /\ a.got = k.got /\ a.at = k.at
    BY DEF Call
  <2>. HIDE DEF a
  <2>. QED
    BY <2>1, <2>2, DesignerAssumption
<1>2. CASE k.todo = {r} /\ reload
  <2>. DEFINE a == [k EXCEPT !.todo = {}, !.at = "load"]
  <2>1. Answered(k, r, reload) = a
    BY <1>2 DEF Answered
  <2>2. /\ a \in Call /\ a.tab = k.tab /\ a.todo = {} /\ a.reload = reload
        /\ a.unread = k.unread /\ a.got = k.got /\ a.at = "load"
    BY <1>2 DEF Call
  <2>. HIDE DEF a
  <2>. QED
    BY <1>2, <2>1, <2>2, DesignerAssumption
<1>3. CASE k.todo = {r} /\ ~reload
  BY <1>3 DEF Answered
<1>. QED
  BY <1>1, <1>2, <1>3

LEMMA InitInv == Init => IInv
<1>. SUFFICES ASSUME Init PROVE IInv
  OBVIOUS
<1>1. cards \in Screen /\ instances = Instances
  BY DEF Init, Screen, NoCards, Card
<1>2. TypeOK
  <2>1. \A c \in Ids : cards[c] # NoCard =>
          cards[c].source \in instances \cup {None} /\ cards[c].sources \subseteq instances
    BY <1>1 DEF Screen, Card
  <2>2. view \in [Tabs -> Screen]
    BY <1>1 DEF Init
  <2>3. edits \in 0..MaxEdits /\ last \in Tabs \cup {None} /\ apart \in [Tabs -> BOOLEAN]
    BY DesignerAssumption DEF Init
  <2>4. calls \in [Calls -> Call \cup {Idle}]
    BY DEF Init
  <2>. QED
    BY <1>1, <2>1, <2>2, <2>3, <2>4 DEF TypeOK
<1>3. \A t \in Tabs : ~apart[t]
  BY DEF Init
<1>. QED
  BY <1>2, <1>3 DEF IInv, Init, Asked, Reading, Single, UpToDate

---------------------------------------------------------------------------
(* What the steps do to the calls.                                         *)

Sound(rs) ==
  /\ rs \subseteq Request
  /\ \A r \in rs :
       /\ r.kind = "move" => r.card.source = r.base.source
       /\ r.kind = "save" => r.card.at = r.base.at /\ rs = {r}
       /\ r.kind = "create" => r.card.source = None /\ r.card.sources = {}

\* Call x begins, for tab t.
Begun(t, x) ==
  /\ calls[x] = Idle /\ calls'[x] \in Call /\ calls'[x] # Idle
  /\ calls'[x].tab = t /\ calls'[x].at = "saving" /\ calls'[x].reload
  /\ Sound(calls'[x].todo)
  /\ calls' \in [Calls -> Call \cup {Idle}]
  /\ \A y \in Calls \ {x} : calls'[y] = calls[y]

LEMMA AskEffect ==
  ASSUME TypeOK, NEW t \in Tabs, NEW rs, Sound(rs), Ask(t, rs)
  PROVE  /\ \E x \in Calls : Begun(t, x)
         /\ UNCHANGED <<instances, cards, last>> /\ edits' \in 0..MaxEdits
         /\ apart' \in [Tabs -> BOOLEAN]
         /\ apart'[t] => Waiting(t) = {}
         /\ \A u \in Tabs \ {t} : apart'[u] = apart[u]
<1>1. PICK x \in Calls : calls[x] = Idle /\ calls' = [calls EXCEPT ![x] = NewCall(t, "saving", rs)]
  BY DEF Ask
<1>. DEFINE k == NewCall(t, "saving", rs)
<1>2. k \in Call /\ k # Idle /\ k.tab = t /\ k.at = "saving" /\ k.todo = rs /\ k.reload
  BY NewCallType DEF Sound
<1>. HIDE DEF k
<1>3. calls' = [calls EXCEPT ![x] = k] /\ calls \in [Calls -> Call \cup {Idle}]
  BY <1>1 DEF k, TypeOK
<1>4. calls'[x] = k /\ \A y \in Calls \ {x} : calls'[y] = calls[y]
  BY <1>3
<1>5. calls' \in [Calls -> Call \cup {Idle}]
  BY <1>2, <1>3
<1>6. Begun(t, x)
  BY <1>1, <1>2, <1>4, <1>5 DEF Begun
<1>7. UNCHANGED <<instances, cards, last>> /\ edits' \in 0..MaxEdits
  BY DesignerAssumption DEF Ask, Edit, TypeOK
<1>8. /\ apart' \in [Tabs -> BOOLEAN]
      /\ apart'[t] => Waiting(t) = {}
      /\ \A u \in Tabs \ {t} : apart'[u] = apart[u]
  BY DEF Ask, TypeOK
<1>. QED
  BY <1>6, <1>7, <1>8

\* A change of tab t: a call begins, and only t's own view may change.
Changed(t) ==
  /\ \E x \in Calls : Begun(t, x)
  /\ UNCHANGED <<instances, cards, last>> /\ edits' \in 0..MaxEdits
  /\ apart' \in [Tabs -> BOOLEAN]
  /\ apart'[t] => Waiting(t) = {}
  /\ \A u \in Tabs \ {t} : apart'[u] = apart[u] /\ view'[u] = view[u]
  /\ view' \in [Tabs -> Screen]

LEMMA ViewType ==
  ASSUME TypeOK, NEW t \in Tabs, NEW c \in Ids, view[t][c] # NoCard
  PROVE  view[t][c] \in Card
  BY DEF TypeOK, Screen

LEMMA MoveToSound ==
  ASSUME TypeOK, NEW t \in Tabs, NEW c \in Ids, view[t][c] # NoCard, NEW p \in Places
  PROVE  /\ MoveTo(t, c, p) \in Request
         /\ MoveTo(t, c, p).kind = "move"
         /\ MoveTo(t, c, p).card.source = MoveTo(t, c, p).base.source
<1>1. view[t][c] \in Card
  BY ViewType
<1>. DEFINE old == view[t][c]
            new == [view[t][c] EXCEPT !.at = p, !.header = NoHeader]
<1>2. new \in Card /\ new.source = old.source
  BY <1>1, CardType
<1>3. MoveTo(t, c, p) = Change("move", c, old, new)
  BY DEF MoveTo
<1>. HIDE DEF old, new
<1>4. old \in Card
  BY <1>1 DEF old
<1>5. "move" \in {"move", "save", "create", "delete"}
  OBVIOUS
<1>. QED
  BY <1>2, <1>3, <1>4, <1>5, ChangeType

LEMMA DragEffect ==
  ASSUME TypeOK, NEW t \in Tabs, Drag(t)
  PROVE  Changed(t)
<1>0. PICK moved \in SUBSET {c \in Ids : view[t][c] # NoCard} : \E to \in [moved -> Places] :
        /\ view' = [view EXCEPT ![t] = [c \in Ids |->
                      IF c \in moved THEN [view[t][c] EXCEPT !.at = to[c]] ELSE view[t][c]]]
        /\ Ask(t, {MoveTo(t, c, to[c]) : c \in moved})
  BY DEF Drag
<1>1. PICK to \in [moved -> Places] :
        /\ view' = [view EXCEPT ![t] = [c \in Ids |->
                      IF c \in moved THEN [view[t][c] EXCEPT !.at = to[c]] ELSE view[t][c]]]
        /\ Ask(t, {MoveTo(t, c, to[c]) : c \in moved})
  BY <1>0
<1>. DEFINE rs == {MoveTo(t, c, to[c]) : c \in moved}
<1>2. \A c \in moved : /\ MoveTo(t, c, to[c]) \in Request
                       /\ MoveTo(t, c, to[c]).kind = "move"
                       /\ MoveTo(t, c, to[c]).card.source = MoveTo(t, c, to[c]).base.source
  BY <1>1, MoveToSound
<1>3. Sound(rs)
  BY <1>2 DEF Sound
<1>. HIDE DEF rs
<1>4. Ask(t, rs)
  BY <1>1 DEF rs
<1>. DEFINE screen == [c \in Ids |->
              IF c \in moved THEN [view[t][c] EXCEPT !.at = to[c]] ELSE view[t][c]]
<1>5. screen \in Screen
  <2>1. \A c \in moved : [view[t][c] EXCEPT !.at = to[c]] \in Card
    BY <1>1, ViewType, CardType
  <2>2. \A c \in Ids : view[t][c] \in Card \cup {NoCard}
    BY DEF TypeOK, Screen
  <2>. QED
    BY <2>1, <2>2 DEF Screen
<1>6. view' = [view EXCEPT ![t] = screen] /\ view \in [Tabs -> Screen]
  BY <1>1 DEF TypeOK
<1>. HIDE DEF screen
<1>7. view' \in [Tabs -> Screen] /\ \A u \in Tabs \ {t} : view'[u] = view[u]
  BY <1>5, <1>6
<1>. QED
  BY <1>3, <1>4, <1>7, AskEffect DEF Changed

\* One request, of which the page shows nothing yet.
LEMMA AskOne ==
  ASSUME TypeOK, NEW t \in Tabs, NEW r \in Request, Ask(t, {r}), UNCHANGED view,
         r.kind = "move" => r.card.source = r.base.source,
         r.kind = "save" => r.card.at = r.base.at,
         r.kind = "create" => r.card.source = None /\ r.card.sources = {}
  PROVE  Changed(t)
<1>1. Sound({r})
  BY DEF Sound
<1>. QED
  BY <1>1, AskEffect DEF Changed, TypeOK

LEMMA PageEffect ==
  ASSUME TypeOK, NEW t \in Tabs,
         Drag(t) \/ Resize(t) \/ SaveCardSettings(t) \/ AddCard(t) \/ RemoveCard(t)
  PROVE  Changed(t)
<1>1. CASE Resize(t)
  <2>1. PICK c \in Ids, p \in Places : view[t][c] # NoCard /\ Ask(t, {MoveTo(t, c, p)})
    BY <1>1 DEF Resize
  <2>2. UNCHANGED view
    BY <1>1 DEF Resize
  <2>. QED
    BY <2>1, <2>2, MoveToSound, AskOne
<1>2. CASE SaveCardSettings(t)
  <2>1. PICK c \in Ids, new \in Card :
          /\ view[t][c] # NoCard /\ new.at = view[t][c].at
          /\ Ask(t, {Change("save", c, view[t][c], new)})
    BY <1>2 DEF SaveCardSettings
  <2>2. UNCHANGED view
    BY <1>2 DEF SaveCardSettings
  <2>3. view[t][c] \in Card /\ "save" \in {"move", "save", "create", "delete"}
    BY <2>1, ViewType
  <2>4. /\ Change("save", c, view[t][c], new) \in Request
        /\ Change("save", c, view[t][c], new).kind = "save"
        /\ Change("save", c, view[t][c], new).card = new
        /\ Change("save", c, view[t][c], new).base = view[t][c]
    BY <2>3, ChangeType
  <2>. DEFINE r == Change("save", c, view[t][c], new)
  <2>5. r \in Request /\ r.kind = "save" /\ r.card.at = r.base.at /\ Ask(t, {r})
    BY <2>1, <2>4
  <2>. HIDE DEF r
  <2>. QED
    BY <2>2, <2>5, AskOne
<1>3. CASE AddCard(t)
  <2>1. PICK new \in Card :
          /\ new.source = None /\ new.sources = {}
          /\ Ask(t, {Change("create", 1, new, new)})
    BY <1>3 DEF AddCard
  <2>. DEFINE r == Change("create", 1, new, new)
  <2>2. UNCHANGED view /\ "create" \in {"move", "save", "create", "delete"}
    BY <1>3 DEF AddCard
  <2>3. CASE 1 \in Ids
    <3>1. r \in Request /\ r.kind = "create" /\ r.card = new
      BY <2>2, <2>3, ChangeType
    <3>2. Ask(t, {r}) /\ r.card.source = None /\ r.card.sources = {}
      BY <2>1, <3>1
    <3>. HIDE DEF r
    <3>. QED
      BY <2>2, <3>1, <3>2, AskOne
  <2>. QED
    BY <2>3, DesignerAssumption DEF Ids
<1>4. CASE RemoveCard(t)
  <2>1. PICK c \in Ids : /\ view[t][c] # NoCard
                         /\ Ask(t, {Change("delete", c, view[t][c], view[t][c])})
    BY <1>4 DEF RemoveCard
  <2>. DEFINE r == Change("delete", c, view[t][c], view[t][c])
  <2>2. UNCHANGED view /\ "delete" \in {"move", "save", "create", "delete"}
    BY <1>4 DEF RemoveCard
  <2>3. r \in Request /\ r.kind = "delete" /\ Ask(t, {r})
    BY <2>1, <2>2, ViewType, ChangeType
  <2>. HIDE DEF r
  <2>. QED
    BY <2>2, <2>3, AskOne
<1>. QED
  BY <1>1, <1>2, <1>3, <1>4, DragEffect

\* A step on call x.
Progress(x) ==
  /\ calls' \in [Calls -> Call \cup {Idle}]
  /\ calls[x] # Idle
  /\ calls'[x] # Idle => calls'[x].tab = calls[x].tab
  /\ \A y \in Calls \ {x} : calls'[y] = calls[y]

LEMMA ProgressStep ==
  ASSUME TypeOK, NEW x \in Calls, calls[x] # Idle, NEW k \in Call \cup {Idle},
         calls' = [calls EXCEPT ![x] = k], k # Idle => k.tab = calls[x].tab
  PROVE  Progress(x) /\ calls'[x] = k
<1>1. calls \in [Calls -> Call \cup {Idle}]
  BY DEF TypeOK
<1>2. calls' \in [Calls -> Call \cup {Idle}]
  BY <1>1, Zenon
<1>3. calls'[x] = k /\ \A y \in Calls \ {x} : calls'[y] = calls[y]
  BY <1>1, Zenon
<1>. QED
  BY <1>2, <1>3 DEF Progress

\* The cards' instances exist.
References(cs) ==
  \A c \in Ids : cs[c] # NoCard =>
    cs[c].source \in instances \cup {None} /\ cs[c].sources \subseteq instances

\* Call x after an answer, or half an answer, to one of its requests.
Answer(x, apartNow) ==
  /\ Progress(x)
  /\ calls'[x] # Idle =>
       /\ calls'[x].todo \subseteq calls[x].todo
       /\ calls'[x].at \in {calls[x].at, "sources", "load"}
       /\ calls'[x].reload => calls[x].reload
  /\ apartNow /\ calls[x].reload => calls'[x] # Idle /\ calls'[x].reload

LEMMA AnswerStep ==
  ASSUME TypeOK, NEW x \in Calls, calls[x] # Idle, NEW r \in calls[x].todo,
         NEW b \in BOOLEAN, b => calls[x].reload, NEW c \in BOOLEAN,
         c /\ calls[x].reload => b,
         calls' = [calls EXCEPT ![x] = Answered(calls[x], r, b)]
  PROVE  Answer(x, c)
<1>. DEFINE old == calls[x]
            k == Answered(old, r, b)
<1>1. old \in Call /\ r \in old.todo /\ (b => old.reload)
  BY CallType
<1>. HIDE DEF old
<1>2. /\ k \in Call \cup {Idle}
      /\ k = Idle => ~b
      /\ k # Idle =>
           /\ k.tab = old.tab /\ k.todo \subseteq old.todo /\ k.reload = b
           /\ k.at = old.at \/ k.at = "load"
  BY <1>1, AnsweredType
<1>3. calls' = [calls EXCEPT ![x] = k] /\ old = calls[x]
  BY DEF old
<1>. HIDE DEF k
<1>4. Progress(x) /\ calls'[x] = k
  BY <1>2, <1>3, ProgressStep
<1>. QED
  BY <1>1, <1>2, <1>3, <1>4 DEF Answer

\* What the handlers of changes have in common.
Served(x) ==
  /\ calls[x].at \in {"saving", "sources"}
  /\ UNCHANGED <<instances, view, edits>>
  /\ cards' \in Screen /\ References(cards')
  /\ last' \in Tabs \cup {None} /\ apart' \in [Tabs -> BOOLEAN]
  /\ \A u \in Tabs : apart'[u] => apart[u]
  /\ Answer(x, apart'[calls[x].tab])
  /\ (cards' = cards /\ last' = last) \/ last' = calls[x].tab

LEMMA UpdateCardEffect ==
  ASSUME TypeOK, NEW x \in Calls, UpdateCard(x)
  PROVE  Served(x)
<1>1. PICK r \in calls[x].todo :
        /\ r.kind \in {"move", "save"} /\ Accepted(r)
        /\ cards' = [cards EXCEPT ![r.id] = [r.card EXCEPT !.sources = cards[r.id].sources]]
        /\ calls' = [calls EXCEPT ![x] = IF HasList(r) THEN [@ EXCEPT !.at = "sources"]
                                         ELSE Answered(@, r, @.reload)]
  BY DEF UpdateCard
<1>2. calls[x] # Idle /\ calls[x].at = "saving" /\ calls[x] \in Call
  BY CallType DEF UpdateCard, Saving
<1>3. r.id \in Ids /\ r.card \in Card /\ calls[x].tab \in Tabs
  BY <1>2, CallType
<1>4. /\ cards[r.id] # NoCard /\ cards[r.id].sources \subseteq instances
      /\ r.card.source \in instances \cup {None} /\ cards[r.id].sources \in SUBSET Instances
  BY <1>1, <1>3 DEF Accepted, Exists, TypeOK
<1>. DEFINE new == [r.card EXCEPT !.sources = cards[r.id].sources]
<1>5. new \in Card /\ new.source = r.card.source /\ new.sources = cards[r.id].sources
  BY <1>3, <1>4 DEF Card
<1>6. cards' = [cards EXCEPT ![r.id] = new]
  BY <1>1
<1>. HIDE DEF new
<1>7. cards' \in Screen /\ References(cards')
  <2>1. cards' \in Screen
    BY <1>3, <1>5, <1>6 DEF TypeOK, Screen
  <2>2. cards'[r.id] = new /\ \A c \in Ids \ {r.id} : cards'[c] = cards[c]
    BY <1>3, <1>6 DEF TypeOK, Screen
  <2>3. References(cards')
    BY <1>4, <1>5, <2>2 DEF References, TypeOK
  <2>. QED
    BY <2>1, <2>3
<1>8. ASSUME NEW b \in BOOLEAN PROVE Answer(x, b)
  <2>1. CASE HasList(r)
    <3>. DEFINE k == [calls[x] EXCEPT !.at = "sources"]
    <3>1. /\ k \in Call /\ k.tab = calls[x].tab /\ k.at = "sources" /\ k.todo = calls[x].todo
          /\ k.reload = calls[x].reload
      BY <1>2 DEF Call
    <3>2. calls' = [calls EXCEPT ![x] = k]
      BY <1>1, <2>1
    <3>. HIDE DEF k
    <3>3. k # Idle
      BY <3>1, DesignerAssumption
    <3>4. Progress(x) /\ calls'[x] = k
      BY <1>2, <3>1, <3>2, ProgressStep
    <3>. QED
      BY <3>1, <3>3, <3>4 DEF Answer
  <2>2. CASE ~HasList(r)
    <3>1. calls[x].reload \in BOOLEAN
      BY <1>2, CallType
    <3>2. calls' = [calls EXCEPT ![x] = Answered(calls[x], r, calls[x].reload)]
      BY <1>1, <2>2
    <3>. QED
      BY <1>2, <3>1, <3>2, AnswerStep
  <2>. QED
    BY <2>1, <2>2
<1>9. UNCHANGED <<instances, view, edits, apart>> /\ last' = calls[x].tab
  BY DEF UpdateCard
<1>10. apart' \in [Tabs -> BOOLEAN] /\ apart'[calls[x].tab] \in BOOLEAN
  BY <1>3, <1>9 DEF TypeOK
<1>. QED
  BY <1>2, <1>3, <1>7, <1>8, <1>9, <1>10 DEF Served

LEMMA RefuseUpdateEffect ==
  ASSUME TypeOK, NEW x \in Calls, RefuseUpdate(x)
  PROVE  Served(x)
<1>1. PICK r \in calls[x].todo :
        /\ calls' = [calls EXCEPT ![x] = Answered(@, r, @.reload /\ r.kind = "move")]
        /\ apart' = [apart EXCEPT ![calls[x].tab] = @ /\ r.kind = "move"]
  BY DEF RefuseUpdate
<1>2. calls[x] # Idle /\ calls[x].at = "saving" /\ calls[x].tab \in Tabs
  BY CallType DEF RefuseUpdate, Saving
<1>. DEFINE move == r.kind = "move"
            b == calls[x].reload /\ move
<1>3. /\ move \in BOOLEAN /\ b \in BOOLEAN /\ (b => calls[x].reload)
      /\ (move /\ calls[x].reload => b)
      /\ calls' = [calls EXCEPT ![x] = Answered(calls[x], r, b)]
      /\ apart' = [apart EXCEPT ![calls[x].tab] = @ /\ move]
  BY <1>1
<1>. HIDE DEF move, b
<1>4. Answer(x, move)
  BY <1>2, <1>3, AnswerStep
<1>5. /\ apart' \in [Tabs -> BOOLEAN]
      /\ apart'[calls[x].tab] => move
      /\ \A u \in Tabs : apart'[u] => apart[u]
  BY <1>2, <1>3 DEF TypeOK
<1>6. UNCHANGED <<instances, cards, view, edits, last>>
  BY DEF RefuseUpdate
<1>7. Answer(x, apart'[calls[x].tab])
  BY <1>4, <1>5 DEF Answer
<1>8. cards' \in Screen /\ References(cards') /\ last' \in Tabs \cup {None}
  BY <1>6 DEF TypeOK, References
<1>. QED
  BY <1>2, <1>5, <1>6, <1>7, <1>8 DEF Served

LEMMA SetCardDataSourcesEffect ==
  ASSUME TypeOK, NEW x \in Calls, SetCardDataSources(x)
  PROVE  Served(x)
<1>0. PICK r \in calls[x].todo :
        LET stored == Exists(r.id) /\ r.card.sources \subseteq instances
        IN /\ cards' = IF stored
                       THEN [cards EXCEPT ![r.id].sources = r.card.sources,
                                          ![r.id].source = First(r.card.sources)]
                       ELSE cards
           /\ last' = IF stored THEN calls[x].tab ELSE last
           /\ calls' = [calls EXCEPT ![x] = Answered(@, r, @.reload /\ stored)]
           /\ apart' = [apart EXCEPT ![calls[x].tab] = @ /\ stored]
  BY DEF SetCardDataSources
<1>. DEFINE stored == Exists(r.id) /\ r.card.sources \subseteq instances
            b == calls[x].reload /\ stored
<1>1. /\ stored => cards' = [cards EXCEPT ![r.id].sources = r.card.sources,
                                          ![r.id].source = First(r.card.sources)]
      /\ ~stored => cards' = cards
      /\ last' = IF stored THEN calls[x].tab ELSE last
      /\ calls' = [calls EXCEPT ![x] = Answered(calls[x], r, b)]
      /\ apart' = [apart EXCEPT ![calls[x].tab] = @ /\ stored]
  BY <1>0
<1>2. calls[x] # Idle /\ calls[x].at = "sources" /\ calls[x].tab \in Tabs
  BY CallType DEF SetCardDataSources
<1>3. r.id \in Ids /\ r.card \in Card
  BY <1>2, CallType
<1>4. /\ stored \in BOOLEAN /\ b \in BOOLEAN /\ (b => calls[x].reload)
      /\ (stored /\ calls[x].reload => b)
  OBVIOUS
<1>. HIDE DEF b
<1>5. stored => cards' \in Screen /\ References(cards')
  <2>. SUFFICES ASSUME stored PROVE cards' \in Screen /\ References(cards')
    OBVIOUS
  <2>1. /\ cards[r.id] \in Card /\ r.card.sources \in SUBSET Instances
        /\ r.card.sources \subseteq instances
    BY <1>3 DEF TypeOK, Screen, Exists, Card
  <2>. DEFINE s == r.card.sources
              i == First(s)
              new == [cards[r.id] EXCEPT !.sources = s, !.source = i]
  <2>2. i \in s \cup {None} /\ i \in Instances \cup {None}
    BY <2>1, FirstType
  <2>3. cards' = [cards EXCEPT ![r.id] = new]
    BY <1>1, <1>3 DEF TypeOK, Screen
  <2>. HIDE DEF i
  <2>4. new \in Card /\ new.source = i /\ new.sources = s
    BY <2>1, <2>2 DEF Card
  <2>. HIDE DEF new
  <2>5. cards' \in Screen
    BY <1>3, <2>3, <2>4 DEF TypeOK, Screen
  <2>6. cards'[r.id] = new /\ \A c \in Ids \ {r.id} : cards'[c] = cards[c]
    BY <1>3, <2>3 DEF TypeOK, Screen
  <2>7. References(cards')
    BY <2>1, <2>2, <2>4, <2>6 DEF References, TypeOK
  <2>. QED
    BY <2>5, <2>7
<1>6. ~stored => cards' \in Screen /\ References(cards')
  BY <1>1 DEF TypeOK, References
<1>. HIDE DEF stored
<1>7. Answer(x, stored)
  BY <1>1, <1>2, <1>4, AnswerStep
<1>8. /\ apart' \in [Tabs -> BOOLEAN]
      /\ apart'[calls[x].tab] => stored
      /\ \A u \in Tabs : apart'[u] => apart[u]
  BY <1>1, <1>2, <1>4 DEF TypeOK
<1>9. Answer(x, apart'[calls[x].tab])
  BY <1>7, <1>8 DEF Answer
<1>10. UNCHANGED <<instances, view, edits>>
  BY DEF SetCardDataSources
<1>11. last' \in Tabs \cup {None} /\ ((cards' = cards /\ last' = last) \/ last' = calls[x].tab)
  BY <1>1, <1>2, <1>4 DEF TypeOK
<1>. QED
  BY <1>2, <1>5, <1>6, <1>8, <1>9, <1>10, <1>11 DEF Served

\* An answer without a condition on the reload.
LEMMA AnswerAll ==
  ASSUME TypeOK, NEW x \in Calls, calls[x] # Idle, NEW r \in calls[x].todo,
         calls' = [calls EXCEPT ![x] = Answered(calls[x], r, calls[x].reload)]
  PROVE  Answer(x, TRUE)
<1>1. calls[x].reload \in BOOLEAN
  BY CallType
<1>. QED
  BY <1>1, AnswerStep

LEMMA CreateCardEffect ==
  ASSUME TypeOK, Asked, NEW x \in Calls, CreateCard(x)
  PROVE  Served(x)
<1>1. PICK r \in calls[x].todo :
        /\ r.kind = "create" /\ cards' = [cards EXCEPT ![NewId] = r.card]
        /\ calls' = [calls EXCEPT ![x] = Answered(@, r, @.reload)]
  BY DEF CreateCard
<1>2. calls[x] # Idle /\ calls[x].at = "saving" /\ calls[x].tab \in Tabs /\ NewId \in Ids
  BY CallType DEF CreateCard, Saving
<1>3. r.card \in Card /\ r.card.source = None /\ r.card.sources = {}
  BY <1>1, <1>2, CallType DEF Asked
<1>4. cards' \in Screen
  BY <1>1, <1>2, <1>3 DEF TypeOK, Screen
<1>5. cards'[NewId] = r.card /\ \A c \in Ids \ {NewId} : cards'[c] = cards[c]
  BY <1>1, <1>2 DEF TypeOK, Screen
<1>6. References(cards')
  BY <1>3, <1>5 DEF References, TypeOK
<1>7. Answer(x, TRUE)
  BY <1>1, <1>2, AnswerAll
<1>8. UNCHANGED <<instances, view, edits, apart>> /\ last' = calls[x].tab
  BY DEF CreateCard
<1>9. apart' \in [Tabs -> BOOLEAN]
  BY <1>8 DEF TypeOK
<1>. QED
  BY <1>2, <1>4, <1>6, <1>7, <1>8, <1>9 DEF Served, Answer

LEMMA DeleteCardEffect ==
  ASSUME TypeOK, NEW x \in Calls, DeleteCard(x)
  PROVE  Served(x)
<1>1. PICK r \in calls[x].todo :
        /\ cards' = [cards EXCEPT ![r.id] = NoCard]
        /\ last' = IF Exists(r.id) THEN calls[x].tab ELSE last
        /\ calls' = [calls EXCEPT ![x] = Answered(@, r, @.reload)]
  BY DEF DeleteCard
<1>2. calls[x] # Idle /\ calls[x].at = "saving" /\ calls[x].tab \in Tabs
  BY CallType DEF DeleteCard, Saving
<1>3. r.id \in Ids
  BY <1>2, CallType
<1>4. cards' \in Screen
  BY <1>1, <1>3 DEF TypeOK, Screen
<1>5. cards'[r.id] = NoCard /\ \A c \in Ids \ {r.id} : cards'[c] = cards[c]
  BY <1>1, <1>3 DEF TypeOK, Screen
<1>6. References(cards')
  BY <1>5 DEF References, TypeOK
<1>7. ~Exists(r.id) => cards' = cards
  BY <1>1, <1>3, <1>4 DEF TypeOK, Screen, Exists
<1>8. Answer(x, TRUE)
  BY <1>1, <1>2, AnswerAll
<1>9. UNCHANGED <<instances, view, edits, apart>>
  BY DEF DeleteCard
<1>10. apart' \in [Tabs -> BOOLEAN] /\ last' \in Tabs \cup {None}
  BY <1>1, <1>2, <1>9 DEF TypeOK
<1>. QED
  BY <1>1, <1>2, <1>4, <1>6, <1>7, <1>8, <1>9, <1>10 DEF Served, Answer

---------------------------------------------------------------------------
(* The steps of a call keep the invariants.                                *)

\* What the invariants ask of a step of call x.
Kept(x) ==
  /\ Progress(x)
  /\ calls'[x] # Idle =>
       /\ calls'[x].todo \subseteq calls[x].todo
       /\ calls'[x].at = "reading" =>
            calls'[x].unread # {} /\ \A c \in calls'[x].unread : calls'[x].got[c] # NoCard
       /\ apart'[calls[x].tab] => calls'[x].reload
  /\ \A u \in Tabs : apart'[u] => apart[u]
  /\ \A u \in Tabs \ {calls[x].tab} :
       last' = u => last = u /\ cards' = cards /\ view'[u] = view[u]
  /\ last' = calls[x].tab /\ apart'[calls[x].tab] =>
       /\ calls'[x] = Idle => view'[calls[x].tab] = cards'
       /\ calls'[x] # Idle => Matches(x)'

LEMMA Others ==
  ASSUME TypeOK, NEW x \in Calls, Progress(x), NEW t \in Tabs
  PROVE  /\ Waiting(t)' \subseteq Waiting(t)
         /\ Waiting(t) \ {x} \subseteq Waiting(t)'
         /\ x \in Waiting(t)' => t = calls[x].tab
         /\ t = calls[x].tab => x \in Waiting(t) /\ (x \in Waiting(t)' <=> calls'[x] # Idle)
         /\ t # calls[x].tab => Waiting(t)' = Waiting(t)
  BY DEF Waiting, Progress

LEMMA KeptInv ==
  ASSUME IInv, NEW x \in Calls, Kept(x)
  PROVE  Asked' /\ Reading' /\ Single' /\ UpToDate'
<1>. USE DEF IInv
<1>1. Progress(x) /\ \A u \in Tabs : apart'[u] => apart[u]
  BY DEF Kept
<1>2. \A y \in Calls \ {x} : calls'[y] = calls[y]
  BY <1>1 DEF Progress
<1>3. calls[x] # Idle /\ calls[x].tab \in Tabs
  BY <1>1, CallType DEF Progress
<1>4. Asked'
  <2>. SUFFICES ASSUME NEW y \in Calls, calls'[y] # Idle, NEW r \in calls'[y].todo
       PROVE  /\ r.kind = "move" => r.card.source = r.base.source
              /\ r.kind = "save" => r.card.at = r.base.at /\ calls'[y].todo = {r}
              /\ r.kind = "create" => r.card.source = None /\ r.card.sources = {}
    BY DEF Asked
  <2>1. calls[y] # Idle /\ calls'[y].todo \subseteq calls[y].todo
    BY <1>2, <1>3 DEF Kept
  <2>. QED
    BY <2>1 DEF Asked
<1>5. Reading'
  BY <1>2 DEF Reading, Kept
<1>6. ASSUME NEW t \in Tabs, t = calls[x].tab, apart'[t]
      PROVE  \A y \in Waiting(t)' : y = x /\ calls'[y].reload
  <2>1. \A y \in Waiting(t) : y = x
    BY <1>1, <1>6, Others DEF Single
  <2>. QED
    BY <1>1, <1>6, <2>1, Others DEF Kept
<1>7. ASSUME NEW t \in Tabs, t # calls[x].tab
      PROVE  Waiting(t)' = Waiting(t) /\ \A y \in Waiting(t) : y # x /\ calls'[y] = calls[y]
  <2>1. Waiting(t)' = Waiting(t) /\ x \notin Waiting(t) /\ Waiting(t) \subseteq Calls
    BY <1>1, <1>7, Others DEF Waiting
  <2>. QED
    BY <1>2, <2>1
<1>8. Single'
  <2>. SUFFICES ASSUME NEW t \in Tabs, apart'[t], NEW y \in Waiting(t)', NEW z \in Waiting(t)'
       PROVE  y = z /\ calls'[y].reload
    BY DEF Single
  <2>1. CASE t = calls[x].tab
    BY <1>6, <2>1
  <2>2. CASE t # calls[x].tab
    BY <1>1, <1>7, <2>2 DEF Single
  <2>. QED
    BY <2>1, <2>2
<1>9. UpToDate'
  <2>. SUFFICES ASSUME NEW t \in Tabs, last' = t, apart'[t]
       PROVE  /\ Waiting(t)' = {} => view'[t] = cards'
              /\ \A y \in Waiting(t)' : Matches(y)'
    BY DEF UpToDate
  <2>1. CASE t = calls[x].tab
    <3>1. calls'[x] = Idle => view'[t] = cards'
      BY <2>1 DEF Kept
    <3>2. calls'[x] # Idle => Matches(x)'
      BY <2>1 DEF Kept
    <3>3. x \in Waiting(t)' <=> calls'[x] # Idle
      BY <1>1, <2>1, Others
    <3>4. ASSUME NEW y \in Waiting(t)' PROVE Matches(y)'
      <4>1. y = x
        BY <1>6, <2>1
      <4>. QED
        BY <3>2, <3>3, <4>1
    <3>. QED
      BY <3>1, <3>3, <3>4
  <2>2. CASE t # calls[x].tab
    <3>1. last = t /\ cards' = cards /\ view'[t] = view[t] /\ apart[t]
      BY <1>1, <2>2 DEF Kept
    <3>2. ASSUME NEW y \in Waiting(t)' PROVE Matches(y)'
      <4>1. y \in Waiting(t) /\ calls'[y] = calls[y]
        BY <1>7, <2>2
      <4>2. Matches(y)
        BY <3>1, <4>1 DEF UpToDate
      <4>. QED
        BY <3>1, <4>1, <4>2 DEF Matches, Exists
    <3>. QED
      BY <1>7, <2>2, <3>1, <3>2 DEF UpToDate
  <2>. QED
    BY <2>1, <2>2
<1>. QED
  BY <1>4, <1>5, <1>8, <1>9

LEMMA ServedInv ==
  ASSUME IInv, NEW x \in Calls, Served(x)
  PROVE  IInv'
<1>1. Progress(x) /\ Answer(x, apart'[calls[x].tab])
  BY DEF Served, Answer
<1>2. calls[x] # Idle /\ calls[x].tab \in Tabs
  BY <1>1, CallType DEF Progress, IInv
<1>3. TypeOK'
  BY <1>1 DEF IInv, TypeOK, Served, References, Progress
<1>4. apart'[calls[x].tab] => calls'[x] # Idle /\ calls'[x].reload
  <2>1. apart'[calls[x].tab] => apart[calls[x].tab]
    BY <1>2 DEF Served
  <2>2. apart[calls[x].tab] => calls[x].reload
    BY <1>2 DEF IInv, Single, Waiting
  <2>. QED
    BY <1>1, <2>1, <2>2 DEF Answer
<1>5. calls'[x] # Idle =>
        calls'[x].todo \subseteq calls[x].todo /\ calls'[x].at \in {"saving", "sources", "load"}
  BY <1>1 DEF Answer, Served
<1>6. calls'[x] # Idle => Matches(x)'
  BY <1>5 DEF Matches
<1>7. Kept(x)
  BY <1>1, <1>2, <1>4, <1>5, <1>6 DEF Kept, Served
<1>. QED
  BY <1>3, <1>7, KeptInv DEF IInv

LEMMA LoadedInv ==
  ASSUME IInv, NEW x \in Calls, Loaded(x)
  PROVE  IInv'
<1>1. calls[x] # Idle /\ calls[x].at = "answered" /\ calls[x].tab \in Tabs /\ calls[x].got \in Screen
  BY CallType DEF IInv, Loaded
<1>2. calls' = [calls EXCEPT ![x] = Idle] /\ view' = [view EXCEPT ![calls[x].tab] = calls[x].got]
  BY DEF Loaded
<1>3. Progress(x) /\ calls'[x] = Idle
  BY <1>1, <1>2, ProgressStep DEF IInv
<1>4. UNCHANGED <<instances, cards, edits, last, apart>>
  BY DEF Loaded
<1>5. view' \in [Tabs -> Screen]
  BY <1>1, <1>2 DEF IInv, TypeOK
<1>6. view'[calls[x].tab] = calls[x].got /\ \A u \in Tabs \ {calls[x].tab} : view'[u] = view[u]
  BY <1>1, <1>2 DEF IInv, TypeOK
<1>7. TypeOK'
  BY <1>3, <1>4, <1>5 DEF IInv, TypeOK, Progress
<1>8. last = calls[x].tab /\ apart[calls[x].tab] => calls[x].got = cards
  BY <1>1 DEF IInv, UpToDate, Waiting, Matches
<1>9. Kept(x)
  BY <1>3, <1>4, <1>6, <1>8 DEF Kept
<1>. QED
  BY <1>7, <1>9, KeptInv DEF IInv

\* A step of a reload: only call x changes.
Read(x, k) ==
  /\ k \in Call /\ k.tab = calls[x].tab /\ k.todo = calls[x].todo /\ k.reload = calls[x].reload
  /\ calls' = [calls EXCEPT ![x] = k]
  /\ UNCHANGED <<instances, cards, view, edits, last, apart>>

LEMMA ReadInv ==
  ASSUME IInv, NEW x \in Calls, calls[x] # Idle, NEW k, Read(x, k),
         k.at = "reading" => k.unread # {} /\ \A c \in k.unread : k.got[c] # NoCard,
         last = calls[x].tab /\ apart[calls[x].tab] =>
           /\ k.at = "reading" =>
                \A c \in Ids : IF c \in k.unread
                               THEN Exists(c) /\ k.got[c] = [cards[c] EXCEPT !.sources = {}]
                               ELSE k.got[c] = cards[c]
           /\ k.at = "answered" => k.got = cards
  PROVE  IInv'
<1>1. Progress(x) /\ calls'[x] = k
  BY ProgressStep DEF Read, IInv
<1>2. UNCHANGED <<instances, cards, view, edits, last, apart>>
  BY DEF Read
<1>3. TypeOK'
  BY <1>1, <1>2 DEF IInv, TypeOK, Progress
<1>4. calls[x].tab \in Tabs
  BY CallType DEF IInv
<1>5. apart[calls[x].tab] => calls[x].reload
  BY <1>4 DEF IInv, Single, Waiting
<1>6. k # Idle
  BY DesignerAssumption DEF Read
<1>7. last = calls[x].tab /\ apart[calls[x].tab] => Matches(x)'
  BY <1>1, <1>2 DEF Matches, Exists
<1>8. Kept(x)
  BY <1>1, <1>2, <1>5, <1>6, <1>7 DEF Kept, Read
<1>. QED
  BY <1>3, <1>8, KeptInv DEF IInv

LEMMA ListCardsInv ==
  ASSUME IInv, NEW x \in Calls, ListCards(x)
  PROVE  IInv'
<1>. DEFINE there == {c \in Ids : Exists(c)}
            rows == [c \in Ids |-> IF c \in there THEN [cards[c] EXCEPT !.sources = {}]
                                   ELSE NoCard]
            k == [calls[x] EXCEPT !.got = rows, !.unread = there,
                                  !.at = IF there = {} THEN "answered" ELSE "reading"]
<1>1. calls[x] # Idle /\ calls[x] \in Call
  BY CallType DEF IInv, ListCards
<1>2. UNCHANGED <<instances, cards, view, edits, last, apart>>
  BY DEF ListCards
<1>3. calls' = [calls EXCEPT ![x] = k]
  BY DEF ListCards
<1>4. there \subseteq Ids /\ \A c \in Ids : c \in there <=> cards[c] # NoCard
  BY DEF Exists
<1>5. \A c \in there : cards[c] \in Card /\ [cards[c] EXCEPT !.sources = {}] \in Card
  <2>1. \A c \in there : cards[c] \in Card
    BY <1>4 DEF IInv, TypeOK, Screen
  <2>. QED
    BY <2>1 DEF Card
<1>6. /\ rows \in Screen
      /\ \A c \in there : rows[c] = [cards[c] EXCEPT !.sources = {}] /\ rows[c] # NoCard
      /\ \A c \in Ids \ there : rows[c] = cards[c]
  BY <1>4, <1>5, DesignerAssumption DEF Screen
<1>7. there = {} => rows = cards
  BY <1>4, <1>6 DEF IInv, TypeOK, Screen
<1>. HIDE DEF rows, there
<1>8. /\ k \in Call /\ k.tab = calls[x].tab /\ k.todo = calls[x].todo /\ k.reload = calls[x].reload
      /\ k.got = rows /\ k.unread = there
      /\ k.at = IF there = {} THEN "answered" ELSE "reading"
  BY <1>1, <1>4, <1>6 DEF Call
<1>. HIDE DEF k
<1>9. Read(x, k)
  BY <1>2, <1>3, <1>8 DEF Read
<1>10. k.at = "reading" => k.unread # {} /\ \A c \in k.unread : k.got[c] # NoCard
  BY <1>6, <1>8
<1>11. \A c \in Ids : IF c \in k.unread
                      THEN Exists(c) /\ k.got[c] = [cards[c] EXCEPT !.sources = {}]
                      ELSE k.got[c] = cards[c]
  BY <1>4, <1>6, <1>8 DEF Exists
<1>12. k.at = "answered" => k.got = cards
  BY <1>7, <1>8
<1>. QED
  BY <1>1, <1>9, <1>10, <1>11, <1>12, ReadInv

LEMMA ListCardDataSourcesInv ==
  ASSUME IInv, NEW x \in Calls, ListCardDataSources(x)
  PROVE  IInv'
<1>. DEFINE old == calls[x]
            c == Min(old.unread)
            new == [old.got[c] EXCEPT !.sources = IF Exists(c) THEN cards[c].sources ELSE {}]
            rows == [old.got EXCEPT ![c] = new]
            k == [old EXCEPT !.got = rows, !.unread = @ \ {c},
                             !.at = IF old.unread = {c} THEN "answered" ELSE "reading"]
<1>1. /\ old # Idle /\ old \in Call /\ old.unread \subseteq Ids /\ old.got \in Screen
      /\ old.at = "reading"
  BY CallType DEF IInv, ListCardDataSources
<1>2. UNCHANGED <<instances, cards, view, edits, last, apart>>
  BY DEF ListCardDataSources
<1>3. calls' = [calls EXCEPT ![x] = k]
  BY DEF ListCardDataSources
<1>4. old.unread # {} /\ \A d \in old.unread : old.got[d] # NoCard
  BY <1>1 DEF IInv, Reading
<1>5. c \in old.unread /\ c \in Ids
  BY <1>1, <1>4, MinType DEF Ids
<1>6. /\ Exists(c) => cards[c] \in Card
      /\ (IF Exists(c) THEN cards[c].sources ELSE {}) \in SUBSET Instances
  BY <1>5 DEF IInv, TypeOK, Screen, Exists, Card
<1>7. new \in Card
  <2>1. old.got[c] \in Card
    BY <1>1, <1>4, <1>5 DEF Screen
  <2>. QED
    BY <1>6, <2>1 DEF Card
<1>8. Exists(c) /\ old.got[c] = [cards[c] EXCEPT !.sources = {}] => new = cards[c]
  BY <1>6 DEF Card
<1>9. (last = old.tab /\ apart[old.tab] =>
        \A d \in Ids : IF d \in old.unread
                       THEN Exists(d) /\ old.got[d] = [cards[d] EXCEPT !.sources = {}]
                       ELSE old.got[d] = cards[d])
  BY <1>1, CallType DEF IInv, UpToDate, Waiting, Matches
<1>. HIDE DEF new, c, old
<1>10. /\ rows \in Screen /\ rows[c] = new
       /\ \A d \in Ids \ {c} : rows[d] = old.got[d]
  BY <1>1, <1>5, <1>7 DEF Screen
<1>. HIDE DEF rows
<1>11. /\ k \in Call /\ k.tab = old.tab /\ k.todo = old.todo /\ k.reload = old.reload
       /\ k.got = rows /\ k.unread = old.unread \ {c}
       /\ k.at = IF old.unread = {c} THEN "answered" ELSE "reading"
  BY <1>1, <1>10 DEF Call
<1>. HIDE DEF k
<1>12. Read(x, k)
  BY <1>2, <1>3, <1>11 DEF Read, old
<1>13. k.at = "reading" => k.unread # {} /\ \A d \in k.unread : k.got[d] # NoCard
  BY <1>1, <1>4, <1>5, <1>10, <1>11
<1>14. last = old.tab /\ apart[old.tab] =>
         \A d \in Ids : IF d \in k.unread
                        THEN Exists(d) /\ k.got[d] = [cards[d] EXCEPT !.sources = {}]
                        ELSE k.got[d] = cards[d]
  BY <1>5, <1>8, <1>9, <1>10, <1>11
<1>15. last = old.tab /\ apart[old.tab] => (k.at = "answered" => k.got = cards)
  BY <1>10, <1>11, <1>14 DEF IInv, TypeOK, Screen
<1>. QED
  BY <1>1, <1>12, <1>13, <1>14, <1>15, ReadInv DEF old

LEMMA LoseInv ==
  ASSUME IInv, NEW x \in Calls, Lose(x)
  PROVE  IInv'
<1>. DEFINE old == calls[x]
<1>1. old # Idle /\ old \in Call /\ old.tab \in Tabs
  BY CallType DEF IInv, Lose
<1>2. \E k \in Call \cup {Idle} :
        /\ calls' = [calls EXCEPT ![x] = k]
        /\ k # Idle => /\ k.tab = old.tab /\ k.todo \subseteq old.todo
                       /\ k.at = old.at \/ k.at = "load"
                       /\ k.unread = old.unread /\ k.got = old.got
  <2>1. CASE old.todo = {} /\ calls' = [calls EXCEPT ![x] = Idle]
    BY <2>1
  <2>2. CASE calls' = [calls EXCEPT ![x].reload = FALSE]
    <3>. DEFINE k == [old EXCEPT !.reload = FALSE]
    <3>1. /\ k \in Call /\ k.tab = old.tab /\ k.todo = old.todo /\ k.at = old.at
          /\ k.unread = old.unread /\ k.got = old.got
      BY <1>1 DEF Call
    <3>2. calls' = [calls EXCEPT ![x] = k]
      BY <2>2
    <3>. HIDE DEF k, old
    <3>. QED
      BY <3>1, <3>2
  <2>3. CASE \E r \in old.todo : Saving(x) /\ calls' = [calls EXCEPT ![x] = Answered(@, r, FALSE)]
    <3>1. PICK r \in old.todo : calls' = [calls EXCEPT ![x] = Answered(old, r, FALSE)]
      BY <2>3
    <3>. HIDE DEF old
    <3>. DEFINE k == Answered(old, r, FALSE)
    <3>2. /\ k \in Call \cup {Idle}
          /\ k # Idle =>
               /\ k.tab = old.tab /\ k.todo = old.todo \ {r}
               /\ k.unread = old.unread /\ k.got = old.got
               /\ k.at = old.at \/ (k.at = "load" /\ k.todo = {})
      BY <1>1, AnsweredType
    <3>3. calls' = [calls EXCEPT ![x] = k]
      BY <3>1
    <3>. HIDE DEF k
    <3>4. k # Idle => /\ k.tab = old.tab /\ k.todo \subseteq old.todo
                      /\ k.at = old.at \/ k.at = "load"
                      /\ k.unread = old.unread /\ k.got = old.got
      BY <3>2
    <3>. QED
      BY <3>2, <3>3, <3>4, Zenon
  <2>. QED
    BY <2>1, <2>2, <2>3 DEF Lose
<1>3. PICK k \in Call \cup {Idle} :
        /\ calls' = [calls EXCEPT ![x] = k]
        /\ k # Idle => /\ k.tab = old.tab /\ k.todo \subseteq old.todo
                       /\ k.at = old.at \/ k.at = "load"
                       /\ k.unread = old.unread /\ k.got = old.got
  BY <1>2
<1>4. Progress(x) /\ calls'[x] = k
  BY <1>1, <1>3, ProgressStep DEF IInv
<1>5. UNCHANGED <<instances, cards, view, edits, last>>
  BY DEF Lose
<1>6. /\ apart' \in [Tabs -> BOOLEAN] /\ ~apart'[old.tab]
      /\ \A u \in Tabs : apart'[u] => apart[u]
  BY <1>1 DEF IInv, TypeOK, Lose
<1>7. TypeOK'
  BY <1>4, <1>5, <1>6 DEF IInv, TypeOK, Progress
<1>8. k # Idle /\ k.at = "reading" => k.unread # {} /\ \A c \in k.unread : k.got[c] # NoCard
  BY <1>1, <1>3 DEF IInv, Reading
<1>9. Kept(x)
  BY <1>3, <1>4, <1>5, <1>6, <1>8 DEF Kept
<1>. QED
  BY <1>7, <1>9, KeptInv DEF IInv

---------------------------------------------------------------------------
(* The page and the plugin instances keep the invariants.                  *)

LEMMA ChangedInv ==
  ASSUME IInv, NEW t \in Tabs, Changed(t)
  PROVE  IInv'
<1>1. PICK x \in Calls : Begun(t, x)
  BY DEF Changed
<1>2. /\ calls[x] = Idle /\ calls'[x] # Idle /\ calls'[x].tab = t /\ calls'[x].at = "saving"
      /\ calls'[x].reload /\ \A y \in Calls \ {x} : calls'[y] = calls[y]
  BY <1>1 DEF Begun
<1>3. /\ UNCHANGED <<instances, cards, last>>
      /\ (apart'[t] => Waiting(t) = {})
      /\ \A u \in Tabs \ {t} : apart'[u] = apart[u] /\ view'[u] = view[u]
  BY DEF Changed
<1>4. TypeOK'
  BY <1>1, <1>3 DEF IInv, TypeOK, Begun, Changed
<1>5. Asked'
  <2>. SUFFICES ASSUME NEW y \in Calls, calls'[y] # Idle, NEW r \in calls'[y].todo
       PROVE  /\ r.kind = "move" => r.card.source = r.base.source
              /\ r.kind = "save" => r.card.at = r.base.at /\ calls'[y].todo = {r}
              /\ r.kind = "create" => r.card.source = None /\ r.card.sources = {}
    BY DEF Asked
  <2>1. CASE y = x
    BY <1>1, <2>1 DEF Begun, Sound
  <2>2. CASE y # x
    BY <1>2, <2>2 DEF IInv, Asked
  <2>. QED
    BY <2>1, <2>2
<1>6. Reading'
  BY <1>2 DEF IInv, Reading
<1>7. /\ Waiting(t)' = Waiting(t) \cup {x}
      /\ \A u \in Tabs \ {t} : Waiting(u)' = Waiting(u)
      /\ \A u \in Tabs : x \notin Waiting(u)
  BY <1>2 DEF Waiting
<1>8. \A u \in Tabs : \A y \in Waiting(u) : y \in Calls \ {x} /\ calls'[y] = calls[y]
  BY <1>2, <1>7 DEF Waiting
<1>9. Single'
  BY <1>2, <1>3, <1>7, <1>8 DEF IInv, Single
<1>10. UpToDate'
  <2>. SUFFICES ASSUME NEW u \in Tabs, last' = u, apart'[u]
       PROVE  /\ Waiting(u)' = {} => view'[u] = cards'
              /\ \A y \in Waiting(u)' : Matches(y)'
    BY DEF UpToDate
  <2>1. CASE u = t
    <3>1. Waiting(u)' = {x}
      BY <1>3, <1>7, <2>1
    <3>2. Matches(x)'
      BY <1>2 DEF Matches
    <3>. QED
      BY <3>1, <3>2
  <2>2. CASE u # t
    <3>1. last = u /\ apart[u] /\ view'[u] = view[u] /\ cards' = cards /\ Waiting(u)' = Waiting(u)
      BY <1>3, <1>7, <2>2
    <3>2. ASSUME NEW y \in Waiting(u)' PROVE Matches(y)'
      <4>1. calls'[y] = calls[y] /\ Matches(y)
        BY <1>8, <3>1 DEF IInv, UpToDate
      <4>. QED
        BY <3>1, <4>1 DEF Matches, Exists
    <3>. QED
      BY <3>1, <3>2 DEF IInv, UpToDate
  <2>. QED
    BY <2>1, <2>2
<1>. QED
  BY <1>4, <1>5, <1>6, <1>9, <1>10 DEF IInv

LEMMA OpenInv ==
  ASSUME IInv, NEW t \in Tabs, Open(t)
  PROVE  IInv'
<1>1. PICK x \in Calls :
        /\ calls[x] = Idle
        /\ calls' = [y \in Calls |->
             IF y = x THEN NewCall(t, "load", {})
             ELSE IF y \notin Waiting(t) THEN calls[y]
             ELSE IF calls[y].todo = {} THEN Idle
             ELSE [calls[y] EXCEPT !.reload = FALSE]]
  BY DEF Open
<1>2. /\ calls'[x] \in Call /\ calls'[x] # Idle /\ calls'[x].tab = t /\ calls'[x].at = "load"
      /\ calls'[x].todo = {} /\ calls'[x].reload
  <2>1. calls'[x] = NewCall(t, "load", {}) /\ {} \in SUBSET Request
    BY <1>1
  <2>. QED
    BY <2>1, NewCallType
<1>3. \A y \in Calls \ {x} : y \notin Waiting(t) => calls'[y] = calls[y]
  BY <1>1
<1>4. ASSUME NEW y \in Calls \ {x}, y \in Waiting(t)
      PROVE  /\ calls'[y] \in Call \cup {Idle}
             /\ calls[y].todo = {} => calls'[y] = Idle
             /\ calls'[y] # Idle =>
                  /\ calls'[y].tab = t /\ calls'[y].at = calls[y].at
                  /\ calls'[y].todo = calls[y].todo /\ calls'[y].unread = calls[y].unread
                  /\ calls'[y].got = calls[y].got
  <2>1. calls[y] \in Call /\ calls[y].tab = t
    BY <1>4, CallType DEF IInv, Waiting
  <2>. DEFINE k == [calls[y] EXCEPT !.reload = FALSE]
  <2>2. /\ k \in Call /\ k.tab = t /\ k.at = calls[y].at /\ k.todo = calls[y].todo
        /\ k.unread = calls[y].unread /\ k.got = calls[y].got
    BY <2>1 DEF Call
  <2>3. calls'[y] = IF calls[y].todo = {} THEN Idle ELSE k
    BY <1>1, <1>4
  <2>. HIDE DEF k
  <2>. QED
    BY <2>2, <2>3, DesignerAssumption
<1>5. /\ UNCHANGED <<instances, cards, edits, last>>
      /\ view' \in [Tabs -> Screen] /\ apart' \in [Tabs -> BOOLEAN]
      /\ \A u \in Tabs \ {t} : view'[u] = view[u] /\ apart'[u] = apart[u]
      /\ apart'[t] => \A y \in Waiting(t) : calls[y].todo = {}
  <2>1. NoCards \in Screen
    BY DEF NoCards, Screen
  <2>. QED
    BY <2>1 DEF Open, IInv, TypeOK
<1>6. TypeOK'
  <2>1. \A y \in Calls : calls'[y] \in Call \cup {Idle}
    BY <1>2, <1>3, <1>4 DEF IInv, TypeOK
  <2>2. calls' = [y \in Calls |-> calls'[y]]
    BY <1>1
  <2>3. calls' \in [Calls -> Call \cup {Idle}]
    BY <2>1, <2>2
  <2>. QED
    BY <1>5, <2>3 DEF IInv, TypeOK
<1>7. Asked'
  <2>. SUFFICES ASSUME NEW y \in Calls, calls'[y] # Idle, NEW r \in calls'[y].todo
       PROVE  /\ r.kind = "move" => r.card.source = r.base.source
              /\ r.kind = "save" => r.card.at = r.base.at /\ calls'[y].todo = {r}
              /\ r.kind = "create" => r.card.source = None /\ r.card.sources = {}
    BY DEF Asked
  <2>1. y # x
    BY <1>2
  <2>2. calls[y] # Idle /\ calls'[y].todo = calls[y].todo
    BY <1>3, <1>4, <2>1 DEF Waiting
  <2>. QED
    BY <2>2 DEF IInv, Asked
<1>8. Reading'
  <2>. SUFFICES ASSUME NEW y \in Calls, calls'[y] # Idle, calls'[y].at = "reading"
       PROVE  calls'[y].unread # {} /\ \A c \in calls'[y].unread : calls'[y].got[c] # NoCard
    BY DEF Reading
  <2>1. y # x
    BY <1>2
  <2>2. calls[y] # Idle /\ calls[y].at = "reading" /\ calls'[y].unread = calls[y].unread
        /\ calls'[y].got = calls[y].got
    BY <1>3, <1>4, <2>1 DEF Waiting
  <2>. QED
    BY <2>2 DEF IInv, Reading
<1>9. ASSUME NEW u \in Tabs \ {t}
      PROVE  Waiting(u)' = Waiting(u) /\ \A y \in Waiting(u) : y # x /\ calls'[y] = calls[y]
  <2>1. \A y \in Waiting(u) : y \in Calls \ {x} /\ y \notin Waiting(t)
    BY <1>1, <1>9 DEF Waiting
  <2>2. \A y \in Calls \ {x} : calls'[y] # Idle /\ calls'[y].tab = u => y \in Waiting(u)
    BY <1>3, <1>4, <1>9 DEF Waiting
  <2>. QED
    BY <1>2, <1>3, <1>9, <2>1, <2>2 DEF Waiting
<1>10. apart'[t] => Waiting(t)' = {x}
  BY <1>2, <1>3, <1>4, <1>5 DEF Waiting
<1>11. Single'
  BY <1>2, <1>5, <1>9, <1>10 DEF IInv, Single
<1>12. UpToDate'
  <2>. SUFFICES ASSUME NEW u \in Tabs, last' = u, apart'[u]
       PROVE  /\ Waiting(u)' = {} => view'[u] = cards'
              /\ \A y \in Waiting(u)' : Matches(y)'
    BY DEF UpToDate
  <2>1. CASE u = t
    BY <1>2, <1>10, <2>1 DEF Matches
  <2>2. CASE u # t
    <3>1. last = u /\ apart[u] /\ view'[u] = view[u] /\ cards' = cards /\ Waiting(u)' = Waiting(u)
      BY <1>5, <1>9, <2>2
    <3>2. ASSUME NEW y \in Waiting(u)' PROVE Matches(y)'
      <4>1. calls'[y] = calls[y] /\ Matches(y)
        BY <1>9, <2>2, <3>1 DEF IInv, UpToDate
      <4>. QED
        BY <3>1, <4>1 DEF Matches, Exists
    <3>. QED
      BY <3>1, <3>2 DEF IInv, UpToDate
  <2>. QED
    BY <2>1, <2>2
<1>. QED
  BY <1>6, <1>7, <1>8, <1>11, <1>12 DEF IInv

LEMMA DeletePluginInstanceInv ==
  ASSUME IInv, NEW i \in Instances, DeletePluginInstance(i)
  PROVE  IInv'
<1>1. /\ UNCHANGED <<view, calls, apart>> /\ last' = None /\ edits' \in 0..MaxEdits
      /\ instances' = instances \ {i}
  <2>1. UNCHANGED <<view, calls, apart>> /\ last' = None /\ instances' = instances \ {i} /\ Edit
    BY DEF DeletePluginInstance
  <2>2. edits' \in 0..MaxEdits
    BY <2>1, DesignerAssumption DEF Edit, IInv, TypeOK
  <2>. QED
    BY <2>1, <2>2
<1>2. cards' = [c \in Ids |-> IF cards[c] = NoCard THEN NoCard
                              ELSE [cards[c] EXCEPT !.sources = @ \ {i},
                                                    !.source = IF @ = i THEN None ELSE @]]
  BY DEF DeletePluginInstance, Exists
<1>3. ASSUME NEW c \in Ids, cards[c] # NoCard
      PROVE  /\ cards'[c] \in Card
             /\ cards'[c].source \in instances' \cup {None}
             /\ cards'[c].sources \subseteq instances'
  <2>1. /\ cards[c] \in Card /\ cards[c].source \in instances \cup {None}
        /\ cards[c].sources \subseteq instances
    BY <1>3 DEF IInv, TypeOK, Screen
  <2>2. cards'[c] = [cards[c] EXCEPT !.sources = cards[c].sources \ {i},
                                     !.source = IF cards[c].source = i THEN None
                                                ELSE cards[c].source]
    BY <1>2, <1>3
  <2>. QED
    BY <1>1, <2>1, <2>2 DEF Card
<1>4. \A c \in Ids : cards[c] = NoCard => cards'[c] = NoCard
  BY <1>2
<1>5. TypeOK'
  <2>1. cards' \in Screen
    BY <1>2, <1>3, <1>4 DEF Screen
  <2>2. \A c \in Ids : cards'[c] # NoCard =>
          cards'[c].source \in instances' \cup {None} /\ cards'[c].sources \subseteq instances'
    BY <1>3, <1>4
  <2>. QED
    BY <1>1, <2>1, <2>2 DEF IInv, TypeOK
<1>6. Asked' /\ Reading' /\ Single'
  BY <1>1 DEF IInv, Asked, Reading, Single, Waiting
<1>7. UpToDate'
  BY <1>1, DesignerAssumption DEF UpToDate
<1>. QED
  BY <1>5, <1>6, <1>7 DEF IInv

LEMMA CreatePluginInstanceInv ==
  ASSUME IInv, NEW i \in Instances, CreatePluginInstance(i)
  PROVE  IInv'
<1>1. UNCHANGED <<cards, view, calls, last, apart>> /\ instances' = instances \cup {i}
      /\ edits' \in 0..MaxEdits
  BY DesignerAssumption DEF CreatePluginInstance, Edit, IInv, TypeOK
<1>2. TypeOK'
  BY <1>1 DEF IInv, TypeOK
<1>3. Asked' /\ Reading' /\ Single' /\ UpToDate'
  BY <1>1 DEF IInv, Asked, Reading, Single, UpToDate, Waiting, Matches, Exists
<1>. QED
  BY <1>2, <1>3 DEF IInv

LEMMA StepInv ==
  ASSUME IInv, [Next]_vars
  PROVE  IInv'
<1>1. ASSUME NEW t \in Tabs, PageStep(t) PROVE IInv'
  BY <1>1, PageEffect, ChangedInv, OpenInv DEF PageStep, IInv
<1>2. ASSUME NEW x \in Calls, ServerStep(x) PROVE IInv'
  <2>1. CASE UpdateCard(x) \/ RefuseUpdate(x) \/ SetCardDataSources(x)
             \/ CreateCard(x) \/ DeleteCard(x)
    BY <2>1, UpdateCardEffect, RefuseUpdateEffect, SetCardDataSourcesEffect,
       CreateCardEffect, DeleteCardEffect, ServedInv DEF IInv
  <2>2. CASE ListCards(x) \/ ListCardDataSources(x)
    BY <2>2, ListCardsInv, ListCardDataSourcesInv
  <2>. QED
    BY <1>2, <2>1, <2>2 DEF ServerStep
<1>3. ASSUME NEW x \in Calls, Loaded(x) \/ Lose(x) PROVE IInv'
  BY <1>3, LoadedInv, LoseInv
<1>4. ASSUME NEW i \in Instances, DeletePluginInstance(i) \/ CreatePluginInstance(i) PROVE IInv'
  BY <1>4, DeletePluginInstanceInv, CreatePluginInstanceInv
<1>5. CASE UNCHANGED vars
  BY <1>5 DEF vars, IInv, TypeOK, Asked, Reading, Single, UpToDate, Waiting, Matches, Exists
<1>. QED
  BY <1>1, <1>2, <1>3, <1>4, <1>5 DEF Next

---------------------------------------------------------------------------
\* The inductive invariant behind the theorems below.
THEOREM IInvCorrect == Spec => []IInv
BY InitInv, StepInv, PTL DEF Spec

\* Values keep their types, and no card refers to an instance that is gone:
\* the foreign keys' actions and the handlers' checks see to it.
THEOREM TypeCorrect == Spec => []TypeOK
<1>1. IInv => TypeOK
  BY DEF IInv
<1>. QED
  BY <1>1, IInvCorrect, PTL

\* The tab that made the last change shows the cards as they are once it has
\* its answers (load, persistPositions).
THEOREM LastSaver == Spec => []LastSaverSeesTable
<1>1. IInv => LastSaverSeesTable
  BY DEF IInv, UpToDate, LastSaverSeesTable
<1>. QED
  BY <1>1, IInvCorrect, PTL

\* A change of a card is handled by the step of its own call.
LEMMA HandledStep ==
  ASSUME IInv, [Next]_vars, NEW x \in Calls, NEW r \in calls[x].todo, Handled(x, r)
  PROVE  UpdateCard(x) \/ CreateCard(x) \/ DeleteCard(x)
<1>1. calls[x] # Idle /\ calls[x].at = "saving" /\ cards' # cards /\ calls'[x] # calls[x]
  <2>1. calls[x] # Idle /\ calls[x].at = "saving" /\ cards' # cards
    BY DEF Handled, Saving
  <2>2. calls'[x] # calls[x]
    BY <2>1 DEF Handled
  <2>. QED
    BY <2>1, <2>2
<1>2. Next
  BY <1>1 DEF vars
<1>3. ASSUME NEW t \in Tabs, PageStep(t) PROVE FALSE
  <2>1. UNCHANGED cards
    BY <1>3, PageEffect DEF PageStep, Changed, Open, IInv
  <2>. QED
    BY <1>1, <2>1
<1>4. ASSUME NEW i \in Instances, DeletePluginInstance(i) \/ CreatePluginInstance(i) PROVE FALSE
  BY <1>1, <1>4 DEF DeletePluginInstance, CreatePluginInstance
<1>5. ASSUME NEW y \in Calls, Loaded(y) \/ Lose(y) PROVE FALSE
  BY <1>1, <1>5 DEF Loaded, Lose
<1>6. ASSUME NEW y \in Calls, ServerStep(y)
      PROVE  UpdateCard(x) \/ CreateCard(x) \/ DeleteCard(x)
  <2>1. CASE ListCards(y) \/ ListCardDataSources(y) \/ RefuseUpdate(y)
    BY <1>1, <2>1 DEF ListCards, ListCardDataSources, RefuseUpdate
  <2>2. CASE UpdateCard(y) \/ SetCardDataSources(y) \/ CreateCard(y) \/ DeleteCard(y)
    <3>1. Progress(y)
      BY <2>2, UpdateCardEffect, SetCardDataSourcesEffect, CreateCardEffect, DeleteCardEffect
         DEF Served, Answer, IInv
    <3>2. y = x
      BY <1>1, <3>1 DEF Progress
    <3>. QED
      BY <1>1, <2>2, <3>2 DEF SetCardDataSources
  <2>. QED
    BY <1>6, <2>1, <2>2 DEF ServerStep
<1>. QED
  BY <1>2, <1>3, <1>4, <1>5, <1>6 DEF Next

\* A request of call x that is answered in this step is the one that the step
\* takes, or x had no other.
LEMMA HandledOnly ==
  ASSUME IInv, NEW x \in Calls, calls[x] # Idle, NEW r \in calls[x].todo, NEW q \in calls[x].todo,
         r.kind \in {"move", "save"}, calls[x].at = "saving",
         calls'[x] = Idle \/ r \notin calls'[x].todo \/ calls'[x].at = "sources",
         calls' = [calls EXCEPT ![x] = IF HasList(q) THEN [@ EXCEPT !.at = "sources"]
                                       ELSE Answered(@, q, @.reload)]
  PROVE  r = q
<1>1. /\ calls[x] \in Call
      /\ (r.kind = "save" => calls[x].todo = {r}) /\ (q.kind = "save" => calls[x].todo = {q})
  BY CallType DEF IInv, Asked
<1>2. CASE HasList(q)
  BY <1>1, <1>2 DEF HasList
<1>3. CASE ~HasList(q) /\ r # q
  <2>. DEFINE k == [calls[x] EXCEPT !.todo = @ \ {q}, !.reload = calls[x].reload]
  <2>1. calls[x].todo # {q}
    BY <1>3
  <2>2. calls' = [calls EXCEPT ![x] = k]
    BY <1>3, <2>1 DEF Answered
  <2>3. k \in Call /\ k.todo = calls[x].todo \ {q} /\ k.at = "saving"
    BY <1>1 DEF Call
  <2>. HIDE DEF k
  <2>4. calls'[x] = k /\ k # Idle
    BY <2>2, <2>3, DesignerAssumption DEF IInv, TypeOK
  <2>. QED
    BY <1>3, <2>3, <2>4
<1>. QED
  BY <1>2, <1>3

\* Moving a card leaves its data sources alone, saving its settings leaves its
\* place alone, when the page's copy was the table's row (persistPositions,
\* handleSaveCardSettings, UpdateCard).
THEOREM KeepsRest == Spec => KeepsTheRest
<1>1. ASSUME IInv, [Next]_vars, NEW x \in Calls, calls[x] # Idle, NEW r \in calls[x].todo,
             Handled(x, r)
      PROVE  IF r.kind = "move"
             THEN /\ cards'[r.id].source = cards[r.id].source
                  /\ cards'[r.id].sources = cards[r.id].sources
             ELSE cards'[r.id].at = cards[r.id].at
  <2>1. /\ calls[x].at = "saving" /\ r.kind \in {"move", "save"} /\ cards[r.id] = r.base
        /\ calls'[x] = Idle \/ r \notin calls'[x].todo \/ calls'[x].at = "sources"
    BY <1>1 DEF Handled, Saving
  <2>2. /\ r.id \in Ids /\ r.card \in Card /\ r.base \in Card
        /\ (r.kind = "move" => r.card.source = r.base.source)
        /\ (r.kind = "save" => r.card.at = r.base.at)
    BY <1>1, CallType DEF IInv, Asked
  <2>3. ASSUME NEW q \in calls[x].todo, q.kind \in {"create", "delete"},
               calls' = [calls EXCEPT ![x] = Answered(@, q, @.reload)]
        PROVE  FALSE
    <3>1. calls' = [calls EXCEPT ![x] = IF HasList(q) THEN [@ EXCEPT !.at = "sources"]
                                        ELSE Answered(@, q, @.reload)]
      BY <2>3 DEF HasList
    <3>2. r = q
      BY <1>1, <2>1, <3>1, HandledOnly
    <3>. QED
      BY <2>1, <2>3, <3>2
  <2>4. UpdateCard(x)
    BY <1>1, <2>3, HandledStep DEF CreateCard, DeleteCard
  <2>5. PICK q \in calls[x].todo :
          /\ cards' = [cards EXCEPT ![q.id] = [q.card EXCEPT !.sources = cards[q.id].sources]]
          /\ calls' = [calls EXCEPT ![x] = IF HasList(q) THEN [@ EXCEPT !.at = "sources"]
                                           ELSE Answered(@, q, @.reload)]
    BY <2>4 DEF UpdateCard
  <2>6. r = q
    BY <1>1, <2>1, <2>5, HandledOnly
  <2>. DEFINE new == [r.card EXCEPT !.sources = cards[r.id].sources]
  <2>7. new.source = r.card.source /\ new.at = r.card.at /\ new.sources = cards[r.id].sources
    BY <2>2 DEF Card
  <2>8. cards' = [cards EXCEPT ![r.id] = new]
    BY <2>5, <2>6
  <2>. HIDE DEF new
  <2>9. cards'[r.id] = new
    BY <1>1, <2>2, <2>8 DEF IInv, TypeOK, Screen
  <2>. QED
    BY <2>1, <2>2, <2>7, <2>9
<1>2. IInv /\ [Next]_vars =>
        [\A x \in Calls : calls[x] # Idle => \A r \in calls[x].todo : Handled(x, r) =>
           IF r.kind = "move"
           THEN /\ cards'[r.id].source = cards[r.id].source
                /\ cards'[r.id].sources = cards[r.id].sources
           ELSE cards'[r.id].at = cards[r.id].at]_vars
  BY <1>1
<1>. QED
  BY <1>2, IInvCorrect, PTL DEF Spec, KeepsTheRest
=============================================================================
