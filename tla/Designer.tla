------------------------------ MODULE Designer ------------------------------
(***************************************************************************)
(* Editing the cards of a screen: the Designer page in several tabs        *)
(* (web/src/admin/pages/DesignerPage.tsx), the card handlers               *)
(* (internal/api/display_handlers.go) and the cards with their data        *)
(* sources (internal/db/displays.go), while plugin instances are deleted.  *)
(*                                                                         *)
(* Every change is a request, or several at once, for whole rows, followed *)
(* by a reload of the page's copy; changes overlap freely, and the reloads *)
(* may overtake each other.  A SQL statement or transaction is one step.   *)
(***************************************************************************)
EXTENDS Naturals, FiniteSetsExt

CONSTANTS
  MaxCard,   \* bound: row ids of cards are 1..MaxCard
  Instances, \* row ids of data_plugin_instances
  Places,    \* where a card may be: x, y, w, h
  Headers,   \* header_text, header_halign, content_halign, content_valign
  Tabs,      \* bound: open Designer pages, all on the same screen
  Calls,     \* bound: changes in flight at once
  MaxEdits,  \* bound: changes people make
  None, NoHeader, NoCard, Idle

Ids == 1..MaxCard

\* source: what every request carries, data_plugin_instance_id and config.
\* sources: the card's rows in card_data_sources.  multi: its widget has them.
Card == [at : Places, header : Headers \cup {NoHeader}, source : Instances \cup {None},
         sources : SUBSET Instances, multi : BOOLEAN]
Screen == [Ids -> Card \cup {NoCard}]
NoCards == [c \in Ids |-> NoCard]

\* base: the tab's copy of the card when the request was sent (history).
Request == [kind : {"move", "save", "create", "delete"}, id : Ids, card : Card,
            base : Card]

\* todo: requests not answered yet.  reload: whether load() follows.  got,
\* unread: the cards a reload has read, and those whose sources it has not.
Call == [tab : Tabs, at : {"saving", "sources", "load", "reading", "answered"},
         todo : SUBSET Request, reload : BOOLEAN, unread : SUBSET Ids, got : Screen]

ASSUME DesignerAssumption ==
  /\ MaxCard \in Nat \ {0} /\ Instances \subseteq Nat /\ MaxEdits \in Nat
  /\ None \notin Instances /\ None \notin Tabs /\ NoHeader \notin Headers
  /\ NoCard \notin Card /\ Idle \notin Call

VARIABLES
  instances, \* the plugin instances that exist
  cards,     \* the rows of the screen's cards
  view,      \* each tab's cards
  calls,     \* changes and reloads in flight
  edits,     \* changes so far
  last,      \* history: the tab whose request changed the cards last, or None
  apart      \* history: the tab's present call met no other, no loss, no refusal

vars == <<instances, cards, view, calls, edits, last, apart>>

\* Values have their types, and no card refers to an instance that is gone.
TypeOK ==
  /\ instances \subseteq Instances
  /\ cards \in Screen /\ view \in [Tabs -> Screen]
  /\ calls \in [Calls -> Call \cup {Idle}]
  /\ edits \in 0..MaxEdits /\ last \in Tabs \cup {None} /\ apart \in [Tabs -> BOOLEAN]
  /\ \A c \in Ids : cards[c] # NoCard =>
       cards[c].source \in instances \cup {None} /\ cards[c].sources \subseteq instances

---------------------------------------------------------------------------
\* The lists in requests and answers are in the order of ids.
First(sources) == IF sources = {} THEN None ELSE Min(sources)

Exists(c) == cards[c] # NoCard

\* INTEGER PRIMARY KEY without AUTOINCREMENT: one past the largest id in use.
NewId == Max({0} \cup {c \in Ids : Exists(c)}) + 1

HasList(r) == r.kind = "save" /\ r.card.multi

Waiting(t) == {x \in Calls : calls[x] # Idle /\ calls[x].tab = t}

NewCall(t, at, requests) ==
  [tab |-> t, at |-> at, todo |-> requests, reload |-> TRUE, unread |-> {},
   got |-> NoCards]

\* Any card earlier sessions may have left, shown by every tab.
Init ==
  /\ instances = Instances
  /\ \E c \in Card :
       /\ IF c.multi THEN c.source = First(c.sources) ELSE c.sources = {}
       /\ cards = [NoCards EXCEPT ![1] = c]
  /\ view = [t \in Tabs |-> cards]
  /\ calls = [x \in Calls |-> Idle]
  /\ edits = 0 /\ last = None /\ apart = [t \in Tabs |-> FALSE]

---------------------------------------------------------------------------
(* The page.                                                               *)

Edit == edits < MaxEdits /\ edits' = edits + 1

\* A change sends its requests.
Ask(t, requests) ==
  /\ Edit
  /\ \E x \in Calls :
       calls[x] = Idle /\ calls' = [calls EXCEPT ![x] = NewCall(t, "saving", requests)]
  /\ apart' = [apart EXCEPT ![t] = Waiting(t) = {}]
  /\ UNCHANGED <<instances, cards, last>>

Change(kind, c, old, new) == [kind |-> kind, id |-> c, card |-> new, base |-> old]

\* Fault: the data source is not echoed either.
MoveToOnly(t, c, place) ==
  Change("move", c, view[t][c],
         [view[t][c] EXCEPT !.at = place, !.header = NoHeader, !.source = None])

\* A PUT without header and alignment: the server takes them for null.
MoveTo(t, c, place) ==
  Change("move", c, view[t][c], [view[t][c] EXCEPT !.at = place, !.header = NoHeader])

\* persistPositions: a drag may push other cards.  Those that moved are shown
\* at once and sent each on its own.
Drag(t) ==
  \E moved \in SUBSET {c \in Ids : view[t][c] # NoCard} : \E to \in [moved -> Places] :
    /\ moved # {} /\ \A c \in moved : view[t][c].at # to[c]
    /\ view' = [view EXCEPT ![t] = [c \in Ids |->
                  IF c \in moved THEN [view[t][c] EXCEPT !.at = to[c]] ELSE view[t][c]]]
    /\ Ask(t, {MoveTo(t, c, to[c]) : c \in moved})

\* handleResizeCardPreset, which waits for the reload to show it.
Resize(t) ==
  /\ \E c \in Ids, place \in Places : view[t][c] # NoCard /\ Ask(t, {MoveTo(t, c, place)})
  /\ UNCHANGED view

\* handleSaveCardSettings: a panel opened earlier, with any header and sources
\* (an instance may have been deleted meanwhile), and the place the tab shows.
SaveCardSettings(t) ==
  /\ \E c \in Ids, new \in Card :
       /\ view[t][c] # NoCard
       /\ new.at = view[t][c].at /\ new.multi = view[t][c].multi
       /\ IF new.multi THEN new.source = First(new.sources)
          ELSE new.sources = view[t][c].sources
       /\ Ask(t, {Change("save", c, view[t][c], new)})
  /\ UNCHANGED view

\* createCard.
AddCard(t) ==
  /\ \E new \in Card :
       /\ new.header = NoHeader /\ new.source = None /\ new.sources = {}
       /\ Ask(t, {Change("create", 1, new, new)})
  /\ UNCHANGED view

\* handleDeleteCard.
RemoveCard(t) ==
  /\ \E c \in Ids :
       view[t][c] # NoCard /\ Ask(t, {Change("delete", c, view[t][c], view[t][c])})
  /\ UNCHANGED view

\* Fault: cards the tab knows already are not replaced.
LoadedNew(x) ==
  /\ calls[x] # Idle /\ calls[x].at = "answered"
  /\ LET t == calls[x].tab
     IN view' = [view EXCEPT ![t] = [c \in Ids |->
                   IF view[t][c] # NoCard THEN view[t][c] ELSE calls[x].got[c]]]
  /\ calls' = [calls EXCEPT ![x] = Idle]
  /\ UNCHANGED <<instances, cards, edits, last, apart>>

\* load() replaces the tab's cards, whatever it has loaded since.
Loaded(x) ==
  /\ calls[x] # Idle /\ calls[x].at = "answered"
  /\ view' = [view EXCEPT ![calls[x].tab] = calls[x].got]
  /\ calls' = [calls EXCEPT ![x] = Idle]
  /\ UNCHANGED <<instances, cards, edits, last, apart>>

\* The page is opened anew: changes on their way are still made, but no more
\* reloaded.
Open(t) ==
  /\ \E x \in Calls :
       /\ calls[x] = Idle
       /\ calls' = [y \in Calls |->
            IF y = x THEN NewCall(t, "load", {})
            ELSE IF y \notin Waiting(t) THEN calls[y]
            ELSE IF calls[y].todo = {} THEN Idle
            ELSE [calls[y] EXCEPT !.reload = FALSE]]
  /\ view' = [view EXCEPT ![t] = NoCards]
  /\ apart' = [apart EXCEPT ![t] = \A x \in Waiting(t) : calls[x].todo = {}]
  /\ UNCHANGED <<instances, cards, edits, last>>

---------------------------------------------------------------------------
(* The handlers.                                                           *)

\* The call after request r has been answered: the reload waits for all.
Answered(call, r, reload) ==
  IF call.todo # {r} THEN [call EXCEPT !.todo = @ \ {r}, !.reload = reload]
  ELSE IF reload THEN [call EXCEPT !.todo = {}, !.at = "load"]
  ELSE Idle

Accepted(r) == Exists(r.id) /\ r.card.source \in instances \cup {None}

Saving(x) == calls[x] # Idle /\ calls[x].at = "saving"

\* UpdateCard overwrites every column; a list of sources follows in a second
\* transaction.
UpdateCard(x) ==
  /\ Saving(x)
  /\ \E r \in calls[x].todo :
       /\ r.kind \in {"move", "save"} /\ Accepted(r)
       /\ cards' = [cards EXCEPT ![r.id] = [r.card EXCEPT !.sources = cards[r.id].sources]]
       /\ calls' = [calls EXCEPT ![x] = IF HasList(r) THEN [@ EXCEPT !.at = "sources"]
                                        ELSE Answered(@, r, @.reload)]
  /\ last' = calls[x].tab
  /\ UNCHANGED <<instances, view, edits, apart>>

\* Only saving settings looks at the answer's status; a drag reloads anyway.
RefuseUpdate(x) ==
  /\ Saving(x)
  /\ \E r \in calls[x].todo :
       /\ r.kind \in {"move", "save"} /\ ~Accepted(r)
       /\ calls' = [calls EXCEPT ![x] = Answered(@, r, @.reload /\ r.kind = "move")]
       /\ apart' = [apart EXCEPT ![calls[x].tab] = @ /\ r.kind = "move"]
  /\ UNCHANGED <<instances, cards, view, edits, last>>

\* SetCardDataSources and, when it fails, the rollback: the columns stay as
\* UpdateCard has left them.
SetCardDataSources(x) ==
  /\ calls[x] # Idle /\ calls[x].at = "sources"
  /\ \E r \in calls[x].todo :
       LET stored == Exists(r.id) /\ r.card.sources \subseteq instances
       IN /\ cards' = IF stored
                      THEN [cards EXCEPT ![r.id].sources = r.card.sources,
                                         ![r.id].source = First(r.card.sources)]
                      ELSE cards
          /\ last' = IF stored THEN calls[x].tab ELSE last
          /\ calls' = [calls EXCEPT ![x] = Answered(@, r, @.reload /\ stored)]
          /\ apart' = [apart EXCEPT ![calls[x].tab] = @ /\ stored]
  /\ UNCHANGED <<instances, view, edits>>

CreateCard(x) ==
  /\ Saving(x) /\ NewId \in Ids
  /\ \E r \in calls[x].todo :
       /\ r.kind = "create"
       /\ cards' = [cards EXCEPT ![NewId] = r.card]
       /\ calls' = [calls EXCEPT ![x] = Answered(@, r, @.reload)]
  /\ last' = calls[x].tab
  /\ UNCHANGED <<instances, view, edits, apart>>

\* card_data_sources cascades.  The page does not look whether it was there.
DeleteCard(x) ==
  /\ Saving(x)
  /\ \E r \in calls[x].todo :
       /\ r.kind = "delete"
       /\ cards' = [cards EXCEPT ![r.id] = NoCard]
       /\ last' = IF Exists(r.id) THEN calls[x].tab ELSE last
       /\ calls' = [calls EXCEPT ![x] = Answered(@, r, @.reload)]
  /\ UNCHANGED <<instances, view, edits, apart>>

\* handleListCards: the rows, then each card's sources in a statement of its own.
ListCards(x) ==
  /\ calls[x] # Idle /\ calls[x].at = "load"
  /\ LET there == {c \in Ids : Exists(c)}
     IN calls' = [calls EXCEPT
          ![x].got = [c \in Ids |-> IF c \in there THEN [cards[c] EXCEPT !.sources = {}]
                                    ELSE NoCard],
          ![x].unread = there,
          ![x].at = IF there = {} THEN "answered" ELSE "reading"]
  /\ UNCHANGED <<instances, cards, view, edits, last, apart>>

ListCardDataSources(x) ==
  /\ calls[x] # Idle /\ calls[x].at = "reading"
  /\ LET c == Min(calls[x].unread)
     IN calls' = [calls EXCEPT
          ![x].got[c].sources = IF Exists(c) THEN cards[c].sources ELSE {},
          ![x].unread = @ \ {c},
          ![x].at = IF calls[x].unread = {c} THEN "answered" ELSE "reading"]
  /\ UNCHANGED <<instances, cards, view, edits, last, apart>>

---------------------------------------------------------------------------
(* The network and other pages.                                            *)

\* A request or its answer is lost: the page reports it and does not reload;
\* what else it asked for still happens.
Lose(x) ==
  /\ calls[x] # Idle
  /\ \/ calls[x].todo = {} /\ calls' = [calls EXCEPT ![x] = Idle]
     \/ calls[x].todo # {} /\ calls' = [calls EXCEPT ![x].reload = FALSE]
     \/ \E r \in calls[x].todo :
          Saving(x) /\ calls' = [calls EXCEPT ![x] = Answered(@, r, FALSE)]
  /\ apart' = [apart EXCEPT ![calls[x].tab] = FALSE]
  /\ UNCHANGED <<instances, cards, view, edits, last>>

\* Fault: a card keeps a source that is gone.
DeletePluginInstanceOnly(i) ==
  /\ Edit /\ i \in instances
  /\ instances' = instances \ {i}
  /\ cards' = [c \in Ids |-> IF ~Exists(c) \/ cards[c].source # i THEN cards[c]
                             ELSE [cards[c] EXCEPT !.source = None]]
  /\ last' = None
  /\ UNCHANGED <<view, calls, apart>>

\* cards: ON DELETE SET NULL.  card_data_sources: ON DELETE CASCADE.
DeletePluginInstance(i) ==
  /\ Edit /\ i \in instances
  /\ instances' = instances \ {i}
  /\ cards' = [c \in Ids |-> IF ~Exists(c) THEN NoCard
                             ELSE [cards[c] EXCEPT !.sources = @ \ {i},
                                                   !.source = IF @ = i THEN None ELSE @]]
  /\ last' = None
  /\ UNCHANGED <<view, calls, apart>>

CreatePluginInstance(i) ==
  /\ Edit /\ i \notin instances
  /\ instances' = instances \cup {i}
  /\ UNCHANGED <<cards, view, calls, last, apart>>

---------------------------------------------------------------------------
PageStep(t) ==
  \/ Drag(t) \/ Resize(t) \/ SaveCardSettings(t) \/ AddCard(t) \/ RemoveCard(t)
  \/ Open(t)

ServerStep(x) ==
  \/ UpdateCard(x) \/ RefuseUpdate(x) \/ SetCardDataSources(x)
  \/ CreateCard(x) \/ DeleteCard(x) \/ ListCards(x) \/ ListCardDataSources(x)

Next ==
  \/ \E t \in Tabs : PageStep(t)
  \/ \E x \in Calls : ServerStep(x) \/ Loaded(x) \/ Lose(x)
  \/ \E i \in Instances : DeletePluginInstance(i) \/ CreatePluginInstance(i)

Spec == Init /\ [][Next]_vars

---------------------------------------------------------------------------
(* Properties.                                                             *)

\* The update r was handled in this step, and the tab had sent it with a copy
\* that still was what the table held.
Handled(x, r) ==
  /\ Saving(x) /\ r \in calls[x].todo /\ r.kind \in {"move", "save"}
  /\ cards[r.id] = r.base /\ cards' # cards
  /\ calls'[x] = Idle \/ r \notin calls'[x].todo \/ calls'[x].at = "sources"

\* "PUT has no partial-update path", so a request carries the whole row: with
\* an up-to-date copy, moving a card leaves its sources alone, and saving its
\* settings leaves its place alone, whatever else is in flight (persistPositions,
\* handleSaveCardSettings, UpdateCard).
KeepsTheRest ==
  [][\A x \in Calls : calls[x] # Idle => \A r \in calls[x].todo : Handled(x, r) =>
       IF r.kind = "move"
       THEN /\ cards'[r.id].source = cards[r.id].source
            /\ cards'[r.id].sources = cards[r.id].sources
       ELSE cards'[r.id].at = cards[r.id].at]_vars

\* The tab that made the last change shows the cards as they are once it has
\* its answers: drags shown in advance, pushed cards and reloads read in pieces
\* included (load, persistPositions).  Not promised to a tab whose changes
\* overlapped, failed or got lost.
LastSaverSeesTable ==
  \A t \in Tabs : last = t /\ apart[t] /\ Waiting(t) = {} => view[t] = cards
=============================================================================
