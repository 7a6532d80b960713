------------------------------ MODULE Displays ------------------------------
(***************************************************************************)
(* One visit of an admin to the Displays page                              *)
(* (web/src/admin/pages/DisplaysPage.tsx): the list of displays, the form  *)
(* of one, and the screens of the selected one in rotation order.          *)
(***************************************************************************)
EXTENDS Requests

CONSTANTS
  DisplayIds, \* bound: displays that can exist
  ScreenIds,  \* bound: screens that can exist, numbered in the order made
  Names,      \* names of screens; of displays, with their slugs
  Times       \* what night mode may start at

(***************************************************************************)
(* db.displays[d], db.screens[s]: a row, or None.  A screen has a name, a  *)
(* position, and what the Designer set: look (columns, row height, gap,    *)
(* layout mode, font) and aspect (the shape of its canvas).                *)
(* ui.displays, ui.rows: what is listed.  ui.sel: the selected display.    *)
(* ui.wait: Loading is shown in place of the rows.  ui.panel, ui.form: the *)
(* form of a display or of a screen, or None.                              *)
(***************************************************************************)
Display == [slug : Names, night : BOOLEAN, from : Times \cup {None}]
Screen == [id : ScreenIds, of : DisplayIds, name : Names, pos : 0..Cardinality(ScreenIds),
           look : {"own", "default"}, aspect : {"own", "none"}]

Existing(table) == {i \in DOMAIN table : table[i] # None}

TypeOK ==
  /\ CallsTypeOK
  /\ \A d \in DisplayIds : db.displays[d] \in Display \cup {None}
  /\ \A s \in Existing(db.screens) : db.screens[s] \in Screen /\ db.screens[s].id = s
  /\ ui.sel \in DisplayIds \cup {None} /\ ui.wait \in BOOLEAN
  /\ \A i \in DOMAIN ui.rows : ui.rows[i] \in Screen

ScreensOf(d) == {db.screens[s] : s \in {s \in Existing(db.screens) : db.screens[s].of = d}}
Before(a, b) == a.pos < b.pos \/ (a.pos = b.pos /\ a.id < b.id)

\* The screens of d by position, of equal ones the older first.
Listed(d) ==
  CHOOSE rows \in [1..Cardinality(ScreensOf(d)) -> ScreensOf(d)] :
    \A i, j \in DOMAIN rows : i < j => Before(rows[i], rows[j])

\* The displays of one house: each of the first has screens the Designer
\* has shaped.
FirstScreen(s, d, n) ==
  [id |-> s, of |-> d, name |-> CHOOSE m \in Names : TRUE, pos |-> n,
   look |-> "own", aspect |-> "own"]

Init ==
  /\ ui = [displays |-> None, sel |-> None, rows |-> <<>>, wait |-> FALSE,
           panel |-> None, form |-> None]
  /\ LET d == CHOOSE d \in DisplayIds : TRUE
         slug == CHOOSE f \in [DisplayIds -> Names] : \A i, j \in DisplayIds : i = j \/ f[i] # f[j]
     IN db = [displays |-> [i \in DisplayIds |-> [slug |-> slug[i], night |-> FALSE, from |-> None]],
              screens |-> [s \in ScreenIds |->
                CASE s <= 2 -> FirstScreen(s, d, s - 1)
                  [] s = 3 -> FirstScreen(s, CHOOSE i \in DisplayIds : i # d, 0)
                  [] OTHER -> None]]
  /\ Mounted("displays", None)

---------------------------------------------------------------------------
(* The server.                                                             *)

Put(table, i, row) == [db EXCEPT ![table] = [@ EXCEPT ![i] = row]]

\* Slugs are unique.  A new display has the defaults for night mode.
SaveDisplay(id, f) ==
  LET new == CHOOSE d \in DisplayIds : db.displays[d] = None
      i == IF id = None THEN new ELSE id
      taken == \E d \in Existing(db.displays) : d # id /\ db.displays[d].slug = f.slug
  IN IF taken \/ (id # None /\ db.displays[i] = None) THEN Refuse
     ELSE Reply(Put("displays", i, IF id = None THEN [f EXCEPT !.night = FALSE, !.from = None]
                                   ELSE f), None, TRUE)

\* The screens of a display go with it.
DeleteDisplay(d) ==
  Reply([displays |-> [db.displays EXCEPT ![d] = None],
         screens |-> [s \in ScreenIds |->
           IF s \in Existing(db.screens) /\ db.screens[s].of = d THEN None ELSE db.screens[s]]],
        None, db.displays[d] # None)

\* Every column is overwritten.  The page sends no aspect ratio, which
\* clears it, and for a new screen no layout.
SaveScreen(f) ==
  IF db.screens[f.id] = None THEN Refuse
  ELSE Reply(Put("screens", f.id, [db.screens[f.id] EXCEPT
               !.name = f.name, !.pos = f.pos, !.look = f.look, !.aspect = "none"]), None, TRUE)

Unused == {s \in ScreenIds : \A t \in Existing(db.screens) : s > t}

CreateScreen(f) ==
  LET s == CHOOSE s \in Unused : \A t \in Unused : s <= t
  IN IF db.displays[f.of] = None THEN Refuse
     ELSE Reply(Put("screens", s, [id |-> s, of |-> f.of, name |-> f.name, pos |-> f.pos,
                                   look |-> "default", aspect |-> "none"]), None, TRUE)

DeleteScreen(s) == Reply(Put("screens", s, None), None, db.screens[s] # None)

Served(c) ==
  CASE c.kind = "displays" -> Reply(db, db.displays, TRUE)
    [] c.kind = "screens" -> Reply(db, Listed(c.arg), TRUE)
    [] c.kind = "saveDisplay" -> SaveDisplay(c.arg.id, c.arg.row)
    [] c.kind = "deleteDisplay" -> DeleteDisplay(c.arg.id)
    [] c.kind \in {"saveScreen", "move"} -> SaveScreen(c.arg.row)
    [] c.kind = "addScreen" -> CreateScreen(c.arg.row)
    [] c.kind = "deleteScreen" -> DeleteScreen(c.arg.row.id)

Serve(x) ==
  /\ Sent(x)
  /\ call[x].kind = "addScreen" => Unused # {}
  /\ call[x].kind = "saveDisplay" /\ call[x].arg.id = None => Existing(db.displays) # DisplayIds
  /\ Replied(x, Served(call[x]))

---------------------------------------------------------------------------
(* Displays.                                                               *)

DisplaysLoaded(x) ==
  /\ Answered(x, "displays", "ok") /\ Done(x)
  /\ ui' = [ui EXCEPT !.displays = call[x].data]

Shown == ui.displays # None
Modal == ui.panel # None \/ (ui.form # None /\ ui.sel # None)

\* Nothing on the page can be reached behind a form.
Free == Shown /\ ~Modal

OpenDisplay(id) ==
  /\ Free /\ Act /\ (id # None => ui.displays[id] # None)
  /\ ui' = [ui EXCEPT !.panel =
       IF id = None
       THEN [id |-> None, busy |-> None,
             row |-> [slug |-> CHOOSE n \in Names : TRUE, night |-> FALSE,
                      from |-> CHOOSE t \in Times : TRUE]]
       ELSE [id |-> id, busy |-> None,
             row |-> [ui.displays[id] EXCEPT !.from =
                        IF @ = None THEN CHOOSE t \in Times : TRUE ELSE @]]]
  /\ UNCHANGED <<db, call>>

\* Night mode is not offered for a new display; its time only when it is on.
EditDisplay(row) ==
  /\ ui.panel # None /\ Act /\ row # ui.panel.row
  /\ ui.panel.id = None => ~row.night
  /\ ui.panel.row.night \/ row.from = ui.panel.row.from
  /\ ui' = [ui EXCEPT !.panel.row = row]
  /\ UNCHANGED <<db, call>>

\* A time is sent only while night mode is on.
SubmitDisplay ==
  /\ ui.panel # None /\ ui.panel.busy = None
  /\ \E x \in Calls :
       /\ SendAs(x, "saveDisplay", [id |-> ui.panel.id,
            row |-> [ui.panel.row EXCEPT !.from = IF ui.panel.row.night THEN @ ELSE None]])
       /\ ui' = [ui EXCEPT !.panel.busy = x]
  /\ UNCHANGED db

\* Whatever form is open now is closed, and the list is loaded again.
DisplaySaved(x) ==
  /\ Answered(x, "saveDisplay", "ok") /\ DoneThen(x, "displays", None)
  /\ ui' = [ui EXCEPT !.panel = None]

\* A form that was closed, or sent again, is not touched.
Unblocked(form, x) == IF form # None /\ form.busy = x THEN [form EXCEPT !.busy = None] ELSE form

\* The form, if it is still the one that was sent, can be sent again.
DisplayNotSaved(x) ==
  /\ Failed(x, "saveDisplay") /\ Done(x)
  /\ ui' = [ui EXCEPT !.panel = Unblocked(@, x)]

Cancel ==
  /\ Modal /\ Act
  /\ ui' = [ui EXCEPT !.panel = None, !.form = IF ui.panel = None THEN None ELSE @]
  /\ UNCHANGED <<db, call>>

DeleteDisplayRow(d) ==
  /\ Free /\ ui.displays[d] # None
  /\ Send("deleteDisplay", [id |-> d, sel |-> ui.sel])
  /\ UNCHANGED <<ui, db>>

\* Deselects when the display was the selected one at the click; the answer's
\* status is not looked at.
DisplayDeleted(x) ==
  /\ \E at \in {"ok", "refused"} : Answered(x, "deleteDisplay", at)
  /\ DoneThen(x, "displays", None)
  /\ ui' = IF call[x].arg.sel # call[x].arg.id THEN ui
           ELSE [ui EXCEPT !.sel = None, !.rows = <<>>]

---------------------------------------------------------------------------
(* Screens of the selected display.                                        *)

\* Only hiding the screens clears them: on another display they are covered
\* by Loading.
SelectDisplay(d) ==
  /\ Free /\ ui.displays[d] # None
  /\ IF ui.sel = d
     THEN Act /\ ui' = [ui EXCEPT !.sel = None, !.rows = <<>>] /\ UNCHANGED call
     ELSE Send("screens", d) /\ ui' = [ui EXCEPT !.sel = d, !.wait = TRUE]
  /\ UNCHANGED db

\* Whichever display the answer is about.
ScreensLoaded(x) ==
  /\ Answered(x, "screens", "ok") /\ Done(x)
  /\ ui' = [ui EXCEPT !.rows = call[x].data, !.wait = FALSE]

\* Nobody is told.
Unheard(x) ==
  /\ \E k \in {"displays", "screens", "deleteDisplay", "deleteScreen"} : Answered(x, k, "lost")
  /\ Done(x)
  /\ UNCHANGED ui

Section == Free /\ ui.sel # None /\ ui.displays[ui.sel] # None
Rows == Section /\ ~ui.wait

OpenScreen(i) ==
  /\ Section /\ Act /\ (i # 0 => ~ui.wait /\ i \in DOMAIN ui.rows)
  /\ ui' = [ui EXCEPT !.form =
       [busy |-> None, row |-> IF i = 0 THEN None ELSE ui.rows[i]]]
  /\ UNCHANGED <<db, call>>

\* A new screen goes behind as many as are listed; of an edited one
\* everything listed is sent back.
SubmitScreen(name) ==
  /\ ui.form # None /\ ui.sel # None /\ ui.form.busy = None
  /\ \E x \in Calls :
       /\ IF ui.form.row = None
          THEN SendAs(x, "addScreen", [sel |-> ui.sel,
                 row |-> [of |-> ui.sel, name |-> name, pos |-> Len(ui.rows)]])
          ELSE SendAs(x, "saveScreen", [sel |-> ui.sel,
                 row |-> [ui.form.row EXCEPT !.name = name]])
       /\ ui' = [ui EXCEPT !.form.busy = x]
  /\ UNCHANGED db

\* Fault: what is listed stays.
NoReload(x, shown) == Done(x) /\ ui' = shown

\* The screens of the display that was selected at the click are loaded.
Reload(x, shown) ==
  /\ DoneThen(x, "screens", call[x].arg.sel)
  /\ ui' = [shown EXCEPT !.wait = TRUE]

ScreenSaved(x) ==
  /\ \E k \in {"addScreen", "saveScreen"} : Answered(x, k, "ok")
  /\ Reload(x, [ui EXCEPT !.form = None])

ScreenNotSaved(x) ==
  /\ \E k \in {"addScreen", "saveScreen"} : Failed(x, k)
  /\ Done(x)
  /\ ui' = [ui EXCEPT !.form = Unblocked(@, x)]

DeleteRow(i) ==
  /\ Rows /\ i \in DOMAIN ui.rows
  /\ Send("deleteScreen", [sel |-> ui.sel, row |-> ui.rows[i]])
  /\ UNCHANGED <<ui, db>>

ScreenDeleted(x) ==
  /\ \E at \in {"ok", "refused"} : Answered(x, "deleteScreen", at)
  /\ Reload(x, ui)

\* Two requests, each with the position of the other row.
MoveScreen(i, j) ==
  /\ Rows /\ {i, j} \subseteq DOMAIN ui.rows /\ (i = j + 1 \/ j = i + 1)
  /\ Sending
  /\ \E x, y \in Idle :
       LET Half(row, pos, mate) ==
             Request("move", [sel |-> ui.sel, row |-> [row EXCEPT !.pos = pos], mate |-> mate])
       IN /\ x # y
          /\ call' = [call EXCEPT ![x] = Half(ui.rows[i], ui.rows[j].pos, y),
                                  ![y] = Half(ui.rows[j], ui.rows[i].pos, x)]
  /\ UNCHANGED <<ui, db>>

\* Both were answered, whatever the answers say.
Moved(x) ==
  /\ call[x] # NoCall /\ call[x].kind = "move"
  /\ LET y == call[x].arg.mate IN
       /\ {call[x].at, call[y].at} \subseteq {"ok", "refused"}
       /\ call' = [call EXCEPT ![x] = Request("screens", call[x].arg.sel), ![y] = NoCall]
  /\ ui' = [ui EXCEPT !.wait = TRUE]
  /\ UNCHANGED <<db, log>>

\* One was lost: the other may have been served, and nobody is told.
HalfMoved(x) ==
  /\ call[x] # NoCall /\ call[x].kind = "move"
  /\ LET y == call[x].arg.mate IN
       /\ "lost" \in {call[x].at, call[y].at} /\ "sent" \notin {call[x].at, call[y].at}
       /\ call' = [call EXCEPT ![x] = NoCall, ![y] = NoCall]
  /\ UNCHANGED <<ui, db, log>>

---------------------------------------------------------------------------
Admin ==
  \/ \E d \in DisplayIds \cup {None} : OpenDisplay(d)
  \/ \E d \in DisplayIds : DeleteDisplayRow(d) \/ SelectDisplay(d)
  \/ \E row \in Display : EditDisplay(row)
  \/ SubmitDisplay \/ Cancel
  \/ \E i \in 0..Len(ui.rows) : OpenScreen(i)
  \/ \E n \in Names : SubmitScreen(n)
  \/ \E i \in DOMAIN ui.rows : DeleteRow(i)
  \/ \E i, j \in DOMAIN ui.rows : MoveScreen(i, j)

Next ==
  \/ Admin
  \/ \E x \in Calls :
       \/ Serve(x) \/ Lose(x)
       \/ DisplaysLoaded(x) \/ DisplaySaved(x) \/ DisplayNotSaved(x) \/ DisplayDeleted(x)
       \/ ScreensLoaded(x) \/ ScreenSaved(x) \/ ScreenNotSaved(x) \/ ScreenDeleted(x)
       \/ Moved(x) \/ HalfMoved(x) \/ Unheard(x)

Spec == Init /\ [][Next]_vars

---------------------------------------------------------------------------
(* Properties.                                                             *)

\* Of a screen there was and still is, renaming, moving, adding and deleting
\* screens keeps the layout (mode, columns, row height, gap, font): the page
\* sends those back ("Every field has to be re-sent", moveScreen, submitScreen).
\* It does not send the aspect ratio, which is lost, but only of the screen that
\* was renamed or moved.  A row that is behind (overlapped, or not loaded again)
\* may be sent to a screen that was given the number of a deleted one.
KeepsLook ==
  ~log.twin /\ ~log.torn =>
    \A s \in Existing(db.screens) \cap Existing(db.screens') :
      LET before == db.screens[s]
          after == db.screens'[s]
      IN /\ after.look = before.look
         /\ after.aspect # before.aspect =>
              \E x \in Open : call[x].kind \in {"saveScreen", "move"} /\ call[x].arg.row.id = s

\* Once all is answered, and nothing overlapped, was refused or lost, the rows
\* under the heading of a display are its screens in rotation order, and the
\* list is the displays there are (loadScreens after every change).
RowsAreOfSelected ==
  Quiet /\ ~log.twin /\ ~log.torn =>
    /\ ui.displays = db.displays
    /\ ui.sel # None => db.displays[ui.sel] # None /\ ~ui.wait /\ ui.rows = Listed(ui.sel)
=============================================================================
