---------------------------- MODULE ClientsPage ----------------------------
(***************************************************************************)
(* One visit of an admin to the Clients page                               *)
(* (web/src/admin/pages/ClientsPage.tsx): screens that registered are      *)
(* approved, edited, rejected, revoked and deleted, and each display gets  *)
(* the page its clients show while the server is away.                     *)
(***************************************************************************)
EXTENDS Requests

CONSTANTS
  ClientIds,  \* bound: clients that can exist
  DisplayIds, \* the displays, of which there is at least one
  Names,      \* names of clients
  Messages,   \* what an offline screen may say
  Unreadable  \* those messages the editor cannot read back from the page

Statuses == {"pending", "approved", "rejected"}
Modes == {"offline_screen", "screen_off"}
Client == [name : Names, display : DisplayIds \cup {None}, status : Statuses, mode : Modes]

(***************************************************************************)
(* db.clients[c], db.offline[d]: a row, a page's message, or None.         *)
(* ui.clients: what is listed.  ui.panel: the approve or the edit form,    *)
(* with the client as it was listed when the form was opened.              *)
(* ui.offline: the offline screen editor of a display (touched: history).  *)
(***************************************************************************)
TypeOK ==
  /\ CallsTypeOK
  /\ \A c \in ClientIds : db.clients[c] \in Client \cup {None}
  /\ \A d \in DisplayIds : db.offline[d] \in Messages \cup {None}
  /\ ui.panel = None \/ ui.panel.client \in Client
  /\ ui.offline = None \/ ui.offline.text \in Messages

DefaultMessage == CHOOSE m \in Messages \ Unreadable : TRUE
AClient == CHOOSE c \in ClientIds : TRUE
ADisplay == CHOOSE d \in DisplayIds : TRUE

\* A device that has just registered.
NewClient(n) == [name |-> n, display |-> None, status |-> "pending", mode |-> "offline_screen"]

Init ==
  /\ ui = [clients |-> None, panel |-> None, offline |-> None]
  /\ \E n \in Names, s \in Statuses, html \in Messages \cup {None} :
       db = [clients |-> [i \in ClientIds |->
               IF i # AClient THEN None
               ELSE [NewClient(n) EXCEPT !.status = s,
                                         !.display = IF s = "approved" THEN ADisplay ELSE None]],
             offline |-> [d \in DisplayIds |-> IF d = ADisplay THEN html ELSE None]]
  /\ Mounted("clients", None)

---------------------------------------------------------------------------
(* The server.                                                             *)

\* Registering again, under the same code, changes nothing here.
Register(c, n) ==
  /\ db.clients[c] = None
  /\ db' = [db EXCEPT !.clients[c] = NewClient(n)]
  /\ UNCHANGED <<ui, call, log>>

SetClient(c, row) ==
  Reply([db EXCEPT !.clients[c] = IF @ = None THEN None ELSE row], None, db.clients[c] # None)

\* Approval is refused for a client that is gone; an update overwrites all
\* the columns the form has, the status among them.
Approved(c, d) ==
  IF db.clients[c] = None THEN Refuse
  ELSE SetClient(c, [db.clients[c] EXCEPT !.status = "approved", !.display = d])

Served(r) ==
  CASE r.kind = "clients" -> Reply(db, db.clients, TRUE)
    [] r.kind = "approve" -> Approved(r.arg.id, r.arg.display)
    [] r.kind = "update" -> SetClient(r.arg.id, r.arg.row)
    [] r.kind = "delete" -> SetClient(r.arg.id, None)
    [] r.kind = "offline" -> Reply(db, db.offline[r.arg], TRUE)
    [] r.kind = "setOffline" -> Reply([db EXCEPT !.offline[r.arg.of] = r.arg.text], None, TRUE)

Serve(x) == Sent(x) /\ Replied(x, Served(call[x]))

---------------------------------------------------------------------------
(* The list.                                                               *)

\* The reload behind an edit closes the form, whichever is open now.
ClientsLoaded(x) ==
  /\ Answered(x, "clients", "ok") /\ Done(x)
  /\ ui' = [ui EXCEPT !.clients = call[x].data,
                      !.panel = IF call[x].arg = "edit" /\ @ # None /\ @.mode = "edit"
                                THEN None ELSE @]

Free == ui.clients # None /\ ui.panel = None /\ ui.offline = None
Lists(c, statuses) == Free /\ ui.clients[c] # None /\ ui.clients[c].status \in statuses

\* Which buttons a row has depends on its status.
OpenApprove(c) ==
  /\ Lists(c, {"pending", "rejected"}) /\ Act
  /\ ui' = [ui EXCEPT !.panel =
              [mode |-> "approve", id |-> c, client |-> ui.clients[c], busy |-> None]]
  /\ UNCHANGED <<db, call>>

\* The form keeps the row as it is listed now: opened before a request is
\* answered, it overlaps with it.
OpenEdit(c) ==
  /\ Lists(c, {"approved"}) /\ Sending
  /\ ui' = [ui EXCEPT !.panel =
              [mode |-> "edit", id |-> c, client |-> ui.clients[c], busy |-> None]]
  /\ UNCHANGED <<db, call>>

Cancel ==
  /\ ui.panel # None /\ Act
  /\ ui' = [ui EXCEPT !.panel = None]
  /\ UNCHANGED <<db, call>>

\* updateClient: the patch, and for the rest the row as it was listed.
Update(x, c, row, from) == SendAs(x, "update", [id |-> c, row |-> row, from |-> from])

Reject(c) ==
  /\ Lists(c, {"pending"})
  /\ \E x \in Calls : Update(x, c, [ui.clients[c] EXCEPT !.status = "rejected"], "row")
  /\ UNCHANGED <<ui, db>>

Revoke(c) ==
  /\ Lists(c, {"approved"})
  /\ \E x \in Calls :
       Update(x, c, [ui.clients[c] EXCEPT !.status = "pending", !.display = None], "row")
  /\ UNCHANGED <<ui, db>>

Delete(c) ==
  /\ Lists(c, Statuses) /\ Send("delete", [id |-> c])
  /\ UNCHANGED <<ui, db>>

SubmitApprove(d) ==
  /\ ui.panel # None /\ ui.panel.mode = "approve" /\ ui.panel.busy = None
  /\ \E x \in Calls :
       /\ SendAs(x, "approve", [id |-> ui.panel.id, display |-> d])
       /\ ui' = [ui EXCEPT !.panel.busy = x]
  /\ UNCHANGED db

\* The form has a name, a display or none, and what to do while offline.
SubmitEdit(n, d, m) ==
  /\ ui.panel # None /\ ui.panel.mode = "edit" /\ ui.panel.busy = None
  /\ \E x \in Calls :
       /\ Update(x, ui.panel.id,
                 [ui.panel.client EXCEPT !.name = n, !.display = d, !.mode = m], "edit")
       /\ ui' = [ui EXCEPT !.panel.busy = x]
  /\ UNCHANGED db

\* An approval closes its form at once, an edit after the reload; a deletion
\* reloads whatever its answer says.
ApproveDone(x) ==
  /\ Answered(x, "approve", "ok") /\ DoneThen(x, "clients", None)
  /\ ui' = [ui EXCEPT !.panel = IF @ # None /\ @.mode = "approve" THEN None ELSE @]

Reload(x) ==
  /\ \/ Answered(x, "update", "ok") /\ DoneThen(x, "clients", call[x].arg.from)
     \/ /\ \E at \in {"ok", "refused"} : Answered(x, "delete", at)
        /\ DoneThen(x, "clients", None)
  /\ UNCHANGED ui

\* The form that was sent, if it is still there, can be sent again.  A row's
\* buttons say nothing.
Fails(x) ==
  /\ \/ \E k \in {"approve", "update", "setOffline"} : Failed(x, k)
     \/ \E k \in {"clients", "delete", "offline"} : Answered(x, k, "lost")
  /\ Done(x)
  /\ ui' = [ui EXCEPT !.panel = IF @ # None /\ @.busy = x THEN [@ EXCEPT !.busy = None] ELSE @,
                      !.offline = IF @ # None /\ @.busy = x THEN [@ EXCEPT !.busy = None] ELSE @]

---------------------------------------------------------------------------
(* Offline screens.                                                        *)

\* The editor opens on the defaults and cannot be closed but by saving.
OpenOffline(d) ==
  /\ Free /\ Send("offline", d)
  /\ ui' = [ui EXCEPT !.offline =
       [of |-> d, text |-> DefaultMessage, custom |-> FALSE, loaded |-> FALSE,
        touched |-> FALSE, busy |-> None]]
  /\ UNCHANGED db

\* A page that cannot be read back leaves the defaults in the editor.
OfflineLoaded(x) ==
  /\ Answered(x, "offline", "ok") /\ Done(x)
  /\ LET html == call[x].data IN
       ui' = [ui EXCEPT !.offline.loaded = TRUE, !.offline.custom = html # None,
                        !.offline.text = IF html \in {None} \cup Unreadable THEN @ ELSE html]

Editing == ui.offline # None /\ ui.offline.loaded /\ ui.offline.busy = None

EditOffline(m) ==
  /\ ui.offline # None /\ ui.offline.loaded /\ m # ui.offline.text /\ Act
  /\ ui' = [ui EXCEPT !.offline.text = m, !.offline.touched = TRUE]
  /\ UNCHANGED <<db, call>>

\* What is typed, or None to go back to the generated page.
SetOffline(text) ==
  /\ Editing /\ text \in {ui.offline.text, None}
  /\ \E x \in Calls :
       /\ SendAs(x, "setOffline", [of |-> ui.offline.of, text |-> text])
       /\ ui' = [ui EXCEPT !.offline.busy = x]
  /\ UNCHANGED db

OfflineSet(x) ==
  /\ Answered(x, "setOffline", "ok") /\ Done(x)
  /\ ui' = [ui EXCEPT !.offline = None]

---------------------------------------------------------------------------
Admin ==
  \/ \E c \in ClientIds : OpenApprove(c) \/ OpenEdit(c) \/ Reject(c) \/ Revoke(c) \/ Delete(c)
  \/ Cancel
  \/ \E d \in DisplayIds : SubmitApprove(d) \/ OpenOffline(d)
  \/ \E n \in Names, d \in DisplayIds \cup {None}, m \in Modes : SubmitEdit(n, d, m)
  \/ \E m \in Messages : EditOffline(m)
  \/ \E m \in Messages \cup {None} : SetOffline(m)

Next ==
  \/ Admin
  \/ \E c \in ClientIds, n \in Names : Register(c, n)
  \/ \E x \in Calls :
       \/ Serve(x) \/ Lose(x) \/ Fails(x)
       \/ ClientsLoaded(x) \/ ApproveDone(x) \/ Reload(x) \/ OfflineLoaded(x) \/ OfflineSet(x)

Spec == Init /\ [][Next]_vars

---------------------------------------------------------------------------
(* Properties.                                                             *)

Approves(c) ==
  /\ db'.clients[c] # None /\ db'.clients[c].status = "approved"
  /\ db.clients[c] # None /\ db.clients[c].status # "approved"

ByApproval(c) == \E x \in Calls : Sent(x) /\ call[x].kind = "approve" /\ call[x].arg.id = c

\* A client is approved by an approval and by nothing else, as long as nothing
\* overlaps and nothing is lost: the row the edit form sends back, with the
\* status the client had when it was listed (updateClient), must not undo a
\* rejection or a revocation.
OnlyApprovalApproves ==
  ~log.twin /\ ~log.torn => \A c \in ClientIds : Approves(c) => ByApproval(c)

\* The editor of an offline screen shows what is stored, until the admin types
\* (buildOfflineScreenHTML and parseOfflineScreenHTML are inverse to each
\* other, but for the messages that end the comment early).
EditorShowsStored ==
  /\ ui.offline # None /\ ui.offline.loaded /\ ~ui.offline.touched /\ ui.offline.busy = None
  /\ ~log.twin /\ ~log.torn
  => LET html == db.offline[ui.offline.of] IN
       /\ ui.offline.custom <=> html # None
       /\ html \notin Unreadable =>
            ui.offline.text = IF html = None THEN DefaultMessage ELSE html
=============================================================================
