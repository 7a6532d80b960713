---------------------------- MODULE PluginsPage ----------------------------
(***************************************************************************)
(* One visit of an admin to the Data Plugins page                          *)
(* (web/src/admin/pages/PluginsPage.tsx) and its form                      *)
(* (components/ManifestForm.tsx): instances are added, edited, switched on *)
(* and off, deleted, and authorized at a provider, for which the browser   *)
(* leaves the page and comes back.                                         *)
(***************************************************************************)
EXTENDS Requests

CONSTANTS
  InstanceIds, \* bound: instances that can exist
  Names,       \* what the plain fields of an instance may hold
  Options      \* what a plugin may offer for its dynamic field

(***************************************************************************)
(* db[i]: an instance, or None; oauth: its plugin needs authorization;     *)
(* auth: it has been given; picked: what is chosen of the dynamic field.   *)
(* ui.left: the instance the browser went to a provider for.  ui.note: the *)
(* notice about it.  ui.panel.ask: the discovery under way.                *)
(* ui.panel.touched: the admin changed the choice (history).               *)
(***************************************************************************)
Instance ==
  [oauth : BOOLEAN, auth : BOOLEAN, name : Names, on : BOOLEAN, picked : SUBSET Options]

TypeOK ==
  /\ CallsTypeOK
  /\ \A i \in InstanceIds : db[i] \in Instance \cup {None}
  /\ ui.left \in InstanceIds \cup {None} /\ ui.note \in {None, "success", "error"}
  /\ ui.panel # None => /\ ui.panel.row \in Instance
                        /\ ui.panel.options \in (SUBSET Options) \cup {None}

Page(note) == [rows |-> None, panel |-> None, left |-> None, note |-> note]

AnInstance == CHOOSE i \in InstanceIds : TRUE
AName == CHOOSE n \in Names : TRUE

Init ==
  /\ ui = Page(None)
  /\ \E oauth, auth \in BOOLEAN, picked \in SUBSET Options :
       /\ auth => oauth
       /\ db = [i \in InstanceIds |->
                  IF i # AnInstance THEN None
                  ELSE [oauth |-> oauth, auth |-> auth, name |-> AName, on |-> TRUE,
                        picked |-> IF auth \/ ~oauth THEN picked ELSE {}]]
  /\ Mounted("load", None)

---------------------------------------------------------------------------
(* The server.                                                             *)

\* The plugin and the authorization of an instance are not in a request.
Write(i, row) ==
  IF db[i] = None THEN Refuse
  ELSE Reply([db EXCEPT ![i] = [row EXCEPT !.oauth = db[i].oauth, !.auth = db[i].auth]],
             None, TRUE)

\* What the plugin offers now; consent that cannot be started.
Served(c) ==
  CASE c.kind = "load" -> {Reply(db, db, TRUE)}
    [] c.kind \in {"update", "toggle"} -> {Write(c.arg.id, c.arg.row)}
    [] c.kind = "create" ->
         {Reply([db EXCEPT ![i] = c.arg.row], i, TRUE) : i \in {i \in InstanceIds : db[i] = None}}
    [] c.kind = "delete" -> {Reply([db EXCEPT ![c.arg] = None], None, db[c.arg] # None)}
    [] c.kind = "revoke" ->
         {IF db[c.arg] = None THEN Refuse ELSE Reply([db EXCEPT ![c.arg].auth = FALSE], None, TRUE)}
    [] c.kind = "authorize" ->
         {Refuse} \cup {Reply(db, None, TRUE) : i \in {c.arg} \cap {i \in InstanceIds : db[i] # None}}
    [] c.kind = "discover" ->
         {Refuse} \cup
         (IF db[c.arg] = None \/ (db[c.arg].oauth /\ ~db[c.arg].auth) THEN {}
          ELSE {Reply(db, offered, TRUE) : offered \in SUBSET Options})

Serve(x) == Sent(x) /\ \E r \in Served(call[x]) : Replied(x, r)

---------------------------------------------------------------------------
(* The list.                                                               *)

Here == ui.left = None

\* The reload behind the creation of an instance that needs it goes on to
\* its authorization.
Loaded(x) ==
  /\ Here /\ Answered(x, "load", "ok")
  /\ IF call[x].arg = None THEN Done(x) ELSE DoneThen(x, "authorize", call[x].arg)
  /\ ui' = [ui EXCEPT !.rows = call[x].data]

Row(i) == Here /\ ui.rows # None /\ ui.panel = None /\ ui.rows[i] # None

\* The row as it is listed, switched.
ToggleEnabled(i) ==
  /\ Row(i)
  /\ Send("toggle", [id |-> i, row |-> [ui.rows[i] EXCEPT !.on = ~@], chosen |-> FALSE])
  /\ UNCHANGED <<ui, db>>

Delete(i) == Row(i) /\ Send("delete", i) /\ UNCHANGED <<ui, db>>
Authorize(i) == Row(i) /\ ui.rows[i].oauth /\ Send("authorize", i) /\ UNCHANGED <<ui, db>>
Deauthorize(i) ==
  Row(i) /\ ui.rows[i].oauth /\ ui.rows[i].auth /\ Send("revoke", i) /\ UNCHANGED <<ui, db>>

\* The list is loaded again whatever the answer says.
Reload(x) ==
  /\ Here /\ \E k \in {"toggle", "delete", "revoke"}, at \in {"ok", "refused"} : Answered(x, k, at)
  /\ DoneThen(x, "load", None)
  /\ UNCHANGED ui

NotAuthorized(x) ==
  /\ Here /\ Answered(x, "authorize", "refused") /\ Done(x)
  /\ ui' = [ui EXCEPT !.note = "error"]

Unheard(x) ==
  /\ Here /\ \E k \in {"load", "toggle", "delete", "revoke", "authorize"} : Answered(x, k, "lost")
  /\ Done(x)
  /\ UNCHANGED ui

---------------------------------------------------------------------------
(* At the provider.                                                        *)

\* The whole page is left, with what it waits for.
Leave(x) ==
  /\ Here /\ Answered(x, "authorize", "ok") /\ Done(x)
  /\ ui' = [Page(None) EXCEPT !.left = call[x].arg]

Unread(x) ==
  /\ ~Here /\ call[x] # NoCall /\ call[x].at # "sent" /\ Done(x)
  /\ UNCHANGED ui

\* The callback keeps the consent and comes back with its outcome, which the
\* page shows once; all requests have ended by then.
ComeBack(granted) ==
  /\ ~Here /\ Quiet /\ Sending
  /\ LET kept == granted /\ db[ui.left] # None IN
       /\ db' = IF kept THEN [db EXCEPT ![ui.left].auth = TRUE] ELSE db
       /\ ui' = Page(IF kept THEN "success" ELSE "error")
  /\ \E x \in Calls : call' = [call EXCEPT ![x] = Request("load", None)]

---------------------------------------------------------------------------
(* The form.                                                               *)

Panel(i, row) ==
  [id |-> i, row |-> row, ask |-> None, options |-> None, touched |-> FALSE, busy |-> None]

OpenAdd(oauth) ==
  /\ Here /\ ui.rows # None /\ ui.panel = None /\ Act
  /\ ui' = [ui EXCEPT !.panel =
       Panel(None, [oauth |-> oauth, auth |-> FALSE, name |-> AName, on |-> TRUE, picked |-> {}])]
  /\ UNCHANGED <<db, call>>

\* An instance that exists, and is authorized when it must be, is asked for
\* the options of its dynamic field.
OpenEdit(i) ==
  /\ Row(i) /\ Sending
  /\ IF ui.rows[i].oauth /\ ~ui.rows[i].auth
     THEN ui' = [ui EXCEPT !.panel = Panel(i, ui.rows[i])] /\ UNCHANGED call
     ELSE \E x \in Idle :
            /\ ui' = [ui EXCEPT !.panel = [Panel(i, ui.rows[i]) EXCEPT !.ask = x]]
            /\ call' = [call EXCEPT ![x] = Request("discover", i)]
  /\ UNCHANGED db

Asked(x) == ui.panel # None /\ ui.panel.ask = x

\* A discovery that fails offers nothing, and one for a form that was closed
\* is not looked at.
Discovered(x) ==
  /\ Here /\ (Failed(x, "discover") \/ Answered(x, "discover", "ok")) /\ Done(x)
  /\ ui' = IF ~Asked(x) THEN ui
           ELSE [ui EXCEPT !.panel.ask = None,
                           !.panel.options = IF call[x].at = "ok" THEN call[x].data ELSE {}]

EditPlain(n, on) ==
  /\ Here /\ ui.panel # None /\ Act
  /\ <<n, on>> # <<ui.panel.row.name, ui.panel.row.on>>
  /\ ui' = [ui EXCEPT !.panel.row.name = n, !.panel.row.on = on]
  /\ UNCHANGED <<db, call>>

\* The picker and the list of what is chosen are there while there are
\* options.  The picker replaces the choice by options that are offered; a
\* chosen one, offered or not, is taken out of the list.
Choose(picked) ==
  /\ Here /\ ui.panel # None /\ ui.panel.ask = None /\ ui.panel.options \notin {None, {}}
  /\ \/ picked \subseteq ui.panel.options
     \/ \E o \in ui.panel.row.picked : picked = ui.panel.row.picked \ {o}
  /\ picked # ui.panel.row.picked /\ Act
  /\ ui' = [ui EXCEPT !.panel.row.picked = picked, !.panel.touched = TRUE]
  /\ UNCHANGED <<db, call>>

\* The whole configuration, also the part that is not shown.
Submit ==
  /\ Here /\ ui.panel # None /\ ui.panel.busy = None
  /\ \E x \in Calls :
       /\ SendAs(x, IF ui.panel.id = None THEN "create" ELSE "update",
                 [id |-> ui.panel.id, row |-> ui.panel.row, chosen |-> ui.panel.touched])
       /\ ui' = [ui EXCEPT !.panel.busy = x]
  /\ UNCHANGED db

\* Fault: the list is loaded again and no more.
SavedOnly(x) ==
  /\ Here /\ \E k \in {"create", "update"} : Answered(x, k, "ok")
  /\ DoneThen(x, "load", None)
  /\ ui' = [ui EXCEPT !.panel = None]

\* Whatever form is open is closed.
Saved(x) ==
  /\ Here /\ \E k \in {"create", "update"} : Answered(x, k, "ok")
  /\ DoneThen(x, "load", IF call[x].kind = "create" /\ call[x].arg.row.oauth
                         THEN call[x].data ELSE None)
  /\ ui' = [ui EXCEPT !.panel = None]

NotSaved(x) ==
  /\ Here /\ \E k \in {"create", "update"} : Failed(x, k)
  /\ Done(x)
  /\ ui' = IF ui.panel # None /\ ui.panel.busy = x THEN [ui EXCEPT !.panel.busy = None] ELSE ui

Cancel ==
  /\ Here /\ ui.panel # None /\ Act
  /\ ui' = [ui EXCEPT !.panel = None]
  /\ UNCHANGED <<db, call>>

---------------------------------------------------------------------------
Admin ==
  \/ \E i \in InstanceIds :
       ToggleEnabled(i) \/ Delete(i) \/ Authorize(i) \/ Deauthorize(i) \/ OpenEdit(i)
  \/ \E b \in BOOLEAN : OpenAdd(b) \/ ComeBack(b)
  \/ \E n \in Names, on \in BOOLEAN : EditPlain(n, on)
  \/ \E picked \in SUBSET Options : Choose(picked)
  \/ Submit \/ Cancel

Next ==
  \/ Admin
  \/ \E x \in Calls :
       \/ Serve(x) \/ Lose(x)
       \/ Loaded(x) \/ Reload(x) \/ NotAuthorized(x) \/ Unheard(x)
       \/ Leave(x) \/ Unread(x)
       \/ Discovered(x) \/ Saved(x) \/ NotSaved(x)

Spec == Init /\ [][Next]_vars

---------------------------------------------------------------------------
(* Properties.                                                             *)

\* What was chosen of a dynamic field stays chosen until the admin changes the
\* choice: options that could not be discovered, or are not offered any more,
\* and switching the instance on or off, take nothing out of it, as long as
\* nothing overlaps or is lost (SetupFieldInput, handleToggleEnabled).
ChoiceIsKept ==
  ~log.twin /\ ~log.torn =>
    \A i \in InstanceIds :
      db[i] # None /\ db'[i] # None /\ db'[i].picked # db[i].picked =>
        \E x \in Calls : Sent(x) /\ call[x].kind = "update" /\ call[x].arg.id = i
                         /\ call[x].arg.chosen

\* "A freshly created OAuth2 instance can't fetch anything until it's authorized --
\* send the admin straight into the provider's consent screen" (submitInstance):
\* while the browser has never been at a provider (no notice), no instance that
\* was added is one that needs authorization.
ConsentFollowsAdd ==
  Quiet /\ Here /\ ui.note = None /\ ~log.twin /\ ~log.torn =>
    \A i \in InstanceIds \ {AnInstance} : db[i] # None => ~db[i].oauth
=============================================================================
