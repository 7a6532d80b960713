------------------------------ MODULE Settings ------------------------------
(***************************************************************************)
(* One visit of an admin to the Settings page                              *)
(* (web/src/admin/pages/SettingsPage.tsx): one tab is mounted at a time,   *)
(* its requests may overlap, be served in another order than they were     *)
(* sent, and lose their answers.  The server does what the handlers of     *)
(* internal/api do; nobody else changes the settings meanwhile.  Sections  *)
(* that share a tab share nothing else: each is a tab of its own here.     *)
(***************************************************************************)
EXTENDS Naturals, FiniteSets

CONSTANTS
  Values,    \* what the plain fields of a form may hold
  Passwords, \* SMTP passwords and webhook secrets
  Events,    \* the events one may be notified of
  People,    \* bound: names of accounts
  Calls,     \* bound: requests in flight at once
  MaxKeys,   \* bound: TOTP secrets, and batches of backup codes, ever made
  MaxEdits,  \* bound: what the admin does in one visit
  TabCost,   \* bound: how much of it another tab costs
  None, NoCall

VARIABLES
  tab,   \* the mounted section
  forms, \* the page's own form (general), and the mounted section's (section)
  list,  \* users: the accounts listed, the status of the Add form
  prefs, \* notifications: the events shown as chosen, the status
  fa,    \* two-factor: what the section shows
  db,    \* the server's settings, accounts, preferences and TOTP state
  call,  \* requests in flight
  edits, \* what the admin did so far
  past   \* history: twin: two changes overlapped.  torn: a request failed or
         \* was lost.  unread: an answer about backup codes was lost, or left

vars == <<tab, forms, list, prefs, fa, db, call, edits, past>>

Forms == {"general", "account", "mail", "webhook"}
Tabs == Forms \cup {"users", "notifications", "twofactor"}
Status == {"idle", "saving", "saved", "error"}
Fields == [plain : Values, secret : Passwords \cup {None}]
Keys == 0..MaxKeys
HasSecret(t) == t \in {"mail", "webhook"}

\* A section is null until its load is answered.  fresh: the fields are those
\* of the last submit (history).
FormInit == [shown |-> None, has |-> FALSE, status |-> "idle", fresh |-> FALSE]
ListInit == [names |-> None, status |-> "idle"]
PrefsInit == [on |-> None, status |-> "idle"]
FaInit == [enabled |-> None, step |-> "status", codes |-> 0, secret |-> 0,
           loaded |-> FALSE, error |-> FALSE, busy |-> FALSE, checking |-> FALSE]

\* at: sent, or how the answer comes back: ok, refused, or lost.  for: the
\* tab that waits for it, or None once it was left.  then: what the answer to
\* a reload completes.
NewCall(kind, arg, then) ==
  [kind |-> kind, for |-> tab, arg |-> arg, then |-> then, at |-> "sent", data |-> None]

TypeOK ==
  /\ tab \in Tabs /\ edits \in 0..MaxEdits
  /\ past \in [twin : BOOLEAN, torn : BOOLEAN, unread : BOOLEAN]
  /\ \A f \in {"general", "section"} :
       /\ forms[f].shown \in Fields \/ forms[f].shown = None
       /\ forms[f].status \in Status /\ forms[f].has \in BOOLEAN
  /\ list.names = None \/ list.names \subseteq People
  /\ prefs.on = None \/ prefs.on \subseteq Events
  /\ fa.enabled \in BOOLEAN \cup {None} /\ {fa.codes, fa.secret} \subseteq Keys
  /\ fa.step \in {"status", "enroll", "disable", "regenerate"}
  /\ db.kept \in [Forms -> Fields] /\ db.people \subseteq People /\ db.on \subseteq Events
  /\ {db.secret, db.batch, db.made} \subseteq Keys /\ db.enabled \in BOOLEAN

---------------------------------------------------------------------------
(* Requests.                                                               *)

Idle == {x \in Calls : call[x] = NoCall}
Open(kinds) == {x \in Calls : call[x] # NoCall /\ call[x].kind \in kinds}

OfCodes == {"confirm", "disable", "regenerate"}
Changes == {"save", "add", "remove", "setprefs", "enroll"} \cup OfCodes

\* A bound: what the admin does, another tab counting as TabCost.
Spend(cost) == edits + cost <= MaxEdits /\ edits' = edits + cost
Act == Spend(1)

Send(kind, arg, then) ==
  \E x \in Idle : call' = [call EXCEPT ![x] = NewCall(kind, arg, then)]

\* Two changes that overlap may be served, and reloaded, in either order.
Change(kind, arg) ==
  /\ Act /\ Send(kind, arg, None)
  /\ past' = [past EXCEPT !.twin = @ \/ Open(Changes \cup {"users"}) # {}]

\* The answer to x is handled, and the next request of its handler sent.
Answered(x, kind, at) ==
  call[x] # NoCall /\ call[x].kind = kind /\ call[x].at = at /\ call[x].for # None

Done(x) == call' = [call EXCEPT ![x] = NoCall]

DoneThen(x, kind, then) == call' = [call EXCEPT ![x] = NewCall(kind, None, then)]

\* What each section loads when it is mounted; the page's own form is loaded
\* once, with the page.
LoadOf(t) ==
  CASE t \in Forms -> "load"
    [] t = "users" -> "users"
    [] t = "notifications" -> "prefs"
    [] OTHER -> "totp"

Load(t) == [kind |-> LoadOf(t), for |-> t, arg |-> t, then |-> None, at |-> "sent", data |-> None]

\* The page is opened on any tab, by its address.
Init ==
  /\ tab \in Tabs
  /\ forms = [f \in {"general", "section"} |-> FormInit]
  /\ list = ListInit /\ prefs = PrefsInit /\ fa = FaInit
  /\ \E f \in Fields, people \in (SUBSET People) \ {{}}, key \in {0, 1} :
       db = [kept |-> [t \in Forms |-> IF HasSecret(t) THEN f ELSE [f EXCEPT !.secret = None]],
             people |-> people, on |-> {},
             secret |-> key, enabled |-> key = 1, batch |-> key, made |-> key]
  /\ \E x \in Calls :
       call = [y \in Calls |-> IF x = y THEN Load(tab) ELSE NoCall]
  /\ edits = 0 /\ past = [twin |-> FALSE, torn |-> FALSE, unread |-> FALSE]

\* Another tab: the section is unmounted with its state, and its answers
\* find nobody.  The page's own form stays.
SelectTab(t) ==
  /\ Spend(TabCost) /\ t # tab /\ tab' = t
  /\ \E x \in Idle :
       call' = [y \in Calls |->
                  IF y = x /\ (t # "general" \/ forms["general"].shown = None)
                  THEN Load(t)
                  ELSE IF call[y] = NoCall THEN NoCall
                  ELSE IF call[y].for = "general" THEN call[y]
                  ELSE [call[y] EXCEPT !.for = None]]
  /\ forms' = [forms EXCEPT !["section"] = FormInit]
  /\ list' = ListInit /\ prefs' = PrefsInit /\ fa' = FaInit
  /\ past' = [past EXCEPT !.twin = @ \/ Open(Changes) # {}, !.unread = @ \/ Open(OfCodes) # {}]
  /\ UNCHANGED db

---------------------------------------------------------------------------
(* The server.                                                             *)

Reply(new, data, ok) == [db |-> new, data |-> data, ok |-> ok]
Refuse == Reply(db, None, FALSE)

\* A blank secret keeps the stored one.
Save(t, f) ==
  [db EXCEPT !.kept[t] = [plain |-> f.plain,
                          secret |-> IF f.secret = None THEN @.secret ELSE f.secret]]

\* New backup codes, or a new TOTP secret.
Fresh == db.made + 1
NewCodes(new) == Reply([new EXCEPT !.batch = Fresh, !.made = Fresh], Fresh, TRUE)

\* A code is right when its secret is the one on file; confirming makes new
\* backup codes, also when two-factor is already on.
Served(c) ==
  CASE c.kind = "load" -> Reply(db, db.kept[c.arg], TRUE)
    [] c.kind = "users" -> Reply(db, db.people, TRUE)
    [] c.kind = "prefs" -> Reply(db, db.on, TRUE)
    [] c.kind = "totp" -> Reply(db, db.enabled, TRUE)
    [] c.kind = "save" -> Reply(Save(c.arg.of, c.arg.fields), None, TRUE)
    [] c.kind = "setprefs" -> Reply([db EXCEPT !.on = c.arg], None, TRUE)
    [] c.kind = "add" ->
         IF c.arg \in db.people THEN Refuse
         ELSE Reply([db EXCEPT !.people = @ \cup {c.arg}], None, TRUE)
    [] c.kind = "remove" ->
         IF c.arg \notin db.people \/ Cardinality(db.people) = 1 THEN Refuse
         ELSE Reply([db EXCEPT !.people = @ \ {c.arg}], None, TRUE)
    [] c.kind = "enroll" ->
         IF db.enabled THEN Refuse
         ELSE Reply([db EXCEPT !.secret = Fresh, !.made = Fresh], Fresh, TRUE)
    [] c.kind = "confirm" ->
         IF c.arg = 0 \/ c.arg # db.secret THEN Refuse
         ELSE NewCodes([db EXCEPT !.enabled = TRUE])
    [] c.kind = "disable" ->
         IF ~c.arg THEN Refuse
         ELSE Reply([db EXCEPT !.enabled = FALSE, !.secret = 0, !.batch = 0], None, TRUE)
    [] c.kind = "regenerate" -> IF c.arg /\ db.enabled THEN NewCodes(db) ELSE Refuse

Serve(x) ==
  /\ call[x] # NoCall /\ call[x].at = "sent"
  /\ call[x].kind \in {"enroll", "confirm", "regenerate"} => db.made < MaxKeys
  /\ LET r == Served(call[x]) IN
       /\ db' = r.db
       /\ call' = [call EXCEPT ![x].at = IF r.ok THEN "ok" ELSE "refused", ![x].data = r.data]
       /\ past' = [past EXCEPT !.torn = @ \/ ~r.ok]
  /\ UNCHANGED <<tab, forms, list, prefs, fa, edits>>

\* A request never arrives, or its answer is lost.
Lose(x) ==
  /\ call[x] # NoCall /\ call[x].at \in {"sent", "ok"}
  /\ call' = [call EXCEPT ![x].at = "lost", ![x].data = None]
  /\ past' = [past EXCEPT !.torn = TRUE,
                          !.unread = @ \/ (call[x].at = "ok"
                                         /\ call[x].kind \in {"confirm", "regenerate"})]
  /\ UNCHANGED <<tab, forms, list, prefs, fa, db, edits>>

\* The answer to a section that was left.
Drop(x) ==
  /\ call[x] # NoCall /\ call[x].for = None /\ call[x].at # "sent" /\ Done(x)
  /\ UNCHANGED <<tab, forms, list, prefs, fa, db, edits, past>>

\* A load that fails is not repeated: the section stays empty.
LoadFails(x) ==
  /\ \E k \in {"load", "users", "prefs", "totp"} : Answered(x, k, "lost")
  /\ call[x].then = None /\ Done(x)
  /\ UNCHANGED <<tab, forms, list, prefs, fa, db, edits, past>>

---------------------------------------------------------------------------
(* The forms of General, Account, Mail and Webhook.                        *)

Slot(t) == IF t = "general" THEN "general" ELSE "section"
Form == forms[Slot(tab)]
SetForm(t, f) == forms' = [forms EXCEPT ![Slot(t)] = f]

\* Mail and Webhook show whether a secret is kept, never the secret.
Loaded(x) ==
  /\ Answered(x, "load", "ok") /\ Done(x)
  /\ LET t == call[x].for  f == call[x].data IN
       SetForm(t, [FormInit EXCEPT !.shown = [f EXCEPT !.secret = None],
                                   !.has = f.secret # None])
  /\ UNCHANGED <<tab, list, prefs, fa, db, edits, past>>

EditForm(f, status) ==
  /\ Form.shown # None /\ f # Form.shown /\ Act
  /\ SetForm(tab, [Form EXCEPT !.shown = f, !.fresh = FALSE, !.status = status])
  /\ UNCHANGED <<tab, list, prefs, fa, db, call, past>>

\* Typing resets the status, but not in the mail form.
EditGeneral(f) == tab = "general" /\ f.secret = None /\ EditForm(f, "idle")
EditAccount(f) == tab = "account" /\ f.secret = None /\ EditForm(f, "idle")
EditMail(f) == tab = "mail" /\ EditForm(f, Form.status)
EditWebhook(f) == tab = "webhook" /\ EditForm(f, "idle")

\* The button is disabled while the status is saving: an edit enables it.
SubmitForm ==
  /\ tab \in Forms /\ Form.shown # None /\ Form.status # "saving"
  /\ Change("save", [of |-> tab, fields |-> Form.shown])
  /\ SetForm(tab, [Form EXCEPT !.status = "saving", !.fresh = TRUE])
  /\ UNCHANGED <<tab, list, prefs, fa, db>>

\* A secret that was sent is cleared, whatever was typed since.
FormSaved(x) ==
  /\ Answered(x, "save", "ok") /\ Done(x)
  /\ LET t == call[x].for  f == forms[Slot(t)]  sent == call[x].arg.fields.secret # None IN
       SetForm(t, [f EXCEPT !.status = "saved", !.has = @ \/ sent,
                            !.shown.secret = IF sent THEN None ELSE @])
  /\ UNCHANGED <<tab, list, prefs, fa, db, edits, past>>

\* The server refuses none of these; it would be shown the same way.
FormFailed(x) ==
  /\ Answered(x, "save", "lost") /\ Done(x)
  /\ SetForm(call[x].for, [forms[Slot(call[x].for)] EXCEPT !.status = "error"])
  /\ UNCHANGED <<tab, list, prefs, fa, db, edits, past>>

---------------------------------------------------------------------------
(* Users.                                                                  *)

Listed(x) ==
  /\ Answered(x, "users", "ok") /\ Done(x)
  /\ list' = [list EXCEPT !.names = call[x].data]
  /\ UNCHANGED <<tab, forms, prefs, fa, db, edits, past>>

\* Typing a name and a password resets the status, which enables the button.
Add(p) ==
  /\ tab = "users" /\ list.names # None
  /\ Change("add", p)
  /\ list' = [list EXCEPT !.status = "saving"]
  /\ UNCHANGED <<tab, forms, prefs, fa, db>>

Remove(p) ==
  /\ tab = "users" /\ list.names # None /\ p \in list.names /\ Cardinality(list.names) > 1
  /\ Change("remove", p)
  /\ UNCHANGED <<tab, forms, list, prefs, fa, db>>

Added(x) ==
  /\ Answered(x, "add", "ok") /\ DoneThen(x, "users", "add")
  /\ list' = [list EXCEPT !.status = "saved"]
  /\ UNCHANGED <<tab, forms, prefs, fa, db, edits, past>>

Removed(x) ==
  /\ Answered(x, "remove", "ok") /\ DoneThen(x, "users", "remove")
  /\ UNCHANGED <<tab, forms, list, prefs, fa, db, edits, past>>

\* Only the Add form says so when it, or the reload after it, fails.
UsersFail(x) ==
  /\ \/ \E k \in {"add", "remove"}, at \in {"lost", "refused"} : Answered(x, k, at)
     \/ /\ Answered(x, "users", "lost") /\ call[x].then # None
  /\ Done(x)
  /\ list' = [list EXCEPT !.status =
                IF "add" \in {call[x].kind, call[x].then} THEN "error" ELSE @]
  /\ UNCHANGED <<tab, forms, prefs, fa, db, edits, past>>

---------------------------------------------------------------------------
(* Notifications.                                                          *)

PrefsLoaded(x) ==
  /\ Answered(x, "prefs", "ok") /\ Done(x)
  /\ prefs' = [prefs EXCEPT !.on = call[x].data]
  /\ UNCHANGED <<tab, forms, list, fa, db, edits, past>>

\* Shown at once, and sent whole; nothing is disabled meanwhile.
Toggle(e) ==
  /\ tab = "notifications" /\ prefs.on # None
  /\ LET next == IF e \in prefs.on THEN prefs.on \ {e} ELSE prefs.on \cup {e} IN
       /\ Change("setprefs", next)
       /\ prefs' = [on |-> next, status |-> "saving"]
  /\ UNCHANGED <<tab, forms, list, fa, db>>

\* A choice that could not be saved stays on the screen.
Toggled(x) ==
  /\ \E at \in {"ok", "lost"} : Answered(x, "setprefs", at)
  /\ Done(x)
  /\ prefs' = [prefs EXCEPT !.status = IF call[x].at = "ok" THEN "saved" ELSE "error"]
  /\ UNCHANGED <<tab, forms, list, fa, db, edits, past>>

---------------------------------------------------------------------------
(* Two-factor authentication.                                              *)

SetFa(new) == fa' = new /\ UNCHANGED <<tab, forms, list, prefs, db>>

\* The status alone, or the reload that ends a confirmation or a disable.
StatusLoaded(x) ==
  /\ Answered(x, "totp", "ok") /\ Done(x)
  /\ SetFa([fa EXCEPT !.enabled = call[x].data,
                      !.step = IF call[x].then = None THEN @ ELSE "status",
                      !.busy = @ /\ call[x].then # "confirm",
                      !.checking = @ /\ call[x].then # "disable"])
  /\ UNCHANGED <<edits, past>>

\* The choices are offered while no step is open and no codes are shown.
Offered == tab = "twofactor" /\ fa.enabled # None /\ fa.step = "status" /\ fa.codes = 0

\* Fault: the key of an earlier start is shown until the answer comes.
StartEnrollShowing ==
  /\ Offered /\ ~fa.enabled /\ Change("enroll", None)
  /\ SetFa([fa EXCEPT !.step = "enroll", !.error = FALSE])

\* The secret of an earlier start is kept, behind "Loading".
StartEnroll ==
  /\ Offered /\ ~fa.enabled /\ Change("enroll", None)
  /\ SetFa([fa EXCEPT !.step = "enroll", !.loaded = FALSE, !.error = FALSE])

\* When the answer is lost nothing is shown: the step cannot be left.
EnrollStarted(x) ==
  /\ \E at \in {"ok", "refused"} : Answered(x, "enroll", at)
  /\ Done(x)
  /\ SetFa(IF call[x].at = "ok" THEN [fa EXCEPT !.secret = call[x].data, !.loaded = TRUE]
           ELSE [fa EXCEPT !.loaded = TRUE, !.error = TRUE])
  /\ UNCHANGED <<edits, past>>

EnrollStuck(x) ==
  /\ Answered(x, "enroll", "lost") /\ Done(x)
  /\ SetFa(fa) /\ UNCHANGED <<edits, past>>

Enrolling == tab = "twofactor" /\ fa.step = "enroll" /\ fa.loaded /\ fa.secret # 0

\* A code of the secret shown, or a wrong one.
ConfirmEnroll(code) ==
  /\ Enrolling /\ ~fa.busy /\ code \in {0, fa.secret}
  /\ Change("confirm", code)
  /\ SetFa([fa EXCEPT !.error = FALSE, !.busy = TRUE])

\* The codes are shown before the status is read again.
Confirmed(x) ==
  /\ Answered(x, "confirm", "ok") /\ DoneThen(x, "totp", "confirm")
  /\ SetFa([fa EXCEPT !.codes = call[x].data])
  /\ UNCHANGED <<edits, past>>

ConfirmFailed(x) ==
  /\ \/ \E at \in {"lost", "refused"} : Answered(x, "confirm", at)
     \/ Answered(x, "totp", "lost") /\ call[x].then = "confirm"
  /\ Done(x)
  /\ SetFa([fa EXCEPT !.error = TRUE, !.busy = FALSE])
  /\ UNCHANGED <<edits, past>>

AskPassword(step) ==
  /\ Offered /\ fa.enabled /\ Act
  /\ SetFa([fa EXCEPT !.step = step]) /\ UNCHANGED <<call, past>>

\* good: the password typed is the account's.
SubmitPassword(good) ==
  /\ tab = "twofactor" /\ fa.step \in {"disable", "regenerate"} /\ ~fa.checking
  /\ Change(fa.step, good)
  /\ SetFa([fa EXCEPT !.checking = TRUE])

Disabled(x) ==
  /\ Answered(x, "disable", "ok") /\ DoneThen(x, "totp", "disable")
  /\ SetFa(fa) /\ UNCHANGED <<edits, past>>

\* The number of codes left is not read again.
Regenerated(x) ==
  /\ Answered(x, "regenerate", "ok") /\ Done(x)
  /\ SetFa([fa EXCEPT !.codes = call[x].data, !.step = "status", !.checking = FALSE])
  /\ UNCHANGED <<edits, past>>

PasswordFailed(x) ==
  /\ \/ \E k \in {"disable", "regenerate"}, at \in {"lost", "refused"} : Answered(x, k, at)
     \/ Answered(x, "totp", "lost") /\ call[x].then = "disable"
  /\ Done(x)
  /\ SetFa([fa EXCEPT !.checking = FALSE])
  /\ UNCHANGED <<edits, past>>

\* What was sent is not taken back, and its answer still changes the step.
CancelStep ==
  /\ tab = "twofactor" /\ Act
  /\ Enrolling \/ fa.step \in {"disable", "regenerate"}
  /\ SetFa([fa EXCEPT !.step = "status", !.error = FALSE])
  /\ UNCHANGED <<call, past>>

CodesSaved ==
  /\ tab = "twofactor" /\ fa.codes # 0 /\ Act
  /\ SetFa([fa EXCEPT !.codes = 0]) /\ UNCHANGED <<call, past>>

---------------------------------------------------------------------------
Admin ==
  \/ \E t \in Tabs : SelectTab(t)
  \/ \E f \in Fields : EditGeneral(f) \/ EditAccount(f) \/ EditMail(f) \/ EditWebhook(f)
  \/ SubmitForm
  \/ \E p \in People : Add(p) \/ Remove(p)
  \/ \E e \in Events : Toggle(e)
  \/ StartEnroll
  \/ \E c \in Keys : ConfirmEnroll(c)
  \/ \E s \in {"disable", "regenerate"} : AskPassword(s)
  \/ \E good \in BOOLEAN : SubmitPassword(good)
  \/ CancelStep
  \/ CodesSaved

Network == \E x \in Calls : Serve(x) \/ Lose(x)

Page ==
  \E x \in Calls :
    \/ Drop(x) \/ LoadFails(x) \/ Loaded(x) \/ FormSaved(x) \/ FormFailed(x)
    \/ Listed(x) \/ Added(x) \/ Removed(x) \/ UsersFail(x)
    \/ PrefsLoaded(x) \/ Toggled(x)
    \/ StatusLoaded(x) \/ EnrollStarted(x) \/ EnrollStuck(x)
    \/ Confirmed(x) \/ ConfirmFailed(x)
    \/ Disabled(x) \/ Regenerated(x) \/ PasswordFailed(x)

Next == Admin \/ Network \/ Page

Spec == Init /\ [][Next]_vars

---------------------------------------------------------------------------
(* Properties.                                                             *)

Quiet == \A x \in Calls : call[x] # NoCall => call[x].for = None /\ call[x].at # "sent"

\* Once everything is answered, nothing was lost or refused and no two changes
\* overlapped, what the page presents as saved, listed, chosen or enabled is
\* what the server has (all sections of SettingsPage).
PageTellsTruth ==
  Quiet /\ ~past.twin /\ ~past.torn =>
    /\ tab \in Forms /\ Form.status = "saved" /\ Form.fresh =>
         db.kept[tab].plain = Form.shown.plain /\ (Form.has => db.kept[tab].secret # None)
    /\ list.names \in {None, db.people}
    /\ prefs.on \in {None, db.on}
    /\ fa.enabled \in {None, db.enabled}

\* Of two-factor, the section shows what the account has: the codes ("each
\* works once, and this is the only time they'll be shown"), also when steps were
\* cancelled or the reload behind them failed; and the key to scan, however often
\* the enrollment was started and given up (startEnroll, cancelStep).
ShownFactorWorks ==
  /\ Quiet /\ fa.codes # 0 /\ ~past.unread => db.enabled /\ fa.codes = db.batch
  /\ Enrolling /\ ~past.twin => fa.secret = db.secret
=============================================================================
