------------------------------ MODULE Session ------------------------------
(***************************************************************************)
(* The session of an admin's browser tab: web/src/admin/AdminApp.tsx,      *)
(* auth/AuthContext.tsx, auth/useApiFetch.ts, and the pages one sees       *)
(* without a session: first-run setup, login, forgotten password, reset.   *)
(* The server is seen as those pages see it (internal/api/admin_handlers.go, *)
(* mfa_handlers.go, middleware.go).                                        *)
(***************************************************************************)
EXTENDS Requests

CONSTANTS
  People,   \* names of accounts
  MaxTokens \* bound: tokens ever issued

(***************************************************************************)
(* ui.at: the address.  ui.status: what /setup said.  ui.session: the      *)
(* number of the token and the name shown with it, which sessionStorage    *)
(* holds too.  ui.form: the public page that is mounted; pending: the      *)
(* account whose password was right.                                       *)
(* db.owner[t]: whose token t is.  Tokens last 24 hours: the first         *)
(* db.expired of them are dead.  db.link: whose reset link is unused.      *)
(* db.off: authentication is disabled.                                     *)
(***************************************************************************)
Places == {"app", "forgot", "reset"}
NewForm == [name |-> None, pending |-> None, busy |-> None, done |-> FALSE]
Checked(required, off) == [required |-> required, off |-> off]

TypeOK ==
  /\ CallsTypeOK
  /\ ui.at \in Places /\ ui.status \in [required : BOOLEAN, off : BOOLEAN] \cup {None}
  /\ ui.session = None \/ (ui.session.token \in DOMAIN db.owner /\ ui.session.name \in People)
  /\ {ui.form.name, ui.form.pending} \subseteq People \cup {None}
  /\ ui.form.busy \in Calls \cup {None} /\ ui.form.done \in BOOLEAN
  /\ db.owner \in Seq(People) /\ db.expired \in 0..Len(db.owner)
  /\ db.mfa \subseteq db.people /\ db.people \subseteq People

Live(t) == t > db.expired

\* What AdminShell renders.
Shows(u) ==
  CASE u.at # "app" -> u.at
    [] u.at = "app" /\ u.status = None -> "loading"
    [] u.at = "app" /\ u.status # None ->
         IF u.status.required THEN "wizard"
         ELSE IF u.session = None /\ ~u.status.off THEN "login" ELSE "pages"

\* Another page: the one that was shown is unmounted with its form.
Become(u) == ui' = IF Shows(u) = Shows(ui) THEN u ELSE [u EXCEPT !.form = NewForm]

\* A tab opened anywhere, with the session it may hold from before a reload.
Init ==
  /\ \E people \in SUBSET People, mfa \in SUBSET People, off \in BOOLEAN,
        link \in People \cup {None}, held \in People \cup {None} :
       /\ mfa \subseteq people /\ {link, held} \ {None} \subseteq people
       /\ off => people = {}
       /\ db = [people |-> people, mfa |-> mfa, off |-> off, link |-> link, expired |-> 0,
                owner |-> IF held = None THEN <<>> ELSE <<held>>]
       /\ \E at \in Places :
            ui = [at |-> at, status |-> None, form |-> NewForm,
                  session |-> IF held = None THEN None ELSE [token |-> 1, name |-> held]]
  /\ Mounted("status", None)

---------------------------------------------------------------------------
(* The server.  A password, a code or a link may be wrong.                 *)

Issue(u, new) == Reply([new EXCEPT !.owner = Append(@, u)], Len(db.owner) + 1, TRUE)

Served(c) ==
  CASE c.kind = "status" ->
         {Reply(db, Checked(db.people = {} /\ ~db.off, db.off), TRUE)}
    [] c.kind = "setup" ->
         {IF db.people # {} THEN Refuse ELSE Issue(c.arg, [db EXCEPT !.people = {c.arg}])}
    [] c.kind = "login" ->
         {Refuse} \cup
         (IF c.arg \notin db.people THEN {}
          ELSE {IF c.arg \in db.mfa THEN Reply(db, c.arg, TRUE) ELSE Issue(c.arg, db)})
    [] c.kind = "verify" ->
         {Refuse} \cup (IF c.arg.pending \in db.mfa THEN {Issue(c.arg.pending, db)} ELSE {})
    [] c.kind = "forgot" -> {Refuse, Reply(db, None, TRUE)}
    [] c.kind = "reset" ->
         {IF db.link = None THEN Refuse
          ELSE Reply([db EXCEPT !.link = None,
                                !.mfa = IF c.arg THEN @ \ {db.link} ELSE @], None, TRUE)}
    [] c.kind = "api" -> {IF db.off \/ Live(c.arg) THEN Reply(db, None, TRUE) ELSE Refuse}

Serve(x) ==
  /\ Sent(x)
  /\ call[x].kind \in {"setup", "login", "verify"} => Len(db.owner) < MaxTokens
  /\ \E r \in Served(call[x]) : Replied(x, r)

\* The oldest token reaches its age.
Expire ==
  /\ db.expired < Len(db.owner) /\ db' = [db EXCEPT !.expired = @ + 1]
  /\ UNCHANGED <<ui, call, log>>

---------------------------------------------------------------------------
(* AdminShell and AuthContext.                                             *)

\* Without an answer the page takes it that setup is done and that
\* authentication is not disabled.
StatusKnown(x) ==
  /\ \E at \in {"ok", "lost"} : Answered(x, "status", at)
  /\ Done(x)
  /\ Become([ui EXCEPT !.status = IF call[x].at = "ok" THEN call[x].data ELSE Checked(FALSE, FALSE)])

SetSession(u, token, name) == [u EXCEPT !.session = [token |-> token, name |-> name]]

Logout ==
  /\ Shows(ui) = "pages" /\ Act
  /\ Become([ui EXCEPT !.session = None])
  /\ UNCHANGED <<db, call>>

\* A link between the pages one sees without a session.
Go(at) ==
  /\ <<Shows(ui), at>> \in {<<"login", "forgot">>, <<"forgot", "app">>, <<"reset", "app">>}
  /\ Act
  /\ Become([ui EXCEPT !.at = at])
  /\ UNCHANGED <<db, call>>

\* The tab is reloaded, when nothing is in flight; it keeps its session where
\* the browser lets it store one.
Refresh(kept) ==
  /\ Quiet /\ Send("status", None)
  /\ ui' = [ui EXCEPT !.status = None, !.form = NewForm, !.session = IF kept THEN @ ELSE None]
  /\ UNCHANGED db

\* Any request of a page, with the token as it was rendered.
ApiFetch ==
  /\ Shows(ui) = "pages"
  /\ Send("api", IF ui.session = None THEN 0 ELSE ui.session.token)
  /\ UNCHANGED <<ui, db>>

\* Fault: any failure ends the session.
ApiFetchedStrict(x) ==
  /\ \E at \in {"ok", "refused", "lost"} : Answered(x, "api", at)
  /\ Done(x)
  /\ IF call[x].at # "ok" THEN Become([ui EXCEPT !.session = None]) ELSE UNCHANGED ui

\* Only a 401 ends the session.
ApiFetched(x) ==
  /\ \E at \in {"ok", "refused", "lost"} : Answered(x, "api", at)
  /\ Done(x)
  /\ IF call[x].at = "refused" THEN Become([ui EXCEPT !.session = None]) ELSE UNCHANGED ui

---------------------------------------------------------------------------
(* The forms.                                                              *)

Sends(kind, arg) ==
  /\ ui.form.busy = None
  /\ \E x \in Calls : SendAs(x, kind, arg) /\ ui' = [ui EXCEPT !.form.busy = x]
  /\ UNCHANGED db

\* A name can also be typed while a request is under way: they overlap.
TypeName(n) ==
  /\ Shows(ui) \in {"login", "wizard", "forgot"} /\ ui.form.pending = None /\ ~ui.form.done
  /\ n # ui.form.name /\ Sending
  /\ ui' = [ui EXCEPT !.form.name = n]
  /\ UNCHANGED <<db, call>>

Typed(page) == Shows(ui) = page /\ ui.form.name # None

SubmitSetup == Typed("wizard") /\ Sends("setup", ui.form.name)
SubmitLogin == Typed("login") /\ ui.form.pending = None /\ Sends("login", ui.form.name)
SubmitForgot == Typed("forgot") /\ ~ui.form.done /\ Sends("forgot", ui.form.name)
SubmitReset(mfa) == Shows(ui) = "reset" /\ ~ui.form.done /\ Sends("reset", mfa)

\* The code goes with the name as it is now.
SubmitCode ==
  /\ Shows(ui) = "login" /\ ui.form.pending # None
  /\ Sends("verify", [name |-> ui.form.name, pending |-> ui.form.pending])

BackToSignIn ==
  /\ Shows(ui) = "login" /\ ui.form.pending # None /\ Act
  /\ ui' = [ui EXCEPT !.form.pending = None]
  /\ UNCHANGED <<db, call>>

\* The form that sent x, if it is still mounted, can be sent again.
Free(x, u) == IF u.form.busy = x THEN [u EXCEPT !.form.busy = None] ELSE u

\* The account is made and signed in; the wizard is not shown again.
SetupDone(x) ==
  /\ Answered(x, "setup", "ok") /\ Done(x)
  /\ Become([SetSession(Free(x, ui), call[x].data, call[x].arg) EXCEPT
               !.status = IF @ = None THEN None ELSE [@ EXCEPT !.required = FALSE]])

\* A session is set whichever page is shown by now; the second step is asked
\* for on the form that was sent.
LoggedIn(x) ==
  /\ Answered(x, "login", "ok") /\ Done(x)
  /\ IF call[x].data \notin People
     THEN Become(SetSession(Free(x, ui), call[x].data, call[x].arg))
     ELSE ui' = IF ui.form.busy # x THEN ui
                ELSE [ui EXCEPT !.form.busy = None, !.form.pending = call[x].data]

Verified(x) ==
  /\ Answered(x, "verify", "ok") /\ Done(x)
  /\ Become(SetSession(Free(x, ui), call[x].data, call[x].arg.name))

\* The result replaces the form.
LinkAnswered(x) ==
  /\ \E k \in {"forgot", "reset"} : Answered(x, k, "ok")
  /\ Done(x)
  /\ ui' = IF ui.form.busy # x THEN ui ELSE [ui EXCEPT !.form.busy = None, !.form.done = TRUE]

SubmitFailed(x) ==
  /\ \E k \in {"setup", "login", "verify", "forgot", "reset"} : Failed(x, k)
  /\ Done(x)
  /\ ui' = Free(x, ui)

---------------------------------------------------------------------------
Admin ==
  \/ Logout \/ ApiFetch
  \/ \E at \in Places : Go(at)
  \/ \E b \in BOOLEAN : Refresh(b) \/ SubmitReset(b)
  \/ \E n \in People : TypeName(n)
  \/ SubmitSetup \/ SubmitLogin \/ SubmitForgot \/ SubmitCode \/ BackToSignIn

Next ==
  \/ Admin \/ Expire
  \/ \E x \in Calls :
       \/ Serve(x) \/ Lose(x)
       \/ StatusKnown(x) \/ ApiFetched(x) \/ SetupDone(x) \/ LoggedIn(x) \/ Verified(x)
       \/ LinkAnswered(x) \/ SubmitFailed(x)

Spec == Init /\ [][Next]_vars

---------------------------------------------------------------------------
(* Properties.                                                             *)

\* The name in the corner is the account the token acts for: the second step of
\* a login is "for the same username" (LoginPage), also when the form was left
\* and opened again, as long as the name is not changed while a request is
\* under way.
NameIsOwners ==
  ui.session # None /\ ~log.twin => db.owner[ui.session.token] = ui.session.name

\* A session goes on until the admin signs out, the browser loses it, or its
\* token is dead: no failure on the way, and no answer to a request of an
\* earlier session, ends it, as long as requests do not overlap (useApiFetch).
EndsForCause ==
  LET reloaded == ui'.status = None /\ ui.status # None
      signedOut == log'.edits # log.edits
  IN ui.session # None /\ ui'.session = None /\ ~log.twin =>
       reloaded \/ signedOut \/ ~Live(ui.session.token)
=============================================================================
