------------------------------ MODULE Pairing ------------------------------
(***************************************************************************)
(* Pairing a browser with a display: the register page                     *)
(* (web/src/register/RegisterPage.tsx), the client handlers                *)
(* (internal/api/client_handlers.go) and the clients table                 *)
(* (internal/db/clients.go, migration 010).                                *)
(*                                                                         *)
(* One browser and any number of admin requests.  A browser's call is a    *)
(* request on its way, a handler between two SQL statements, or an answer  *)
(* on its way back; calls overtake each other and may be lost.             *)
(***************************************************************************)
EXTENDS Naturals, FiniteSets

CONSTANTS
  Codes,      \* bound: pairing codes the browser generates, each fresh
  Displays,   \* displays that may exist
  Calls,      \* bound: the browser's calls in flight at once
  MaxBirths,  \* bound: rows inserted for one code
  NoCode, NoRow, NoDisplay, Idle

Statuses == {"pending", "approved", "rejected"}
Row == [status : Statuses, display : Displays \cup {NoDisplay}]

\* live: the page, or the effect, that waits for the answer is still there.
\* seen: what the handler has read (polls), or the row it inserted or found.
Call == [kind  : {"register", "submit", "poll"},
         code  : Codes,
         at    : {"sent", "handled", "ok", "missing", "failed"},
         live  : BOOLEAN,
         fresh : BOOLEAN,
         slug  : Displays \cup {NoDisplay}]

ASSUME PairingAssumption ==
  /\ MaxBirths \in Nat \ {0} /\ IsFiniteSet(Calls)
  /\ NoCode \notin Codes /\ NoDisplay \notin Displays
  /\ NoRow \notin Row /\ Idle \notin Call

VARIABLES
  row,       \* clients: code -> row, or NoRow
  displays,  \* the displays that exist
  page,      \* "register", or the display the browser shows
  clientId,  \* the register page's state: the code it waits with, or NoCode
  cookie,    \* the mullet_client_id cookie
  generated, \* codes handed out by generateClientId
  calls,     \* the browser's calls
  births,    \* history: rows inserted per code
  announced, \* history: "new client" notifications per code
  assigned   \* history: displays each code was approved for

browser == <<page, clientId, cookie, generated>>
history == <<births, announced, assigned>>
vars == <<row, displays, browser, calls, history>>

\* Values have their types, and a client's display exists (its foreign key).
TypeOK ==
  /\ row \in [Codes -> Row \cup {NoRow}]
  /\ displays \subseteq Displays
  /\ page \in Displays \cup {"register"}
  /\ clientId \in Codes \cup {NoCode} /\ cookie \in Codes \cup {NoCode}
  /\ generated \subseteq Codes
  /\ calls \in [Calls -> Call \cup {Idle}]
  /\ \A c \in Codes : row[c] # NoRow => row[c].display \in displays \cup {NoDisplay}
  /\ births \in [Codes -> 0..MaxBirths] /\ announced \in [Codes -> Nat]
  /\ assigned \in [Codes -> SUBSET Displays]

---------------------------------------------------------------------------
\* A browser that has never been here, or one with a cookie from a database
\* that is gone.
Init ==
  /\ row = [c \in Codes |-> NoRow] /\ displays = Displays
  /\ page = "register"
  /\ cookie \in Codes \cup {NoCode} /\ clientId = cookie
  /\ generated = {cookie} \ {NoCode}
  /\ calls = [x \in Calls |-> Idle]
  /\ births = [c \in Codes |-> 0] /\ announced = [c \in Codes |-> 0]
  /\ assigned = [c \in Codes |-> {}]

InFlight(x) == calls[x] # Idle

\* Calls with one more call of the given kind in slot x.
Sent(cs, x, kind, c) ==
  [cs EXCEPT ![x] = [kind |-> kind, code |-> c, at |-> "sent", live |-> TRUE,
                     fresh |-> FALSE, slug |-> NoDisplay]]

\* Calls after nobody waits any more for those of the given kinds: a page that
\* goes takes all along, the polling effect's cleanup only the polls.
Abandoned(cs, kinds) ==
  [x \in Calls |-> IF cs[x] # Idle /\ cs[x].kind \in kinds
                   THEN [cs[x] EXCEPT !.live = FALSE]
                   ELSE cs[x]]

AnyCall == {"register", "submit", "poll"}
PollCall == {"poll"}

Advance(x, at) == calls' = [calls EXCEPT ![x].at = at]

---------------------------------------------------------------------------
(* The browser.                                                            *)

\* /register is opened (again).  With the cookies of an earlier visit it
\* sends that registration once more.
Visit ==
  /\ page' = "register" /\ clientId' = cookie
  /\ LET dead == Abandoned(calls, AnyCall)
     IN IF cookie = NoCode
        THEN calls' = dead
        ELSE \E x \in Calls : ~InFlight(x) /\ calls' = Sent(dead, x, "register", cookie)
  /\ UNCHANGED <<row, displays, cookie, generated, history>>

\* handleSubmit: a new pairing code; the button is disabled while registering.
Submit ==
  /\ page = "register" /\ clientId = NoCode
  /\ \A x \in Calls : InFlight(x) => ~(calls[x].live /\ calls[x].kind = "submit")
  /\ \E x \in Calls, c \in Codes \ generated :
       /\ ~InFlight(x)
       /\ calls' = Sent(calls, x, "submit", c)
       /\ generated' = generated \cup {c}
  /\ UNCHANGED <<row, displays, page, clientId, cookie, history>>

\* The poll effect: at once, and every POLL_MS, whatever earlier polls do.
Poll ==
  /\ page = "register" /\ clientId # NoCode
  /\ \E x \in Calls : ~InFlight(x) /\ calls' = Sent(calls, x, "poll", clientId)
  /\ UNCHANGED <<row, displays, browser, history>>

\* handleForget: the poll effect is cancelled, a registration is not.
Forget ==
  /\ page = "register" /\ clientId # NoCode
  /\ cookie' = NoCode /\ clientId' = NoCode
  /\ calls' = Abandoned(calls, PollCall)
  /\ UNCHANGED <<row, displays, page, generated, history>>

\* register's continuation: both cookies and, while the page is mounted, the
\* code it waits with (a new code restarts the poll effect).
Registered(x) ==
  /\ InFlight(x) /\ calls[x].kind # "poll" /\ calls[x].live /\ calls[x].at = "ok"
  /\ LET c == calls[x].code
         rest == [calls EXCEPT ![x] = Idle]
     IN /\ cookie' = c
        /\ IF page = "register" /\ clientId # c
           THEN clientId' = c /\ calls' = Abandoned(rest, PollCall)
           ELSE UNCHANGED clientId /\ calls' = rest
  /\ UNCHANGED <<row, displays, page, generated, history>>

\* Fault: the form is shown, but the cookie stays.
PollMissingKeepsCookie(x) ==
  /\ InFlight(x) /\ calls[x].kind = "poll" /\ calls[x].live /\ calls[x].at = "missing"
  /\ clientId' = NoCode
  /\ calls' = Abandoned([calls EXCEPT ![x] = Idle], PollCall)
  /\ UNCHANGED <<row, displays, page, cookie, generated, history>>

\* Fault: a 404 is ignored like any other failed poll.
PollMissingIgnored(x) ==
  /\ InFlight(x) /\ calls[x].kind = "poll" /\ calls[x].live /\ calls[x].at = "missing"
  /\ calls' = [calls EXCEPT ![x] = Idle]
  /\ UNCHANGED <<row, displays, browser, history>>

\* poll's continuation on a 404: back to the form.
PollMissing(x) ==
  /\ InFlight(x) /\ calls[x].kind = "poll" /\ calls[x].live /\ calls[x].at = "missing"
  /\ cookie' = NoCode /\ clientId' = NoCode
  /\ calls' = Abandoned([calls EXCEPT ![x] = Idle], PollCall)
  /\ UNCHANGED <<row, displays, page, generated, history>>

\* Fault: the answer is used although its effect was cancelled.
PollConfigUnchecked(x) ==
  /\ InFlight(x) /\ calls[x].kind = "poll" /\ calls[x].at = "ok"
  /\ page = "register"
  /\ IF calls[x].slug # NoDisplay
     THEN /\ page' = calls[x].slug
          /\ calls' = Abandoned([calls EXCEPT ![x] = Idle], PollCall)
     ELSE UNCHANGED page /\ calls' = [calls EXCEPT ![x] = Idle]
  /\ UNCHANGED <<row, displays, clientId, cookie, generated, history>>

\* poll's continuation on a config: navigate once a display is assigned.
PollConfig(x) ==
  /\ InFlight(x) /\ calls[x].kind = "poll" /\ calls[x].live /\ calls[x].at = "ok"
  /\ IF calls[x].slug # NoDisplay
     THEN /\ page' = calls[x].slug
          /\ calls' = Abandoned([calls EXCEPT ![x] = Idle], PollCall)
     ELSE UNCHANGED page /\ calls' = [calls EXCEPT ![x] = Idle]
  /\ UNCHANGED <<row, displays, clientId, cookie, generated, history>>

\* An error answer, or one nobody waits for any more.
Ignored(x) ==
  /\ InFlight(x)
  /\ calls[x].at = "failed" \/ (calls[x].at \in {"ok", "missing"} /\ ~calls[x].live)
  /\ calls' = [calls EXCEPT ![x] = Idle]
  /\ UNCHANGED <<row, displays, browser, history>>

\* The request or its answer gets lost.
Lose(x) ==
  /\ InFlight(x) /\ calls[x].at # "handled"
  /\ calls' = [calls EXCEPT ![x] = Idle]
  /\ UNCHANGED <<row, displays, browser, history>>

---------------------------------------------------------------------------
(* The client-facing handlers.                                             *)

\* Fault: registering again starts the approval over.
RegisterInsertResets(x) ==
  /\ InFlight(x) /\ calls[x].kind # "poll" /\ calls[x].at = "sent"
  /\ LET c == calls[x].code
         isNew == row[c] = NoRow
     IN /\ row' = [row EXCEPT ![c] = [status |-> "pending", display |-> NoDisplay]]
        /\ births' = IF isNew THEN [births EXCEPT ![c] = @ + 1] ELSE births
        /\ calls' = [calls EXCEPT ![x].at = "handled", ![x].fresh = isNew]
  /\ UNCHANGED <<displays, browser, announced, assigned>>

\* Fault: a registration counts as new while it is pending.
RegisterInsertPendingNew(x) ==
  /\ InFlight(x) /\ calls[x].kind # "poll" /\ calls[x].at = "sent"
  /\ LET c == calls[x].code
         isNew == row[c] = NoRow
     IN /\ row' = IF isNew
                  THEN [row EXCEPT ![c] = [status |-> "pending", display |-> NoDisplay]]
                  ELSE row
        /\ births' = IF isNew THEN [births EXCEPT ![c] = @ + 1] ELSE births
        /\ calls' = [calls EXCEPT ![x].at = "handled",
                       ![x].fresh = isNew \/ row[c].status = "pending"]
  /\ UNCHANGED <<displays, browser, announced, assigned>>

\* RegisterClient: insert, or (client_id is UNIQUE) refresh what no decision
\* depends on ...
RegisterInsert(x) ==
  /\ InFlight(x) /\ calls[x].kind # "poll" /\ calls[x].at = "sent"
  /\ LET c == calls[x].code
         isNew == row[c] = NoRow
     IN /\ row' = IF isNew
                  THEN [row EXCEPT ![c] = [status |-> "pending", display |-> NoDisplay]]
                  ELSE row
        /\ births' = IF isNew THEN [births EXCEPT ![c] = @ + 1] ELSE births
        /\ calls' = [calls EXCEPT ![x].at = "handled", ![x].fresh = isNew]
  /\ UNCHANGED <<displays, browser, announced, assigned>>

\* ... then read the row back and, for a new one, notify the admins; 500 when
\* it has been deleted in between.
RegisterAnswer(x) ==
  /\ InFlight(x) /\ calls[x].kind # "poll" /\ calls[x].at = "handled"
  /\ LET c == calls[x].code
     IN IF row[c] # NoRow
        THEN /\ Advance(x, "ok")
             /\ announced' = IF calls[x].fresh THEN [announced EXCEPT ![c] = @ + 1]
                             ELSE announced
        ELSE Advance(x, "failed") /\ UNCHANGED announced
  /\ UNCHANGED <<row, displays, browser, births, assigned>>

\* Fault: the display of an approved client is not reported.
ConfigReadNoDisplay(x) ==
  /\ InFlight(x) /\ calls[x].kind = "poll" /\ calls[x].at = "sent"
  /\ IF row[calls[x].code] = NoRow
     THEN Advance(x, "missing")
     ELSE Advance(x, "handled")
  /\ UNCHANGED <<row, displays, browser, history>>

\* handleClientConfig reads the client ...
ConfigRead(x) ==
  /\ InFlight(x) /\ calls[x].kind = "poll" /\ calls[x].at = "sent"
  /\ LET c == calls[x].code
     IN IF row[c] = NoRow
        THEN Advance(x, "missing")
        ELSE calls' = [calls EXCEPT ![x].at = "handled",
                         ![x].slug = IF row[c].status = "approved" THEN row[c].display
                                     ELSE NoDisplay]
  /\ UNCHANGED <<row, displays, browser, history>>

\* ... stamps last_seen_at, and looks the display up, which may be gone.
ConfigAnswer(x) ==
  /\ InFlight(x) /\ calls[x].kind = "poll" /\ calls[x].at = "handled"
  /\ calls' = [calls EXCEPT ![x].at = "ok",
                 ![x].slug = IF @ \in displays THEN @ ELSE NoDisplay]
  /\ UNCHANGED <<row, displays, browser, history>>

---------------------------------------------------------------------------
(* Admin requests.                                                         *)

\* Store a decision; display_id references a display that exists.
Decide(c, status, d) ==
  /\ row[c] # NoRow /\ d \in displays \cup {NoDisplay}
  /\ row' = [row EXCEPT ![c] = [status |-> status, display |-> d]]
  /\ assigned' = IF status = "approved" /\ d # NoDisplay
                 THEN [assigned EXCEPT ![c] = @ \cup {d}] ELSE assigned
  /\ UNCHANGED <<displays, browser, calls, births, announced>>

\* handleApproveClient.
ApproveClient(c, d) == d # NoDisplay /\ Decide(c, "approved", d)

\* handleUpdateClient: any status with any display, or none.
UpdateClient(c) ==
  \E status \in Statuses, d \in Displays \cup {NoDisplay} : Decide(c, status, d)

\* handleDeleteClient (or a restored database that does not know the client).
DeleteClient(c) ==
  /\ row[c] # NoRow /\ births[c] < MaxBirths
  /\ row' = [row EXCEPT ![c] = NoRow]
  /\ UNCHANGED <<displays, browser, calls, history>>

\* Fault: foreign keys are not enforced.
DeleteDisplayDangling(d) ==
  /\ d \in displays
  /\ displays' = displays \ {d}
  /\ UNCHANGED <<row, browser, calls, history>>

\* DeleteDisplay: a client that references it blocks it.
DeleteDisplay(d) ==
  /\ d \in displays
  /\ \A c \in Codes : row[c] # NoRow => row[c].display # d
  /\ displays' = displays \ {d}
  /\ UNCHANGED <<row, browser, calls, history>>

---------------------------------------------------------------------------
BrowserStep(x) == Registered(x) \/ PollMissing(x) \/ PollConfig(x) \/ Ignored(x)

ServerStep(x) ==
  RegisterInsert(x) \/ RegisterAnswer(x) \/ ConfigRead(x) \/ ConfigAnswer(x)

AdminStep ==
  \/ \E c \in Codes : UpdateClient(c) \/ DeleteClient(c)
  \/ \E c \in Codes, d \in Displays : ApproveClient(c, d)
  \/ \E d \in Displays : DeleteDisplay(d)

Next ==
  \/ Visit \/ Submit \/ Poll \/ Forget
  \/ \E x \in Calls : BrowserStep(x) \/ ServerStep(x) \/ Lose(x)
  \/ AdminStep

Spec == Init /\ [][Next]_vars

(* The interval keeps firing while the page is open, a network that keeps  *)
(* losing calls lets one through now and then, and nobody reloads the page *)
(* for ever.                                                               *)
Fairness ==
  /\ WF_vars(Poll)
  /\ <>[][~Visit]_vars
  /\ \A x \in Calls : SF_vars(BrowserStep(x)) /\ SF_vars(ServerStep(x))

FairSpec == Spec /\ Fairness

---------------------------------------------------------------------------
(* Properties.                                                             *)

\* A reload finds the pairing the page was waiting with, and no other, in
\* whatever order answers to registrations and polls come (RegisterPage).
CookieMatchesPage == page = "register" => cookie = clientId

\* "fires only on that first attempt, not on every retry": at most one
\* notification per row, however often a registration is sent or answered
\* (RegisterClient, handleRegisterClient).
AnnouncedOnce == \A c \in Codes : announced[c] <= births[c]

\* "Registration is idempotent on client_id": nothing the browser sends
\* changes a client an admin can already see, decided or not.
RegisteringIsIdempotent ==
  [][calls' # calls => \A c \in Codes : row[c] # NoRow => row'[c] = row[c]]_vars

\* The browser only shows a display its own pairing was approved for, although
\* polls of a pairing it gave up may be answered later (poll's cancelled flag,
\* handleClientConfig).
ShowsOwnDisplay ==
  page # "register" => clientId # NoCode /\ page \in assigned[clientId]

\* "Client receives its display assignment on the next poll": an approved
\* browser gets to its display, through lost polls and stale answers.
ApprovedShows ==
  \A c \in Codes, d \in Displays :
    LET stands == /\ page = "register" /\ clientId = c
                  /\ row[c] = [status |-> "approved", display |-> d]
    IN stands ~> ~stands

\* "Drop back to the name form rather than polling forever": a browser whose
\* client was deleted does not wait for an approval that cannot come.
DeletedLeavesPage ==
  \A c \in Codes :
    LET stands == page = "register" /\ clientId = c /\ row[c] = NoRow
    IN stands ~> ~stands
=============================================================================
