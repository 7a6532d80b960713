------------------------------ MODULE Requests ------------------------------
(***************************************************************************)
(* What the pages of the admin share (web/src/admin/pages): requests in    *)
(* flight, served in any order, whose answers come back in any order or    *)
(* never.  A page EXTENDS this module with its own state and handlers.     *)
(***************************************************************************)
EXTENDS Naturals, Sequences, FiniteSets

CONSTANTS
  Calls,    \* bound: requests in flight at once
  MaxEdits, \* bound: what the admin does in one visit
  None, NoCall

VARIABLES
  ui,   \* what the page shows
  db,   \* the rows the page is about
  call, \* requests in flight
  log   \* edits: what the admin did.  History: twin, two requests overlapped;
        \* torn, a request was refused or lost

vars == <<ui, db, call, log>>

NewLog == [edits |-> 0, twin |-> FALSE, torn |-> FALSE]

\* at: sent, or how the answer comes back: ok, refused, or lost.
Request(kind, arg) == [kind |-> kind, arg |-> arg, at |-> "sent", data |-> None]

CallsTypeOK ==
  /\ \A x \in Calls : call[x] = NoCall \/ call[x].at \in {"sent", "ok", "refused", "lost"}
  /\ log \in [edits : 0..MaxEdits, twin : BOOLEAN, torn : BOOLEAN]

NoCalls == [x \in Calls |-> NoCall]
Idle == {x \in Calls : call[x] = NoCall}
Open == Calls \ Idle

\* The page is mounted: it sends its first request.
Mounted(kind, arg) ==
  /\ \E x \in Calls : call = [NoCalls EXCEPT ![x] = Request(kind, arg)]
  /\ log = NewLog

\* The admin does something, which sends nothing.
Act == log.edits < MaxEdits /\ log' = [log EXCEPT !.edits = @ + 1]

\* ... or which sends requests.
Sending == log.edits < MaxEdits /\ log' = [log EXCEPT !.edits = @ + 1, !.twin = @ \/ Open # {}]

SendAs(x, kind, arg) ==
  Sending /\ x \in Idle /\ call' = [call EXCEPT ![x] = Request(kind, arg)]

Send(kind, arg) == \E x \in Calls : SendAs(x, kind, arg)

Sent(x) == call[x] # NoCall /\ call[x].at = "sent"

\* r: the server's reply, with its rows afterwards.
Reply(new, data, ok) == [db |-> new, data |-> data, ok |-> ok]
Refuse == Reply(db, None, FALSE)

Replied(x, r) ==
  /\ Sent(x) /\ db' = r.db
  /\ call' = [call EXCEPT ![x].at = IF r.ok THEN "ok" ELSE "refused", ![x].data = r.data]
  /\ log' = [log EXCEPT !.torn = @ \/ ~r.ok]
  /\ UNCHANGED ui

\* A request never arrives, or its answer is lost.
Lose(x) ==
  /\ call[x] # NoCall /\ call[x].at \in {"sent", "ok"}
  /\ call' = [call EXCEPT ![x].at = "lost", ![x].data = None]
  /\ log' = [log EXCEPT !.torn = TRUE]
  /\ UNCHANGED <<ui, db>>

Answered(x, kind, at) == call[x] # NoCall /\ call[x].kind = kind /\ call[x].at = at
Failed(x, kind) == \E at \in {"refused", "lost"} : Answered(x, kind, at)

\* A handler reads the answer to x, and sends its next request.
Done(x) == call' = [call EXCEPT ![x] = NoCall] /\ UNCHANGED <<db, log>>
DoneThen(x, kind, arg) ==
  call' = [call EXCEPT ![x] = Request(kind, arg)] /\ UNCHANGED <<db, log>>

Quiet == Open = {}
=============================================================================
