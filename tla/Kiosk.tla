------------------------------- MODULE Kiosk -------------------------------
(***************************************************************************)
(* The display renderer: polling the layout and rotating through its       *)
(* screens (web/src/display/DisplayApp.tsx and useDisplayLayout.ts)        *)
(* against handleGetDisplayLayout (internal/api/display_handlers.go) while *)
(* admins edit the display.                                                *)
(*                                                                         *)
(* Time is discrete: a browser interval fires when it has no ticks left,   *)
(* before time goes on.  Calls take any time, overtake each other and get  *)
(* lost.  A layout is its rotation interval and its number of screens.     *)
(***************************************************************************)
EXTENDS Naturals, FiniteSetsExt

CONSTANTS
  Calls,      \* bound: layout requests in flight at once
  PollTicks,  \* LAYOUT_POLL_MS
  Rotations,  \* the values rotation_seconds takes, in ticks
  MaxScreens, \* bound: screens of the display
  MaxEdits,   \* bound: what people do, edits and reloads of the page
  NoLayout, NoCall

ASSUME KioskAssumption ==
  /\ PollTicks \in Nat \ {0} /\ Rotations \subseteq Nat \ {0}
  /\ \E most \in Rotations : \A r \in Rotations : r <= most
  /\ MaxScreens \in Nat /\ MaxEdits \in Nat

Layout == [rotation : Rotations, n : 0..MaxScreens]
Call == [at : {"sent", "read", "ok", "missing", "failed"}, layout : Layout]
Timer == [left : 0..Max(Rotations), every : Rotations, n : 2..MaxScreens]

ASSUME SentinelAssumption == NoLayout \notin Layout /\ NoCall \notin Call

VARIABLES
  exists,   \* the display's row is there
  server,   \* its rotation_seconds and number of screens
  edits,    \* edits and reloads so far
  layout,   \* useDisplayLayout's layout, or NoLayout
  error,    \* its error is set
  notFound, \* its notFound
  active,   \* DisplayApp's activeScreen
  timers,   \* rotation intervals that run
  pollIn,   \* ticks to the next layout poll
  calls,    \* layout requests
  shownFor  \* history: ticks the current screen has been up, capped

browser == <<layout, error, notFound, active, timers, pollIn>>
kiosk == <<exists, server, edits, browser, calls, shownFor>>

Cap == Max(Rotations)

\* Values have their types, and at most one rotation interval runs.
KioskTypeOK ==
  /\ exists \in BOOLEAN /\ server \in Layout /\ edits \in 0..MaxEdits
  /\ layout \in Layout \cup {NoLayout}
  /\ error \in BOOLEAN /\ notFound \in BOOLEAN
  /\ active \in 0..MaxScreens
  /\ timers \subseteq Timer /\ \A s, t \in timers : s = t
  /\ pollIn \in 0..PollTicks
  /\ calls \in [Calls -> Call \cup {NoCall}]
  /\ shownFor \in 0..Cap

\* What is on the screen: DisplayApp clamps the index.
Shown ==
  IF layout = NoLayout \/ layout.n = 0 THEN 0 ELSE Min({active, layout.n - 1})

NoCalls == [c \in Calls |-> NoCall]

\* A call that has read nothing yet, or came to nothing.
Blank(stage) == [at |-> stage, layout |-> CHOOSE l \in Layout : TRUE]
Send(cs, c) == [cs EXCEPT ![c] = Blank("sent")]

---------------------------------------------------------------------------
\* The page has just been opened and asks for its layout.
KioskInit ==
  /\ exists = TRUE /\ server \in Layout /\ edits = 0
  /\ layout = NoLayout /\ error = FALSE /\ notFound = FALSE
  /\ active = 0 /\ timers = {} /\ pollIn = PollTicks
  /\ \E c \in Calls : calls = Send(NoCalls, c)
  /\ shownFor = 0

(* The browser.                                                            *)

Tick ==
  /\ pollIn > 0 /\ \A t \in timers : t.left > 0
  /\ pollIn' = pollIn - 1
  /\ timers' = {[t EXCEPT !.left = @ - 1] : t \in timers}
  /\ shownFor' = Min({shownFor + 1, Cap})
  /\ UNCHANGED <<exists, server, edits, layout, error, notFound, active, calls>>

\* Fault: the last screen stays up.
RotateToLast ==
  /\ \E t \in timers :
       /\ t.left = 0
       /\ active' = Min({active + 1, t.n - 1})
       /\ timers' = (timers \ {t}) \cup {[t EXCEPT !.left = t.every]}
  /\ UNCHANGED <<exists, server, edits, layout, error, notFound, pollIn, calls>>
  /\ shownFor' = IF Shown' # Shown THEN 0 ELSE shownFor

\* The rotation interval fires, with the number of screens it was made for.
Rotate ==
  /\ \E t \in timers :
       /\ t.left = 0
       /\ active' = (active + 1) % t.n
       /\ timers' = (timers \ {t}) \cup {[t EXCEPT !.left = t.every]}
  /\ UNCHANGED <<exists, server, edits, layout, error, notFound, pollIn, calls>>
  /\ shownFor' = IF Shown' # Shown THEN 0 ELSE shownFor

\* Fault: polls only until there is a layout.
PollUntilLoaded ==
  /\ pollIn = 0
  /\ pollIn' = PollTicks
  /\ IF layout # NoLayout THEN UNCHANGED calls
     ELSE \E c \in Calls : calls[c] = NoCall /\ calls' = Send(calls, c)
  /\ UNCHANGED <<exists, server, edits, layout, error, notFound, active, timers, shownFor>>

\* The poll interval fires: load(), whatever earlier loads do.
Poll ==
  /\ pollIn = 0
  /\ pollIn' = PollTicks
  /\ \E c \in Calls : calls[c] = NoCall /\ calls' = Send(calls, c)
  /\ UNCHANGED <<exists, server, edits, layout, error, notFound, active, timers, shownFor>>

\* The interval the rotation effect sets up for a layout.
RotationOf(l) ==
  IF l.n <= 1 THEN {} ELSE {[left |-> l.rotation, every |-> l.rotation, n |-> l.n]}

\* Fault: the effect does not clear the interval of the layout before.
LoadedKeepsTimer(c) ==
  /\ calls[c] # NoCall /\ calls[c].at = "ok"
  /\ layout' = calls[c].layout
  /\ error' = FALSE /\ notFound' = FALSE
  /\ timers' = timers \cup RotationOf(layout')
  /\ calls' = [calls EXCEPT ![c] = NoCall]
  /\ UNCHANGED <<exists, server, edits, active, pollIn>>
  /\ shownFor' = IF Shown' # Shown THEN 0 ELSE shownFor

\* Fault: the error stays.
LoadedKeepsError(c) ==
  /\ calls[c] # NoCall /\ calls[c].at = "ok"
  /\ layout' = calls[c].layout
  /\ notFound' = FALSE
  /\ timers' = RotationOf(layout')
  /\ calls' = [calls EXCEPT ![c] = NoCall]
  /\ UNCHANGED <<exists, server, edits, error, active, pollIn>>
  /\ shownFor' = IF Shown' # Shown THEN 0 ELSE shownFor

\* load's continuation on a layout.  It is a new object each time, so the
\* rotation effect clears its interval and sets up another.
Loaded(c) ==
  /\ calls[c] # NoCall /\ calls[c].at = "ok"
  /\ layout' = calls[c].layout
  /\ error' = FALSE /\ notFound' = FALSE
  /\ timers' = RotationOf(layout')
  /\ calls' = [calls EXCEPT ![c] = NoCall]
  /\ UNCHANGED <<exists, server, edits, active, pollIn>>
  /\ shownFor' = IF Shown' # Shown THEN 0 ELSE shownFor

\* On a 404, another error, or none: the last layout stays.
NotLoaded(c) ==
  /\ calls[c] # NoCall /\ calls[c].at \in {"missing", "failed"}
  /\ error' = TRUE
  /\ notFound' = (notFound \/ calls[c].at = "missing")
  /\ calls' = [calls EXCEPT ![c] = NoCall]
  /\ UNCHANGED <<exists, server, edits, layout, active, timers, pollIn, shownFor>>

\* The request or its answer gets lost: fetch throws.
Lose(c) ==
  /\ calls[c] # NoCall /\ calls[c].at \in {"sent", "ok", "missing"}
  /\ calls' = [calls EXCEPT ![c] = Blank("failed")]
  /\ UNCHANGED <<exists, server, edits, browser, shownFor>>

---------------------------------------------------------------------------
(* The handler: the display's row, then its screens.                       *)

ReadDisplay(c) ==
  /\ calls[c] # NoCall /\ calls[c].at = "sent"
  /\ calls' = IF exists
              THEN [calls EXCEPT ![c].at = "read", ![c].layout.rotation = server.rotation]
              ELSE [calls EXCEPT ![c] = Blank("missing")]
  /\ UNCHANGED <<exists, server, edits, browser, shownFor>>

\* A display deleted in between has none.
ReadScreens(c) ==
  /\ calls[c] # NoCall /\ calls[c].at = "read"
  /\ calls' = [calls EXCEPT ![c].at = "ok",
                            ![c].layout.n = IF exists THEN server.n ELSE 0]
  /\ UNCHANGED <<exists, server, edits, browser, shownFor>>

---------------------------------------------------------------------------
(* People.                                                                 *)

\* A change, of those the bound allows.
Edit == edits < MaxEdits /\ edits' = edits + 1

\* UpdateDisplay, CreateScreen, DeleteScreen.
EditDisplay ==
  /\ Edit /\ exists
  /\ \E l \in Layout :
       /\ \/ l.n = server.n
          \/ l.rotation = server.rotation /\ l.n \in {server.n + 1, server.n - 1}
       /\ l # server
       /\ server' = l
  /\ UNCHANGED <<exists, browser, calls, shownFor>>

DeleteDisplay ==
  /\ Edit /\ exists /\ exists' = FALSE
  /\ UNCHANGED <<server, browser, calls, shownFor>>

\* The page is reloaded, or the kiosk restarted.
Reload ==
  /\ Edit
  /\ layout' = NoLayout /\ error' = FALSE /\ notFound' = FALSE
  /\ active' = 0 /\ timers' = {} /\ pollIn' = PollTicks
  /\ \E c \in Calls : calls' = Send(NoCalls, c)
  /\ shownFor' = 0
  /\ UNCHANGED <<exists, server>>

---------------------------------------------------------------------------
Serve == \E c \in Calls : ReadDisplay(c) \/ ReadScreens(c)
Load == \E c \in Calls : Loaded(c)
Fail == \E c \in Calls : NotLoaded(c)

KioskNext ==
  \/ Tick \/ Rotate \/ Poll
  \/ Serve \/ Load \/ Fail \/ \E c \in Calls : Lose(c)
  \/ EditDisplay \/ DeleteDisplay \/ Reload

KioskSpec == KioskInit /\ [][KioskNext]_kiosk

(* Time passes, intervals fire, and a network that keeps losing calls lets *)
(* a request and an answer through now and then.                           *)
KioskFairness ==
  /\ WF_kiosk(Tick) /\ WF_kiosk(Rotate) /\ WF_kiosk(Poll) /\ WF_kiosk(Fail)
  /\ SF_kiosk(Serve) /\ SF_kiosk(Load)

KioskFairSpec == KioskSpec /\ KioskFairness

---------------------------------------------------------------------------
(* Properties.                                                             *)

\* "How long the display stays on each screen before advancing": a screen is
\* not taken down early, however polls, edits and rotation interleave (the
\* cleanup of DisplayApp's rotation effect).
StaysItsTime ==
  [][layout' = layout /\ Shown' # Shown => shownFor >= layout.rotation]_kiosk

\* "A display rotates through its screens": each of them comes up again and
\* again, also while calls are slow or lost (DisplayApp's rotation effect).
EveryScreenShown ==
  \A n \in 1..MaxScreens :
    <>[](layout # NoLayout /\ layout.n = n) => \A s \in 0..(n - 1) : []<>(Shown = s)

\* "Admin changes show up on a running kiosk without a manual reload", in
\* whatever order the answers come: it ends up with the display as it is, or
\* tells that it is gone (LAYOUT_POLL_MS, useDisplayLayout).
Settles == <>[](IF exists THEN layout = server ELSE error)

\* The overlay over the last-known layout goes away again after an outage.
OverlayLifts == (exists /\ error) ~> (~exists \/ ~error)
=============================================================================
