----------------------------- MODULE AdminPages -----------------------------
(***************************************************************************)
(* The pages of the admin (the routes of web/src/admin/AdminApp.tsx, but   *)
(* for the Designer), what surrounds them (Session), and two editors that  *)
(* keep state of their own.  One is open at a time, each with its own      *)
(* requests: a behaviour is one visit to one of them.                      *)
(***************************************************************************)
EXTENDS Requests, Integers

CONSTANTS
  Values, Passwords, Events, People, MaxKeys, TabCost, MaxTokens,
  Names, Times, ScreenIds,
  Messages, Unreadable, Options,
  Urls, Colours, Fonts, Default, MaxLines, Blank, Absent,
  Full, Steps, Opaque, Word, White, Dark, Width, MaxStops

VARIABLES
  page,                                    \* the page that is open
  tab, forms, list, prefs, fa, edits, past \* those of Settings

settings == <<tab, forms, list, prefs, fa, edits, past>>
all == <<page, vars, settings>>

Two == {1, 2}

\* The settings and the clients need fewer changes to go wrong, and have more.
S == INSTANCE Settings
D == INSTANCE Displays WITH DisplayIds <- Two
C == INSTANCE ClientsPage WITH ClientIds <- Two, DisplayIds <- {1}, Names <- {1},
                               MaxEdits <- MaxEdits - 1
T == INSTANCE Themes WITH ThemeIds <- Two
P == INSTANCE PluginsPage WITH InstanceIds <- Two, MaxEdits <- MaxEdits - 1
A == INSTANCE Session
F == INSTANCE ColorField WITH MaxEdits <- MaxEdits - 1
G == INSTANCE GradientStops WITH MaxEdits <- MaxEdits - 1

ASSUME BoundsAssumption == MaxEdits \in Nat \ {0}
ASSUME NamesAssumption == Names # {}

\* What is not there is none of the things that may be, and a slot that is free
\* holds no request.
ASSUME NoneAssumption ==
  None \notin Two /\ None \notin {"success", "error"} /\ None \notin Calls

Requested(kinds, args, answers) ==
  [kind : kinds, arg : args, at : {"sent", "ok", "refused", "lost"}, data : answers]

ASSUME PluginsAssumption ==
  LET rows == [Two -> P!Instance \cup {None}] IN
    NoCall \notin Requested(
      {"load", "create", "update", "toggle", "delete", "revoke", "authorize", "discover"},
      Two \cup {None} \cup [id : Two \cup {None}, row : P!Instance, chosen : BOOLEAN],
      Two \cup {None} \cup rows \cup SUBSET Options)

\* The default message of an offline screen can be read back.
ASSUME ClientsAssumption ==
  /\ Messages \ Unreadable # {} /\ None \notin C!Client
  /\ None \notin [of : {1}, text : Messages, custom : BOOLEAN, loaded : BOOLEAN,
                   touched : BOOLEAN, busy : Calls \cup {None}]
  /\ NoCall \notin Requested(
       {"clients"}, {None, "edit", "row"}, [Two -> C!Client \cup {None}] \cup {None})
  /\ NoCall \notin Requested(
       {"approve", "update", "delete"},
       [id : Two, display : {1}] \cup [id : Two, row : C!Client, from : {"edit", "row"}] \cup [id : Two],
       {None})

\* Two displays can be told apart; night mode can be given a time.
ASSUME DisplaysAssumption ==
  /\ Times # {} /\ (\E m, n \in Names : m # n)
  /\ ScreenIds \subseteq Nat \ {0} /\ IsFiniteSet(ScreenIds)
  /\ None \notin D!Display \cup D!Screen
  /\ NoCall \notin Requested(
       {"displays", "screens", "saveDisplay", "deleteDisplay"},
       Two \cup {None} \cup [id : Two \cup {None}, row : D!Display]
         \cup [id : Two, sel : Two \cup {None}],
       [Two -> D!Display \cup {None}] \cup {None})
  /\ NoCall \notin Requested(
       {"addScreen", "saveScreen", "deleteScreen", "move"},
       [sel : Two, row : [of : Two, name : Names, pos : Nat]] \cup [sel : Two, row : D!Screen]
         \cup [sel : Two, row : D!Screen, mate : Calls],
       {None})
  /\ \A n \in 0..Cardinality(ScreenIds) :
       NoCall \notin Requested({"screens"}, Two, [1..n -> D!Screen])

\* A name is no token, and a session is something.
ASSUME SessionAssumption ==
  People \cap Nat = {} /\ None \notin People \cup [token : Nat, name : People]

\* The built-in theme is one that has everything, and is not the only one.
ASSUME ThemesAssumption ==
  /\ Default \in [colour : Colours, font : Fonts] /\ \E c \in Colours : c # Default.colour
  /\ Absent \notin Colours \cup Fonts \cup [type : T!Types, lines : Seq(T!Line)]

\* Channels have levels, and strips places; the word is no colour.
ASSUME ColourAssumption ==
  Full \in Nat \ {0} /\ Steps \in Nat \ {0} /\ Opaque \in Nat /\ Word \notin F!Colour

\* A gradient has room for the two stops of the fallback.
ASSUME GradientAssumption == Width \in Nat /\ MaxStops \in Nat \ {0, 1}

\* Of the settings too: nothing shown, and no reload, is nobody's.
ASSUME SettingsAssumption ==
  /\ MaxKeys \in Nat \ {0} /\ TabCost \in Nat
  /\ None \notin BOOLEAN /\ None \notin S!Tabs \cup {"add", "remove", "confirm", "disable"}
  /\ NoCall \notin
       [kind : {"load", "users", "prefs", "totp"} \cup S!Changes,
        for : S!Tabs \cup {None},
        arg : {None} \cup S!Forms \cup [of : S!Forms, fields : S!Fields] \cup S!Tabs
                \cup People \cup (SUBSET Events) \cup S!Keys \cup BOOLEAN,
        then : {None, "add", "remove", "confirm", "disable"},
        at : {"sent", "ok", "refused", "lost"},
        data : {None} \cup S!Fields \cup (SUBSET People) \cup (SUBSET Events)
                 \cup BOOLEAN \cup S!Keys]

NoSettings ==
  /\ tab = None /\ forms = None /\ list = None /\ prefs = None /\ fa = None
  /\ edits = 0 /\ past = None

Init ==
  \/ page = "settings" /\ S!Init /\ ui = None /\ log = NewLog
  \/ /\ NoSettings
     /\ \/ page = "displays" /\ D!Init
        \/ page = "clients" /\ C!Init
        \/ page = "themes" /\ T!Init
        \/ page = "plugins" /\ P!Init
        \/ page = "session" /\ A!Init
        \/ page = "colour" /\ F!Init
        \/ page = "gradient" /\ G!Init

Next ==
  /\ UNCHANGED page
  /\ \/ page = "settings" /\ S!Next /\ UNCHANGED <<ui, log>>
     \/ /\ UNCHANGED settings
        /\ \/ page = "displays" /\ D!Next
           \/ page = "clients" /\ C!Next
           \/ page = "themes" /\ T!Next
           \/ page = "plugins" /\ P!Next
           \/ page = "session" /\ A!Next
           \/ page = "colour" /\ F!Next
           \/ page = "gradient" /\ G!Next

Spec == Init /\ [][Next]_all

---------------------------------------------------------------------------
(* Properties.                                                             *)

\* The state of the page that is open has its type.
TypeOK ==
  CASE page = "settings" -> S!TypeOK
    [] page = "displays" -> D!TypeOK
    [] page = "clients" -> C!TypeOK
    [] page = "themes" -> T!TypeOK
    [] page = "plugins" -> P!TypeOK
    [] page = "session" -> A!TypeOK
    [] page = "colour" -> F!TypeOK
    [] page = "gradient" -> G!TypeOK

\* What a page presents as stored is what the server has, once it is answered
\* and unless requests overlapped or got lost: settings, lists, the screens
\* under a display, the message of an offline screen, the name of the session.
PagesTellTruth ==
  /\ page = "settings" => S!PageTellsTruth
  /\ page = "displays" => D!RowsAreOfSelected
  /\ page = "clients" => C!EditorShowsStored
  /\ page = "session" => A!NameIsOwners

\* Although every PUT replaces a whole row and every edit of a gradient its
\* whole text, a change leaves alone: the layout of every screen (and the aspect
\* ratio of every screen but the renamed or moved one, which loses it), the
\* approval of every client, the options chosen for every instance, the other
\* stops of a gradient.
OnlyTheEditedChanges ==
  [][/\ page = "displays" => D!KeepsLook
     /\ page = "clients" => C!OnlyApprovalApproves
     /\ page = "plugins" => P!ChoiceIsKept
     /\ page = "gradient" => G!OneStopChanges]_all

\* The backup codes and the key to scan that are shown are those of the account.
ShownFactorWorks == page = "settings" => S!ShownFactorWorks

\* A theme that is exported without a blank field can be imported again.
ExportReimports == page = "themes" => T!ExportReimports

\* A plugin instance that needs consent is never added without going for it.
ConsentFollowsAdd == page = "plugins" => P!ConsentFollowsAdd

\* Nothing ends a session that is good but the admin.
SessionEndsForCause == [][page = "session" => A!EndsForCause]_all

\* The colour picker changes of a colour what was moved.
ColourIsKept == page = "colour" => F!ColourIsKept
=============================================================================
