------------------------------- MODULE Themes -------------------------------
(***************************************************************************)
(* One visit of an admin to the themes: the list                           *)
(* (web/src/admin/pages/ThemesPage.tsx) and the editor of one theme        *)
(* (ThemeEditorPage.tsx, components/ThemeTokenFields.tsx), with presets,   *)
(* images that are uploaded, and themes imported from a file               *)
(* (shared/themes/validateTokens.ts).                                      *)
(***************************************************************************)
EXTENDS Requests

CONSTANTS
  ThemeIds,       \* bound: themes that can exist
  Urls,           \* files that may be uploaded, and where they end up
  Colours, Fonts, \* values of a token
  Default,        \* the built-in theme: its colour and its font
  MaxLines,       \* bound: lines of a background
  Blank, Absent   \* a field that was cleared; a token a theme does not have

(***************************************************************************)
(* A theme's tokens: the background, and one token for each way they are   *)
(* treated.  accent: one of those a theme always had.  heading: one that   *)
(* was added later, which older themes do not have.  A background's value  *)
(* is a sequence of lines: colours, gradients (from a colour, or from      *)
(* whatever text was there) or addresses.                                  *)
(***************************************************************************)
Types == {"solid", "gradient", "image"}
Gradients == {<<"gradient", c>> : c \in Colours \cup Urls}
Line == Colours \cup Gradients \cup Urls
Background(type, lines) == [type |-> type, lines |-> lines]

DefaultTheme == [bg |-> Background("gradient", <<(<<"gradient", Default.colour>>)>>),
                 accent |-> Default.colour, heading |-> Default.font]

\* Some preset that is not the default.
Preset == [bg |-> Background("solid", <<Default.colour>>),
           accent |-> CHOOSE c \in Colours : c # Default.colour, heading |-> Default.font]

Complete(t) ==
  /\ t.bg # Absent /\ t.bg.type \in Types /\ t.bg.lines \in Seq(Line)
  /\ t.accent \in Colours \cup {Blank} /\ t.heading \in Fonts

\* ui.page: None while the list or the theme is loaded.  ui.up: images that
\* are being uploaded, for the tokens as they were when it began.
TypeOK ==
  /\ CallsTypeOK
  /\ ui.page \in {"list", "edit"} /\ ui.id \in ThemeIds \cup {None}
  /\ ui.tokens = None \/ Complete(ui.tokens)
  /\ ui.up = None \/ (Complete(ui.up.base) /\ ui.up.urls \in Seq(Urls))
  /\ \A i \in ThemeIds : db[i] = None \/ db[i].used \in BOOLEAN

Closed == [page |-> "list", list |-> None, id |-> None, tokens |-> None,
           busy |-> None, import |-> FALSE, up |-> None]

\* A theme of long ago, which a display may use, and one of the seeds.
Init ==
  /\ ui = Closed
  /\ \E old \in ThemeIds, heading \in Fonts \cup {Absent}, used \in BOOLEAN :
       db = [i \in ThemeIds |->
               IF i # old THEN None
               ELSE [tokens |-> [DefaultTheme EXCEPT !.heading = heading], used |-> used]]
  /\ Mounted("list", None)

---------------------------------------------------------------------------
(* The server.                                                             *)

\* A theme that a display uses is not deleted.
Served(c) ==
  CASE c.kind = "list" -> Reply(db, db, TRUE)
    [] c.kind = "get" -> Reply(db, db[c.arg], db[c.arg] # None)
    [] c.kind = "save" ->
         LET i == IF c.arg.id = None THEN CHOOSE i \in ThemeIds : db[i] = None ELSE c.arg.id IN
         IF c.arg.id # None /\ db[i] = None THEN Refuse
         ELSE Reply([db EXCEPT ![i] = [tokens |-> c.arg.tokens,
                                       used |-> IF @ = None THEN FALSE ELSE @.used]], None, TRUE)
    [] c.kind = "delete" ->
         IF db[c.arg] = None \/ db[c.arg].used THEN Refuse
         ELSE Reply([db EXCEPT ![c.arg] = None], None, TRUE)
    [] c.kind = "upload" -> Reply(db, c.arg, TRUE)

Serve(x) ==
  /\ Sent(x)
  /\ call[x].kind = "save" /\ call[x].arg.id = None => \E i \in ThemeIds : db[i] = None
  /\ Replied(x, Served(call[x]))

---------------------------------------------------------------------------
(* The list.                                                               *)

Listed(x) ==
  /\ Answered(x, "list", "ok") /\ Done(x)
  /\ ui' = IF ui.page = "list" THEN [ui EXCEPT !.list = call[x].data] ELSE ui

OnList(i) == ui.page = "list" /\ ui.list # None /\ ui.list[i] # None

Delete(i) ==
  /\ OnList(i) /\ Send("delete", i)
  /\ UNCHANGED <<ui, db>>

Deleted(x) ==
  /\ Answered(x, "delete", "ok") /\ DoneThen(x, "list", None)
  /\ UNCHANGED ui

\* The editor starts on the defaults, which are covered until a theme that
\* exists is loaded.
OpenNew ==
  /\ ui.page = "list" /\ ui.list # None /\ Act
  /\ ui' = [Closed EXCEPT !.page = "edit", !.tokens = DefaultTheme]
  /\ UNCHANGED <<db, call>>

OpenTheme(i) ==
  /\ OnList(i) /\ Send("get", i)
  /\ ui' = [Closed EXCEPT !.page = "edit", !.id = i]
  /\ UNCHANGED db

\* Fault: a theme is edited as it is stored.
Unmerged(t) == t

\* What an older theme does not have is taken from the built-in one.
Merged(t) == [k \in DOMAIN DefaultTheme |-> IF t[k] = Absent THEN DefaultTheme[k] ELSE t[k]]

Loaded(x) ==
  /\ Answered(x, "get", "ok") /\ Done(x)
  /\ ui' = IF ui.page = "edit" /\ ui.id = call[x].arg
           THEN [ui EXCEPT !.tokens = Merged(call[x].data.tokens)] ELSE ui

\* An error is shown, or nothing at all.
Fails(x) ==
  /\ \E k \in {"list", "get", "delete"} : Failed(x, k)
  /\ Done(x) /\ UNCHANGED ui

---------------------------------------------------------------------------
(* The editor.                                                             *)

Editing == ui.page = "edit" /\ ui.tokens # None /\ ~ui.import

\* What is edited while images are uploaded overlaps with them.
Touch == IF ui.up = None THEN Act ELSE Sending

SetTokens(t) == ui' = [ui EXCEPT !.tokens = t] /\ UNCHANGED <<db, call>>

SetAccent(c) ==
  /\ Editing /\ Touch /\ c # ui.tokens.accent
  /\ SetTokens([ui.tokens EXCEPT !.accent = c])

SetHeading(f) ==
  /\ Editing /\ Touch /\ f # ui.tokens.heading
  /\ SetTokens([ui.tokens EXCEPT !.heading = f])

\* The value stays when the type changes, but a gradient is made of it, be it a
\* colour or not, when it is none.  Of several lines the first stands for all.
SwitchType(type) ==
  /\ Editing /\ Touch /\ type # ui.tokens.bg.type
  /\ LET lines == ui.tokens.bg.lines
         first == IF lines = <<>> THEN Default.colour ELSE lines[1]
     IN SetTokens([ui.tokens EXCEPT !.bg = Background(type,
          IF type = "gradient" /\ (lines = <<>> \/ lines[1] \notin Gradients)
          THEN <<(<<"gradient", first>>)>> ELSE lines)])

\* A line of the list of images is typed, or the list cleared; the colour of
\* a solid background.
TypeLines(lines) ==
  /\ Editing /\ Touch /\ lines # ui.tokens.bg.lines
  /\ \/ ui.tokens.bg.type = "image"
     \/ ui.tokens.bg.type = "solid" /\ Len(lines) <= 1
  /\ SetTokens([ui.tokens EXCEPT !.bg.lines = lines])

\* Presets are offered for a new theme only.
PickPreset ==
  /\ Editing /\ ui.id = None /\ Touch /\ SetTokens(Preset)

\* The button is there for an image background, and disabled while it works.
Upload(urls) ==
  /\ Editing /\ ui.tokens.bg.type = "image" /\ ui.up = None
  /\ Len(ui.tokens.bg.lines) + Len(urls) <= MaxLines
  /\ \E x \in Calls :
       /\ SendAs(x, "upload", urls[1])
       /\ ui' = [ui EXCEPT !.up = [base |-> ui.tokens, urls |-> urls, at |-> 1, by |-> x]]
  /\ UNCHANGED db

\* One file after the other.  The addresses are appended to the lines there
\* were when the upload began, and the other tokens set back to that time.
Uploaded(x) ==
  /\ Answered(x, "upload", "ok")
  /\ IF ui.up = None \/ ui.up.by # x THEN Done(x) /\ UNCHANGED ui
     ELSE IF ui.up.at < Len(ui.up.urls)
     THEN /\ DoneThen(x, "upload", ui.up.urls[ui.up.at + 1])
          /\ ui' = [ui EXCEPT !.up.at = @ + 1]
     ELSE /\ Done(x)
          /\ ui' = [ui EXCEPT !.up = None, !.tokens =
               [ui.up.base EXCEPT !.bg = Background("image", @.lines \o ui.up.urls)]]

\* When one file fails none is added.
UploadFails(x) ==
  /\ Failed(x, "upload") /\ Done(x)
  /\ ui' = IF ui.up # None /\ ui.up.by = x THEN [ui EXCEPT !.up = None] ELSE ui

OpenImport ==
  /\ Editing /\ Act
  /\ ui' = [ui EXCEPT !.import = TRUE] /\ UNCHANGED <<db, call>>

\* A file must have what themes always had, and no blank in it; of what was
\* added later, the built-in theme's is taken.
Valid(t) ==
  /\ t.bg # Absent /\ t.bg.type \in Types /\ t.bg.lines # <<>>
  /\ t.accent \notin {Absent, Blank}

Validated(t) == [t EXCEPT !.heading = IF @ = Absent THEN DefaultTheme.heading ELSE @]

\* It replaces all the tokens; else an error is shown.
Import(file) ==
  /\ ui.page = "edit" /\ ui.import
  /\ IF ui.up = None THEN Act ELSE Sending
  /\ ui' = IF Valid(file) THEN [ui EXCEPT !.tokens = Validated(file), !.import = FALSE] ELSE ui
  /\ UNCHANGED <<db, call>>

CancelImport ==
  /\ ui.page = "edit" /\ ui.import /\ Act
  /\ ui' = [ui EXCEPT !.import = FALSE] /\ UNCHANGED <<db, call>>

Submit ==
  /\ Editing /\ ui.busy = None
  /\ \E x \in Calls :
       /\ SendAs(x, "save", [id |-> ui.id, tokens |-> ui.tokens])
       /\ ui' = [ui EXCEPT !.busy = x]
  /\ UNCHANGED db

\* To the list, wherever the admin is now.
Saved(x) ==
  /\ Answered(x, "save", "ok") /\ DoneThen(x, "list", None)
  /\ ui' = Closed

SaveFails(x) ==
  /\ Failed(x, "save") /\ Done(x)
  /\ ui' = IF ui.busy = x THEN [ui EXCEPT !.busy = None] ELSE ui

\* Back to the list, unsaved; what was sent goes on.
Leave ==
  /\ ui.page = "edit" /\ ~ui.import /\ Send("list", None)
  /\ ui' = Closed /\ UNCHANGED db

---------------------------------------------------------------------------
Lines == {<<>>} \cup {<<l>> : l \in Line}
Uploads == {<<u>> : u \in Urls} \cup {<<u, v>> : u, v \in Urls}

\* Files of this version and of an older one, and of something else.
Files ==
  {DefaultTheme, Preset, [Preset EXCEPT !.heading = Absent],
   [Preset EXCEPT !.accent = Absent], [Preset EXCEPT !.bg = Absent]}

Admin ==
  \/ \E i \in ThemeIds : Delete(i) \/ OpenTheme(i)
  \/ OpenNew \/ PickPreset \/ OpenImport \/ CancelImport \/ Submit \/ Leave
  \/ \E c \in Colours \cup {Blank} : SetAccent(c)
  \/ \E f \in Fonts : SetHeading(f)
  \/ \E t \in Types : SwitchType(t)
  \/ \E l \in Lines : TypeLines(l)
  \/ \E u \in Uploads : Upload(u)
  \/ \E f \in Files : Import(f)

Next ==
  \/ Admin
  \/ \E x \in Calls :
       \/ Serve(x) \/ Lose(x) \/ Fails(x)
       \/ Listed(x) \/ Deleted(x) \/ Loaded(x)
       \/ Uploaded(x) \/ UploadFails(x) \/ Saved(x) \/ SaveFails(x)

Spec == Init /\ [][Next]_vars

---------------------------------------------------------------------------
(* Properties.                                                             *)

\* What either page writes to a file: a theme of the list as it is stored, the
\* one that is edited as it is now.
Exported ==
  IF ui.page = "edit" THEN {ui.tokens} \ {None}
  ELSE IF ui.list = None THEN {}
  ELSE {ui.list[i].tokens : i \in {i \in ThemeIds : ui.list[i] # None}}

HasBlank(t) == t.accent = Blank \/ t.bg.lines = <<>>

\* An exported theme without a blank field can be imported, also one older than
\* the tokens that were added later, and is then complete and unchanged in what
\* it had ("export never needs this since it only ever writes tokens this same
\* shape already produced", validateThemeTokens; "so a theme JSON exported
\* before these existed can still be re-imported").  What is stored is complete.
ExportReimports ==
  /\ \A t \in Exported :
       ~HasBlank(t) =>
         /\ Valid(t) /\ Complete(Validated(t))
         /\ \A k \in DOMAIN t : t[k] # Absent => Validated(t)[k] = t[k]
  /\ \A x \in Open : call[x].kind = "save" => Complete(call[x].arg.tokens)
=============================================================================
