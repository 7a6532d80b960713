# Mullet, specified and verified in TLA+

Mullet is a self-hosted dashboard for wall displays: a Go server with a SQLite
database and an embedded React front end.  Data plugins fetch calendars, tasks,
weather and device states on a schedule and store them in *shape* tables; kiosk
browsers pair with the server, load a display's layout and rotate through its
screens; admins configure all of it in the browser.

This directory holds TLA+ models of the parts where order, concurrency and
failure matter, TLC configurations that check them on small instances, and
TLAPS proofs that hold for every instance.  `PROJECT.json` is the index: which
definition models which lines, which run checks which property, which seeded
fault each property catches, the theorems, and the hazards of the code.

## 1. The system

| Part | Code | State it keeps | Operations |
|---|---|---|---|
| Scheduler | `internal/scheduler`, `plugins/data/registry.go` | the running loops with their cancel functions under one mutex; one lock and one mutable object per plugin type | `Start`, `Reload`, `Stop`, `TestInstance`, a loop's `fetchOnce` |
| Plugin instances | `db/plugins.go`, `api/plugin_handlers.go` | `data_plugin_instances` with the last outcome | create, update (read, then write), delete, each followed by a `Reload` |
| OAuth tokens | `internal/oauth`, `db/oauth_tokens.go`, `db/oauth_encryption.go`, `api/oauth_handlers.go` | `oauth_tokens`, the pending authorizations in memory, the encryption key in `system_settings` | authorize, callback and exchange, refresh with rotation, de-authorize |
| Shape store | `db/store.go`, `db/data_api.go` | `calendars`, `task_lists`, the shape tables | `WriteShape` (one transaction), `ReadShape` |
| Database | `db/sqlite.go`, `db/migrations.go` | one connection (`SetMaxOpenConns(1)`), WAL, foreign keys on | `Open`, `Migrate` |
| Accounts | `db/users.go`, `db/totp.go`, `db/password_reset.go`, their handlers | users, TOTP secrets, backup codes, reset links | setup, create, delete, enroll, confirm, disable, regenerate, verify, forgot and reset |
| Sessions | `auth/jwt.go`, `api/middleware.go`, `web/src/admin/auth`, `LoginPage`, `SetupWizard`, the two password pages | none in the server (signed tokens); token and name in the tab's `sessionStorage`; the half-done login | first-run setup, log in in two steps, check, sign out, expire, forgot and reset |
| Displays | `db/displays.go`, `api/display_handlers.go` | themes, displays, screens, cards, `card_data_sources` | create, read, update and delete, the layout a kiosk loads |
| Clients | `db/clients.go`, `api/client_handlers.go` | `clients`: status, assigned display | register, config poll, approve, update, delete |
| Registration page | `web/src/register` | two cookies, the pairing shown, calls in flight | register on every visit, poll, forget |
| Display page | `web/src/display` | the last layout, the active screen, two intervals | poll the layout, rotate, night mode, poll each card's data |
| Designer | `web/src/admin/pages/DesignerPage.tsx` | an optimistic copy of the cards | drag, resize, settings, add, remove, each followed by a reload |
| Settings | `SettingsPage.tsx`, `db/*_settings.go`, `api/*_handlers.go` | key-value settings with kept passwords and lazily made keys; the mounted section's form, the two-factor steps | read, write, enroll, confirm, disable, regenerate |
| Displays page | `DisplaysPage.tsx` | the list, the selected display's screens, two forms | add, edit, delete, move |
| Clients page | `ClientsPage.tsx` | the list, a form, the offline screen's editor | approve, edit, reject, revoke, delete, offline screen |
| Themes pages | `ThemesPage.tsx`, `ThemeEditorPage.tsx`, `ThemeTokenFields.tsx`, `shared/themes` | the list, one theme's tokens, uploads under way | edit, save, presets, import, export, upload, delete |
| Plugins page | `PluginsPage.tsx`, `ManifestForm.tsx` | the list, a form with what `Discover` offered, the instance the browser left for | add, edit, toggle, delete, authorize, de-authorize |
| Colour and gradient editors | `ThemeTokenFields.tsx`, `GradientStopEditor.tsx` | the popover's hue, saturation, value; none (rows are parsed from the text) | type, drag; add, edit, remove a stop |
| Notifications, e-mail | `notify`, `email` | none | best-effort send |
| Data plugins | `plugins/data/*` | the configured object the registry shares | `Configure`, `Fetch`, `Discover` |
| Logging, config, icons, uploads, router | `logging`, `config`, `mdiicons`, `api` | log level, files | input and output |

How they meet: an instance handler changes a row and calls `Scheduler.Reload`,
which cancels and starts loops.  A loop asks the OAuth code for a fresh token,
takes the plugin's lock, configures the shared object, fetches, and writes rows
and an outcome through the one database connection.  The kiosk pairs through
`clients`, then only talks to the layout and data endpoints.  An admin's
deletions reach everything else through foreign keys.

What is hard in it:

- **Concurrency.**  Every HTTP request, every fetch loop and the main goroutine
  interleave between SQL statements.  One connection makes statements and
  transactions atomic, nothing else; many handlers read, decide and write in
  separate statements.
- **Shared objects.**  All instances of a plugin type share one object;
  `Configure` and `Fetch` must not be separated.
- **Shutdown and restarts.**  A signal may come while a `Reload` runs; pending
  authorizations are in memory; a crash may fall into any transaction.
- **Unreliable calls.**  Browsers and providers lose answers and answer out of
  order; some provider calls have no timeout.
- **Reused ids.**  Tables have no `AUTOINCREMENT`, so a late request for a
  deleted row may find another one.
- **Forms over lists.**  A page's form starts from a row that was listed a
  while ago, and every PUT replaces the whole row.
- **Timers.**  React effects clear and restart intervals whenever their
  dependencies change.

What makes each part correct:

- *Scheduler*: a fetch writes its own instance's data; no loop leaks; the loops
  are what the table says; stopping stops everything; nothing waits for ever.
- *OAuth*: the stored refresh token is the one the provider accepts; an attempt
  is used once and ends at the id it was begun for; a token has an instance.
- *Shape store*: a write replaces its own sections, all at once or not at all.
- *Accounts*: enabled TOTP can be passed; one-time things work once; somebody
  can always log in.
- *Pairing*: one browser is one client, announced once; it shows only what it
  was approved for, and does show it.
- *Kiosk*: every screen gets its turn and its time; edits arrive; outages pass.
- *Displays and Designer*: a save of a whole row changes what was edited; a
  card's sources exist; a tab shows what is stored.
- *Admin pages*: what a page calls saved, listed, enabled or selected is what
  the server has; a full-row PUT undoes no look, approval or choice it does not mean;
  only the admin, or time, ends a session.

## 2. Modules

| Module | Models | Steps |
|---|---|---|
| `Scheduler` | scheduler, registry, instance handlers, boot and shutdown | a SQL statement, a critical section, a wait for a lock, a provider's answer |
| `SchedulerProofs` | theorems about `Scheduler` | |
| `ShapeContract` | abstract: what `WriteShape` promises | a request is made, stored, refused or lost |
| `ShapeStore` | `WriteShape` on the one connection | a SQL statement |
| `OAuthTokens` | OAuth handlers, refresh, key, provider | a SQL statement, a provider's answer |
| `Accounts` | setup, users, TOTP, reset | a SQL statement or a transaction |
| `Pairing` | `RegisterPage` and the client handlers | an effect or a handler's statement, a message |
| `Kiosk` | `DisplayApp`, `useDisplayLayout`, the layout handler | a clock tick, an interval firing, a statement, a message |
| `Designer` | the Designer page in several tabs, the card handlers, `SetCardDataSources` | a click, a SQL statement or a transaction, a message |
| `DisplayProofs` | `ShapeStore` implements `ShapeContract`; theorems about `Kiosk` (whose definitions are called `KioskInit`, `KioskNext` and so on, so that both fit in it) | |
| `OAuthTokensProofs`, `AccountsProofs`, `PairingProofs`, `DesignerProofs` | theorems about these four | |
| `Requests` | what the admin's pages share: requests served and answered in any order or lost | a click, a request served, an answer |
| `Settings` | the Settings page and its handlers | the same |
| `Displays` | the Displays page, displays and screens | the same |
| `ClientsPage` | the Clients page and the offline screen's editor | the same |
| `Themes` | the list of themes and the theme editor | the same |
| `PluginsPage` | the Data Plugins page, its form, the way to a provider and back | the same |
| `Session` | `AdminApp`, `AuthContext`, `useApiFetch`, login, setup, forgotten password | the same, and a reload of the tab |
| `ColorField` | the colour picker | an edit |
| `GradientStops` | the gradient editor | an edit |
| `AdminPages` | the eight above together: one visit to one of them | |
| `AdminListsProofs` | theorems about `AdminPages`: plugins, session, themes, clients, displays, colour | |
| `AdminPagesProofs` | the same: gradient, settings, and what holds of every page; extends `AdminListsProofs` | |

`MC*.tla` add symmetry sets and enumerations, `MC*.cfg` give constants values.

### Scheduler

A process is the main goroutine (`Main`), an HTTP request (`Admins`) or a fetch
loop (`Loops`, slots that are used again).  `pc` is its place, `job` the copy of
the instance it works on: the code works on the copy read at `Reload` too, also
when the row has changed since.  `mu` is `Scheduler.mu`, `running` the map it
guards, `cancelled` and `root` the contexts, `lock` and `obj` the registry's
per-plugin mutex and the plugin object's last configuration, `table` the stored
rows, as the configuration they were fetched with.

`Reload` is `ReloadLoad` (the table is read *before* the mutex), `ReloadLock`
(cancel what is gone), `ReloadEach` with `ReloadResolve`, `ReloadStart` or
`ReloadReject` for each instance, and `ReloadDone`; `fetchOnce` is `Resolve`,
`FetchStart` (lock and `Configure`), `FetchReturn`, one `WriteShape` per shape
and `RecordSuccess` or `RecordError`.  `Discover`, which takes the same lock and
writes nothing, is left out.

Fairness: goroutines are scheduled and `sync.Mutex` hands itself to a waiter
that has waited long, so a process whose step is possible again and again takes
it (strong fairness); `select` picks at random among ready cases, so a
cancelled loop leaves (strong fairness of `LoopExit`).  A provider's call ends
only if the plugin has a timeout (`TokenEnds`, `FetchEnds`) or its context is
cancelled.  Admins and signals may never come.

### ShapeContract and ShapeStore

A *section* is what a writer replaces as a whole: one calendar's events, one
list's tasks, or (for the six other shapes) all rows of the instance.  The
contract says that one step, `Store`, replaces the sections of a request, and
that a refused or lost write changes nothing.  `ShapeStore` does the same with
`Begin`, per section `OpenSection` (the upsert of the calendar or list), `Clear`
and one `Insert` per row, then `Commit`; a statement may fail, the process may
crash, instances are deleted and their ids used again.  `db` is what is
committed, `tx` what the open transaction sees, `conn` who has the connection.
`ReplacesAtOnce` is the contract, with `table` mapped to the committed rows.

Fairness: `database/sql` serves those who wait for the connection in turn.

### OAuthTokens

`pending` is the in-memory store of attempts, `current` the refresh token each
consent's provider accepts (a *turn* counts rotations), `work` what a refresh or
a callback has read and will store.  `spoiled` and `from` are history.  A
refresh is `LoadToken`, `Refresh` (the provider rotates, and its answer may be
lost), `LoadKey`, `SetKey` when there was none, `Insert`.  The callback joins
at `LoadKey` after `Exchange`.  `Restart` empties the memory.

### Accounts

A request carries its handler's local state through one SQL statement at a
time.  Passwords, e-mail addresses, hashes and sessions are not modelled; a
TOTP code is right or wrong for the secret that was read.  `spent`
and a link's `redeemed` are history.

### Pairing

`cookie`, `clientId` and `page` are the browser's; `calls` its requests in
flight, with the server's half-finished answers; a call whose effect was cleaned
up is no longer *live* and its answer is ignored, as by the `cancelled` flag.
`row` is the `clients` table, `displays` the displays that exist.

Fairness: the poll interval fires while the page is open; a network that keeps
losing calls lets one through now and then (strong fairness per call); nobody
reloads the page for ever.

### Kiosk

Time is discrete.  `timers` are the rotation intervals that run (the model does
not assume that there is only one), `pollIn` the ticks to the next layout poll.
An interval that is due fires before time goes on; an answer to a layout poll
may come at any time, before or after a later one's.  The handler reads the
display and its screens in two steps.  A layout is its rotation interval and
the number of its screens.

Fairness: time passes, due intervals fire, and of ever repeated polls some are
served and answered.

### Designer

`cards` is the table, with each card's rows of `card_data_sources`, `view` what
each tab shows, `calls` the changes in flight: one request per card that moved,
and the reload that follows when all are answered (`withSaveStatus`).  A drag
shows its result at once, everything else waits for the reload.  A save of
settings is `UpdateCard` and `SetCardDataSources`, two transactions; the second
may be refused with the first one stored.  A reload reads the rows and then each
card's sources.  Only saving settings looks at an answer's status.  `last` and
`apart` are history: `LastSaverSeesTable` is promised to the tab whose request
changed the cards last, if its changes did not overlap and nothing was refused
or lost.  No fairness is assumed: its properties are about safety.

### Requests and the admin's pages

`ui` is what a page shows, `db` the rows it is about, `call` the requests in
flight.  A handler of the page is an action (`Send` and its relatives, or `Act`
for what sends nothing); `Served` says, per kind of request, what the server
does; the answer comes back by an action of the page, or never (`Lose`).  What
`log.twin` and `log.torn` remember is whether two requests overlapped, and
whether one was refused or lost: several properties are promised only while
they did not, because a page has no defence against them (deviations below).

- `Settings` keeps its own variables: a section is mounted and unmounted with its
  requests under way, and the two-factor section has a sequence of steps.  Its
  history is `past`: `twin`, `torn`, and `unread` when an answer about backup
  codes was lost, left behind or overtaken by another.  Of
  sections that share a tab each is a tab of its own, for they share nothing.
- `Displays`: deleting a display takes its screens along; moving a screen swaps
  two positions by two full-row PUTs at once, and a reload follows both.
- `ClientsPage`: a form keeps the client as it was listed.  The offline screen's
  message is wrapped into a page (`buildOfflineScreenHTML`) and parsed back; a
  message that ends the comment early is `Unreadable`.  Of the three offline
  modes the model has two, one of which shows the message.
- `Themes`: one token stands for each way tokens are treated (there from the
  start, added later).  An upload remembers the tokens of when it began.  Both
  exports are meant by `Exported`: the list writes a theme as it is stored, the
  editor the tokens as they are, merged with the built-in theme's.
- `PluginsPage`: `left` is the instance the browser went to a provider for; what
  `Discover` offers may change or fail at any time.  The manifest itself is a
  constant of the plugin.
- `Session`: the addresses, what `/setup` answered, the token with the name
  shown beside it, and the form of the public page that is mounted.  Tokens die
  in the order they were issued.
- `ColorField` has channels of `0..Full` (255 in the code) and rounds to whole
  channels where the code does, in `HsvToRgb`.  Hue, saturation and value, which
  the code keeps as doubles, are exact fractions: the error in a double's last bit
  is not modelled.  Of the pointer the model has `Steps + 1` positions along a
  side, and of transparency the `Opaque` steps of its strip (a typed alpha may
  have more decimals than that).  History remembers what was moved since the
  popover was opened.
- `GradientStops` reads its rows from the text at every edit, as the code does.

`AdminPages` puts them side by side: the pages share no state but the server's,
and no page is shown beside another, so a behaviour is one visit to one page.
That another admin edits the same rows is in `Designer`, `Scheduler` and
`Accounts`, and here only where a page guards against it.  No fairness is
assumed.

## 3. Runs

| Run | Shows | Bounds and why they are enough |
|---|---|---|
| `scheduler_safety` | the safety properties of `Scheduler` | one row id that is deleted and reused, two plugins (one not compiled in), two configurations, two loop slots (an old loop still fetching beside its successor), an admin request and a test |
| `scheduler_live` | every enabled instance gets an outcome, every `Reload` returns, a signal ends the program | one plugin whose calls end; two loops contend for its lock |
| `shape_store` | `WriteShape` implements its contract and always ends | two overlapping writes of up to two rows, two lists, two instances, an id twice in one fetch |
| `oauth_tokens` | stored refresh tokens stay usable, attempts are single-use, tokens belong to consents begun for their own instance id | two refreshes and two callbacks in flight, two instances, three rotations |
| `oauth_revoked` | *violated*: a refresh in flight undoes a de-authorization | one refresh, one callback |
| `accounts` | TOTP, backup codes, links and the last account stay consistent | two accounts, two requests at once, two batches of two codes |
| `pairing` | one browser, one client, one announcement, its own display only | two pairing codes, two calls in flight, each client registered, deleted and registered again |
| `pairing_live` | an approval reaches the screen; a deleted client's browser returns to the form | one code, two calls |
| `kiosk` | screens stay their time and keep coming, edits and outages settle | a poll every 3 ticks, rotation every 1 or 2, up to 3 screens, 2 edits or reloads, 2 calls that overtake each other |
| `kiosk_rotation` | *violated*: a rotation interval longer than the poll's never elapses | rotation 4, poll 3 |
| `admin_pages` | while requests neither overlap nor get lost, each page tells what is stored, and an edit keeps the looks of screens, the approvals and the chosen options (not the aspect ratio of the screen renamed or moved); themes exported without a blank field can be imported; the session ends for a cause; the picker and the gradient editor change what was moved | two requests in flight, four things done in a visit (three for clients, plugins, colour and gradient, whose mistakes need fewer); two displays with two screens each, two clients, two themes, two instances; `TabCost` charges a change of the tab of Settings; three TOTP secrets and batches; three tokens; a background of three lines; channels of four levels, three positions of the pointer along a side of the picker's square (so that colours between the levels are rounded), three transparencies; gradients of up to four stops at five positions |
| `designer` | a move keeps a card's data sources, saving its settings its place (a move clears header and alignment, which is not checked); the tab that changed the cards last shows what is stored | two tabs, two changes in flight, two edits, two cards (a drag that pushes another, an id used again), one instance that is deleted and made again, every card earlier sessions may have left |

Deadlock is checked in every run but `admin_pages`, and none is found.  A model
that has used up a bound still has steps other actors may take; `Scheduler` ends
after `Shutdown` and says so with the step `Terminated`.  A visit to a page of
`admin_pages` ends when the admin has done all the bound allows: there is
nothing left to do, and deadlock is not checked.

The limits of the runs' number leave the type invariants of `OAuthTokens`,
`Accounts`, `Pairing`, `Kiosk` and `Designer`, `TokenHasInstance` and
`RegisteringIsIdempotent` without a run of their own: TLC has checked them, and
they are theorems (section 4).

Every property of a passing run has a *mutant* in `PROJECT.json`: an operator
beside the definition it replaces, introduced by "Fault:", that is the code with
a plausible mistake.  TLC finds the property violated with it.

What the violated runs show, with the lines that say otherwise, is under
"findings": a de-authorized instance may get its token back from a refresh that
was under way; and a rotation interval above five minutes keeps a display on its
first screen, because every layout poll makes a new layout object and restarts
the interval.

More deviations were seen while modelling and have no run.  In the server:

- `Reload` is documented as safe to call concurrently with itself
  (`scheduler.go:56-59`), but it reads the enabled instances before it takes the
  mutex, and the older of two snapshots may be applied last: with
  `Admins = {a1, a2}` TLC finds `RunningMatchesDatabase` violated.  A cancelled
  loop's fetch may in the same way be stored after the fetch of its successor, or
  under an id that was given out again to another instance.
- An authorization begun for an instance that was deleted ends, by a late
  callback, on the instance that was given its id: pending attempts know ids only
  (`Callback` in `OAuthTokens`, `pending.go`).
- With a provider call that never ends (`homeassistant` has no timeout) a second
  instance of that plugin keeps `Reload` waiting with `Scheduler.mu` held (in
  `Scheduler`, take `FetchEnds = {}`).
- Two first uses of an encryption key each make one, after which what the loser
  encrypted cannot be read (`LoadKey` and `SetKey` in `OAuthTokens`).
- A TOTP secret may be enabled that no code was seen for: a second enrollment
  may be staged between another request's check of a code and its confirmation
  (`ConfirmRead`, `EnrollStage` and `ConfirmFlip` in `Accounts`).
- First-run setup counts the users and inserts one in two statements: two setups
  with different names make two first accounts (`SetupCount`, `SetupInsert`).
- A calendar or list that has become empty, or is not selected any more, sends no
  rows and keeps its old ones (`store.go:195`; sections in `ShapeContract`).
- `is_default` of a theme is not unique, and a password reset does not end
  sessions.

In the Designer:

- Dragging or resizing a card clears its header and alignment, which the request
  does not carry and the server therefore sets to null (`MoveTo` in `Designer`).
- A card's own `data_plugin_instance_id` does not stay the first of its data
  sources: deleting that instance sets it to null and keeps the others
  (`DeletePluginInstance` in `Designer`).

In the admin's pages (all reachable in the page's module):

- *Displays*: renaming or moving a screen clears its aspect ratio, which the PUT
  omits (the comment at `DisplaysPage.tsx:204-209` lists what must be echoed).
  Positions may be equal after deleting and adding, and then a move changes
  nothing.  Of a move one PUT may be refused.  An answer for the display selected
  before is shown under the one selected now.
- *Clients*: an edit form opened while a revocation is under way approves the
  client again when it is saved.  A message with `" -->` is not read back, and
  saving the editor that could not read a stored page writes over it.
- *Themes*: an upload that ends sets the other tokens back to what they were when
  it began.  A field left blank is exported and refused by the import.  The late
  answer to a save leaves the editor of another theme.
- *Gradient*: rows are sorted anew while a position is typed (the comment at
  `GradientStopEditor.tsx:49-55` is about that), and clearing a colour replaces
  the gradient by the fallback.
- *Colour*: what is typed with the popover open is overwritten by the next drag.
- *Plugins*: the toggle sends the row as it was listed, and undoes a newer edit.
  If the reload after adding an instance fails, consent is not begun.  The
  comment at `PluginsPage.tsx:61-65` says the session is gone after a consent,
  but `AuthContext` keeps it in `sessionStorage`.
- *Session*: the 401 to a request of an old session ends the new one.  The name
  may be changed while a login is under way, and another name is then shown.  A
  failed `/setup` is taken for "not required", and loses that authentication is
  disabled.
- *Settings*: an edit during a save can be saved, or be called saved, with the
  older one's answer; a refused notification toggle is not taken back; a lost
  answer to an enrollment leaves "Loading" without a way to cancel; a second
  confirmation makes the codes just shown worthless; a success clears a password
  typed meanwhile.
- *Everywhere*: a failed load leaves "Loading" for good on several pages, and
  the offline editor, like the approval without displays, has no Cancel.

## 4. Theorems

All are checked by TLAPS for every value of the constants that satisfies the
modules' named assumptions, which only say that bounds are numbers and that
the values standing for "nothing" are not something.

**SchedulerProofs.**  `IInvCorrect` proves the inductive invariant
`IInv == TypeInv /\ Safety`; the safety properties follow from it:
`TypeCorrect`, `OwnConfig`, `Exclusive`, `NoLeak`, `StopReachesAll`,
`NoOrphans`.  The properties are not inductive alone.  That an uncancelled loop
is the one `running` names needs that only the holder of `mu` changes `running`,
that it holds `mu` in exactly certain places, and that a stopped scheduler's
`root` is cancelled before `Stop` takes `mu`.  That a fetch was made with its
own configuration needs that the object's configuration is that of the lock's
holder, and that the lock is held in exactly certain places.

`InStep`, in the same module, proves `RunningMatchesDatabase` from
`OneRequest`: `Admins` has one element at most.  On top of `IInv` it needs
(`Sync`) that the server accepts a request only after the `Reload` of `Start`;
that before the signal an entry of `running` is a live, uncancelled loop of its
instance; and that a `Reload`'s snapshot is the table, with every entry it has
not yet replaced either still in the snapshot or up to date.  The second of two
requests would break the last part, which is the first deviation listed in section 3.

**DisplayProofs.**  `StoreReplacesAtOnce` proves that `ShapeStore` implements
`ShapeContract`.  The inductive invariant says that only the holder of the
connection is inside a transaction, that every request names the sections its
rows belong to, and (`InProgress`) that an open transaction sees the committed
rows with the sections opened so far replaced by the rows inserted so far.  At
`Commit` nothing is left, and that is the contract's `Store`; every other step
is a stutter or one of the contract's own.  `StoreTypeCorrect` adds a second
invariant for the keys: foreign keys and primary keys hold in what is committed
and in what the open transaction sees.

For the kiosk, `StaysUp` needs that for every running interval the time the
screen has been shown and the time until it fires add up to the interval at
least, and that an interval belongs to the layout shown: a loaded layout sets it
anew, which only keeps the screen up longer.

**OAuthTokensProofs.**  `IInvCorrect` follows a chain: an attempt belongs to the
instance id it was begun for, a consent to its attempt, what a process will
store to its consent, and a stored token to a consent whose attempt was begun
for that id.  An id given out again is the same id: `OwnConsent` says that
attempts are not mixed up, not that the instance is still the one it was.  `UsedOnce` needs that a consumed attempt is not pending again,
`StoredCurrent` that of those who hold the newest refresh token of a consent
there is one at most, and that as long as nothing was lost it is the table or
the one process about to write it.

**AccountsProofs.**  `CodeOnce` and `LinkOnce` are inductive with "an unused code
(or link) was never redeemed" and "the codes of an account are of batches made so
far, and of one account only".  `HasSecret` needs what requests have read to be
well typed, and that a confirmation writes only the flag.  `AdminStays` is a
property of steps: a deletion counts what is left before it commits.

**PairingProofs.**  `CookieMatches` and `OwnDisplay` need that an answer which is
still awaited belongs to the code the page has, and that what an answer carries
was assigned to its code.  `Announced` counts: announcements made plus those the
requests in flight have a right to are at most the row's births, which needs that
calls are finitely many.

**DesignerProofs.**  `LastSaver` needs that a tab which met no other call has one
at most and that one will reload (`Single`), and that whatever a reload has read
so far is the table's (`UpToDate`): anybody else's change ends the promise, because
`last` is then another.  `KeepsRest` needs that a request differs from the copy
it was made of only where its change does (`Asked`), and that only the step of
its own call handles it.

**AdminListsProofs, AdminPagesProofs.**  Each page has its inductive invariant,
shown of the page's own actions (`SInv` of the settings, `DInv` of the displays,
`CInv`, `TInv`, `PInv`, `AInv` of clients, themes, plugins, session, `FInv` and
`GInv` of the two editors); `SettingsCorrect` and its like say that it holds in
`AdminPages` while that page is open.  From these follow the six invariants of
the run (`Typed`, `TruthIsTold`, `FactorWorks`, `Reimports`, `Consent`,
`ColourKept`) and its two properties of steps (`OnlyEdited`, `EndsForCause`).
What carries them:

- *All pages.*  As long as nothing overlapped there is one request (`Alone`),
  and, where a page sends several, they know each other (`DMates`: the two PUTs
  of a move).
- *Settings.*  A property about what is shown when all is answered needs what
  every answer on its way will do to it: whose codes a confirmation brings
  (`SCodes`), which secret an enrollment brings and what a confirmation in
  flight was typed for (`SKey`), that a step of the two-factor section has the
  requests it may have and no others (`SSteps`), that a form called saved and
  not edited since is the stored one (`SSaved`), and that a password is shown as
  kept only where there is one (`SSecrets`).
- *Displays.*  What is listed is what is stored, or a request is under way that
  will bring it (`DListed`, `DSelected`); a row that can still be sent back, be
  it on the screen, in a form or in a request, has the look that is stored
  (`DLooks`), and only the request about a screen changes its aspect ratio
  (`DSpared`).  That a list of screens is ordered and complete rests on lemmas
  about `Listed`: finitely many rows can be put in the order of their positions
  and ids.
- *Clients.*  A row that is sent as approved is of a client that is (`CRows`);
  the editor of the offline screen has at most one request, first for what is
  stored and then to store what is typed (`CEditor`), and shows what is stored
  until it is touched (`CShown`).
- *Themes.*  What is edited, saved or kept for an upload is complete (`TInv`):
  what is stored, and exported from the list, may lack what was added to the
  application later, and the merge with the built-in theme, done when it is
  edited, or the validation, done when it is imported (`TExports`), fills it.
- *Plugins.*  An instance that needs consent and has none is the one a request
  in flight covers (`PConsent`), and unless the options were touched a form and
  its request have the stored choice (`PForm`, `PAsked`).
- *Session.*  A session's name is the one of its token, and an answer that could
  end it is about it (`ANamed`).
- *Colour.*  Converting a colour to hue, saturation and value and back gives the
  colour (`FExact`), for any number of levels: the fractions are exact, so the
  rounding at the end (`FRound`) has a whole channel to round.  The text on the
  swatch is the controls' colour, rounded, unless it was typed (`FInv`).
- *Gradient.*  Adding in the widest gap, removing and editing a stop are followed
  by sorting.  That a sort is a permutation, that the widest gap exists, and
  that an edit moves one stop are lemmas about sequences (`GRanks`, `GStep`);
  `StopsKept` counts what differs before and after.

Two of these were findings about the model.  `ShownFactorWorks` did not hold
when two enrollments overlapped or an answer with codes was lost after a newer
one: `past` of `Settings` now has `unread` for it, and the property says so.
`KeepsLook` did not hold when requests overlapped, because a screen's id is used
again: it is promised only when nothing overlapped or got lost.

The assumptions are the modules': besides those above, that there is room for one
row (`MaxBirths`, `MaxCard` positive), that `Calls` of `Pairing` is finite, and
that rotation intervals have a largest (`Kiosk`).  In `AdminPages` they are named
per page: values for "nothing" and "no request" are no names, rows or requests;
there are two names for displays, finitely many screens with numbers for ids, a
message that can be read back, and two colours, one of them the built-in
theme's; a gradient has room for the two stops of the fallback; a channel has at
least two levels, and a side of the picker two positions.

**Only model-checked.**  Liveness under fairness (`scheduler_live`,
`pairing_live`, `WriteReturns`, and `EveryScreenShown`, `Settles`, `OverlayLifts`
of `kiosk`), which TLAPS does not reach.  All other properties of the runs are
theorems.

## 5. Not modelled

Cryptography, hashing, signing and rate limits; HTTP parsing and validation that
changes no state; the parsing of feeds and provider answers; the drawing of
cards, night mode and each card's own data poll; sending mail and webhooks, and
the buttons that send a test; migrations, which run alone before the server
listens; log rotation, the files of uploads, and icons.  Of the admin's pages:
the password-change form, the dashboard, the Designer's grid and aspect forms,
the pickers of icons and fonts, and a theme's name and default flag.

## 6. Plan

Done, in this order: `Scheduler` and its proofs, `OAuthTokens`, `Accounts`,
`Pairing`, `ShapeContract`, `ShapeStore` and their refinement, `Kiosk`,
`Designer`; then the admin's pages with `AdminPages`, the proofs of
`OAuthTokens`, `Accounts`, `Pairing`, `Kiosk` and `Designer`, and the proofs of
the admin's pages.

What would come next, the most important first:

1. An abstract specification of the scheduler as a set of instances that are
   served, implemented by `Scheduler` when requests come one at a time.
2. The Designer's grid, aspect and settings forms, which replace the screen's row
   that its cards hang on.
3. Pure algorithms against reference definitions: the TOTP window
   (`auth/totp.go`), the night-mode window across midnight
   (`web/src/display`), the expansion and overriding of recurring events
   (`plugins/data/icsfeed`).
4. `Migrations`: restart in the middle of boot, version rows, the lazily made
   keys shared by OAuth, SMTP, webhook and TOTP settings.
