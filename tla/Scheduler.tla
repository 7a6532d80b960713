----------------------------- MODULE Scheduler -----------------------------
(***************************************************************************)
(* The data-plugin scheduler (internal/scheduler), the plugin registry it  *)
(* serialises fetches through (internal/plugins/data/registry.go), the     *)
(* data_plugin_instances table it reads (internal/db/plugins.go) and the   *)
(* admin handlers that change that table (internal/api/plugin_handlers.go).*)
(*                                                                         *)
(* Processes: the main goroutine, one goroutine per HTTP request in flight *)
(* (Admins), and the fetch loops Reload spawns (Loops: slots, reused once  *)
(* a loop has returned).  Every SQL statement, every transaction and every *)
(* critical section is one step; HTTP calls to a provider and waits for a  *)
(* mutex lie between steps.                                                *)
(***************************************************************************)
EXTENDS Naturals, FiniteSets

CONSTANTS
  MaxId,       \* bound: SQLite row ids are 1..MaxId
  Plugins,     \* plugin_id values a stored instance may carry
  Registered,  \* the plugin ids compiled into this binary
  TokenEnds,   \* plugins without OAuth, or whose token endpoint answers
  FetchEnds,   \* plugins whose Fetch ends: their HTTP client has a timeout
  Configs,     \* stored config blobs (what a fetch's data is traced to)
  NumShapes,   \* shapes one fetch returns, written in sorted order
  Loops,       \* bound: slots for fetch-loop goroutines alive at once
  Admins,      \* bound: admin requests in flight at once
  Main,        \* the main goroutine
  None,        \* "no process", "no goroutine"
  NoRow,       \* an id that no row of data_plugin_instances has
  NoJob,       \* a process that works for no instance
  Empty        \* no shape rows / a plugin object never configured

Ids    == 1..MaxId
Shapes == 1..NumShapes
Row    == [plugin : Plugins, config : Configs, enabled : BOOLEAN]
Job    == [id : Ids, plugin : Plugins, config : Configs]

Callers  == Admins \cup {Main}      \* run Reload
Fetchers == Loops \cup Admins       \* run fetchOnce
Procs    == Loops \cup Callers

ASSUME SchedulerAssumption ==
  /\ MaxId \in Nat /\ NumShapes \in Nat
  /\ Registered \subseteq Plugins /\ TokenEnds \subseteq Plugins
  /\ FetchEnds \subseteq Plugins
  /\ Loops \cap Callers = {} /\ Main \notin Admins
  /\ None \notin Procs
  /\ NoRow \notin Row /\ NoJob \notin Job /\ Empty \notin Configs

VARIABLES
  row,        \* data_plugin_instances: id -> row, or NoRow
  outcome,    \* last_fetch_at/last_error: "none", "ok" or "error"
  table,      \* shape tables: id -> shape -> the config its rows came from
  mu,         \* who holds Scheduler.mu
  running,    \* Scheduler.running: id -> the loop it can cancel, or None
  cancelled,  \* loops whose context is cancelled
  root,       \* the signal context is cancelled
  lock,       \* Registry.locks: plugin -> who holds it
  obj,        \* the shared plugin object: the config last applied to it
  pc,         \* where each process is
  job,        \* the instance snapshot a process works on
  todo,       \* Reload's snapshot: the wanted instances still to (re)start
  fetched,    \* what Fetch returned to the process
  left        \* the shapes the process has still to write

dbVars    == <<row, outcome, table>>
schedVars == <<mu, running, cancelled, root>>
regVars   == <<lock, obj>>
workVars  == <<fetched, left>>
vars      == <<dbVars, schedVars, regVars, pc, job, todo, workVars>>

FetchPC  == {"resolve", "queue", "fetch", "write", "failed"}
ReloadPC == {"load", "lock", "each", "token", "configure", "reject"}
HoldsMu  == {"each", "token", "configure", "reject"}
PC == FetchPC \cup ReloadPC \cup
      {"free", "tick", "idle", "update", "serve", "stop", "drain", "closed"}

TypeOK ==
  /\ row \in [Ids -> Row \cup {NoRow}]
  /\ outcome \in [Ids -> {"none", "ok", "error"}]
  /\ table \in [Ids -> [Shapes -> Configs \cup {Empty}]]
  /\ mu \in Callers \cup {None}
  /\ running \in [Ids -> Loops \cup {None}]
  /\ cancelled \subseteq Loops
  /\ root \in BOOLEAN
  /\ lock \in [Plugins -> Fetchers \cup {None}]
  /\ obj \in [Plugins -> Configs \cup {Empty}]
  /\ pc \in [Procs -> PC]
  /\ job \in [Procs -> Job \cup {NoJob}]
  /\ todo \in [Callers -> SUBSET Job]
  /\ fetched \in [Fetchers -> Configs \cup {Empty}]
  /\ left \in [Fetchers -> SUBSET Shapes]

---------------------------------------------------------------------------
(* Helpers.                                                                *)

Goto(p, label) == pc' = [pc EXCEPT ![p] = label]

\* main's deferred sqldb.Close has run: every later statement fails.
Closed == pc[Main] = "closed"

\* A statement that can only affect the row of instance i finds it.
Found(i) == ~Closed /\ row[i] # NoRow

\* INTEGER PRIMARY KEY without AUTOINCREMENT: one past the largest id in use,
\* so the id of a deleted last instance is given out again.
NewId == CHOOSE n \in 1..(MaxId + 1) :
           /\ n > 1 => row[n - 1] # NoRow
           /\ \A i \in Ids : i >= n => row[i] = NoRow

JobOf(i) == [id |-> i, plugin |-> row[i].plugin, config |-> row[i].config]

\* LoadEnabledPluginInstances.
Wanted == {JobOf(i) : i \in {k \in Ids : row[k] # NoRow /\ row[k].enabled}}

Alive(l) == pc[l] # "free"

\* Call the CancelFuncs of the loops in S; one that has returned ignores it.
Cancel(S) == cancelled' = cancelled \cup {l \in Loops : Alive(l) /\ l \in S}

\* Where a process continues after fetchOnce, and after Reload.
AfterFetch(p)  == IF p \in Loops THEN "tick" ELSE "idle"
AfterReload(p) == IF p = Main THEN "serve" ELSE "idle"

RecordOutcome(i, result) ==
  outcome' = IF Found(i) THEN [outcome EXCEPT ![i] = result] ELSE outcome

\* Boot: main has opened and migrated a database a previous run left behind
\* and is about to run Scheduler.Start.
Init ==
  /\ row \in [Ids -> Row \cup {NoRow}]
  /\ outcome = [i \in Ids |-> "none"]
  /\ table \in [Ids -> [Shapes -> Configs \cup {Empty}]]
  /\ \A i \in Ids : row[i] = NoRow => table[i] = [s \in Shapes |-> Empty]
  /\ mu = None /\ running = [i \in Ids |-> None] /\ cancelled = {}
  /\ root = FALSE
  /\ lock = [g \in Plugins |-> None] /\ obj = [g \in Plugins |-> Empty]
  /\ pc = [p \in Procs |-> IF p \in Loops THEN "free"
                           ELSE IF p = Main THEN "load" ELSE "idle"]
  /\ job = [p \in Procs |-> NoJob]
  /\ todo = [p \in Callers |-> {}]
  /\ fetched = [p \in Fetchers |-> Empty]
  /\ left = [p \in Fetchers |-> {}]

---------------------------------------------------------------------------
(* Admin handlers.  A request is accepted while main serves.               *)

Accept(a) == pc[a] = "idle" /\ pc[Main] = "serve"

\* Fault: the handler stores the row but forgets to reload.
CreateWithoutReload(a) ==
  /\ Accept(a)
  /\ NewId \in Ids
  /\ \E g \in Registered, c \in Configs, e \in BOOLEAN :
       row' = [row EXCEPT ![NewId] = [plugin |-> g, config |-> c, enabled |-> e]]
  /\ outcome' = [outcome EXCEPT ![NewId] = "none"]
  /\ UNCHANGED <<table, schedVars, regVars, pc, job, todo, workVars>>

\* handleCreatePluginInstance: the plugin must be registered; then Reload.
Create(a) ==
  /\ Accept(a)
  /\ NewId \in Ids
  /\ \E g \in Registered, c \in Configs, e \in BOOLEAN :
       row' = [row EXCEPT ![NewId] = [plugin |-> g, config |-> c, enabled |-> e]]
  /\ outcome' = [outcome EXCEPT ![NewId] = "none"]
  /\ Goto(a, "load")
  /\ UNCHANGED <<table, schedVars, regVars, job, todo, workVars>>

\* handleUpdatePluginInstance first reads the row it is about to overwrite
\* (and refuses an instance of an unregistered plugin) ...
UpdateRead(a) ==
  /\ Accept(a)
  /\ \E i \in Ids, c \in Configs :
       /\ row[i] # NoRow /\ row[i].plugin \in Registered
       /\ job' = [job EXCEPT ![a] = [id |-> i, plugin |-> row[i].plugin, config |-> c]]
  /\ Goto(a, "update")
  /\ UNCHANGED <<dbVars, schedVars, regVars, todo, workVars>>

\* ... then updates by id, answering 500 when the row has gone meanwhile.
UpdateWrite(a) ==
  /\ pc[a] = "update"
  /\ job' = [job EXCEPT ![a] = NoJob]
  /\ IF Found(job[a].id)
     THEN /\ \E e \in BOOLEAN :
               row' = [row EXCEPT ![job[a].id] =
                         [@ EXCEPT !.config = job[a].config, !.enabled = e]]
          /\ Goto(a, "load")
     ELSE UNCHANGED row /\ Goto(a, "idle")
  /\ UNCHANGED <<outcome, table, schedVars, regVars, todo, workVars>>

\* handleDeletePluginInstance: ON DELETE CASCADE takes the shape rows along.
Delete(a) ==
  /\ Accept(a)
  /\ \E i \in Ids :
       /\ row[i] # NoRow
       /\ row' = [row EXCEPT ![i] = NoRow]
       /\ outcome' = [outcome EXCEPT ![i] = "none"]
       /\ table' = [table EXCEPT ![i] = [s \in Shapes |-> Empty]]
  /\ Goto(a, "load")
  /\ UNCHANGED <<schedVars, regVars, job, todo, workVars>>

\* handleOAuthCallback and handleDeauthorize reload after changing a token.
Reauthorize(a) ==
  /\ Accept(a)
  /\ Goto(a, "load")
  /\ UNCHANGED <<dbVars, schedVars, regVars, job, todo, workVars>>

\* handleTestPluginInstance -> TestInstance: read the row, then fetchOnce,
\* whether the instance is enabled or not.
TestInstance(a) ==
  /\ Accept(a)
  /\ \E i \in Ids : row[i] # NoRow /\ job' = [job EXCEPT ![a] = JobOf(i)]
  /\ Goto(a, "resolve")
  /\ UNCHANGED <<dbVars, schedVars, regVars, todo, workVars>>

---------------------------------------------------------------------------
(* Scheduler.Reload.                                                       *)

\* The enabled instances are read before mu is taken.
ReloadLoad(p) ==
  /\ pc[p] = "load"
  /\ IF Closed
     THEN UNCHANGED todo /\ Goto(p, AfterReload(p))
     ELSE todo' = [todo EXCEPT ![p] = Wanted] /\ Goto(p, "lock")
  /\ UNCHANGED <<dbVars, schedVars, regVars, job, workVars>>

\* Fault: loops of instances that are gone or disabled are left running.
ReloadLockKeepsAll(p) ==
  /\ pc[p] = "lock" /\ mu = None
  /\ mu' = p
  /\ Goto(p, "each")
  /\ UNCHANGED <<dbVars, running, cancelled, root, regVars, job, todo, workVars>>

\* Take mu; cancel and forget every running loop the snapshot does not want.
ReloadLock(p) ==
  /\ pc[p] = "lock" /\ mu = None
  /\ mu' = p
  /\ LET gone == {i \in Ids : running[i] # None /\ \A j \in todo[p] : j.id # i}
     IN /\ Cancel({running[i] : i \in gone})
        /\ running' = [i \in Ids |-> IF i \in gone THEN None ELSE running[i]]
  /\ Goto(p, "each")
  /\ UNCHANGED <<dbVars, root, regVars, job, todo, workVars>>

\* Fault: the old entry is dropped from running without calling its cancel.
ReloadEachNoCancel(p) ==
  /\ pc[p] = "each"
  /\ \E j \in todo[p] :
       /\ running' = [running EXCEPT ![j.id] = None]
       /\ todo' = [todo EXCEPT ![p] = @ \ {j}]
       /\ IF j.plugin \in Registered
          THEN job' = [job EXCEPT ![p] = j] /\ Goto(p, "token")
          ELSE UNCHANGED <<job, pc>>
  /\ UNCHANGED <<dbVars, mu, cancelled, root, regVars, workVars>>

\* Next wanted instance: cancel its old loop, skip it if its plugin is not
\* compiled in.
ReloadEach(p) ==
  /\ pc[p] = "each"
  /\ \E j \in todo[p] :
       /\ Cancel({running[j.id]})
       /\ running' = [running EXCEPT ![j.id] = None]
       /\ todo' = [todo EXCEPT ![p] = @ \ {j}]
       /\ IF j.plugin \in Registered
          THEN job' = [job EXCEPT ![p] = j] /\ Goto(p, "token")
          ELSE UNCHANGED <<job, pc>>
  /\ UNCHANGED <<dbVars, mu, root, regVars, workVars>>

\* resolveConfig: bad JSON, no token, or a token refresh that is refused or
\* cannot reach the provider ends in "reject".
ReloadResolve(p) ==
  /\ pc[p] = "token"
  /\ \E label \in {"configure", "reject"} : Goto(p, label)
  /\ UNCHANGED <<dbVars, schedVars, regVars, job, todo, workVars>>

\* configureInstance's locked Configure rejects the config.  A Configure that
\* fails may have changed the shared object already.
ReloadConfigureFails(p) ==
  /\ pc[p] = "configure" /\ lock[job[p].plugin] = None
  /\ \E c \in {obj[job[p].plugin], job[p].config} :
       obj' = [obj EXCEPT ![job[p].plugin] = c]
  /\ Goto(p, "reject")
  /\ UNCHANGED <<dbVars, schedVars, lock, job, todo, workVars>>

\* Fault: the loop's context derives from context.Background().
ReloadStartDetached(p) ==
  /\ pc[p] = "configure" /\ lock[job[p].plugin] = None
  /\ obj' = [obj EXCEPT ![job[p].plugin] = job[p].config]
  /\ \E l \in Loops :
       /\ pc[l] = "free"
       /\ running' = [running EXCEPT ![job[p].id] = l]
       /\ pc' = [pc EXCEPT ![p] = "each", ![l] = "resolve"]
       /\ job' = [job EXCEPT ![p] = NoJob, ![l] = job[p]]
  /\ UNCHANGED <<dbVars, mu, cancelled, root, lock, todo, workVars>>

\* Configure succeeds: a new context (already cancelled if its parent is), a
\* new entry in running, wg.Add(1) and go s.run.
ReloadStart(p) ==
  /\ pc[p] = "configure" /\ lock[job[p].plugin] = None
  /\ obj' = [obj EXCEPT ![job[p].plugin] = job[p].config]
  /\ \E l \in Loops :
       /\ pc[l] = "free"
       /\ running' = [running EXCEPT ![job[p].id] = l]
       /\ cancelled' = IF root THEN cancelled \cup {l} ELSE cancelled
       /\ pc' = [pc EXCEPT ![p] = "each", ![l] = "resolve"]
       /\ job' = [job EXCEPT ![p] = NoJob, ![l] = job[p]]
  /\ UNCHANGED <<dbVars, mu, root, lock, todo, workVars>>

\* Fault: Reload returns on a refused config and leaves mu locked.
ReloadRejectReturns(p) ==
  /\ pc[p] = "reject"
  /\ RecordOutcome(job[p].id, "error")
  /\ job' = [job EXCEPT ![p] = NoJob]
  /\ todo' = [todo EXCEPT ![p] = {}]
  /\ Goto(p, AfterReload(p))
  /\ UNCHANGED <<row, table, schedVars, regVars, workVars>>

\* The refusal is recorded and Reload goes on with the next instance.
ReloadReject(p) ==
  /\ pc[p] = "reject"
  /\ RecordOutcome(job[p].id, "error")
  /\ job' = [job EXCEPT ![p] = NoJob]
  /\ Goto(p, "each")
  /\ UNCHANGED <<row, table, schedVars, regVars, todo, workVars>>

ReloadDone(p) ==
  /\ pc[p] = "each" /\ todo[p] = {}
  /\ mu' = None
  /\ Goto(p, AfterReload(p))
  /\ UNCHANGED <<dbVars, running, cancelled, root, regVars, job, todo, workVars>>

---------------------------------------------------------------------------
(* Scheduler.fetchOnce, run by a loop or by TestInstance.                  *)

\* resolveConfig fails for an unregistered plugin, and may fail otherwise.
Resolve(p) ==
  /\ pc[p] = "resolve"
  /\ \/ job[p].plugin \in Registered /\ Goto(p, "queue")
     \/ Goto(p, "failed")
  /\ UNCHANGED <<dbVars, schedVars, regVars, job, todo, workVars>>

\* Fault: Configure and Fetch run without waiting for the plugin's lock.
FetchStartUnserialised(p) ==
  /\ pc[p] = "queue"
  /\ lock' = [lock EXCEPT ![job[p].plugin] = p]
  /\ obj' = [obj EXCEPT ![job[p].plugin] = job[p].config]
  /\ Goto(p, "fetch")
  /\ UNCHANGED <<dbVars, schedVars, job, todo, workVars>>

\* Registry.WithPlugin: lock the plugin, Configure it, start Fetch ...
FetchStart(p) ==
  /\ pc[p] = "queue" /\ lock[job[p].plugin] = None
  /\ lock' = [lock EXCEPT ![job[p].plugin] = p]
  /\ obj' = [obj EXCEPT ![job[p].plugin] = job[p].config]
  /\ Goto(p, "fetch")
  /\ UNCHANGED <<dbVars, schedVars, job, todo, workVars>>

\* Fault: the early return on a Configure error leaves the plugin locked.
FetchConfigureFailsLocked(p) ==
  /\ pc[p] = "queue" /\ lock[job[p].plugin] = None
  /\ lock' = [lock EXCEPT ![job[p].plugin] = p]
  /\ Goto(p, "failed")
  /\ UNCHANGED <<dbVars, schedVars, obj, job, todo, workVars>>

\* ... or Configure fails and the lock is released at once.
FetchConfigureFails(p) ==
  /\ pc[p] = "queue" /\ lock[job[p].plugin] = None
  /\ \E c \in {obj[job[p].plugin], job[p].config} :
       obj' = [obj EXCEPT ![job[p].plugin] = c]
  /\ Goto(p, "failed")
  /\ UNCHANGED <<dbVars, schedVars, lock, job, todo, workVars>>

\* Fault: the list of shapes to write starts one too early.
FetchReturnOffByOne(p) ==
  /\ pc[p] = "fetch"
  /\ lock' = [lock EXCEPT ![job[p].plugin] = None]
  /\ fetched' = [fetched EXCEPT ![p] = obj[job[p].plugin]]
  /\ left' = [left EXCEPT ![p] = 0..NumShapes]
  /\ Goto(p, "write")
  /\ UNCHANGED <<dbVars, schedVars, obj, job, todo>>

\* Fetch returns what the shared object's settings select (or no rows at
\* all), or fails; either way the plugin is unlocked.
FetchReturn(p) ==
  /\ pc[p] = "fetch"
  /\ lock' = [lock EXCEPT ![job[p].plugin] = None]
  /\ \/ /\ \E r \in {obj[job[p].plugin], Empty} : fetched' = [fetched EXCEPT ![p] = r]
        /\ left' = [left EXCEPT ![p] = Shapes]
        /\ Goto(p, "write")
     \/ UNCHANGED workVars /\ Goto(p, "failed")
  /\ UNCHANGED <<dbVars, schedVars, obj, job, todo>>

\* Fault: shape tables without the foreign key.
WriteShapeNoForeignKey(p) ==
  /\ pc[p] = "write" /\ left[p] # {}
  /\ LET i == job[p].id
         s == CHOOSE s \in left[p] : \A t \in left[p] : s <= t
     IN IF ~Closed
        THEN /\ table' = [table EXCEPT ![i][s] = fetched[p]]
             /\ left' = [left EXCEPT ![p] = @ \ {s}]
             /\ UNCHANGED pc
        ELSE Goto(p, "failed") /\ UNCHANGED <<table, left>>
  /\ UNCHANGED <<row, outcome, schedVars, regVars, job, todo, fetched>>

\* db.WriteShape: one transaction that replaces the rows of one shape.
\* Inserting under an id that has no instance fails on the foreign key.
WriteShape(p) ==
  /\ pc[p] = "write" /\ left[p] # {}
  /\ LET i == job[p].id
         s == CHOOSE s \in left[p] : \A t \in left[p] : s <= t
     IN IF ~Closed /\ (row[i] # NoRow \/ fetched[p] = Empty)
        THEN /\ table' = [table EXCEPT ![i][s] = fetched[p]]
             /\ left' = [left EXCEPT ![p] = @ \ {s}]
             /\ UNCHANGED pc
        ELSE Goto(p, "failed") /\ UNCHANGED <<table, left>>
  /\ UNCHANGED <<row, outcome, schedVars, regVars, job, todo, fetched>>

\* Back to the ticker (a loop keeps its snapshot) or to the handler.
FinishFetch(p) ==
  /\ Goto(p, AfterFetch(p))
  /\ job' = IF p \in Loops THEN job ELSE [job EXCEPT ![p] = NoJob]
  /\ fetched' = [fetched EXCEPT ![p] = Empty]
  /\ left' = [left EXCEPT ![p] = {}]

RecordSuccess(p) ==
  /\ pc[p] = "write" /\ left[p] = {}
  /\ RecordOutcome(job[p].id, "ok")
  /\ FinishFetch(p)
  /\ UNCHANGED <<row, table, schedVars, regVars, todo>>

RecordError(p) ==
  /\ pc[p] = "failed"
  /\ RecordOutcome(job[p].id, "error")
  /\ FinishFetch(p)
  /\ UNCHANGED <<row, table, schedVars, regVars, todo>>

---------------------------------------------------------------------------
(* Scheduler.run's select, and shutdown.                                   *)

\* The ticker fires.  With ctx.Done also ready, select picks either.
LoopTick(l) ==
  /\ pc[l] = "tick"
  /\ Goto(l, "resolve")
  /\ UNCHANGED <<dbVars, schedVars, regVars, job, todo, workVars>>

LoopExit(l) ==
  /\ pc[l] = "tick" /\ l \in cancelled
  /\ cancelled' = cancelled \ {l}
  /\ job' = [job EXCEPT ![l] = NoJob]
  /\ Goto(l, "free")
  /\ UNCHANGED <<dbVars, mu, running, root, regVars, todo, workVars>>

\* SIGTERM or SIGINT cancels the context every loop's context derives from.
Signal ==
  /\ ~root
  /\ root' = TRUE
  /\ Cancel(Loops)
  /\ UNCHANGED <<dbVars, mu, running, regVars, pc, job, todo, workVars>>

\* ListenAndServe returns and main unwinds into Scheduler.Stop, which takes
\* mu to read cancel ...
MainReturn ==
  /\ pc[Main] = "serve" /\ root
  /\ Goto(Main, "stop")
  /\ UNCHANGED <<dbVars, schedVars, regVars, job, todo, workVars>>

StopCancel ==
  /\ pc[Main] = "stop" /\ mu = None
  /\ Cancel(Loops)
  /\ Goto(Main, "drain")
  /\ UNCHANGED <<dbVars, mu, running, root, regVars, job, todo, workVars>>

\* ... and waits for the WaitGroup; then the database is closed.
StopReturn ==
  /\ pc[Main] = "drain"
  /\ \A l \in Loops : ~Alive(l)
  /\ Goto(Main, "closed")
  /\ UNCHANGED <<dbVars, schedVars, regVars, job, todo, workVars>>

\* Shut down and idle: the program has ended.
Terminated ==
  /\ Closed
  /\ \A p \in Fetchers : pc[p] \in {"free", "idle"}
  /\ UNCHANGED vars

---------------------------------------------------------------------------
Request(a) ==
  \/ Create(a) \/ UpdateRead(a) \/ Delete(a) \/ Reauthorize(a) \/ TestInstance(a)

ReloadStep(p) ==
  \/ ReloadLoad(p) \/ ReloadLock(p) \/ ReloadEach(p) \/ ReloadResolve(p)
  \/ ReloadConfigureFails(p) \/ ReloadStart(p) \/ ReloadReject(p) \/ ReloadDone(p)

FetchStep(p) ==
  \/ Resolve(p) \/ FetchStart(p) \/ FetchConfigureFails(p) \/ FetchReturn(p)
  \/ WriteShape(p) \/ RecordSuccess(p) \/ RecordError(p)

Shutdown == MainReturn \/ StopCancel \/ StopReturn

Next ==
  \/ \E a \in Admins : Request(a) \/ UpdateWrite(a)
  \/ \E p \in Callers : ReloadStep(p)
  \/ \E p \in Fetchers : FetchStep(p)
  \/ \E l \in Loops : LoopTick(l) \/ LoopExit(l)
  \/ Signal \/ Shutdown \/ Terminated

Spec == Init /\ [][Next]_vars

(* Requests and the signal may never come.  Every process that has begun   *)
(* goes on: goroutines are scheduled and sync.Mutex hands itself to a      *)
(* waiter that has waited long, so a process whose next step is possible   *)
(* again and again takes it (strong fairness); and select picks at random  *)
(* among ready cases (strong fairness of LoopExit).  A remote call (a token *)
(* refresh, a Fetch) is only known to end if it has a timeout or the       *)
(* context it carries is cancelled.                                        *)
CallEnds(p) ==
  \/ job[p].plugin \in IF pc[p] = "fetch" THEN FetchEnds ELSE TokenEnds
  \/ p \in cancelled
  \/ pc[p] = "token" /\ root

LocalStep(p) ==
  \/ p \in Callers /\ (UpdateWrite(p) \/ (ReloadStep(p) /\ pc[p] # "token"))
  \/ p \in Fetchers /\ FetchStep(p) /\ pc[p] \notin {"resolve", "fetch"}
  \/ p \in Loops /\ LoopTick(p)
  \/ p = Main /\ Shutdown

RemoteStep(p) ==
  \/ p \in Callers /\ ReloadResolve(p) /\ CallEnds(p)
  \/ p \in Fetchers /\ (Resolve(p) \/ FetchReturn(p)) /\ CallEnds(p)

Fairness ==
  /\ \A p \in Procs : SF_vars(LocalStep(p) \/ RemoteStep(p))
  /\ \A l \in Loops : SF_vars(LoopExit(l))

FairSpec == Spec /\ Fairness

---------------------------------------------------------------------------
(* Properties.                                                             *)

\* Issue #152: all instances of a plugin type share one mutable object, yet
\* what a process is about to write was fetched with its own instance's
\* config, whatever other loops, tests and Reloads configured in between
\* (fetchOnce, Registry.WithPlugin).
FetchUsesOwnConfig ==
  \A p \in Fetchers : pc[p] = "write" => fetched[p] \in {job[p].config, Empty}

\* At most one process is between Configure and the end of Fetch on a plugin
\* object, and the lock says which (Registry.WithPlugin).
PluginExclusive ==
  \A p \in Fetchers, g \in Plugins :
    lock[g] = p <=> pc[p] = "fetch" /\ job[p].plugin = g

\* However Reloads interleave, every loop that is not cancelled is the one
\* Scheduler.running can cancel for its instance: no loop leaks, and no
\* instance is ever served by two live loops (Reload).
NoLeakedLoop ==
  \A l \in Loops : Alive(l) /\ l \notin cancelled => running[job[l].id] = l

\* Once Stop has cancelled, a Reload still in flight cannot start a loop that
\* nobody will cancel: every loop alive is cancelled (Stop, Reload).
StopCancelsAll ==
  pc[Main] \in {"drain", "closed"} => {l \in Loops : Alive(l)} \subseteq cancelled

\* Shape rows never outlive their instance, although a stopped or a test
\* fetch may be about to write when the row is deleted (DeletePluginInstance,
\* WriteShape, the schema's ON DELETE CASCADE).
NoOrphanRows ==
  \A i \in Ids : row[i] = NoRow => table[i] = [s \in Shapes |-> Empty]

\* No change is being made and no Reload is under way.
Quiet == pc[Main] = "serve" /\ \A a \in Admins : pc[a] \in FetchPC \cup {"idle"}

\* "Instances that are gone or disabled are stopped, and every enabled
\* instance is (re)started so a config or interval change takes effect":
\* once admin requests have been answered, only enabled instances have a loop
\* and each loop runs the stored config (Reload).  Holds while requests come
\* one at a time.
RunningMatchesDatabase ==
  Quiet => \A i \in Ids : running[i] # None =>
             /\ row[i] # NoRow /\ row[i].enabled
             /\ ~root => job[running[i]] = JobOf(i)

\* Every enabled instance of a compiled-in plugin gets an outcome: its config
\* is refused and the refusal recorded, or its loop's fetch ends in an error
\* or a success (Reload, run, fetchOnce).
EnabledIsServed ==
  \A i \in Ids :
    (row[i] # NoRow /\ row[i].enabled /\ row[i].plugin \in Registered)
      ~> \/ outcome[i] # "none" \/ root
         \/ row[i] = NoRow \/ ~row[i].enabled

\* "A failing plugin logs and records its error without taking down the
\* scheduler": whatever a provider does, a Reload that has begun returns, so
\* that admin requests are answered (Reload, fetchOnce).  Holds for providers
\* whose calls end; a plugin without an HTTP timeout can break it.
ReloadReturns ==
  \A p \in Callers : pc[p] \in ReloadPC ~> pc[p] \notin ReloadPC

\* A signal ends the program: neither a Reload in flight nor a fetch that
\* holds a plugin keeps Stop waiting for ever (Stop, main).
SignalEndsProgram == root ~> Closed
=============================================================================
