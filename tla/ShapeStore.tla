----------------------------- MODULE ShapeStore -----------------------------
(***************************************************************************)
(* Writing fetched rows (internal/db/store.go) on the single connection    *)
(* that internal/db/sqlite.go allows: WriteShape's transaction statement   *)
(* by statement, several calls at once, refused statements, crashes, and   *)
(* instances that are deleted and their ids given out again.               *)
(*                                                                         *)
(* Lists stands for calendars (events) and task lists (tasks); Whole for   *)
(* the six shapes that are replaced for the instance as a whole.  Every    *)
(* plugin's ids name their list (the Graph plugins append it, an ICS feed  *)
(* is one calendar), so a row's key is its list and id.                    *)
(***************************************************************************)
EXTENDS FiniteSets

CONSTANTS
  Instances, Lists, Ids, Copies,
  Writes,    \* bound: WriteShape calls
  Batches,   \* bound: the sets of rows a fetch may bring
  Whole, NoWrite, Free

Sections == Lists \cup {Whole}
Fetched == [list : Sections, id : Ids, copy : Copies]
Row == [inst : Instances, list : Sections, id : Ids, write : Writes]
Request == [inst : Instances, scope : SUBSET Sections, batch : SUBSET Fetched]

\* lists: calendars and task_lists.  rows: the shape tables.
Database == [lists : SUBSET (Instances \X Lists), rows : SUBSET Row]

\* left: sections not begun.  section, todo: the one begun, rows to insert.
Working == [left : SUBSET Sections, section : Sections, todo : SUBSET Fetched]

ASSUME StoreAssumption ==
  /\ Whole \notin Lists /\ Free \notin Writes /\ NoWrite \notin Request
  /\ Batches \subseteq SUBSET Fetched

VARIABLES
  instances, \* the rows of data_plugin_instances
  db,        \* what is committed
  conn,      \* the call that has the connection and a transaction, or Free
  tx,        \* what that transaction sees
  at,        \* where each call is
  asked,     \* its arguments
  work       \* its local variables

vars == <<instances, db, conn, tx, at, asked, work>>

InTransaction == {"writing", "clear", "failed"}
Places == InTransaction \cup {"none", "waiting", "stored", "refused", "lost"}

NoLocals == [left |-> {}, section |-> Whole, todo |-> {}]

\* Foreign keys and primary key of a database.
KeysHold(d) ==
  /\ \A l \in d.lists : l[1] \in instances
  /\ \A r \in d.rows :
       /\ r.inst \in instances
       /\ r.list # Whole => <<r.inst, r.list>> \in d.lists
  /\ \A q, r \in d.rows :
       q.inst = r.inst /\ q.list = r.list /\ q.id = r.id => q = r

\* Values have their types, and the database's keys hold.
TypeOK ==
  /\ instances \subseteq Instances
  /\ db \in Database /\ tx \in Database
  /\ conn \in Writes \cup {Free}
  /\ at \in [Writes -> Places]
  /\ asked \in [Writes -> Request \cup {NoWrite}]
  /\ work \in [Writes -> Working]
  /\ KeysHold(db)

---------------------------------------------------------------------------
Init ==
  /\ instances \in SUBSET Instances
  /\ db = [lists |-> {}, rows |-> {}] /\ tx = db
  /\ conn = Free
  /\ at = [w \in Writes |-> "none"]
  /\ asked = [w \in Writes |-> NoWrite]
  /\ work = [w \in Writes |-> NoLocals]

\* WriteShape is called with what a fetch brought: the rows of a plain shape,
\* or rows that name their lists (byCalendar, byList).
Fetch(w) ==
  /\ at[w] = "none"
  /\ \E i \in instances, b \in Batches :
       LET lists == {f.list : f \in b}
       IN \E scope \in {lists, {Whole}} :
            /\ lists \subseteq scope /\ (Whole \in scope => scope = {Whole})
            /\ asked' = [asked EXCEPT ![w] = [inst |-> i, scope |-> scope, batch |-> b]]
  /\ at' = [at EXCEPT ![w] = "waiting"]
  /\ UNCHANGED <<instances, db, conn, tx, work>>

\* sqldb.Begin waits for the one connection.
Begin(w) ==
  /\ at[w] = "waiting" /\ conn = Free
  /\ conn' = w /\ tx' = db
  /\ at' = [at EXCEPT ![w] = "writing"]
  /\ work' = [work EXCEPT ![w] = [NoLocals EXCEPT !.left = asked[w].scope]]
  /\ UNCHANGED <<instances, db, asked>>

HasInstance(w) == asked[w].inst \in instances

RowOf(w, f) == [inst |-> asked[w].inst, list |-> f.list, id |-> f.id, write |-> w]

\* Fault: the lookup uses sqldb, not tx, and waits for the connection it has.
OpenSectionOutside(w) ==
  /\ at[w] = "writing" /\ work[w].todo = {}
  /\ \E s \in work[w].left :
       /\ s = Whole \/ conn = Free
       /\ tx' = IF s = Whole THEN tx
                ELSE [tx EXCEPT !.lists = @ \cup {<<asked[w].inst, s>>}]
       /\ work' = [work EXCEPT ![w].left = @ \ {s}, ![w].section = s]
  /\ at' = [at EXCEPT ![w] = "clear"]
  /\ UNCHANGED <<instances, db, conn, asked>>

\* The next section.  A list gets its row (upsert) and its id is looked up;
\* without the instance its foreign key refuses it.
OpenSection(w) ==
  /\ at[w] = "writing" /\ work[w].todo = {}
  /\ \E s \in work[w].left :
       IF s = Whole
       THEN /\ work' = [work EXCEPT ![w].left = @ \ {s}, ![w].section = s]
            /\ at' = [at EXCEPT ![w] = "clear"] /\ UNCHANGED tx
       ELSE IF HasInstance(w)
       THEN /\ tx' = [tx EXCEPT !.lists = @ \cup {<<asked[w].inst, s>>}]
            /\ work' = [work EXCEPT ![w].left = @ \ {s}, ![w].section = s]
            /\ at' = [at EXCEPT ![w] = "clear"]
       ELSE at' = [at EXCEPT ![w] = "failed"] /\ UNCHANGED <<tx, work>>
  /\ UNCHANGED <<instances, db, conn, asked>>

\* Fault: all of the instance's lists are cleared, not the one being written.
ClearInstance(w) ==
  /\ at[w] = "clear"
  /\ tx' = [tx EXCEPT !.rows = {r \in @ : r.inst # asked[w].inst}]
  /\ work' = [work EXCEPT ![w].todo = {f \in asked[w].batch : f.list = work[w].section}]
  /\ at' = [at EXCEPT ![w] = "writing"]
  /\ UNCHANGED <<instances, db, conn, asked>>

\* DELETE ... WHERE plugin_instance_id = ? [AND calendar_id = ?].
Clear(w) ==
  /\ at[w] = "clear"
  /\ tx' = [tx EXCEPT !.rows =
             {r \in @ : ~(r.inst = asked[w].inst /\ r.list = work[w].section)}]
  /\ work' = [work EXCEPT ![w].todo = {f \in asked[w].batch : f.list = work[w].section}]
  /\ at' = [at EXCEPT ![w] = "writing"]
  /\ UNCHANGED <<instances, db, conn, asked>>

\* One row: refused when its key is taken or its instance is gone.
Insert(w) ==
  /\ at[w] = "writing"
  /\ \E f \in work[w].todo :
       LET taken == \E r \in tx.rows :
                      r.inst = asked[w].inst /\ r.list = f.list /\ r.id = f.id
       IN IF taken \/ ~HasInstance(w)
          THEN at' = [at EXCEPT ![w] = "failed"] /\ UNCHANGED <<tx, work>>
          ELSE /\ tx' = [tx EXCEPT !.rows = @ \cup {RowOf(w, f)}]
               /\ work' = [work EXCEPT ![w].todo = @ \ {f}]
               /\ UNCHANGED at
  /\ UNCHANGED <<instances, db, conn, asked>>

\* Any statement may fail (a full disk, a locked file).
StatementFails(w) ==
  /\ at[w] \in {"writing", "clear"}
  /\ at' = [at EXCEPT ![w] = "failed"]
  /\ UNCHANGED <<instances, db, conn, tx, asked, work>>

Commit(w) ==
  /\ at[w] = "writing" /\ work[w].todo = {} /\ work[w].left = {}
  /\ db' = tx /\ conn' = Free
  /\ at' = [at EXCEPT ![w] = "stored"]
  /\ work' = [work EXCEPT ![w] = NoLocals]
  /\ UNCHANGED <<instances, tx, asked>>

\* The deferred tx.Rollback gives the connection back.
Rollback(w) ==
  /\ at[w] = "failed"
  /\ conn' = Free /\ tx' = db
  /\ at' = [at EXCEPT ![w] = "refused"]
  /\ work' = [work EXCEPT ![w] = NoLocals]
  /\ UNCHANGED <<instances, db, asked>>

\* The process dies and starts again: SQLite drops the open transaction.
Crash ==
  /\ conn' = Free /\ tx' = db
  /\ at' = [w \in Writes |-> IF at[w] \in InTransaction \cup {"waiting"} THEN "lost"
                             ELSE at[w]]
  /\ work' = [w \in Writes |-> NoLocals]
  /\ UNCHANGED <<instances, db, asked>>

CreatePluginInstance(i) ==
  /\ conn = Free /\ i \notin instances
  /\ instances' = instances \cup {i}
  /\ UNCHANGED <<db, conn, tx, at, asked, work>>

\* Fault: the tables do not cascade.
DeletePluginInstanceOnly(i) ==
  /\ conn = Free /\ i \in instances
  /\ instances' = instances \ {i}
  /\ UNCHANGED <<db, conn, tx, at, asked, work>>

\* ON DELETE CASCADE: its lists and rows go with it.
DeletePluginInstance(i) ==
  /\ conn = Free /\ i \in instances
  /\ instances' = instances \ {i}
  /\ db' = [lists |-> {l \in db.lists : l[1] # i}, rows |-> {r \in db.rows : r.inst # i}]
  /\ tx' = db'
  /\ UNCHANGED <<conn, at, asked, work>>

---------------------------------------------------------------------------
Step(w) ==
  Begin(w) \/ OpenSection(w) \/ Clear(w) \/ Insert(w) \/ Commit(w) \/ Rollback(w)

Next ==
  \/ \E w \in Writes : Fetch(w) \/ Step(w) \/ StatementFails(w)
  \/ Crash
  \/ \E i \in Instances : CreatePluginInstance(i) \/ DeletePluginInstance(i)

Spec == Init /\ [][Next]_vars

\* database/sql serves those who wait for the connection in turn.
Fairness == \A w \in Writes : SF_vars(Step(w))

FairSpec == Spec /\ Fairness

---------------------------------------------------------------------------
(* Properties.                                                             *)

ResultOf(w) ==
  IF at[w] \in InTransaction \cup {"waiting"} THEN "open" ELSE at[w]

Contract == INSTANCE ShapeContract WITH
  table <- db.rows, result <- [w \in Writes |-> ResultOf(w)]

\* "Replaces all rows ... in a single transaction": whatever is refused,
\* interrupted or deleted meanwhile, a write replaces exactly its sections, at
\* once or not at all, and its error tells which (WriteShape).
ReplacesAtOnce == Contract!Spec

\* Every write ends: nothing a transaction does waits for the one connection,
\* which it holds itself (SetMaxOpenConns, writeEvents, writeTasks).
WriteReturns == \A w \in Writes : (ResultOf(w) = "open") ~> (ResultOf(w) # "open")
=============================================================================
