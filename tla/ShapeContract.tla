--------------------------- MODULE ShapeContract ---------------------------
(***************************************************************************)
(* What internal/db/store.go promises of WriteShape, without saying how:   *)
(* one write replaces the sections it brings rows for, all at once or not  *)
(* at all, and touches nothing else.                                       *)
(*                                                                         *)
(* A section is what a shape's writer replaces as a whole: one calendar's  *)
(* events or one list's tasks, or (Whole) all of a plain shape's rows, for *)
(* one plugin instance.                                                    *)
(***************************************************************************)
CONSTANTS
  Instances, \* ids of data_plugin_instances
  Lists,     \* external ids of an instance's calendars or task lists
  Ids,       \* ids a plugin gives the rows of a section
  Copies,    \* how often one fetch may bring the same id
  Writes,    \* the WriteShape calls, each with the rows it was given
  Whole,     \* the section of a shape without lists
  NoWrite

Sections == Lists \cup {Whole}
Fetched == [list : Sections, id : Ids, copy : Copies]
Row == [inst : Instances, list : Sections, id : Ids, write : Writes]

\* A plain shape's rows, or rows that name the lists they belong to.
Request ==
  {q \in [inst : Instances, scope : SUBSET Sections, batch : SUBSET Fetched] :
     \/ q.scope = {Whole} /\ \A f \in q.batch : f.list = Whole
     \/ q.scope = {f.list : f \in q.batch} /\ Whole \notin q.scope}

VARIABLES
  instances, \* the plugin instances that exist
  table,     \* the rows a reader finds
  asked,     \* the request of each call, or NoWrite
  result     \* what each call came to

vars == <<instances, table, asked, result>>

Results == {"none", "open", "stored", "refused", "lost"}

\* Two rows of one fetch that the table's primary key cannot tell apart.
Clash(f, g) == f # g /\ f.list = g.list /\ f.id = g.id
Distinct(batch) == \A f, g \in batch : ~Clash(f, g)

RowOf(w, f) == [inst |-> asked[w].inst, list |-> f.list, id |-> f.id, write |-> w]
Covers(w, r) == r.inst = asked[w].inst /\ r.list \in asked[w].scope

Init ==
  /\ instances \in SUBSET Instances /\ table = {}
  /\ asked = [w \in Writes |-> NoWrite] /\ result = [w \in Writes |-> "none"]

\* A fetch calls WriteShape.
Ask(w) ==
  /\ result[w] = "none"
  /\ asked'[w] \in Request /\ asked' = [asked EXCEPT ![w] = asked'[w]]
  /\ result' = [result EXCEPT ![w] = "open"]
  /\ UNCHANGED <<instances, table>>

\* The sections it is about hold its rows and no others.
Store(w) ==
  /\ result[w] = "open" /\ Distinct(asked[w].batch)
  /\ asked[w].inst \in instances \/ asked[w].batch = {}
  /\ table' = {r \in table : ~Covers(w, r)} \cup {RowOf(w, f) : f \in asked[w].batch}
  /\ result' = [result EXCEPT ![w] = "stored"]
  /\ UNCHANGED <<instances, asked>>

\* It returns an error, and a reader sees no difference.
Refuse(w) ==
  /\ result[w] = "open"
  /\ result' = [result EXCEPT ![w] = "refused"]
  /\ UNCHANGED <<instances, table, asked>>

\* The process dies: what was stored stays, what was not is forgotten.
Crash ==
  /\ result' = [w \in Writes |-> IF result[w] = "open" THEN "lost" ELSE result[w]]
  /\ UNCHANGED <<instances, table, asked>>

Create(i) ==
  /\ i \notin instances /\ instances' = instances \cup {i}
  /\ UNCHANGED <<table, asked, result>>

\* An instance takes its rows with it.
Delete(i) ==
  /\ i \in instances /\ instances' = instances \ {i}
  /\ table' = {r \in table : r.inst # i}
  /\ UNCHANGED <<asked, result>>

Next ==
  \/ \E w \in Writes : Ask(w) \/ Store(w) \/ Refuse(w)
  \/ Crash
  \/ \E i \in Instances : Create(i) \/ Delete(i)

Spec == Init /\ [][Next]_vars
=============================================================================
