--------------------------- MODULE DisplayProofs ---------------------------
(***************************************************************************)
(* What a display has to show and how it shows it: that ShapeStore         *)
(* implements ShapeContract, and that Kiosk rotates in time.               *)
(*                                                                         *)
(* What makes a commit the contract's single step is an invariant on the   *)
(* open transaction: it sees the committed rows with the sections begun so *)
(* far replaced by those of their rows that are already inserted.          *)
(*                                                                         *)
(* What makes a screen stay its time is that the interval that rotates was *)
(* made for the layout that is shown, and that the ticks it has left and   *)
(* the ticks the screen has been up make at least one rotation, whatever   *)
(* polls, edits and reloads come between.                                  *)
(***************************************************************************)
EXTENDS ShapeStore, Kiosk, TLAPS

\* Sections whose old rows are gone from the transaction's view.
Opened(w) ==
  IF at[w] = "clear" THEN (asked[w].scope \ work[w].left) \ {work[w].section}
  ELSE asked[w].scope \ work[w].left

\* Fetched rows that are inserted.
Done(w) == {f \in asked[w].batch : f.list \in Opened(w) /\ f \notin work[w].todo}

TxRows(w) ==
  {r \in db.rows : ~(r.inst = asked[w].inst /\ r.list \in Opened(w))}
    \cup {RowOf(w, f) : f \in Done(w)}

Types ==
  /\ instances \subseteq Instances
  /\ db \in Database /\ tx \in Database
  /\ conn \in Writes \cup {Free}
  /\ at \in [Writes -> Places]
  /\ asked \in [Writes -> Request \cup {NoWrite}]
  /\ work \in [Writes -> Working]

\* The connection is with the call that is in a transaction.
OneTransaction ==
  /\ conn # Free => at[conn] \in InTransaction
  /\ \A w \in Writes : at[w] \in InTransaction => conn = w

\* What a call was given: a plain shape's rows or rows of the lists in scope.
GoodRequest(q) ==
  /\ q \in Request
  /\ \/ q.scope = {Whole} /\ \A f \in q.batch : f.list = Whole
     \/ q.scope = {f.list : f \in q.batch} /\ Whole \notin q.scope

GoodRequests == \A w \in Writes : at[w] # "none" => GoodRequest(asked[w])

\* The transaction so far.
Progress(w) ==
  /\ work[w].left \subseteq asked[w].scope
  /\ at[w] = "clear" => /\ work[w].section \in asked[w].scope \ work[w].left
                        /\ work[w].todo = {}
  /\ work[w].todo \subseteq {f \in asked[w].batch : f.list \in Opened(w)}
  /\ tx.rows = TxRows(w)
  /\ Done(w) # {} => HasInstance(w)
  /\ \A f, g \in Done(w) : ~(f # g /\ f.list = g.list /\ f.id = g.id)

InProgress == \A w \in Writes : at[w] \in {"writing", "clear"} => Progress(w)

IInv == Types /\ OneTransaction /\ GoodRequests /\ InProgress

---------------------------------------------------------------------------
LEMMA InitInv == Init => IInv
<1>. SUFFICES ASSUME Init PROVE IInv
  OBVIOUS
<1>1. Types
  BY StoreAssumption DEF Init, Types, Database, Places, InTransaction, Working, NoLocals, Sections
<1>2. OneTransaction /\ GoodRequests /\ InProgress
  BY DEF Init, OneTransaction, InTransaction, GoodRequests, InProgress
<1>. QED  BY <1>1, <1>2 DEF IInv

\* Fetch only fills in the arguments of a call that has not begun.
LEMMA FetchInv == ASSUME IInv, NEW w \in Writes, Fetch(w) PROVE IInv'
<1>. USE DEF IInv
<1>0. PICK i \in instances, b \in Batches :
        \E scope \in {{f.list : f \in b}, {Whole}} :
          /\ {f.list : f \in b} \subseteq scope /\ (Whole \in scope => scope = {Whole})
          /\ asked' = [asked EXCEPT ![w] = [inst |-> i, scope |-> scope, batch |-> b]]
  BY DEF Fetch
<1>1. PICK scope \in {{f.list : f \in b}, {Whole}} :
        /\ {f.list : f \in b} \subseteq scope /\ (Whole \in scope => scope = {Whole})
        /\ asked' = [asked EXCEPT ![w] = [inst |-> i, scope |-> scope, batch |-> b]]
  BY <1>0
<1>2. asked[w]' = [inst |-> i, scope |-> scope, batch |-> b]
  BY <1>1 DEF Types
<1>3. b \subseteq Fetched /\ scope \subseteq Sections
  <2>1. b \subseteq Fetched
    BY StoreAssumption
  <2>2. {f.list : f \in b} \subseteq Sections
    BY <2>1 DEF Fetched
  <2>. QED  BY <1>1, <2>1, <2>2 DEF Sections
<1>4. [inst |-> i, scope |-> scope, batch |-> b] \in Request
  <2>1. i \in Instances /\ b \in SUBSET Fetched /\ scope \in SUBSET Sections
    BY <1>3 DEF Types
  <2>. QED  BY <2>1 DEF Request
<1>5. GoodRequest(asked[w])'
  <2>1. CASE Whole \in scope
    BY <1>1, <1>2, <1>4, <2>1 DEF GoodRequest
  <2>2. CASE Whole \notin scope
    BY <1>1, <1>2, <1>4, <2>2 DEF GoodRequest
  <2>. QED  BY <2>1, <2>2
<1>6. at' = [at EXCEPT ![w] = "waiting"] /\ at[w] = "none"
      /\ UNCHANGED <<instances, db, conn, tx, work>>
  BY DEF Fetch
<1>7. Types'
  BY <1>1, <1>4, <1>6 DEF Types, Places
<1>8. OneTransaction'
  BY <1>6 DEF OneTransaction, Types, InTransaction
<1>9. GoodRequests'
  <2>. SUFFICES ASSUME NEW v \in Writes, at'[v] # "none" PROVE GoodRequest(asked[v])'
    BY DEF GoodRequests
  <2>1. CASE v = w
    BY <1>5, <2>1
  <2>2. CASE v # w
    BY <1>1, <1>6, <2>2 DEF GoodRequests, GoodRequest, Types
  <2>. QED  BY <2>1, <2>2
<1>10. InProgress'
  <2>. SUFFICES ASSUME NEW v \in Writes, at'[v] \in {"writing", "clear"} PROVE Progress(v)'
    BY DEF InProgress
  <2>1. v # w /\ at'[v] = at[v] /\ asked'[v] = asked[v]
    BY <1>1, <1>6 DEF Types
  <2>2. Progress(v)
    BY <2>1 DEF InProgress
  <2>. QED
    BY <1>6, <2>1, <2>2 DEF Progress, Opened, Done, TxRows, RowOf, HasInstance
<1>. QED  BY <1>7, <1>8, <1>9, <1>10

\* A step of the call that has the connection leaves the others as they are:
\* what remains to be shown is its own progress.
LEMMA OwnStep ==
  ASSUME IInv, NEW w \in Writes, conn = w \/ conn = Free, Types',
         \A v \in Writes \ {w} : at'[v] = at[v],
         at'[w] # "none", at[w] # "none", asked' = asked,
         conn' = w \/ conn' = Free,
         conn' = w => at'[w] \in InTransaction,
         at'[w] \in InTransaction => conn' = w,
         at'[w] \in {"writing", "clear"} => Progress(w)'
  PROVE  IInv'
<1>1. \A v \in Writes \ {w} : at'[v] \notin InTransaction
  BY StoreAssumption DEF IInv, OneTransaction
<1>2. OneTransaction'
  BY <1>1 DEF OneTransaction
<1>3. GoodRequests'
  BY DEF IInv, GoodRequests, GoodRequest
<1>4. InProgress'
  BY <1>1 DEF InProgress, InTransaction
<1>. QED  BY <1>2, <1>3, <1>4 DEF IInv

LEMMA BeginInv == ASSUME IInv, NEW w \in Writes, Begin(w) PROVE IInv'
<1>1. asked[w] \in Request
  BY DEF IInv, GoodRequests, GoodRequest, Begin
<1>2. work[w]' = [left |-> asked[w].scope, section |-> Whole, todo |-> {}]
  BY DEF IInv, Types, Begin, NoLocals
<1>3. Types'
  BY <1>1, <1>2 DEF IInv, Types, Begin, Places, InTransaction, Working, Request, Sections, NoLocals
<1>4. Progress(w)'
  <2>1. at[w]' = "writing"
    BY DEF IInv, Types, Begin
  <2>2. Opened(w)' = {} /\ Done(w)' = {}
    BY <1>2, <2>1 DEF Opened, Done, Begin
  <2>3. TxRows(w)' = db.rows
    BY <2>2 DEF TxRows, Begin
  <2>. QED
    BY <1>2, <2>1, <2>2, <2>3 DEF Progress, Begin
<1>. QED
  BY <1>3, <1>4, OwnStep DEF Begin, IInv, Types, InTransaction

\* A section is begun: its old rows are not gone yet.
LEMMA OpenSectionInv == ASSUME IInv, NEW w \in Writes, OpenSection(w) PROVE IInv'
<1>1. asked[w] \in Request /\ conn = w /\ Progress(w) /\ work[w].todo = {} /\ work[w] \in Working
  BY DEF IInv, Types, GoodRequests, GoodRequest, OpenSection, InProgress, OneTransaction, InTransaction
<1>2. PICK s \in work[w].left :
        \/ /\ s = Whole
           /\ work' = [work EXCEPT ![w].left = @ \ {s}, ![w].section = s]
           /\ at' = [at EXCEPT ![w] = "clear"] /\ UNCHANGED tx
        \/ /\ s # Whole /\ HasInstance(w)
           /\ tx' = [tx EXCEPT !.lists = @ \cup {<<asked[w].inst, s>>}]
           /\ work' = [work EXCEPT ![w].left = @ \ {s}, ![w].section = s]
           /\ at' = [at EXCEPT ![w] = "clear"]
        \/ at' = [at EXCEPT ![w] = "failed"] /\ UNCHANGED <<tx, work>>
  BY DEF OpenSection
<1>3. UNCHANGED <<instances, db, conn, asked>> /\ at[w] = "writing"
  BY DEF OpenSection
<1>4. CASE at' = [at EXCEPT ![w] = "failed"] /\ UNCHANGED <<tx, work>>
  <2>1. Types'
    BY <1>3, <1>4 DEF IInv, Types, Places, InTransaction
  <2>. QED
    BY <1>1, <1>3, <1>4, <2>1, OwnStep DEF IInv, Types, InTransaction
<1>5. CASE /\ s # Whole => tx' = [tx EXCEPT !.lists = @ \cup {<<asked[w].inst, s>>}]
           /\ s = Whole => UNCHANGED tx
           /\ work' = [work EXCEPT ![w].left = @ \ {s}, ![w].section = s]
           /\ at' = [at EXCEPT ![w] = "clear"]
  <2>1. s \in asked[w].scope /\ s \in Sections /\ asked[w].inst \in Instances
    BY <1>1 DEF Progress, Request
  <2>2. work[w]' = [left |-> work[w].left \ {s}, section |-> s, todo |-> {}]
    BY <1>1, <1>5 DEF IInv, Types, Working
  <2>3. at[w]' = "clear"
    BY <1>5 DEF IInv, Types
  <2>4. tx.rows' = tx.rows /\ tx' \in Database
    BY <1>5, <2>1 DEF IInv, Types, Database, Sections
  <2>5. Types'
    BY <1>1, <1>3, <1>5, <2>1, <2>2, <2>4 DEF IInv, Types, Places, InTransaction, Working
  <2>6. Opened(w)' = Opened(w)
    BY <1>1, <1>3, <2>1, <2>2, <2>3 DEF Opened, Progress
  <2>7. Done(w)' = Done(w) /\ TxRows(w)' = TxRows(w)
    BY <1>1, <1>3, <2>2, <2>6 DEF Done, TxRows, RowOf
  <2>8. Progress(w)'
    BY <1>1, <1>3, <2>1, <2>2, <2>3, <2>4, <2>6, <2>7 DEF Progress, HasInstance
  <2>. QED
    BY <1>1, <1>3, <1>5, <2>3, <2>5, <2>8, OwnStep DEF IInv, Types, InTransaction
<1>. QED  BY <1>2, <1>4, <1>5

\* The old rows of the section go; none of its new ones is there yet.
LEMMA ClearInv == ASSUME IInv, NEW w \in Writes, Clear(w) PROVE IInv'
<1>1. /\ asked[w] \in Request /\ conn = w /\ Progress(w) /\ work[w] \in Working
      /\ at[w] = "clear" /\ work[w].todo = {}
      /\ UNCHANGED <<instances, db, conn, asked>>
  BY DEF IInv, Types, GoodRequests, GoodRequest, Clear, InProgress, OneTransaction, InTransaction, Progress
<1>. DEFINE s == work[w].section
            new == {f \in asked[w].batch : f.list = s}
<1>2. /\ tx' = [tx EXCEPT !.rows = {r \in @ : ~(r.inst = asked[w].inst /\ r.list = s)}]
      /\ work' = [work EXCEPT ![w].todo = new]
      /\ at' = [at EXCEPT ![w] = "writing"]
  BY DEF Clear
<1>3. work[w]' = [left |-> work[w].left, section |-> s, todo |-> new] /\ at[w]' = "writing"
  BY <1>1, <1>2 DEF IInv, Types, Working
<1>4. tx.rows' = {r \in tx.rows : ~(r.inst = asked[w].inst /\ r.list = s)}
  BY <1>2 DEF IInv, Types, Database
<1>5. Types'
  <2>1. tx' \in Database
    BY <1>2 DEF IInv, Types, Database
  <2>2. new \in SUBSET Fetched
    BY <1>1 DEF Request
  <2>3. work' \in [Writes -> Working]
    BY <1>1, <1>2, <2>2 DEF IInv, Types, Working
  <2>. QED  BY <1>1, <1>2, <2>1, <2>3 DEF IInv, Types, Places, InTransaction
<1>6. Opened(w)' = Opened(w) \cup {s} /\ s \notin Opened(w)
  BY <1>1, <1>3 DEF Opened, Progress
<1>7. Done(w)' = Done(w)
  BY <1>1, <1>3, <1>6 DEF Done
<1>8. tx.rows' = TxRows(w)'
  <2>1. tx.rows = TxRows(w)
    BY <1>1 DEF Progress
  <2>2. \A f \in Done(w) : f.list # s /\ RowOf(w, f)' = RowOf(w, f) /\ RowOf(w, f).list = f.list
    BY <1>1, <1>6 DEF Done, RowOf
  <2>3. TxRows(w)' = {r \in db.rows : ~(r.inst = asked[w].inst /\ (r.list \in Opened(w) \/ r.list = s))}
                       \cup {RowOf(w, f) : f \in Done(w)}
    BY <1>1, <1>6, <1>7, <2>2 DEF TxRows
  <2>. QED
    BY <1>4, <2>1, <2>2, <2>3 DEF TxRows
<1>9. Progress(w)'
  BY <1>1, <1>3, <1>6, <1>7, <1>8 DEF Progress, HasInstance
<1>. QED
  BY <1>1, <1>2, <1>3, <1>5, <1>9, OwnStep DEF IInv, Types, InTransaction

\* One more row of the section; its key was free, so no fetched row clashes.
LEMMA InsertInv == ASSUME IInv, NEW w \in Writes, Insert(w) PROVE IInv'
<1>1. /\ asked[w] \in Request /\ conn = w /\ Progress(w) /\ work[w] \in Working
      /\ at[w] = "writing"
      /\ UNCHANGED <<instances, db, conn, asked>>
  BY DEF IInv, Types, GoodRequests, GoodRequest, Insert, InProgress, OneTransaction, InTransaction
<1>2. PICK f \in work[w].todo :
        \/ at' = [at EXCEPT ![w] = "failed"] /\ UNCHANGED <<tx, work>>
        \/ /\ ~(\E r \in tx.rows : r.inst = asked[w].inst /\ r.list = f.list /\ r.id = f.id)
           /\ HasInstance(w)
           /\ tx' = [tx EXCEPT !.rows = @ \cup {RowOf(w, f)}]
           /\ work' = [work EXCEPT ![w].todo = @ \ {f}]
           /\ UNCHANGED at
  BY DEF Insert
<1>3. CASE at' = [at EXCEPT ![w] = "failed"] /\ UNCHANGED <<tx, work>>
  <2>1. Types'
    BY <1>1, <1>3 DEF IInv, Types, Places, InTransaction
  <2>. QED
    BY <1>1, <1>3, <2>1, OwnStep DEF IInv, Types, InTransaction
<1>4. CASE /\ ~(\E r \in tx.rows : r.inst = asked[w].inst /\ r.list = f.list /\ r.id = f.id)
           /\ HasInstance(w)
           /\ tx' = [tx EXCEPT !.rows = @ \cup {RowOf(w, f)}]
           /\ work' = [work EXCEPT ![w].todo = @ \ {f}]
           /\ UNCHANGED at
  <2>1. f \in asked[w].batch /\ f.list \in Opened(w) /\ f \in Fetched
    BY <1>1 DEF Progress, Request
  <2>2. RowOf(w, f) \in Row
    BY <1>1, <2>1 DEF RowOf, Row, Request, Fetched
  <2>3. work[w]' = [left |-> work[w].left, section |-> work[w].section, todo |-> work[w].todo \ {f}]
    BY <1>1, <1>4 DEF IInv, Types, Working
  <2>4. tx' \in Database /\ tx.rows' = tx.rows \cup {RowOf(w, f)}
    BY <1>4, <2>2 DEF IInv, Types, Database
  <2>5. Types'
    BY <1>1, <1>4, <2>3, <2>4 DEF IInv, Types, Working
  <2>6. Opened(w)' = Opened(w)
    BY <1>1, <1>4, <2>3 DEF Opened
  <2>7. Done(w)' = Done(w) \cup {f}
    BY <1>1, <2>1, <2>3, <2>6 DEF Done
  <2>8. TxRows(w)' = TxRows(w) \cup {RowOf(w, f)}
    <3>1. \A g : RowOf(w, g)' = RowOf(w, g)
      BY <1>1 DEF RowOf
    <3>. QED  BY <1>1, <2>6, <2>7, <3>1 DEF TxRows
  <2>9. \A g \in Done(w) : ~(g.list = f.list /\ g.id = f.id)
    <3>. SUFFICES ASSUME NEW g \in Done(w), g.list = f.list, g.id = f.id PROVE FALSE
      OBVIOUS
    <3>1. RowOf(w, g) \in tx.rows
      BY <1>1 DEF Progress, TxRows
    <3>. QED  BY <1>4, <3>1 DEF RowOf
  <2>10. \A g, h \in Done(w)' : ~(g # h /\ g.list = h.list /\ g.id = h.id)
    BY <1>1, <2>7, <2>9 DEF Progress
  <2>11. Progress(w)'
    BY <1>1, <1>4, <2>3, <2>4, <2>6, <2>7, <2>8, <2>10 DEF Progress, HasInstance
  <2>. QED
    BY <1>1, <1>4, <2>5, <2>11, OwnStep DEF IInv, Types, InTransaction
<1>. QED  BY <1>2, <1>3, <1>4

LEMMA StatementFailsInv == ASSUME IInv, NEW w \in Writes, StatementFails(w) PROVE IInv'
<1>1. Types' /\ at'[w] = "failed" /\ \A v \in Writes \ {w} : at'[v] = at[v]
  BY DEF StatementFails, IInv, Types, Places, InTransaction
<1>. QED
  BY <1>1, OwnStep DEF StatementFails, IInv, OneTransaction, InTransaction

LEMMA CommitInv == ASSUME IInv, NEW w \in Writes, Commit(w) PROVE IInv'
<1>1. Types' /\ at'[w] = "stored" /\ \A v \in Writes \ {w} : at'[v] = at[v]
  BY StoreAssumption
  DEF Commit, IInv, Types, Places, InTransaction, NoLocals, Working, Sections
<1>2. conn = w
  BY DEF IInv, OneTransaction, Commit, InTransaction
<1>. QED
  BY <1>1, <1>2, OwnStep, StoreAssumption DEF Commit, InTransaction

LEMMA RollbackInv == ASSUME IInv, NEW w \in Writes, Rollback(w) PROVE IInv'
<1>1. Types' /\ at'[w] = "refused" /\ \A v \in Writes \ {w} : at'[v] = at[v]
  BY StoreAssumption
  DEF Rollback, IInv, Types, Places, InTransaction, NoLocals, Working, Sections
<1>2. conn = w
  BY DEF IInv, OneTransaction, Rollback, InTransaction
<1>. QED
  BY <1>1, <1>2, OwnStep, StoreAssumption DEF Rollback, InTransaction

\* When no transaction is open only types and requests matter.
LEMMA NoTransaction ==
  ASSUME IInv, Types', conn' = Free, asked' = asked,
         \A v \in Writes : at'[v] \notin InTransaction,
         \A v \in Writes : at[v] = "none" => at'[v] = "none"
  PROVE  IInv'
<1>1. OneTransaction'
  BY DEF OneTransaction
<1>2. GoodRequests'
  BY DEF IInv, GoodRequests, GoodRequest
<1>3. InProgress'
  BY DEF InProgress, InTransaction
<1>. QED  BY <1>1, <1>2, <1>3 DEF IInv

LEMMA CrashInv == ASSUME IInv, Crash PROVE IInv'
<1>1. Types'
  BY StoreAssumption
  DEF Crash, IInv, Types, Places, InTransaction, NoLocals, Working, Sections
<1>. QED
  BY <1>1, NoTransaction DEF Crash, InTransaction

LEMMA CreatePluginInstanceInv ==
  ASSUME IInv, NEW i \in Instances, CreatePluginInstance(i) PROVE IInv'
<1>1. Types'
  BY DEF CreatePluginInstance, IInv, Types
<1>2. \A v \in Writes : at[v] \notin InTransaction
  BY StoreAssumption DEF CreatePluginInstance, IInv, OneTransaction
<1>. QED
  BY <1>1, <1>2, NoTransaction DEF CreatePluginInstance

LEMMA DeletePluginInstanceInv ==
  ASSUME IInv, NEW i \in Instances, DeletePluginInstance(i) PROVE IInv'
<1>1. Types'
  <2>1. db' \in Database
    BY DEF DeletePluginInstance, IInv, Types, Database
  <2>. QED  BY <2>1 DEF DeletePluginInstance, IInv, Types
<1>2. \A v \in Writes : at[v] \notin InTransaction
  BY StoreAssumption DEF DeletePluginInstance, IInv, OneTransaction
<1>. QED
  BY <1>1, <1>2, NoTransaction DEF DeletePluginInstance

LEMMA StutterInv == ASSUME IInv, UNCHANGED vars PROVE IInv'
<1>. USE DEF vars
<1>1. Types' /\ OneTransaction' /\ GoodRequests'
  BY DEF IInv, Types, OneTransaction, GoodRequests, GoodRequest
<1>2. ASSUME NEW w \in Writes, Progress(w) PROVE Progress(w)'
  <2>1. Opened(w)' = Opened(w)
    BY DEF Opened
  <2>2. Done(w)' = Done(w)
    BY <2>1 DEF Done
  <2>3. TxRows(w)' = TxRows(w)
    BY <2>1, <2>2 DEF TxRows, RowOf
  <2>. QED  BY <1>2, <2>1, <2>2, <2>3 DEF Progress, HasInstance
<1>3. InProgress'
  BY <1>2 DEF IInv, InProgress
<1>. QED  BY <1>1, <1>3 DEF IInv

LEMMA NextInv == IInv /\ [Next]_vars => IInv'
<1>. SUFFICES ASSUME IInv, [Next]_vars PROVE IInv'
  OBVIOUS
<1>1. ASSUME NEW w \in Writes, Fetch(w) \/ Step(w) \/ StatementFails(w) PROVE IInv'
  BY <1>1, FetchInv, BeginInv, OpenSectionInv, ClearInv, InsertInv, CommitInv, RollbackInv,
     StatementFailsInv DEF Step
<1>2. ASSUME NEW i \in Instances, CreatePluginInstance(i) \/ DeletePluginInstance(i) PROVE IInv'
  BY <1>2, CreatePluginInstanceInv, DeletePluginInstanceInv
<1>. QED
  BY <1>1, <1>2, CrashInv, StutterInv DEF Next

THEOREM InvCorrect == Spec => []IInv
BY InitInv, NextInv, PTL DEF Spec
---------------------------------------------------------------------------
(* Keys: the open transaction keeps them too, so a commit does.            *)

\* The row of every list being written is there.
ListsKnown(w) ==
  /\ at[w] = "clear" /\ work[w].section # Whole
       => <<asked[w].inst, work[w].section>> \in tx.lists
  /\ \A f \in work[w].todo : f.list # Whole => <<asked[w].inst, f.list>> \in tx.lists

KInv ==
  /\ KeysHold(db)
  /\ \A w \in Writes : at[w] \in {"writing", "clear"} => KeysHold(tx) /\ ListsKnown(w)

LEMMA InitKeys == Init => KInv
BY DEF Init, KInv, KeysHold

\* The call with the connection moves within its transaction.
LEMMA OwnKeys ==
  ASSUME IInv, KInv, NEW w \in Writes, conn = w \/ conn = Free, UNCHANGED <<instances, db>>,
         \A v \in Writes \ {w} : at'[v] = at[v],
         at'[w] \in {"writing", "clear"} => KeysHold(tx)' /\ ListsKnown(w)'
  PROVE  KInv'
<1>1. \A v \in Writes \ {w} : at'[v] \notin {"writing", "clear"}
  BY StoreAssumption DEF IInv, OneTransaction, InTransaction
<1>2. KeysHold(db)'
  BY DEF KInv, KeysHold
<1>. QED  BY <1>1, <1>2 DEF KInv

LEMMA StepKeys == ASSUME IInv, KInv, NEW w \in Writes, Step(w) PROVE KInv'
<1>1. CASE Begin(w)
  <2>1. KeysHold(tx)' /\ ListsKnown(w)'
    BY <1>1 DEF Begin, KInv, KeysHold, ListsKnown, IInv, Types, NoLocals
  <2>. QED  BY <1>1, <2>1, OwnKeys DEF Begin, IInv, Types
<1>2. CASE OpenSection(w)
  <2>1. /\ conn = w /\ KeysHold(tx) /\ work[w].todo = {} /\ work[w] \in Working
        /\ UNCHANGED <<instances, db, asked>>
    BY <1>2 DEF OpenSection, KInv, IInv, Types, OneTransaction, InTransaction
  <2>2. at'[w] \in {"writing", "clear"} => KeysHold(tx)' /\ ListsKnown(w)'
    <3>. SUFFICES ASSUME at'[w] \in {"writing", "clear"} PROVE KeysHold(tx)' /\ ListsKnown(w)'
      OBVIOUS
    <3>1. PICK s \in work[w].left :
            /\ work' = [work EXCEPT ![w].left = @ \ {s}, ![w].section = s]
            /\ \/ s = Whole /\ tx' = tx
               \/ HasInstance(w) /\ tx' = [tx EXCEPT !.lists = @ \cup {<<asked[w].inst, s>>}]
      BY <1>2 DEF OpenSection, IInv, Types
    <3>2. work'[w].section = s /\ work'[w].todo = {}
      BY <2>1, <3>1 DEF IInv, Types, Working
    <3>3. CASE s = Whole /\ tx' = tx
      BY <2>1, <3>2, <3>3 DEF KeysHold, ListsKnown
    <3>4. CASE HasInstance(w) /\ tx' = [tx EXCEPT !.lists = @ \cup {<<asked[w].inst, s>>}]
      <4>1. tx'.lists = tx.lists \cup {<<asked[w].inst, s>>} /\ tx'.rows = tx.rows
        BY <3>4 DEF IInv, Types, Database
      <4>. QED  BY <2>1, <3>2, <3>4, <4>1 DEF KeysHold, ListsKnown, HasInstance
    <3>. QED  BY <3>1, <3>3, <3>4
  <2>3. \A v \in Writes \ {w} : at'[v] = at[v]
    BY <1>2 DEF OpenSection, IInv, Types
  <2>. QED  BY <2>1, <2>2, <2>3, OwnKeys
<1>3. CASE Clear(w)
  <2>1. /\ conn = w /\ KeysHold(tx) /\ ListsKnown(w) /\ at[w] = "clear" /\ work[w] \in Working
        /\ UNCHANGED <<instances, db, asked>>
    BY <1>3 DEF Clear, KInv, IInv, Types, OneTransaction, InTransaction
  <2>2. /\ at'[w] = "writing" /\ \A v \in Writes \ {w} : at'[v] = at[v]
        /\ tx'.lists = tx.lists /\ tx'.rows \subseteq tx.rows
        /\ work'[w].todo = {f \in asked[w].batch : f.list = work[w].section}
    BY <1>3, <2>1 DEF Clear, IInv, Types, Database, Working
  <2>3. KeysHold(tx)' /\ ListsKnown(w)'
    BY <2>1, <2>2 DEF KeysHold, ListsKnown
  <2>. QED  BY <2>1, <2>2, <2>3, OwnKeys
<1>4. CASE Insert(w)
  <2>1. /\ conn = w /\ KeysHold(tx) /\ ListsKnown(w) /\ at[w] = "writing" /\ work[w] \in Working
        /\ UNCHANGED <<instances, db, asked>> /\ \A v \in Writes \ {w} : at'[v] = at[v]
    BY <1>4 DEF Insert, KInv, IInv, Types, OneTransaction, InTransaction
  <2>2. at'[w] \in {"writing", "clear"} => KeysHold(tx)' /\ ListsKnown(w)'
    <3>. SUFFICES ASSUME at'[w] \in {"writing", "clear"} PROVE KeysHold(tx)' /\ ListsKnown(w)'
      OBVIOUS
    <3>1. PICK f \in work[w].todo :
            /\ ~(\E r \in tx.rows : r.inst = asked[w].inst /\ r.list = f.list /\ r.id = f.id)
            /\ HasInstance(w) /\ UNCHANGED at
            /\ tx' = [tx EXCEPT !.rows = @ \cup {RowOf(w, f)}]
            /\ work' = [work EXCEPT ![w].todo = @ \ {f}]
      BY <1>4 DEF Insert, IInv, Types
    <3>2. /\ tx'.rows = tx.rows \cup {RowOf(w, f)} /\ tx'.lists = tx.lists
          /\ work'[w].todo = work[w].todo \ {f}
      BY <2>1, <3>1 DEF IInv, Types, Database, Working
    <3>3. ListsKnown(w)'
      BY <2>1, <3>1, <3>2 DEF ListsKnown
    <3>4. KeysHold(tx)'
      BY <2>1, <3>1, <3>2 DEF KeysHold, ListsKnown, RowOf, HasInstance
    <3>. QED  BY <3>3, <3>4
  <2>. QED  BY <2>1, <2>2, OwnKeys
<1>5. CASE Commit(w)
  <2>1. conn = w /\ KeysHold(tx)
    BY <1>5 DEF Commit, KInv, IInv, OneTransaction, InTransaction
  <2>2. KeysHold(db)'
    BY <1>5, <2>1 DEF Commit, KeysHold
  <2>3. \A v \in Writes : at'[v] \notin {"writing", "clear"}
    BY <1>5, <2>1 DEF Commit, IInv, Types, OneTransaction, InTransaction
  <2>. QED  BY <2>2, <2>3 DEF KInv
<1>6. CASE Rollback(w)
  <2>1. at'[w] \notin {"writing", "clear"} /\ \A v \in Writes \ {w} : at'[v] = at[v]
    BY <1>6 DEF Rollback, IInv, Types
  <2>2. conn = w
    BY <1>6 DEF Rollback, IInv, OneTransaction, InTransaction
  <2>. QED  BY <1>6, <2>1, <2>2, OwnKeys DEF Rollback
<1>. QED  BY <1>1, <1>2, <1>3, <1>4, <1>5, <1>6 DEF Step

LEMMA OtherKeys ==
  ASSUME IInv, KInv,
         \/ \E w \in Writes : Fetch(w) \/ StatementFails(w)
         \/ Crash
         \/ \E i \in Instances : CreatePluginInstance(i) \/ DeletePluginInstance(i)
         \/ UNCHANGED vars
  PROVE  KInv'
<1>1. ASSUME NEW w \in Writes, Fetch(w) PROVE KInv'
  <2>1. KeysHold(db)' /\ (KeysHold(tx) => KeysHold(tx)')
    BY <1>1 DEF Fetch, KInv, KeysHold
  <2>2. \A v \in Writes : at'[v] \in {"writing", "clear"} =>
          v # w /\ at'[v] = at[v] /\ asked'[v] = asked[v]
    BY <1>1 DEF Fetch, IInv, Types
  <2>3. \A v \in Writes : at'[v] \in {"writing", "clear"} => ListsKnown(v)'
    BY <1>1, <2>2 DEF Fetch, KInv, ListsKnown
  <2>. QED  BY <2>1, <2>2, <2>3 DEF KInv
<1>2. ASSUME NEW w \in Writes, StatementFails(w) PROVE KInv'
  <2>1. conn = w /\ at'[w] = "failed" /\ \A v \in Writes \ {w} : at'[v] = at[v]
    BY <1>2 DEF StatementFails, IInv, Types, OneTransaction, InTransaction
  <2>. QED  BY <1>2, <2>1, OwnKeys DEF StatementFails
<1>3. CASE Crash
  BY <1>3 DEF Crash, KInv, KeysHold, IInv, Types, InTransaction
<1>4. ASSUME NEW i \in Instances, CreatePluginInstance(i) \/ DeletePluginInstance(i) PROVE KInv'
  <2>1. \A v \in Writes : at'[v] \notin {"writing", "clear"}
    BY <1>4, StoreAssumption
    DEF CreatePluginInstance, DeletePluginInstance, IInv, OneTransaction, InTransaction
  <2>2. CASE CreatePluginInstance(i)
    BY <2>1, <2>2 DEF CreatePluginInstance, KInv, KeysHold
  <2>3. CASE DeletePluginInstance(i)
    BY <2>1, <2>3 DEF DeletePluginInstance, KInv, KeysHold
  <2>. QED  BY <1>4, <2>2, <2>3
<1>5. CASE UNCHANGED vars
  BY <1>5 DEF vars, KInv, KeysHold, ListsKnown
<1>. QED  BY <1>1, <1>2, <1>3, <1>4, <1>5

\* The committed database always keeps its foreign keys and its primary key,
\* and every variable its type.
THEOREM StoreTypeCorrect == Spec => []TypeOK
<1>1. Init => IInv /\ KInv
  BY InitInv, InitKeys
<1>2. IInv /\ KInv /\ [Next]_vars => IInv' /\ KInv'
  BY NextInv, StepKeys, OtherKeys DEF Next
<1>3. IInv /\ KInv => TypeOK
  BY DEF IInv, KInv, Types, TypeOK
<1>. QED  BY <1>1, <1>2, <1>3, PTL DEF Spec

---------------------------------------------------------------------------
(* Implementation: every step is a step of the contract, or none.          *)

LEMMA InitImplements == Init => Contract!Init
BY DEF Init, Contract!Init, ResultOf, InTransaction

\* A step that only moves calls within their transaction.
LEMMA Invisible ==
  ASSUME UNCHANGED <<instances, db, asked>>,
         \A w \in Writes : ResultOf(w)' = ResultOf(w)
  PROVE  UNCHANGED Contract!vars
BY DEF Contract!vars

LEMMA FetchImplements == ASSUME IInv, NEW w \in Writes, Fetch(w) PROVE Contract!Ask(w)
<1>1. IInv'
  BY FetchInv
<1>2. at' = [at EXCEPT ![w] = "waiting"] /\ at[w] = "none" /\ at'[w] = "waiting"
      /\ UNCHANGED <<instances, db>>
  BY DEF Fetch, IInv, Types
<1>3. GoodRequest(asked[w])'
  BY <1>1, <1>2 DEF IInv, GoodRequests
<1>4. asked'[w] \in Contract!Request
  BY <1>3 DEF GoodRequest, Request, Contract!Request, Contract!Sections, Contract!Fetched, Sections, Fetched
<1>5. asked' = [asked EXCEPT ![w] = asked'[w]]
  BY DEF Fetch, IInv, Types
<1>6. [v \in Writes |-> ResultOf(v)]' = [[v \in Writes |-> ResultOf(v)] EXCEPT ![w] = "open"]
  BY <1>2 DEF ResultOf, InTransaction, IInv, Types
<1>. QED
  BY <1>2, <1>4, <1>5, <1>6 DEF Contract!Ask, ResultOf, InTransaction

LEMMA CommitImplements == ASSUME IInv, NEW w \in Writes, Commit(w) PROVE Contract!Store(w)
<1>1. /\ asked[w] \in Request /\ GoodRequest(asked[w]) /\ Progress(w)
      /\ at[w] = "writing" /\ work[w].todo = {} /\ work[w].left = {}
  BY DEF IInv, Types, GoodRequests, GoodRequest, Commit, InProgress
<1>2. Opened(w) = asked[w].scope
  BY <1>1 DEF Opened
<1>3. Done(w) = asked[w].batch
  BY <1>1, <1>2 DEF Done, GoodRequest
<1>4. db.rows' = {r \in db.rows : ~Contract!Covers(w, r)} \cup {Contract!RowOf(w, f) : f \in asked[w].batch}
  BY <1>1, <1>2, <1>3 DEF Commit, Progress, TxRows, RowOf, Contract!Covers, Contract!RowOf
<1>5. Contract!Distinct(asked[w].batch)
  BY <1>1, <1>3 DEF Progress, Contract!Distinct, Contract!Clash
<1>6. asked[w].inst \in instances \/ asked[w].batch = {}
  BY <1>1, <1>3 DEF Progress, HasInstance
<1>7. /\ [v \in Writes |-> ResultOf(v)]' = [[v \in Writes |-> ResultOf(v)] EXCEPT ![w] = "stored"]
      /\ ResultOf(w) = "open"
  BY <1>1 DEF Commit, ResultOf, InTransaction, IInv, Types
<1>. QED
  BY <1>4, <1>5, <1>6, <1>7 DEF Contract!Store, Commit

LEMMA RollbackImplements == ASSUME IInv, NEW w \in Writes, Rollback(w) PROVE Contract!Refuse(w)
<1>1. /\ [v \in Writes |-> ResultOf(v)]' = [[v \in Writes |-> ResultOf(v)] EXCEPT ![w] = "refused"]
      /\ ResultOf(w) = "open"
  BY DEF Rollback, ResultOf, InTransaction, IInv, Types
<1>. QED  BY <1>1 DEF Contract!Refuse, Rollback

LEMMA CrashImplements == ASSUME IInv, Crash PROVE Contract!Crash
<1>1. \A v \in Writes : ResultOf(v)' = IF ResultOf(v) = "open" THEN "lost" ELSE ResultOf(v)
  BY DEF Crash, ResultOf, InTransaction, IInv, Types, Places
<1>. QED  BY <1>1 DEF Contract!Crash, Crash

LEMMA WorkImplements ==
  ASSUME IInv, NEW w \in Writes,
         Begin(w) \/ OpenSection(w) \/ Clear(w) \/ Insert(w) \/ StatementFails(w)
  PROVE  UNCHANGED Contract!vars
<1>1. UNCHANGED <<instances, db, asked>>
  BY DEF Begin, OpenSection, Clear, Insert, StatementFails
<1>2. at[w] \in InTransaction \cup {"waiting"} /\ at'[w] \in InTransaction
      /\ \A v \in Writes \ {w} : at'[v] = at[v]
  <2>1. CASE Begin(w)
    BY <2>1 DEF Begin, IInv, Types, InTransaction
  <2>2. CASE OpenSection(w)
    BY <2>2 DEF OpenSection, IInv, Types, InTransaction
  <2>3. CASE Clear(w)
    BY <2>3 DEF Clear, IInv, Types, InTransaction
  <2>4. CASE Insert(w)
    BY <2>4 DEF Insert, IInv, Types, InTransaction
  <2>5. CASE StatementFails(w)
    BY <2>5 DEF StatementFails, IInv, Types, InTransaction
  <2>. QED  BY <2>1, <2>2, <2>3, <2>4, <2>5
<1>3. \A v \in Writes : ResultOf(v)' = ResultOf(v)
  BY <1>2 DEF ResultOf
<1>. QED  BY <1>1, <1>3, Invisible

LEMMA InstanceImplements ==
  ASSUME IInv, NEW i \in Instances, CreatePluginInstance(i) \/ DeletePluginInstance(i)
  PROVE  Contract!Create(i) \/ Contract!Delete(i)
<1>1. \A v \in Writes : ResultOf(v)' = ResultOf(v)
  BY DEF CreatePluginInstance, DeletePluginInstance, ResultOf
<1>2. CASE CreatePluginInstance(i)
  BY <1>1, <1>2 DEF CreatePluginInstance, Contract!Create
<1>3. CASE DeletePluginInstance(i)
  BY <1>1, <1>3 DEF DeletePluginInstance, Contract!Delete
<1>. QED  BY <1>2, <1>3

LEMMA NextImplements == IInv /\ [Next]_vars => [Contract!Next]_(Contract!vars)
<1>. SUFFICES ASSUME IInv, [Next]_vars PROVE Contract!Next \/ UNCHANGED Contract!vars
  OBVIOUS
<1>1. ASSUME NEW w \in Writes, Fetch(w) \/ Step(w) \/ StatementFails(w)
      PROVE  Contract!Next \/ UNCHANGED Contract!vars
  BY <1>1, FetchImplements, CommitImplements, RollbackImplements, WorkImplements
  DEF Step, Contract!Next
<1>2. CASE Crash
  BY <1>2, CrashImplements DEF Contract!Next
<1>3. ASSUME NEW i \in Instances, CreatePluginInstance(i) \/ DeletePluginInstance(i)
      PROVE  Contract!Next
  BY <1>3, InstanceImplements DEF Contract!Next
<1>4. CASE UNCHANGED vars
  BY <1>4, Invisible DEF vars, ResultOf
<1>. QED  BY <1>1, <1>2, <1>3, <1>4 DEF Next

\* WriteShape "replaces all rows ... in a single transaction": for any number
\* of overlapping, failing and crashing writes, ShapeStore implements the
\* contract.
THEOREM StoreReplacesAtOnce == Spec => ReplacesAtOnce
<1>1. Spec => Contract!Init /\ [][Contract!Next]_(Contract!vars)
  BY InvCorrect, InitImplements, NextImplements, PTL DEF Spec
<1>. QED  BY <1>1 DEF ReplacesAtOnce, Contract!Spec

---------------------------------------------------------------------------
(* The kiosk.                                                              *)

\* A rotation interval belongs to the layout shown.
TimerOfLayout ==
  \A t \in timers : /\ layout # NoLayout
                    /\ t.every = layout.rotation /\ t.n = layout.n

\* The screen will have been up for a whole rotation when the interval fires.
TimerInTime == \A t \in timers : shownFor + t.left >= t.every

KioskInv == KioskTypeOK /\ TimerOfLayout /\ TimerInTime
---------------------------------------------------------------------------
(* Numbers.                                                                *)

LEMMA CapType == Cap \in Nat \ {0} /\ Cap = Max(Rotations) /\ \A r \in Rotations : r <= Cap
<1>. DEFINE most == CHOOSE x \in Rotations : \A y \in Rotations : x >= y
<1>1. \E x \in Rotations : \A y \in Rotations : x >= y
  BY KioskAssumption
<1>2. most \in Rotations /\ \A y \in Rotations : most >= y
  <2>. QED
    BY <1>1
<1>3. Cap = most /\ Cap = Max(Rotations)
  BY DEF Cap, Max
<1>. HIDE DEF most
<1>. QED
  BY <1>2, <1>3, KioskAssumption

LEMMA MinOfTwo ==
  ASSUME NEW a \in Nat, NEW b \in Nat
  PROVE  Min({a, b}) = IF a <= b THEN a ELSE b
<1>. DEFINE least == CHOOSE x \in {a, b} : \A y \in {a, b} : x <= y
<1>1. \E x \in {a, b} : \A y \in {a, b} : x <= y
  OBVIOUS
<1>2. least \in {a, b} /\ \A y \in {a, b} : least <= y
  BY <1>1
<1>3. Min({a, b}) = least
  BY DEF Min
<1>. HIDE DEF least
<1>. QED
  BY <1>2, <1>3

LEMMA BlankType ==
  ASSUME NEW stage \in {"sent", "missing", "failed"}
  PROVE  Blank(stage) \in Call
<1>1. \E l \in Layout : TRUE
  <2>1. PICK r \in Rotations : TRUE
    BY KioskAssumption
  <2>2. [rotation |-> r, n |-> 0] \in Layout
    BY KioskAssumption DEF Layout
  <2>. QED
    BY <2>2
<1>2. (CHOOSE l \in Layout : TRUE) \in Layout
  BY <1>1
<1>. QED
  BY <1>2 DEF Blank, Call

\* The interval set up for a layout.
LEMMA RotationType ==
  ASSUME NEW l \in Layout
  PROVE  /\ RotationOf(l) \subseteq Timer
         /\ \A s, t \in RotationOf(l) : s = t
         /\ \A t \in RotationOf(l) : t.every = l.rotation /\ t.left = l.rotation /\ t.n = l.n
<1>1. l.rotation \in Rotations /\ l.rotation \in Nat \ {0} /\ l.n \in 0..MaxScreens
  BY KioskAssumption DEF Layout
<1>2. l.rotation \in 0..Max(Rotations)
  BY <1>1, CapType
<1>3. l.n > 1 => [left |-> l.rotation, every |-> l.rotation, n |-> l.n] \in Timer
  BY <1>1, <1>2, KioskAssumption DEF Timer
<1>. QED
  BY <1>1, <1>3 DEF RotationOf

---------------------------------------------------------------------------
LEMMA KioskInitInv == KioskInit => KioskInv
<1>. SUFFICES ASSUME KioskInit PROVE KioskInv
  OBVIOUS
<1>1. KioskTypeOK
  <2>1. calls \in [Calls -> Call \cup {NoCall}]
    BY BlankType DEF KioskInit, Send, NoCalls
  <2>2. shownFor \in 0..Cap /\ pollIn \in 0..PollTicks /\ active \in 0..MaxScreens /\ edits \in 0..MaxEdits
    BY CapType, KioskAssumption DEF KioskInit
  <2>. QED
    BY <2>1, <2>2 DEF KioskInit, KioskTypeOK
<1>2. TimerOfLayout /\ TimerInTime
  BY DEF KioskInit, TimerOfLayout, TimerInTime
<1>. QED
  BY <1>1, <1>2 DEF KioskInv

\* An interval a tick on, and one that has fired.
LEMMA TimerType ==
  ASSUME NEW t \in Timer
  PROVE  /\ t.left \in Nat /\ t.every \in Nat \ {0} /\ t.every \in 0..Max(Rotations) /\ t.n \in 2..MaxScreens
         /\ t.left > 0 => [t EXCEPT !.left = @ - 1] \in Timer
         /\ [t EXCEPT !.left = t.every] \in Timer
<1>1. t.left \in 0..Max(Rotations) /\ t.every \in Rotations /\ t.n \in 2..MaxScreens
  BY DEF Timer
<1>2. t.every \in Nat \ {0} /\ t.every \in 0..Max(Rotations)
  <2>1. t.every \in Nat \ {0} /\ t.every <= Cap
    BY <1>1, CapType, KioskAssumption
  <2>. QED
    BY <2>1, CapType
<1>3. t.left \in Nat /\ (t.left > 0 => t.left - 1 \in 0..Max(Rotations))
  BY <1>1, CapType
<1>. QED
  BY <1>1, <1>2, <1>3 DEF Timer

LEMMA CallsType ==
  ASSUME KioskTypeOK, NEW c \in Calls
  PROVE  /\ calls[c] # NoCall => calls[c] \in Call /\ calls[c].layout \in Layout
         /\ [calls EXCEPT ![c] = NoCall] \in [Calls -> Call \cup {NoCall}]
         /\ \A stage \in {"sent", "missing", "failed"} :
              /\ Send(calls, c) \in [Calls -> Call \cup {NoCall}]
              /\ [calls EXCEPT ![c] = Blank(stage)] \in [Calls -> Call \cup {NoCall}]
  BY BlankType DEF KioskTypeOK, Call, Send

\* A tick takes one from every interval, and adds one to the time of the
\* screen, up to the cap.
LEMMA TickEffect ==
  ASSUME KioskTypeOK, Tick
  PROVE  /\ UNCHANGED <<exists, server, edits, layout, error, notFound, active, calls>>
         /\ timers' \subseteq Timer /\ \A u, v \in timers' : u = v
         /\ \A u \in timers' : \E t \in timers :
              /\ t \in Timer /\ t.left > 0
              /\ u.left = t.left - 1 /\ u.every = t.every /\ u.n = t.n
         /\ shownFor' = IF shownFor + 1 <= Cap THEN shownFor + 1 ELSE Cap
         /\ pollIn' \in 0..PollTicks
<1>1. timers \subseteq Timer /\ (\A u, v \in timers : u = v) /\ \A t \in timers : t.left > 0
  BY DEF KioskTypeOK, Tick
<1>2. timers' = {[t EXCEPT !.left = @ - 1] : t \in timers}
  BY DEF Tick
<1>3. \A t \in timers : [t EXCEPT !.left = @ - 1] \in Timer
  BY <1>1, TimerType
<1>4. \A u \in timers' : \E t \in timers : u = [t EXCEPT !.left = @ - 1]
  BY <1>2
<1>5. \A u \in timers' : \E t \in timers :
        /\ t \in Timer /\ t.left > 0
        /\ u.left = t.left - 1 /\ u.every = t.every /\ u.n = t.n
  BY <1>1, <1>4 DEF Timer
<1>6. timers' \subseteq Timer /\ \A u, v \in timers' : u = v
  BY <1>1, <1>3, <1>4
<1>7. shownFor + 1 \in Nat /\ Cap \in Nat
  BY CapType DEF KioskTypeOK
<1>8. shownFor' = IF shownFor + 1 <= Cap THEN shownFor + 1 ELSE Cap
  BY <1>7, MinOfTwo DEF Tick
<1>9. pollIn' \in 0..PollTicks
  BY KioskAssumption DEF Tick, KioskTypeOK
<1>. QED
  BY <1>5, <1>6, <1>8, <1>9 DEF Tick

\* The interval that fires is the only one, and begins anew.
LEMMA RotateEffect ==
  ASSUME KioskTypeOK, Rotate
  PROVE  /\ UNCHANGED <<exists, server, edits, layout, error, notFound, pollIn, calls>>
         /\ \E t \in timers :
              /\ t \in Timer /\ t.left = 0
              /\ active' = (active + 1) % t.n
              /\ timers' = {[t EXCEPT !.left = t.every]}
         /\ active' \in 0..MaxScreens /\ timers' \subseteq Timer
         /\ shownFor' \in {0, shownFor} /\ shownFor' \in 0..Cap
<1>1. PICK t \in timers :
        /\ t.left = 0
        /\ active' = (active + 1) % t.n
        /\ timers' = (timers \ {t}) \cup {[t EXCEPT !.left = t.every]}
  BY DEF Rotate
<1>2. t \in Timer /\ timers \ {t} = {}
  BY DEF KioskTypeOK
<1>3. timers' = {[t EXCEPT !.left = t.every]}
  BY <1>1, <1>2
<1>4. t.n \in 2..MaxScreens /\ [t EXCEPT !.left = t.every] \in Timer
  BY <1>2, TimerType
<1>5. (active + 1) % t.n \in 0..MaxScreens
  <2>1. active \in Nat /\ t.n \in Nat \ {0} /\ t.n <= MaxScreens /\ MaxScreens \in Nat
    BY <1>4, KioskAssumption DEF KioskTypeOK
  <2>. QED
    BY <2>1
<1>6. shownFor' \in {0, shownFor} /\ shownFor' \in 0..Cap
  BY CapType DEF Rotate, KioskTypeOK
<1>. QED
  BY <1>1, <1>2, <1>3, <1>4, <1>5, <1>6 DEF Rotate

LEMMA LoadedEffect ==
  ASSUME KioskTypeOK, NEW c \in Calls, Loaded(c)
  PROVE  /\ layout' \in Layout /\ timers' = RotationOf(layout')
         /\ calls' \in [Calls -> Call \cup {NoCall}]
         /\ UNCHANGED <<exists, server, edits, active, pollIn>>
         /\ error' = FALSE /\ notFound' = FALSE
         /\ shownFor' \in {0, shownFor} /\ shownFor' \in 0..Cap
         /\ timers' \subseteq Timer /\ \A u, v \in timers' : u = v
<1>1. calls[c] # NoCall /\ layout' = calls[c].layout /\ calls' = [calls EXCEPT ![c] = NoCall]
  BY DEF Loaded
<1>2. /\ layout' \in Layout /\ timers' = RotationOf(layout')
      /\ calls' \in [Calls -> Call \cup {NoCall}]
  BY <1>1, CallsType DEF Loaded
<1>3. shownFor' \in {0, shownFor} /\ shownFor' \in 0..Cap
  BY CapType DEF Loaded, KioskTypeOK
<1>4. timers' \subseteq Timer /\ \A u, v \in timers' : u = v
  BY <1>2, RotationType
<1>. QED
  BY <1>2, <1>3, <1>4 DEF Loaded

---------------------------------------------------------------------------
LEMMA KioskTypeStep == ASSUME KioskInv, [KioskNext]_kiosk PROVE KioskTypeOK'
<1>. USE KioskAssumption DEF KioskInv, KioskTypeOK
<1>1. CASE Tick
  <2>1. shownFor' \in 0..Cap
    BY <1>1, TickEffect, CapType
  <2>. QED
    BY <1>1, <2>1, TickEffect
<1>2. CASE Rotate
  <2>1. /\ active' \in 0..MaxScreens /\ timers' \subseteq Timer
        /\ shownFor' \in 0..Cap /\ \A u, v \in timers' : u = v
    BY <1>2, RotateEffect
  <2>. QED
    BY <1>2, <2>1, RotateEffect
<1>3. CASE Poll
  <2>1. calls' \in [Calls -> Call \cup {NoCall}]
    BY <1>3, CallsType DEF Poll
  <2>. QED
    BY <1>3, <2>1 DEF Poll
<1>4. ASSUME NEW c \in Calls, ReadDisplay(c) PROVE KioskTypeOK'
  <2>1. calls[c] # NoCall /\ calls[c] \in Call
    BY <1>4 DEF ReadDisplay
  <2>2. calls' \in [Calls -> Call \cup {NoCall}]
    <3>1. CASE exists
      <4>. DEFINE new == [calls[c] EXCEPT !.at = "read", !.layout.rotation = server.rotation]
      <4>1. new \in Call
        BY <2>1 DEF Call, Layout
      <4>2. calls' = [calls EXCEPT ![c] = new]
        BY <1>4, <3>1 DEF ReadDisplay
      <4>. HIDE DEF new
      <4>. QED
        BY <4>1, <4>2
    <3>2. CASE ~exists
      BY <1>4, <3>2, CallsType DEF ReadDisplay
    <3>. QED
      BY <3>1, <3>2
  <2>. QED
    BY <1>4, <2>2 DEF ReadDisplay, browser
<1>5. ASSUME NEW c \in Calls, ReadScreens(c) PROVE KioskTypeOK'
  <2>1. calls[c] # NoCall /\ calls[c] \in Call
    BY <1>5 DEF ReadScreens
  <2>2. calls' \in [Calls -> Call \cup {NoCall}]
    <3>. DEFINE k == IF exists THEN server.n ELSE 0
                new == [calls[c] EXCEPT !.at = "ok", !.layout.n = k]
    <3>1. k \in 0..MaxScreens
      BY DEF Layout
    <3>2. calls' = [calls EXCEPT ![c].at = "ok", ![c].layout.n = k]
      BY <1>5 DEF ReadScreens
    <3>. HIDE DEF k
    <3>3. new \in Call
      BY <2>1, <3>1 DEF Call, Layout
    <3>4. calls' = [calls EXCEPT ![c] = new]
      BY <3>2
    <3>. HIDE DEF new
    <3>. QED
      BY <3>3, <3>4
  <2>. QED
    BY <1>5, <2>2 DEF ReadScreens, browser
<1>6. ASSUME NEW c \in Calls, Loaded(c) PROVE KioskTypeOK'
  BY <1>6, LoadedEffect
<1>7. ASSUME NEW c \in Calls, NotLoaded(c) PROVE KioskTypeOK'
  <2>1. calls' \in [Calls -> Call \cup {NoCall}]
    BY <1>7, CallsType DEF NotLoaded
  <2>. QED
    BY <1>7, <2>1 DEF NotLoaded
<1>8. ASSUME NEW c \in Calls, Lose(c) PROVE KioskTypeOK'
  <2>1. calls' \in [Calls -> Call \cup {NoCall}]
    BY <1>8, CallsType DEF Lose
  <2>. QED
    BY <1>8, <2>1 DEF Lose, browser
<1>9. CASE EditDisplay
  BY <1>9 DEF EditDisplay, Edit, browser
<1>10. CASE DeleteDisplay
  <2>1. edits' \in 0..MaxEdits /\ exists' = FALSE
    BY <1>10 DEF DeleteDisplay, Edit
  <2>. QED
    BY <1>10, <2>1 DEF DeleteDisplay, browser
<1>11. CASE Reload
  <2>1. calls' \in [Calls -> Call \cup {NoCall}]
    BY <1>11, BlankType DEF Reload, Send, NoCalls
  <2>2. edits' \in 0..MaxEdits /\ 0 \in 0..Cap
    BY <1>11, CapType DEF Reload, Edit
  <2>3. pollIn' \in 0..PollTicks /\ active' \in 0..MaxScreens
    BY <1>11 DEF Reload
  <2>. QED
    BY <1>11, <2>1, <2>2, <2>3 DEF Reload
<1>12. CASE UNCHANGED kiosk
  BY <1>12 DEF kiosk, browser
<1>. QED
  BY <1>1, <1>2, <1>3, <1>4, <1>5, <1>6, <1>7, <1>8,
     <1>9, <1>10, <1>11, <1>12
  DEF KioskNext, Serve, Load, Fail

LEMMA TimerStep == ASSUME KioskInv, [KioskNext]_kiosk PROVE TimerOfLayout' /\ TimerInTime'
<1>. USE DEF KioskInv, TimerOfLayout, TimerInTime
<1>1. CASE Tick
  <2>1. shownFor \in Nat /\ Cap \in Nat
    BY CapType DEF KioskTypeOK
  <2>2. ASSUME NEW u \in timers'
        PROVE  /\ layout' # NoLayout
               /\ u.every = layout'.rotation /\ u.n = layout'.n
               /\ shownFor' + u.left >= u.every
    <3>1. PICK t \in timers : /\ t \in Timer /\ t.left > 0
                              /\ u.left = t.left - 1 /\ u.every = t.every /\ u.n = t.n
      BY <1>1, <2>2, TickEffect
    <3>2. t.left \in Nat /\ t.every \in Nat /\ t.every <= Cap
      BY <3>1, TimerType, CapType DEF Timer
    <3>3. shownFor + t.left >= t.every
      BY <3>1
    <3>4. shownFor' + u.left >= u.every
      BY <1>1, <2>1, <3>1, <3>2, <3>3, TickEffect
    <3>. QED
      BY <1>1, <3>1, <3>4, TickEffect
  <2>. QED
    BY <2>2
<1>2. CASE Rotate
  <2>1. PICK t \in timers : /\ t \in Timer /\ timers' = {[t EXCEPT !.left = t.every]}
    BY <1>2, RotateEffect
  <2>. DEFINE u == [t EXCEPT !.left = t.every]
  <2>2. u.left = t.every /\ u.every = t.every /\ u.n = t.n /\ t.every \in Nat
    BY <2>1, TimerType DEF Timer
  <2>. HIDE DEF u
  <2>3. timers' = {u} /\ layout' = layout
    BY <1>2, <2>1, RotateEffect DEF u
  <2>4. shownFor' \in Nat
    BY <1>2, RotateEffect, CapType
  <2>. QED
    BY <2>2, <2>3, <2>4
<1>3. CASE Poll
  BY <1>3 DEF Poll, browser
<1>4. ASSUME NEW c \in Calls, ReadDisplay(c) PROVE TimerOfLayout' /\ TimerInTime'
  BY <1>4 DEF ReadDisplay, browser
<1>5. ASSUME NEW c \in Calls, ReadScreens(c) PROVE TimerOfLayout' /\ TimerInTime'
  BY <1>5 DEF ReadScreens, browser
<1>6. ASSUME NEW c \in Calls, Loaded(c) PROVE TimerOfLayout' /\ TimerInTime'
  <2>1. shownFor' \in Nat
    <3>1. shownFor' \in 0..Cap
      BY <1>6, LoadedEffect
    <3>. QED
      BY <3>1, CapType
  <2>2. layout' \in Layout /\ timers' = RotationOf(layout') /\ layout'.rotation \in Nat
    BY <1>6, LoadedEffect, KioskAssumption DEF Layout
  <2>3. layout' # NoLayout
    BY <2>2, SentinelAssumption
  <2>. QED
    BY <2>1, <2>2, <2>3, RotationType
<1>7. ASSUME NEW c \in Calls, NotLoaded(c) PROVE TimerOfLayout' /\ TimerInTime'
  BY <1>7 DEF NotLoaded, browser
<1>8. ASSUME NEW c \in Calls, Lose(c) PROVE TimerOfLayout' /\ TimerInTime'
  BY <1>8 DEF Lose, browser
<1>9. CASE EditDisplay
  BY <1>9 DEF EditDisplay, browser
<1>10. CASE DeleteDisplay
  BY <1>10 DEF DeleteDisplay, browser
<1>11. CASE Reload
  BY <1>11 DEF Reload, browser
<1>12. CASE UNCHANGED kiosk
  BY <1>12 DEF kiosk, browser
<1>. QED
  BY <1>1, <1>2, <1>3, <1>4, <1>5, <1>6, <1>7, <1>8,
     <1>9, <1>10, <1>11, <1>12
  DEF KioskNext, Serve, Load, Fail

---------------------------------------------------------------------------
(* Theorems.                                                               *)

\* The inductive invariant: types, and the interval's two relations.
THEOREM KioskInvCorrect == KioskSpec => []KioskInv
<1>1. KioskInv /\ [KioskNext]_kiosk => KioskInv'
  BY KioskTypeStep, TimerStep DEF KioskInv
<1>. QED
  BY KioskInitInv, <1>1, PTL DEF KioskSpec

\* Every reachable state is well typed, and one rotation interval runs at most
\* (the cleanup of DisplayApp's rotation effect).
THEOREM KioskTypeCorrect == KioskSpec => []KioskTypeOK
  BY KioskInvCorrect, PTL DEF KioskInv

\* A screen stays up for a whole rotation, with any number of calls, screens
\* and edits (DisplayApp's rotation effect).
THEOREM StaysUp == KioskSpec => StaysItsTime
<1>1. KioskInv /\ [KioskNext]_kiosk =>
        [layout' = layout /\ Shown' # Shown => shownFor >= layout.rotation]_kiosk
  <2>. SUFFICES ASSUME KioskInv, KioskNext, layout' = layout, Shown' # Shown
                PROVE  shownFor >= layout.rotation
    OBVIOUS
  <2>1. CASE Rotate
    <3>1. PICK t \in timers : t \in Timer /\ t.left = 0
      BY <2>1, RotateEffect DEF KioskInv
    <3>2. shownFor + t.left >= t.every /\ t.every = layout.rotation
      BY DEF KioskInv, TimerInTime, TimerOfLayout
    <3>3. shownFor \in Nat
      BY CapType DEF KioskInv, KioskTypeOK
    <3>. QED
      BY <3>1, <3>2, <3>3
  <2>2. active' = active => Shown' = Shown
    BY DEF Shown
  <2>3. CASE Tick \/ Poll \/ Serve \/ Load \/ Fail \/ \E c \in Calls : Lose(c)
    BY <2>2, <2>3 DEF Tick, Poll, Serve, ReadDisplay, ReadScreens, Load, Loaded, Fail,
       NotLoaded, Lose, browser
  <2>4. CASE EditDisplay \/ DeleteDisplay
    BY <2>2, <2>4 DEF EditDisplay, DeleteDisplay, browser
  <2>5. CASE Reload
    BY <2>5 DEF Reload, Shown
  <2>. QED
    BY <2>1, <2>3, <2>4, <2>5 DEF KioskNext
<1>. QED
  BY KioskInvCorrect, <1>1, PTL DEF KioskSpec, StaysItsTime
=============================================================================
