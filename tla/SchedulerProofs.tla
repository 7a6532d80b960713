--------------------------- MODULE SchedulerProofs ---------------------------
(***************************************************************************)
(* Proofs about Scheduler, for every number of instances, plugins, loops   *)
(* and admin requests.  The inductive invariant adds to the properties     *)
(* which process may be at which label, who owns Scheduler.mu, and that an *)
(* instance being restarted has no entry in Scheduler.running.             *)
(***************************************************************************)
EXTENDS Scheduler, TLAPS

\* Labels at which a process is working on an instance.
Busy == FetchPC \cup {"tick", "update", "token", "configure", "reject"}

\* Each kind of process stays at its own labels, and has a job where it uses it.
Control ==
  /\ \A l \in Loops : pc[l] \in FetchPC \cup {"free", "tick"}
  /\ \A a \in Admins : pc[a] \in FetchPC \cup ReloadPC \cup {"idle", "update"}
  /\ pc[Main] \in ReloadPC \cup {"serve", "stop", "drain", "closed"}
  /\ \A p \in Procs : pc[p] \in Busy => job[p] \in Job

\* Scheduler.mu is held by exactly the caller inside Reload's critical section.
MuExclusive == \A p \in Callers : mu = p <=> pc[p] \in HoldsMu

\* While a process fetches, the shared object carries its config.
ObjectConfigured ==
  \A p \in Fetchers : pc[p] = "fetch" => obj[job[p].plugin] = job[p].config

\* Reload has already dropped the old loop of the instance it is restarting.
OldLoopDropped ==
  \A p \in Callers :
    pc[p] \in {"token", "configure", "reject"} => running[job[p].id] = None

\* Stop is only reached through the signal.
StopAfterSignal == pc[Main] \in {"stop", "drain", "closed"} => root

TypeInv == TypeOK /\ Control

\* FetchUsesOwnConfig is not inductive alone: it needs to know what the shared
\* object holds while the lock is held.  NoLeakedLoop needs the mutual exclusion
\* of Reloads and that ReloadStart overwrites no live entry of running.
\* StopCancelsAll needs that Stop comes after the signal, so that a loop started
\* late is born cancelled.
Safety ==
  /\ MuExclusive /\ OldLoopDropped /\ NoLeakedLoop
  /\ PluginExclusive /\ ObjectConfigured /\ FetchUsesOwnConfig
  /\ StopAfterSignal /\ StopCancelsAll
  /\ NoOrphanRows

IInv == TypeInv /\ Safety

---------------------------------------------------------------------------
LEMMA ProcFacts ==
  /\ Procs = Loops \cup Callers /\ Callers = Admins \cup {Main}
  /\ Fetchers = Loops \cup Admins
  /\ \A l \in Loops : l \notin Callers /\ l \notin Admins /\ l # Main
  /\ Main \notin Fetchers /\ None \notin Procs
  BY SchedulerAssumption DEF Procs, Callers, Fetchers

LEMMA InitType == Init => TypeInv
<1> SUFFICES ASSUME Init PROVE TypeInv
  OBVIOUS
<1>1. pc \in [Procs -> PC]
  BY DEF Init, PC, ReloadPC
<1>2. TypeOK
  BY <1>1, ProcFacts DEF Init, TypeOK
<1>3. Control
  BY ProcFacts DEF Init, Control, ReloadPC, FetchPC, Busy
<1> QED BY <1>2, <1>3 DEF TypeInv

\* The snapshot Reload takes consists of jobs.
LEMMA WantedType == ASSUME TypeOK PROVE Wanted \subseteq Job
  BY SchedulerAssumption DEF TypeOK, Wanted, JobOf, Row, Job

LEMMA RequestType ==
  ASSUME TypeInv, NEW a \in Admins, Request(a) \/ UpdateWrite(a)
  PROVE  TypeInv'
<1> USE SchedulerAssumption
    DEF TypeInv, TypeOK, Control, Procs, Callers, Fetchers, FetchPC, ReloadPC,
        PC, Busy, Goto, Accept, dbVars, schedVars, regVars, workVars
<1>1. CASE Create(a)
  <2>1. PICK g \in Registered, c \in Configs, e \in BOOLEAN :
          row' = [row EXCEPT ![NewId] = [plugin |-> g, config |-> c, enabled |-> e]]
    BY <1>1 DEF Create
  <2>2. [plugin |-> g, config |-> c, enabled |-> e] \in Row
    BY DEF Row
  <2>3. row' \in [Ids -> Row \cup {NoRow}]
    BY <2>1, <2>2
  <2> QED BY <1>1, <2>3 DEF Create
<1>2. CASE UpdateRead(a)
  BY <1>2 DEF UpdateRead, Row, Job
<1>3. CASE UpdateWrite(a)
  <2>1. job[a] \in Job
    BY <1>3 DEF UpdateWrite
  <2>2. row' \in [Ids -> Row \cup {NoRow}]
    <3>1. CASE ~Found(job[a].id)
      BY <1>3, <3>1 DEF UpdateWrite
    <3>2. CASE Found(job[a].id)
      <4> DEFINE i == job[a].id
                 r(e) == [row[i] EXCEPT !.config = job[a].config, !.enabled = e]
      <4>1. i \in Ids /\ row[i] \in Row
        BY <2>1, <3>2 DEF Job, Found
      <4>2. PICK e \in BOOLEAN : row' = [row EXCEPT ![i] = r(e)]
        BY <1>3, <3>2, <4>1 DEF UpdateWrite
      <4>3. r(e) \in Row
        BY <2>1, <4>1 DEF Row, Job
      <4> QED BY <4>1, <4>2, <4>3
    <3> QED BY <3>1, <3>2
  <2>3. job' = [job EXCEPT ![a] = NoJob]
    BY <1>3 DEF UpdateWrite
  <2>4. \E label \in {"load", "idle"} : pc' = [pc EXCEPT ![a] = label]
    BY <1>3 DEF UpdateWrite
  <2>5. UNCHANGED <<outcome, table, mu, running, cancelled, root, lock, obj, todo, fetched, left>>
    BY <1>3 DEF UpdateWrite
  <2> QED BY <2>2, <2>3, <2>4, <2>5
<1>4. CASE Delete(a)
  BY <1>4 DEF Delete
<1>5. CASE Reauthorize(a)
  BY <1>5 DEF Reauthorize
<1>6. CASE TestInstance(a)
  BY <1>6 DEF TestInstance, JobOf, Row, Job
<1> QED BY <1>1, <1>2, <1>3, <1>4, <1>5, <1>6 DEF Request

LEMMA ReloadType ==
  ASSUME TypeInv, NEW p \in Callers, ReloadStep(p)
  PROVE  TypeInv'
<1> USE SchedulerAssumption
    DEF TypeInv, TypeOK, Control, Procs, Callers, Fetchers, FetchPC, ReloadPC,
        PC, Busy, Goto, AfterReload, dbVars, schedVars, regVars, workVars
<1>1. CASE ReloadLoad(p)
  <2>1. todo' \in [Callers -> SUBSET Job]
    BY <1>1, WantedType DEF ReloadLoad
  <2>2. \E label \in {"lock", AfterReload(p)} : pc' = [pc EXCEPT ![p] = label]
    BY <1>1 DEF ReloadLoad
  <2>3. UNCHANGED <<dbVars, schedVars, regVars, job, workVars>>
    BY <1>1 DEF ReloadLoad
  <2> QED BY <2>1, <2>2, <2>3
<1>2. CASE ReloadLock(p)
  BY <1>2 DEF ReloadLock, Cancel
<1>3. CASE ReloadEach(p)
  <2>1. PICK j \in todo[p] :
          /\ running' = [running EXCEPT ![j.id] = None]
          /\ todo' = [todo EXCEPT ![p] = @ \ {j}]
          /\ \/ job' = [job EXCEPT ![p] = j] /\ pc' = [pc EXCEPT ![p] = "token"]
             \/ UNCHANGED <<job, pc>>
    BY <1>3 DEF ReloadEach
  <2>2. j \in Job
    BY <2>1
  <2>3. cancelled' \subseteq Loops
    BY <1>3 DEF ReloadEach, Cancel
  <2>4. UNCHANGED <<row, outcome, table, mu, root, lock, obj, fetched, left>>
    BY <1>3 DEF ReloadEach
  <2>5. TypeOK'
    <3>1. running' \in [Ids -> Loops \cup {None}] /\ todo' \in [Callers -> SUBSET Job]
      BY <2>1, <2>2
    <3>2. pc' \in [Procs -> PC] /\ job' \in [Procs -> Job \cup {NoJob}]
      BY <2>1, <2>2
    <3> QED BY <3>1, <3>2, <2>3, <2>4
  <2>6. Control'
    <3>1. CASE UNCHANGED <<job, pc>>
      BY <3>1
    <3>2. CASE job' = [job EXCEPT ![p] = j] /\ pc' = [pc EXCEPT ![p] = "token"]
      BY <3>2, <2>2
    <3> QED BY <2>1, <3>1, <3>2
  <2> QED BY <2>5, <2>6
<1>4. CASE ReloadResolve(p)
  BY <1>4 DEF ReloadResolve
<1>5. CASE ReloadConfigureFails(p)
  BY <1>5 DEF ReloadConfigureFails, Job
<1>6. CASE ReloadStart(p)
  <2>1. job[p] \in Job
    BY <1>6 DEF ReloadStart
  <2>2. obj' \in [Plugins -> Configs \cup {Empty}]
    BY <1>6, <2>1 DEF ReloadStart, Job
  <2>3. PICK l \in Loops :
          /\ running' = [running EXCEPT ![job[p].id] = l]
          /\ cancelled' = IF root THEN cancelled \cup {l} ELSE cancelled
          /\ pc' = [pc EXCEPT ![p] = "each", ![l] = "resolve"]
          /\ job' = [job EXCEPT ![p] = NoJob, ![l] = job[p]]
    BY <1>6 DEF ReloadStart
  <2>4. UNCHANGED <<row, outcome, table, mu, root, lock, todo, fetched, left>>
    BY <1>6 DEF ReloadStart
  <2>5. TypeOK'
    BY <2>1, <2>2, <2>3, <2>4
  <2>6. Control'
    <3>1. \A k \in Procs : pc'[k] = IF k = l THEN "resolve" ELSE IF k = p THEN "each" ELSE pc[k]
      BY <2>3
    <3>2. \A k \in Procs : job'[k] = IF k = l THEN job[p] ELSE IF k = p THEN NoJob ELSE job[k]
      BY <2>3
    <3>3. \A k \in Procs : pc'[k] \in Busy => job'[k] \in Job
      BY <2>1, <3>1, <3>2
    <3> QED BY <3>1, <3>3, ProcFacts
  <2> QED BY <2>5, <2>6
<1>7. CASE ReloadReject(p)
  BY <1>7 DEF ReloadReject, RecordOutcome
<1>8. CASE ReloadDone(p)
  BY <1>8 DEF ReloadDone
<1> QED
  BY <1>1, <1>2, <1>3, <1>4, <1>5, <1>6, <1>7, <1>8 DEF ReloadStep

\* Both ways a fetch can end leave the process well typed.
LEMMA FinishType ==
  ASSUME TypeInv, NEW p \in Fetchers, FinishFetch(p), pc[p] \in FetchPC,
         outcome' \in [Ids -> {"none", "ok", "error"}],
         UNCHANGED <<row, table, schedVars, regVars, todo>>
  PROVE  TypeInv'
<1> USE SchedulerAssumption
    DEF TypeInv, TypeOK, Control, Procs, Callers, Fetchers, FetchPC, ReloadPC,
        PC, Busy, Goto, AfterFetch, schedVars, regVars
<1>1. fetched' \in [Fetchers -> Configs \cup {Empty}] /\ left' \in [Fetchers -> SUBSET Shapes]
  BY DEF FinishFetch
<1>2. CASE p \in Loops
  BY <1>1, <1>2 DEF FinishFetch
<1>3. CASE p \in Admins
  BY <1>1, <1>3 DEF FinishFetch
<1> QED BY <1>2, <1>3

LEMMA FetchType ==
  ASSUME TypeInv, NEW p \in Fetchers, FetchStep(p)
  PROVE  TypeInv'
<1> USE SchedulerAssumption
    DEF TypeInv, TypeOK, Control, Procs, Callers, Fetchers, FetchPC, ReloadPC,
        PC, Busy, Goto, AfterFetch, dbVars, schedVars, regVars, workVars
<1>1. CASE Resolve(p)
  <2>1. \E label \in {"queue", "failed"} : pc' = [pc EXCEPT ![p] = label]
    BY <1>1 DEF Resolve
  <2>2. UNCHANGED <<dbVars, schedVars, regVars, job, todo, workVars>>
    BY <1>1 DEF Resolve
  <2>3. pc[p] = "resolve"
    BY <1>1 DEF Resolve
  <2> QED BY <2>1, <2>2, <2>3
<1>2. CASE FetchStart(p)
  BY <1>2 DEF FetchStart, Job
<1>3. CASE FetchConfigureFails(p)
  BY <1>3 DEF FetchConfigureFails, Job
<1>4. CASE FetchReturn(p)
  <2>1. job[p] \in Job /\ lock' = [lock EXCEPT ![job[p].plugin] = None]
    BY <1>4 DEF FetchReturn
  <2>2. fetched' \in [Fetchers -> Configs \cup {Empty}]
    <3>1. obj[job[p].plugin] \in Configs \cup {Empty}
      BY <2>1 DEF Job
    <3>2. \/ UNCHANGED fetched
          \/ \E r \in {obj[job[p].plugin], Empty} : fetched' = [fetched EXCEPT ![p] = r]
      BY <1>4 DEF FetchReturn
    <3> QED BY <3>1, <3>2
  <2>3. left' \in [Fetchers -> SUBSET Shapes]
    BY <1>4 DEF FetchReturn
  <2>4. \E label \in {"write", "failed"} : pc' = [pc EXCEPT ![p] = label]
    BY <1>4 DEF FetchReturn
  <2>5. UNCHANGED <<dbVars, schedVars, obj, job, todo>>
    BY <1>4 DEF FetchReturn
  <2>6. TypeOK'
    <3>1. lock' \in [Plugins -> Fetchers \cup {None}]
      BY <2>1
    <3>2. pc' \in [Procs -> PC]
      BY <2>4
    <3> QED BY <2>2, <2>3, <2>5, <3>1, <3>2
  <2>7. Control'
    <3>1. UNCHANGED job /\ pc[p] \in FetchPC
      BY <1>4 DEF FetchReturn
    <3>2. PICK label \in {"write", "failed"} : pc' = [pc EXCEPT ![p] = label]
      BY <2>4
    <3>3. \A k \in Procs : pc'[k] = IF k = p THEN label ELSE pc[k]
      BY <3>2
    <3> QED BY <2>1, <3>1, <3>3, ProcFacts
  <2> QED BY <2>6, <2>7
<1>5. CASE WriteShape(p)
  <2>1. job[p] \in Job /\ pc[p] = "write"
    BY <1>5 DEF WriteShape
  <2>2. table' \in [Ids -> [Shapes -> Configs \cup {Empty}]]
    <3>1. job[p].id \in Ids /\ fetched[p] \in Configs \cup {Empty}
      BY <2>1 DEF Job
    <3>2. CASE UNCHANGED table
      BY <3>2
    <3> DEFINE s == CHOOSE s \in left[p] : \A t \in left[p] : s <= t
    <3>3. CASE table' = [table EXCEPT ![job[p].id][s] = fetched[p]]
      <4> HIDE DEF s
      <4> QED BY <3>1, <3>3
    <3>4. \/ UNCHANGED table
          \/ table' = [table EXCEPT ![job[p].id][s] = fetched[p]]
      BY <1>5 DEF WriteShape
    <3> QED BY <3>2, <3>3, <3>4
  <2>3. left' \in [Fetchers -> SUBSET Shapes]
    BY <1>5 DEF WriteShape
  <2>4. \E label \in {"write", "failed"} : pc' = [pc EXCEPT ![p] = label]
    BY <1>5, <2>1 DEF WriteShape
  <2>5. UNCHANGED <<row, outcome, schedVars, regVars, job, todo, fetched>>
    BY <1>5 DEF WriteShape
  <2> QED BY <2>1, <2>2, <2>3, <2>4, <2>5
<1>6. CASE RecordSuccess(p)
  BY <1>6, FinishType DEF RecordSuccess, RecordOutcome
<1>7. CASE RecordError(p)
  BY <1>7, FinishType DEF RecordError, RecordOutcome
<1> QED
  BY <1>1, <1>2, <1>3, <1>4, <1>5, <1>6, <1>7 DEF FetchStep

LEMMA OtherType ==
  ASSUME TypeInv,
         (\E l \in Loops : LoopTick(l) \/ LoopExit(l)) \/ Signal \/ Shutdown
  PROVE  TypeInv'
<1> USE SchedulerAssumption
    DEF TypeInv, TypeOK, Control, Procs, Callers, Fetchers, FetchPC, ReloadPC,
        PC, Busy, Goto, Cancel, dbVars, schedVars, regVars, workVars
<1>1. CASE \E l \in Loops : LoopTick(l)
  BY <1>1 DEF LoopTick
<1>2. CASE \E l \in Loops : LoopExit(l)
  BY <1>2 DEF LoopExit
<1>3. CASE Signal
  BY <1>3 DEF Signal
<1>4. CASE Shutdown
  <2>1. CASE MainReturn
    BY <2>1 DEF MainReturn
  <2>2. CASE StopCancel
    BY <2>2 DEF StopCancel
  <2>3. CASE StopReturn
    BY <2>3 DEF StopReturn
  <2> QED BY <1>4, <2>1, <2>2, <2>3 DEF Shutdown
<1> QED BY <1>1, <1>2, <1>3, <1>4

LEMMA TypeStep == TypeInv /\ [Next]_vars => TypeInv'
<1> SUFFICES ASSUME TypeInv, [Next]_vars PROVE TypeInv'
  OBVIOUS
<1>1. CASE UNCHANGED vars
  BY <1>1 DEF TypeInv, TypeOK, Control, vars, dbVars, schedVars, regVars, workVars
<1>2. CASE Terminated
  BY <1>1, <1>2 DEF Terminated
<1> QED
  BY <1>1, <1>2, RequestType, ReloadType, FetchType, OtherType DEF Next

\* Every reachable state is well typed, and every process is at one of its own
\* labels with a job where it needs one (the whole of internal/scheduler).
THEOREM TypeCorrect == Spec => []TypeOK
<1>1. Init => TypeInv
  BY InitType
<1>2. TypeInv /\ [Next]_vars => TypeInv'
  BY TypeStep
<1>3. TypeInv => TypeOK
  BY DEF TypeInv
<1> QED BY <1>1, <1>2, <1>3, PTL DEF Spec

---------------------------------------------------------------------------
(* The safety properties.                                                  *)

LEMMA RequestSafe ==
  ASSUME IInv, TypeInv', NEW a \in Admins, Request(a) \/ UpdateWrite(a)
  PROVE  Safety'
<1> USE SchedulerAssumption
    DEF IInv, TypeInv, TypeOK, Control, Safety, MuExclusive, OldLoopDropped,
        NoLeakedLoop, PluginExclusive, ObjectConfigured, FetchUsesOwnConfig,
        StopAfterSignal, StopCancelsAll, NoOrphanRows, Procs, Callers, Fetchers,
        FetchPC, ReloadPC, HoldsMu, Busy, Goto, Alive, dbVars, schedVars, regVars,
        workVars
<1>1. CASE Create(a)
  BY <1>1 DEF Create, Accept, Row
<1>2. CASE UpdateRead(a)
  BY <1>2 DEF UpdateRead, Accept
<1>3. CASE UpdateWrite(a)
  <2>1. job[a] \in Job /\ pc[a] = "update"
    BY <1>3 DEF UpdateWrite
  <2>2. \A i \in Ids : row'[i] = NoRow => row[i] = NoRow
    <3>1. CASE Found(job[a].id)
      <4> DEFINE r(e) == [row[job[a].id] EXCEPT !.config = job[a].config, !.enabled = e]
      <4>1. PICK e \in BOOLEAN : row' = [row EXCEPT ![job[a].id] = r(e)]
        BY <1>3, <3>1 DEF UpdateWrite
      <4>2. job[a].id \in Ids /\ row[job[a].id] \in Row
        BY <2>1, <3>1 DEF Job, Found
      <4>3. r(e) \in Row
        BY <2>1, <4>2 DEF Row, Job
      <4> HIDE DEF r
      <4>4. r(e) # NoRow
        BY <4>3
      <4> QED BY <4>1, <4>2, <4>4
    <3>2. CASE ~Found(job[a].id)
      BY <1>3, <3>2 DEF UpdateWrite
    <3> QED BY <3>1, <3>2
  <2>3. PICK label \in {"load", "idle"} : pc' = [pc EXCEPT ![a] = label]
    BY <1>3 DEF UpdateWrite
  <2>4. job' = [job EXCEPT ![a] = NoJob]
    BY <1>3 DEF UpdateWrite
  <2>5. UNCHANGED <<table, mu, running, cancelled, root, lock, obj, fetched, left>>
    BY <1>3 DEF UpdateWrite
  <2> QED BY <2>1, <2>2, <2>3, <2>4, <2>5
<1>4. CASE Delete(a)
  BY <1>4 DEF Delete, Accept
<1>5. CASE Reauthorize(a)
  BY <1>5 DEF Reauthorize, Accept
<1>6. CASE TestInstance(a)
  BY <1>6 DEF TestInstance, Accept
<1> QED BY <1>1, <1>2, <1>3, <1>4, <1>5, <1>6 DEF Request

LEMMA ReloadSafe ==
  ASSUME IInv, TypeInv', NEW p \in Callers, ReloadStep(p)
  PROVE  Safety'
<1> USE SchedulerAssumption
    DEF IInv, TypeInv, TypeOK, Control, Safety, MuExclusive, OldLoopDropped,
        NoLeakedLoop, PluginExclusive, ObjectConfigured, FetchUsesOwnConfig,
        StopAfterSignal, StopCancelsAll, NoOrphanRows, Procs, Callers, Fetchers,
        FetchPC, ReloadPC, HoldsMu, Busy, Goto, Alive, dbVars, schedVars, regVars,
        workVars
<1>1. CASE ReloadLoad(p)
  BY <1>1 DEF ReloadLoad, AfterReload
<1>2. CASE ReloadLock(p)
  <2> DEFINE gone == {i \in Ids : running[i] # None /\ \A j \in todo[p] : j.id # i}
  <2>1. /\ pc[p] = "lock" /\ mu = None /\ mu' = p
        /\ pc' = [pc EXCEPT ![p] = "each"]
        /\ running' = [i \in Ids |-> IF i \in gone THEN None ELSE running[i]]
        /\ cancelled' = cancelled \cup {l \in Loops : pc[l] # "free" /\ l \in {running[i] : i \in gone}}
        /\ UNCHANGED <<row, table, root, lock, obj, job, fetched>>
    BY <1>2 DEF ReloadLock, Cancel
  <2>2. MuExclusive' /\ OldLoopDropped'
    BY <2>1
  <2>3. NoLeakedLoop'
    <3> SUFFICES ASSUME NEW l \in Loops, pc'[l] # "free", l \notin cancelled'
                 PROVE  running'[job'[l].id] = l
      OBVIOUS
    <3>1. job'[l] = job[l] /\ pc[l] # "free"
      BY <2>1
    <3>2. job[l] \in Job /\ running[job[l].id] = l
      BY <2>1, <3>1
    <3>3. job[l].id \in Ids /\ job[l].id \notin gone
      BY <2>1, <3>1, <3>2 DEF Job
    <3> QED BY <2>1, <3>1, <3>2, <3>3
  <2>4. PluginExclusive' /\ ObjectConfigured' /\ FetchUsesOwnConfig'
    BY <2>1
  <2>5. StopAfterSignal' /\ StopCancelsAll' /\ NoOrphanRows'
    BY <2>1
  <2> QED BY <2>2, <2>3, <2>4, <2>5
<1>3. CASE ReloadEach(p)
  <2>1. PICK j \in todo[p] :
          /\ Cancel({running[j.id]})
          /\ running' = [running EXCEPT ![j.id] = None]
          /\ \/ job' = [job EXCEPT ![p] = j] /\ pc' = [pc EXCEPT ![p] = "token"]
             \/ UNCHANGED <<job, pc>>
    BY <1>3 DEF ReloadEach
  <2>2. /\ pc[p] = "each" /\ j \in Job
        /\ cancelled' = cancelled \cup {l \in Loops : pc[l] # "free" /\ l = running[j.id]}
        /\ UNCHANGED <<row, table, mu, root, lock, obj, fetched>>
    BY <1>3, <2>1 DEF ReloadEach, Cancel
  <2>3. \A k \in Procs : k # p => pc'[k] = pc[k] /\ job'[k] = job[k]
    BY <2>1
  <2>4. pc'[p] \in {"each", "token"} /\ (pc'[p] = "token" => job'[p] = j)
    BY <2>1, <2>2
  <2>5. MuExclusive'
    BY <2>2, <2>3, <2>4
  <2>6. OldLoopDropped'
    BY <2>1, <2>2, <2>3, <2>4 DEF Job
  <2>7. NoLeakedLoop'
    <3> SUFFICES ASSUME NEW l \in Loops, pc'[l] # "free", l \notin cancelled'
                 PROVE  running'[job'[l].id] = l
      OBVIOUS
    <3>1. pc[l] # "free" /\ job'[l] = job[l] /\ job[l] \in Job /\ running[job[l].id] = l
      BY <2>2, <2>3, <2>4
    <3>2. job[l].id # j.id
      BY <2>2, <3>1
    <3> QED BY <2>1, <3>1, <3>2 DEF Job
  <2>8. PluginExclusive' /\ ObjectConfigured' /\ FetchUsesOwnConfig'
    BY <2>2, <2>3, <2>4
  <2>9. StopAfterSignal' /\ StopCancelsAll' /\ NoOrphanRows'
    BY <2>2, <2>3, <2>4
  <2> QED BY <2>5, <2>6, <2>7, <2>8, <2>9
<1>4. CASE ReloadResolve(p)
  BY <1>4 DEF ReloadResolve
<1>5. CASE ReloadConfigureFails(p)
  BY <1>5 DEF ReloadConfigureFails, Job
<1>6. CASE ReloadStart(p)
  <2>1. PICK l \in Loops :
          /\ pc[l] = "free"
          /\ running' = [running EXCEPT ![job[p].id] = l]
          /\ cancelled' = IF root THEN cancelled \cup {l} ELSE cancelled
          /\ pc' = [pc EXCEPT ![p] = "each", ![l] = "resolve"]
          /\ job' = [job EXCEPT ![p] = NoJob, ![l] = job[p]]
    BY <1>6 DEF ReloadStart
  <2>2. /\ pc[p] = "configure" /\ lock[job[p].plugin] = None
        /\ obj' = [obj EXCEPT ![job[p].plugin] = job[p].config]
        /\ UNCHANGED <<row, table, mu, root, lock, fetched>>
    BY <1>6 DEF ReloadStart
  <2>3. job[p] \in Job
    BY <2>2
  <2>4. \A k \in Procs \ {p, l} : pc'[k] = pc[k] /\ job'[k] = job[k]
    BY <2>1
  <2>5. /\ pc'[p] = "each" /\ pc'[l] = "resolve" /\ job'[l] = job[p]
        /\ p \in Procs /\ l \in Procs /\ p # l
    BY <2>1
  <2>6. MuExclusive'
    BY <2>2, <2>4, <2>5
  <2>7. OldLoopDropped'
    BY <2>2, <2>4, <2>5
  <2>8. NoLeakedLoop'
    <3> SUFFICES ASSUME NEW k \in Loops, pc'[k] # "free", k \notin cancelled'
                 PROVE  running'[job'[k].id] = k
      OBVIOUS
    <3>1. CASE k = l
      BY <2>1, <2>3, <2>5, <3>1 DEF Job
    <3>2. CASE k # l
      <4>1. /\ pc[k] # "free" /\ job'[k] = job[k] /\ job[k] \in Job
            /\ running[job[k].id] = k
        BY <2>1, <2>4, <3>2
      <4>2. job[k].id # job[p].id
        BY <2>2, <2>3, <4>1
      <4> QED BY <2>1, <4>1, <4>2 DEF Job
    <3> QED BY <3>1, <3>2
  <2>9. PluginExclusive'
    <3> SUFFICES ASSUME NEW k \in Fetchers, NEW g \in Plugins
                 PROVE  lock[g] = k <=> pc'[k] = "fetch" /\ job'[k].plugin = g
      BY <2>2
    <3>1. lock[g] = k <=> pc[k] = "fetch" /\ job[k].plugin = g
      OBVIOUS
    <3>2. CASE k \in {p, l}
      BY <2>1, <2>2, <2>5, <3>1, <3>2
    <3>3. CASE k \notin {p, l}
      <4>1. pc'[k] = pc[k] /\ job'[k] = job[k]
        BY <2>4, <3>3
      <4> QED BY <3>1, <4>1
    <3> QED BY <3>2, <3>3
  <2>10. ObjectConfigured' /\ FetchUsesOwnConfig'
    <3> SUFFICES ASSUME NEW k \in Fetchers, pc'[k] \in {"fetch", "write"}
                 PROVE  /\ pc'[k] = "fetch" => obj'[job'[k].plugin] = job'[k].config
                        /\ pc'[k] = "write" => fetched[k] \in {job'[k].config, Empty}
      BY <2>2
    <3>1. pc'[k] = pc[k] /\ job'[k] = job[k] /\ job[k] \in Job
      BY <2>4, <2>5
    <3>2. pc[k] = "fetch" => job[k].plugin # job[p].plugin
      BY <2>2, <3>1, SchedulerAssumption DEF Job
    <3> QED BY <2>2, <2>3, <3>1, <3>2 DEF Job
  <2>11. StopAfterSignal' /\ StopCancelsAll' /\ NoOrphanRows'
    BY <2>1, <2>2, <2>4, <2>5
  <2> QED BY <2>6, <2>7, <2>8, <2>9, <2>10, <2>11
<1>7. CASE ReloadReject(p)
  BY <1>7 DEF ReloadReject
<1>8. CASE ReloadDone(p)
  BY <1>8 DEF ReloadDone, AfterReload
<1> QED BY <1>1, <1>2, <1>3, <1>4, <1>5, <1>6, <1>7, <1>8 DEF ReloadStep

LEMMA FetchSafe ==
  ASSUME IInv, TypeInv', NEW p \in Fetchers, FetchStep(p)
  PROVE  Safety'
<1> USE SchedulerAssumption
    DEF IInv, TypeInv, TypeOK, Control, Safety, MuExclusive, OldLoopDropped,
        NoLeakedLoop, PluginExclusive, ObjectConfigured, FetchUsesOwnConfig,
        StopAfterSignal, StopCancelsAll, NoOrphanRows, Procs, Callers, Fetchers,
        FetchPC, ReloadPC, HoldsMu, Busy, Goto, Alive, dbVars, schedVars, regVars,
        workVars
<1>1. CASE Resolve(p)
  BY <1>1 DEF Resolve
<1>2. CASE FetchStart(p)
  BY <1>2 DEF FetchStart, Job
<1>3. CASE FetchConfigureFails(p)
  BY <1>3 DEF FetchConfigureFails, Job
<1>4. CASE FetchReturn(p)
  BY <1>4 DEF FetchReturn, Job
<1>5. CASE WriteShape(p)
  <2>1. pc[p] = "write" /\ UNCHANGED <<row, schedVars, regVars, job, fetched>>
    BY <1>5 DEF WriteShape
  <2>2. PICK label \in {"write", "failed"} : pc' = [pc EXCEPT ![p] = label]
    BY <1>5, <2>1 DEF WriteShape
  <2>3. NoOrphanRows'
    <3> DEFINE s == CHOOSE s \in left[p] : \A t \in left[p] : s <= t
    <3>1. \/ UNCHANGED table
          \/ /\ row[job[p].id] # NoRow \/ fetched[p] = Empty
             /\ table' = [table EXCEPT ![job[p].id][s] = fetched[p]]
      BY <1>5 DEF WriteShape
    <3> HIDE DEF s
    <3>2. SUFFICES ASSUME NEW i \in Ids, row[i] = NoRow
                   PROVE  table'[i] = [t \in Shapes |-> Empty]
      BY <2>1
    <3>3. table[i] = [t \in Shapes |-> Empty]
      BY <3>2
    <3>4. CASE i = job[p].id /\ ~UNCHANGED table
      <4>1. table'[i] = [table[i] EXCEPT ![s] = Empty]
        BY <3>1, <3>2, <3>4
      <4> QED BY <3>3, <4>1
    <3>5. CASE i # job[p].id \/ UNCHANGED table
      BY <3>1, <3>3, <3>5
    <3> QED BY <3>4, <3>5
  <2>4. \A k \in Procs : k # p => pc'[k] = pc[k]
    BY <2>2
  <2>5. pc'[p] \in {"write", "failed"}
    BY <2>2
  <2> QED BY <2>1, <2>3, <2>4, <2>5
<1>6. CASE RecordSuccess(p)
  BY <1>6 DEF RecordSuccess, FinishFetch, AfterFetch
<1>7. CASE RecordError(p)
  BY <1>7 DEF RecordError, FinishFetch, AfterFetch
<1> QED BY <1>1, <1>2, <1>3, <1>4, <1>5, <1>6, <1>7 DEF FetchStep

LEMMA OtherSafe ==
  ASSUME IInv, TypeInv', 
         (\E l \in Loops : LoopTick(l) \/ LoopExit(l)) \/ Signal \/ Shutdown
  PROVE  Safety'
<1> USE SchedulerAssumption
    DEF IInv, TypeInv, TypeOK, Control, Safety, MuExclusive, OldLoopDropped,
        NoLeakedLoop, PluginExclusive, ObjectConfigured, FetchUsesOwnConfig,
        StopAfterSignal, StopCancelsAll, NoOrphanRows, Procs, Callers, Fetchers,
        FetchPC, ReloadPC, HoldsMu, Busy, Goto, Alive, dbVars, schedVars, regVars,
        workVars
<1>1. CASE \E l \in Loops : LoopTick(l)
  BY <1>1 DEF LoopTick
<1>2. CASE \E l \in Loops : LoopExit(l)
  BY <1>2 DEF LoopExit
<1>3. CASE Signal
  BY <1>3 DEF Signal, Cancel
<1>4. CASE MainReturn
  BY <1>4 DEF MainReturn
<1>5. CASE StopCancel
  BY <1>5 DEF StopCancel, Cancel
<1>6. CASE StopReturn
  BY <1>6 DEF StopReturn
<1> QED BY <1>1, <1>2, <1>3, <1>4, <1>5, <1>6 DEF Shutdown

\* The inductive invariant holds in every reachable state.
THEOREM IInvCorrect == Spec => []IInv
<1>1. Init => IInv
  <2> SUFFICES ASSUME Init PROVE IInv
    OBVIOUS
  <2>1. Safety
    BY InitType, ProcFacts
    DEF Init, Safety, MuExclusive, OldLoopDropped, NoLeakedLoop, PluginExclusive,
        ObjectConfigured, FetchUsesOwnConfig, StopAfterSignal, StopCancelsAll,
        NoOrphanRows, HoldsMu, Alive, TypeInv, TypeOK
  <2> QED BY <2>1, InitType DEF IInv
<1>2. IInv /\ [Next]_vars => IInv'
  <2> SUFFICES ASSUME IInv, [Next]_vars PROVE IInv'
    OBVIOUS
  <2>1. TypeInv'
    BY TypeStep DEF IInv
  <2>2. CASE UNCHANGED vars \/ Terminated
    BY <2>1, <2>2
    DEF IInv, Terminated, Safety, MuExclusive, OldLoopDropped, NoLeakedLoop,
        PluginExclusive, ObjectConfigured, FetchUsesOwnConfig, StopAfterSignal,
        StopCancelsAll, NoOrphanRows, Alive, vars, dbVars, schedVars, regVars, workVars
  <2>3. CASE Next /\ ~Terminated
    BY <2>1, <2>3, RequestSafe, ReloadSafe, FetchSafe, OtherSafe DEF Next, IInv
  <2> QED BY <2>2, <2>3
<1> QED BY <1>1, <1>2, PTL DEF Spec

\* Every fetched row is traced to the writer's own config (fetchOnce, WithPlugin).
THEOREM OwnConfig == Spec => []FetchUsesOwnConfig
BY IInvCorrect, PTL DEF IInv, Safety

\* The plugin lock serialises Configure and Fetch (Registry.WithPlugin).
THEOREM Exclusive == Spec => []PluginExclusive
BY IInvCorrect, PTL DEF IInv, Safety

\* No uncancelled loop is missing from Scheduler.running (Reload).
THEOREM NoLeak == Spec => []NoLeakedLoop
BY IInvCorrect, PTL DEF IInv, Safety

\* After Stop has cancelled, every loop alive is cancelled (Stop, Reload).
THEOREM StopReachesAll == Spec => []StopCancelsAll
BY IInvCorrect, PTL DEF IInv, Safety

\* No shape row outlives its instance (WriteShape, DeletePluginInstance).
THEOREM NoOrphans == Spec => []NoOrphanRows
BY IInvCorrect, PTL DEF IInv, Safety

---------------------------------------------------------------------------
(* One request at a time: the running loops match the database.            *)
(* While admin requests come one at a time the match is an invariant.  With *)
(* two in flight it is not one: the older of two snapshots may be applied   *)
(* last (README, deviations).                                               *)

\* At most one admin request is in flight.
OneRequest == \A a, b \in Admins : a = b

\* The instance is one that Reload wants; its loop runs the stored config.
Enabled(i) == row[i] # NoRow /\ row[i].enabled
UpToDate(i) == ~root => job[running[i]] = JobOf(i)

\* The server accepts requests only once the Reload of Start has returned.
Boot == pc[Main] \in ReloadPC => \A a \in Admins : pc[a] = "idle"

\* A cancelled context is that of a loop still alive.
CancelledAlive == \A l \in cancelled : Alive(l)

\* Before the signal, an entry of running is an uncancelled loop of its instance.
RunningLoops ==
  ~root => \A i \in Ids : running[i] # None =>
             Alive(running[i]) /\ running[i] \notin cancelled /\ job[running[i]].id = i

\* While a Reload is under way its snapshot is the table, and an entry it has
\* left in running is of an instance it has still to restart or is up to date.
Reading(p) ==
  /\ pc[p] = "lock" => todo[p] = Wanted
  /\ pc[p] \in HoldsMu =>
       /\ todo[p] \subseteq Wanted
       /\ \A i \in Ids : running[i] # None =>
            Enabled(i) /\ (JobOf(i) \in todo[p] \/ UpToDate(i))
  /\ pc[p] \in {"token", "configure"} => job[p] \in Wanted
Snapshot == \A p \in Callers : Reading(p)

\* No Reload is under way in a server that accepts requests: running matches.
Matches ==
  pc[Main] = "serve" /\ (\A a \in Admins : pc[a] \notin ReloadPC) =>
    \A i \in Ids : running[i] # None => Enabled(i) /\ UpToDate(i)

Sync == Boot /\ CancelledAlive /\ RunningLoops /\ Snapshot /\ Matches

\* A wanted job is the snapshot of an enabled row, and the other way round.
LEMMA WantedFacts ==
  /\ \A j \in Wanted : j.id \in Ids /\ Enabled(j.id) /\ j = JobOf(j.id)
  /\ \A i \in Ids : Enabled(i) => JobOf(i) \in Wanted /\ JobOf(i).id = i
BY DEF Wanted, JobOf, Enabled

\* At most one process changes the table or reloads at a time.
LEMMA OneCaller ==
  ASSUME OneRequest, Boot, NEW p \in Callers, NEW q \in Callers,
         pc[p] \in ReloadPC, pc[q] \in ReloadPC
  PROVE  p = q
BY DEF OneRequest, Boot, Callers, ReloadPC

LEMMA InitSync == Init => Sync
BY ProcFacts DEF Init, Sync, Boot, CancelledAlive, RunningLoops, Snapshot, Reading, Matches,
   ReloadPC, HoldsMu, Procs

\* A step of a process that fetches, of a loop between fetches or of a request
\* that does not touch the table leaves what Sync speaks of alone.
LEMMA SyncFrame ==
  ASSUME TypeInv, TypeInv', Sync,
         UNCHANGED <<row, running, cancelled, root, todo>>,
         \A l \in Loops : Alive(l) => Alive(l)' /\ job'[l] = job[l],
         \A p \in Callers : pc'[p] \in ReloadPC => pc'[p] = pc[p] /\ job'[p] = job[p],
         \A p \in Callers : pc[p] \in ReloadPC => pc'[p] = pc[p],
         pc'[Main] = "serve" => pc[Main] = "serve",
         pc[Main] \in ReloadPC => \A a \in Admins : pc'[a] = pc[a]
  PROVE  Sync'
<1>1. Boot'
  BY ProcFacts DEF Sync, Boot
<1>2. CancelledAlive'
  BY DEF Sync, CancelledAlive, TypeInv, TypeOK
<1>3. \A i \in Ids : running[i] # None => running[i] \in Loops
  BY DEF TypeInv, TypeOK
<1>4. RunningLoops'
  BY <1>3 DEF Sync, RunningLoops
<1>5. Wanted' = Wanted /\ \A i \in Ids : JobOf(i)' = JobOf(i) /\ Enabled(i)' = Enabled(i)
  BY DEF Wanted, JobOf, Enabled
<1>6. \A i \in Ids : running[i] # None /\ UpToDate(i) => UpToDate(i)'
  BY <1>3, <1>5 DEF Sync, RunningLoops, UpToDate
<1>7. Snapshot'
  BY <1>5, <1>6 DEF Sync, Snapshot, Reading, ReloadPC, HoldsMu
<1>8. Matches'
  BY <1>5, <1>6, ProcFacts DEF Sync, Matches
<1> QED BY <1>1, <1>2, <1>4, <1>7, <1>8 DEF Sync

\* An admin handler has changed the table and is about to reload.
LEMMA ChangeFrame ==
  ASSUME TypeInv, TypeInv', OneRequest, Sync,
         NEW a \in Admins, pc[a] \in {"idle", "update"}, pc[Main] \notin ReloadPC,
         pc' = [pc EXCEPT ![a] = "load"],
         UNCHANGED <<running, cancelled, root>>,
         \A l \in Loops : job'[l] = job[l]
  PROVE  Sync'
<1>1. \A q \in Procs : q # a => pc'[q] = pc[q]
  BY DEF TypeInv, TypeOK
<1>2. pc'[a] = "load" /\ pc'[Main] \notin ReloadPC
  BY <1>1, ProcFacts DEF TypeInv, TypeOK
<1>3. \A q \in Callers : pc'[q] \notin ReloadPC \ {"load"}
  BY <1>1, <1>2, ProcFacts DEF OneRequest
<1>4. Boot'
  BY <1>2 DEF Boot
<1>5. \A l \in Loops : pc'[l] = pc[l]
  BY <1>1, ProcFacts
<1>6. CancelledAlive' /\ RunningLoops'
  BY <1>5 DEF Sync, CancelledAlive, RunningLoops, Alive, TypeInv, TypeOK
<1>7. Snapshot'
  BY <1>3 DEF Snapshot, Reading, ReloadPC, HoldsMu
<1>8. Matches'
  BY <1>2 DEF Matches, ReloadPC
<1> QED BY <1>4, <1>6, <1>7, <1>8 DEF Sync

LEMMA RequestSync ==
  ASSUME TypeInv, TypeInv', OneRequest, Sync, NEW a \in Admins,
         Request(a) \/ UpdateWrite(a)
  PROVE  Sync'
<1> USE ProcFacts DEF Goto, Accept, dbVars, schedVars, regVars, workVars
<1>1. a \in Procs /\ a \in Callers /\ a \notin Loops /\ a # Main
  BY DEF Procs
<1>2. pc[a] \in {"idle", "update"} /\ pc[Main] \notin ReloadPC
  BY DEF Request, Create, UpdateRead, UpdateWrite, Delete, Reauthorize, TestInstance,
     ReloadPC, Sync, Boot
<1>3. CASE Create(a) \/ Delete(a) \/ Reauthorize(a)
  BY <1>2, <1>3, ChangeFrame DEF Create, Delete, Reauthorize
<1>4. CASE UpdateRead(a) \/ TestInstance(a)
  <2>1. PICK label \in {"update", "resolve"} : pc' = [pc EXCEPT ![a] = label]
    BY <1>4 DEF UpdateRead, TestInstance
  <2>2. PICK j : job' = [job EXCEPT ![a] = j]
    BY <1>4 DEF UpdateRead, TestInstance
  <2>3. UNCHANGED <<row, running, cancelled, root, todo>>
    BY <1>4 DEF UpdateRead, TestInstance
  <2>4. \A q \in Procs : q # a => pc'[q] = pc[q] /\ job'[q] = job[q]
    BY <2>1, <2>2 DEF TypeInv, TypeOK
  <2>5. pc'[a] \notin ReloadPC /\ pc[a] \notin ReloadPC
    BY <1>1, <1>2, <2>1 DEF TypeInv, TypeOK, ReloadPC
  <2> QED BY <1>1, <1>2, <2>3, <2>4, <2>5, SyncFrame DEF Alive, Procs
<1>5. CASE UpdateWrite(a)
  <2>1. CASE Found(job[a].id)
    <3>1. pc' = [pc EXCEPT ![a] = "load"] /\ job' = [job EXCEPT ![a] = NoJob]
      BY <1>5, <2>1 DEF UpdateWrite
    <3>2. \A l \in Loops : job'[l] = job[l]
      BY <1>1, <3>1 DEF TypeInv, TypeOK, Procs
    <3> QED BY <1>2, <1>5, <3>1, <3>2, ChangeFrame DEF UpdateWrite
  <2>2. CASE ~Found(job[a].id)
    <3>1. pc' = [pc EXCEPT ![a] = "idle"] /\ job' = [job EXCEPT ![a] = NoJob]
      BY <1>5, <2>2 DEF UpdateWrite
    <3>2. UNCHANGED <<row, running, cancelled, root, todo>>
      BY <1>5, <2>2 DEF UpdateWrite
    <3>3. \A q \in Procs : q # a => pc'[q] = pc[q] /\ job'[q] = job[q]
      BY <3>1 DEF TypeInv, TypeOK
    <3>4. pc'[a] \notin ReloadPC /\ pc[a] \notin ReloadPC
      BY <1>1, <1>2, <3>1 DEF TypeInv, TypeOK, ReloadPC
    <3> QED BY <1>1, <1>2, <3>2, <3>3, <3>4, SyncFrame DEF Alive, Procs
  <2> QED BY <2>1, <2>2
<1> QED BY <1>3, <1>4, <1>5 DEF Request

LEMMA FetchSync ==
  ASSUME TypeInv, TypeInv', Sync, NEW p \in Fetchers, FetchStep(p)
  PROVE  Sync'
<1> USE ProcFacts
    DEF Goto, AfterFetch, FinishFetch, dbVars, schedVars, regVars, workVars
<1>1. p \in Procs /\ p # Main
  BY DEF Procs
<1>2. pc[p] \in FetchPC /\ UNCHANGED <<row, running, cancelled, root, todo>>
  BY DEF FetchStep, Resolve, FetchStart, FetchConfigureFails, FetchReturn, WriteShape,
     RecordSuccess, RecordError, FetchPC
<1>3. PICK label \in FetchPC \cup {AfterFetch(p)} : pc' = [pc EXCEPT ![p] = label]
  <2>1. CASE WriteShape(p)
    <3>1. pc[p] = "write"
      BY <2>1 DEF WriteShape
    <3>2. pc' = pc \/ pc' = [pc EXCEPT ![p] = "failed"]
      BY <2>1 DEF WriteShape
    <3>3. pc = [pc EXCEPT ![p] = "write"]
      BY <1>1, <3>1 DEF TypeInv, TypeOK
    <3> QED BY <3>2, <3>3 DEF FetchPC
  <2>2. CASE ~WriteShape(p)
    BY <2>2 DEF FetchStep, Resolve, FetchStart, FetchConfigureFails, FetchReturn,
       RecordSuccess, RecordError, FetchPC
  <2> QED BY <2>1, <2>2
<1>4. \A q \in Procs : q # p \/ q \in Loops => job'[q] = job[q]
  <2>1. CASE RecordSuccess(p) \/ RecordError(p)
    <3>1. FinishFetch(p)
      BY <2>1 DEF RecordSuccess, RecordError
    <3>2. job' = IF p \in Loops THEN job ELSE [job EXCEPT ![p] = NoJob]
      BY <3>1
    <3>3. job \in [Procs -> Job \cup {NoJob}]
      BY DEF TypeInv, TypeOK
    <3> QED BY <3>2, <3>3
  <2>2. CASE ~(RecordSuccess(p) \/ RecordError(p))
    <3>1. UNCHANGED job
      BY <2>2 DEF FetchStep, Resolve, FetchStart, FetchConfigureFails, FetchReturn,
         WriteShape
    <3> QED BY <3>1
  <2> QED BY <2>1, <2>2
<1>5. \A q \in Procs : q # p => pc'[q] = pc[q] /\ job'[q] = job[q]
  BY <1>3, <1>4 DEF TypeInv, TypeOK
<1>6. /\ p \in Loops => pc'[p] # "free" /\ job'[p] = job[p]
      /\ pc[p] \notin ReloadPC /\ pc'[p] \notin ReloadPC /\ pc[p] # "idle"
  BY <1>1, <1>2, <1>3, <1>4 DEF TypeInv, TypeOK, FetchPC, ReloadPC
<1>7. pc[Main] \in ReloadPC => \A a \in Admins : pc'[a] = pc[a]
  BY <1>5, <1>6 DEF Sync, Boot, Procs
<1> QED BY <1>1, <1>2, <1>5, <1>6, <1>7, SyncFrame DEF Alive, Procs

LEMMA OtherSync ==
  ASSUME IInv, TypeInv', Sync,
         (\E l \in Loops : LoopTick(l) \/ LoopExit(l)) \/ Signal \/ Shutdown
  PROVE  Sync'
<1> USE ProcFacts DEF Goto, dbVars, schedVars, regVars, workVars
<1> TypeInv
  BY DEF IInv
<1>1. CASE \E l \in Loops : LoopTick(l)
  <2>1. PICK l \in Loops : LoopTick(l)
    BY <1>1
  <2>2. pc' = [pc EXCEPT ![l] = "resolve"] /\ UNCHANGED <<row, running, cancelled, root, todo, job>>
    BY <2>1 DEF LoopTick
  <2>3. \A q \in Procs : q # l => pc'[q] = pc[q]
    BY <2>2 DEF TypeInv, TypeOK
  <2>4. pc'[l] # "free"
    BY <2>2 DEF TypeInv, TypeOK, Procs
  <2> QED BY <2>2, <2>3, <2>4, SyncFrame DEF Alive, Procs
<1>2. CASE \E l \in Loops : LoopExit(l)
  <2>1. PICK l \in Loops : LoopExit(l)
    BY <1>2
  <2>2. /\ l \in cancelled /\ cancelled' = cancelled \ {l}
        /\ UNCHANGED <<row, running, root, todo>>
    BY <2>1 DEF LoopExit
  <2>3. pc' = [pc EXCEPT ![l] = "free"] /\ job' = [job EXCEPT ![l] = NoJob]
    BY <2>1 DEF LoopExit
  <2>4. \A q \in Procs : q # l => pc'[q] = pc[q] /\ job'[q] = job[q]
    BY <2>3 DEF TypeInv, TypeOK
  <2>5. \A q \in Callers : pc'[q] = pc[q] /\ job'[q] = job[q]
    BY <2>4 DEF Procs
  <2>6. Boot'
    BY <2>5 DEF Sync, Boot
  <2>7. CancelledAlive'
    BY <2>2, <2>4 DEF Sync, CancelledAlive, Alive, TypeInv, TypeOK, Procs
  <2>8. \A i \in Ids : running[i] # None /\ ~root =>
          running[i] \in Loops /\ running[i] # l
    BY <2>2 DEF Sync, RunningLoops, TypeInv, TypeOK
  <2>9. RunningLoops'
    BY <2>2, <2>4, <2>8 DEF Sync, RunningLoops, Alive, Procs
  <2>10. Wanted' = Wanted /\ \A i \in Ids : JobOf(i)' = JobOf(i) /\ Enabled(i)' = Enabled(i)
    BY <2>2 DEF Wanted, JobOf, Enabled
  <2>11. \A i \in Ids : running[i] # None /\ UpToDate(i) => UpToDate(i)'
    BY <2>2, <2>4, <2>8, <2>10 DEF UpToDate, Procs
  <2>12. Snapshot'
    BY <2>2, <2>5, <2>10, <2>11 DEF Sync, Snapshot, Reading
  <2>13. Matches'
    BY <2>2, <2>5, <2>10, <2>11 DEF Sync, Matches
  <2> QED BY <2>6, <2>7, <2>9, <2>12, <2>13 DEF Sync
<1>3. CASE Signal \/ StopCancel
  <2>1. root' /\ UNCHANGED <<row, running, job, todo>>
    BY <1>3 DEF Signal, StopCancel, IInv, Safety, StopAfterSignal
  <2>2. Cancel(Loops)
    BY <1>3 DEF Signal, StopCancel
  <2>3. /\ \A q \in Procs : q # Main => pc'[q] = pc[q]
        /\ pc'[Main] \in {pc[Main], "drain"}
        /\ pc'[Main] # pc[Main] => pc[Main] = "stop"
    <3>1. CASE Signal
      BY <3>1 DEF Signal
    <3>2. CASE StopCancel
      BY <3>2 DEF StopCancel, TypeInv, TypeOK
    <3> QED BY <1>3, <3>1, <3>2
  <2>4. Boot'
    BY <2>3 DEF Sync, Boot, ReloadPC, Procs
  <2>5. CancelledAlive'
    BY <2>2, <2>3 DEF Sync, CancelledAlive, Cancel, Alive, TypeInv, TypeOK, Procs
  <2>6. RunningLoops'
    BY <2>1 DEF RunningLoops
  <2>7. Wanted' = Wanted /\ \A i \in Ids : JobOf(i)' = JobOf(i) /\ Enabled(i)' = Enabled(i)
    BY <2>1 DEF Wanted, JobOf, Enabled
  <2>8. \A i \in Ids : UpToDate(i)'
    BY <2>1 DEF UpToDate
  <2>9. Snapshot'
    BY <2>1, <2>3, <2>7, <2>8 DEF Sync, Snapshot, Reading, HoldsMu, Procs
  <2>10. Matches'
    BY <2>1, <2>3, <2>7, <2>8 DEF Sync, Matches, Procs
  <2> QED BY <2>4, <2>5, <2>6, <2>9, <2>10 DEF Sync
<1>4. CASE MainReturn \/ StopReturn
  <2>1. UNCHANGED <<row, running, cancelled, root, todo, job>>
    BY <1>4 DEF MainReturn, StopReturn
  <2>2. /\ \A q \in Procs : q # Main => pc'[q] = pc[q]
        /\ pc'[Main] \in {"stop", "closed"} /\ pc[Main] \notin ReloadPC
    BY <1>4 DEF MainReturn, StopReturn, TypeInv, TypeOK, ReloadPC, Procs
  <2> QED BY <2>1, <2>2, SyncFrame DEF Alive, Procs, ReloadPC
<1> QED BY <1>1, <1>2, <1>3, <1>4 DEF Shutdown

\* The process that reloads is the only one that changes the table or reloads.
LEMMA Alone ==
  ASSUME TypeInv, OneRequest, Sync, NEW p \in Callers, pc[p] \in ReloadPC,
         \A q \in Callers : q # p => pc'[q] = pc[q]
  PROVE  /\ \A q \in Callers : q # p => pc'[q] \notin ReloadPC
         /\ pc'[p] \in ReloadPC => Boot' /\ Matches'
         /\ pc'[p] = AfterReload(p) => Boot'
<1> USE ProcFacts
<1>1. \A q \in Callers : q # p => pc'[q] \notin ReloadPC
  BY OneCaller DEF Sync
<1>2. CASE p = Main
  <2>1. \A a \in Admins : pc'[a] = "idle"
    BY <1>2 DEF Sync, Boot
  <2>2. pc'[p] \in ReloadPC => Matches'
    BY <1>2 DEF Matches, ReloadPC
  <2> QED BY <1>1, <2>1, <2>2 DEF Boot
<1>3. CASE p \in Admins
  <2>1. pc'[Main] \notin ReloadPC
    BY <1>1, <1>3
  <2>2. pc'[p] \in ReloadPC => Matches'
    BY <1>3 DEF Matches
  <2> QED BY <1>1, <2>1, <2>2 DEF Boot
<1> QED BY <1>2, <1>3

\* A Reload step that starts and stops no loop.
LEMMA LoopsFrame ==
  ASSUME Sync, UNCHANGED <<running, cancelled, root>>, TypeInv,
         \A l \in Loops : pc'[l] = pc[l] /\ job'[l] = job[l]
  PROVE  CancelledAlive' /\ RunningLoops'
<1>1. cancelled \subseteq Loops /\ \A i \in Ids : running[i] # None => running[i] \in Loops
  BY DEF TypeInv, TypeOK
<1>2. CancelledAlive'
  BY <1>1 DEF Sync, CancelledAlive, Alive
<1>3. RunningLoops'
  BY <1>1 DEF Sync, RunningLoops, Alive
<1> QED BY <1>2, <1>3

LEMMA SnapshotOfOne ==
  ASSUME NEW p \in Callers, \A q \in Callers : q # p => pc'[q] \notin ReloadPC, Reading(p)'
  PROVE  Snapshot'
<1> SUFFICES ASSUME NEW q \in Callers PROVE Reading(q)'
  BY DEF Snapshot
<1>1. CASE q = p
  BY <1>1
<1>2. CASE q # p
  BY <1>2 DEF Reading, ReloadPC, HoldsMu
<1> QED BY <1>1, <1>2

LEMMA ReloadSync ==
  ASSUME IInv, TypeInv', OneRequest, Sync, NEW p \in Callers, ReloadStep(p)
  PROVE  Sync'
<1> USE ProcFacts DEF Goto, dbVars, schedVars, regVars, workVars
<1>a. TypeInv
  BY DEF IInv
<1>b. p \in Procs /\ p \notin Loops
  BY DEF Procs
<1>c. pc[p] \in ReloadPC
  BY DEF ReloadStep, ReloadLoad, ReloadLock, ReloadEach, ReloadResolve,
     ReloadConfigureFails, ReloadStart, ReloadReject, ReloadDone, ReloadPC
<1>d. UNCHANGED <<row, root>> /\ Wanted' = Wanted
  <2>1. UNCHANGED <<row, root>>
    BY DEF ReloadStep, ReloadLoad, ReloadLock, ReloadEach, ReloadResolve,
       ReloadConfigureFails, ReloadStart, ReloadReject, ReloadDone
  <2> QED BY <2>1 DEF Wanted, JobOf
<1>e. \A i \in Ids : JobOf(i)' = JobOf(i) /\ Enabled(i)' = Enabled(i)
  BY <1>d DEF JobOf, Enabled
<1>f. Reading(p)
  BY DEF Sync, Snapshot
<1>g. \A i \in Ids : running[i] # None => running[i] \in Loops
  BY <1>a DEF TypeInv, TypeOK
\* The steps after which the caller is still reloading and no loop has changed.
<1>h. ASSUME UNCHANGED <<running, cancelled>>, pc'[p] \in ReloadPC, Reading(p)',
             \A q \in Procs : q # p => pc'[q] = pc[q] /\ job'[q] = job[q]
      PROVE  Sync'
  <2>1. CancelledAlive' /\ RunningLoops'
    BY <1>a, <1>b, <1>d, <1>h, LoopsFrame DEF Procs
  <2>2. \A q \in Callers : q # p => pc'[q] = pc[q]
    BY <1>h DEF Procs
  <2>3. Boot' /\ Matches' /\ \A q \in Callers : q # p => pc'[q] \notin ReloadPC
    BY <1>a, <1>c, <1>h, <2>2, Alone
  <2>4. Snapshot'
    BY <1>h, <2>3, SnapshotOfOne
  <2> QED BY <2>1, <2>3, <2>4 DEF Sync
<1>1. CASE ReloadLoad(p)
  <2>1. CASE Closed
    <3>1. pc[Main] = "closed" /\ pc' = [pc EXCEPT ![p] = AfterReload(p)] /\ p # Main
      BY <1>1, <2>1 DEF ReloadLoad, Closed
    <3>2. \A q \in Procs : pc'[q] = IF q = p THEN "idle" ELSE pc[q]
      BY <1>a, <1>b, <3>1 DEF TypeInv, TypeOK, AfterReload
    <3>3. UNCHANGED <<running, cancelled, todo, job>>
      BY <1>1, <2>1 DEF ReloadLoad
    <3>4. CancelledAlive' /\ RunningLoops'
      BY <1>a, <1>b, <1>d, <3>2, <3>3, LoopsFrame DEF Procs
    <3>5. Boot' /\ Matches'
      BY <3>1, <3>2 DEF Boot, Matches, ReloadPC, Procs
    <3>6. \A q \in Callers : q # p => pc'[q] \notin ReloadPC
      BY <1>a, <1>c, <3>2, Alone DEF Procs
    <3>7. Reading(p)'
      BY <1>b, <3>2 DEF Reading, HoldsMu
    <3> QED BY <3>4, <3>5, <3>6, <3>7, SnapshotOfOne DEF Sync
  <2>2. CASE ~Closed
    <3>1. /\ pc' = [pc EXCEPT ![p] = "lock"] /\ todo' = [todo EXCEPT ![p] = Wanted]
          /\ UNCHANGED <<running, cancelled, job>>
      BY <1>1, <2>2 DEF ReloadLoad
    <3>2. \A q \in Procs : pc'[q] = IF q = p THEN "lock" ELSE pc[q]
      BY <1>a, <1>b, <3>1 DEF TypeInv, TypeOK
    <3>3. todo'[p] = Wanted
      BY <1>a, <3>1 DEF TypeInv, TypeOK
    <3>4. Reading(p)'
      BY <1>b, <1>d, <3>2, <3>3 DEF Reading, HoldsMu
    <3> QED BY <1>b, <1>h, <3>1, <3>2, <3>4 DEF ReloadPC
  <2> QED BY <2>1, <2>2
<1>4. CASE ReloadResolve(p)
  <2>1. PICK label \in {"configure", "reject"} : pc' = [pc EXCEPT ![p] = label]
    BY <1>4 DEF ReloadResolve
  <2>2. \A q \in Procs : pc'[q] = IF q = p THEN label ELSE pc[q]
    BY <1>a, <1>b, <2>1 DEF TypeInv, TypeOK
  <2>3. pc[p] = "token" /\ UNCHANGED <<running, cancelled, todo, job>>
    BY <1>4 DEF ReloadResolve
  <2>4. Reading(p)'
    BY <1>b, <1>d, <1>e, <1>f, <2>2, <2>3 DEF Reading, HoldsMu, UpToDate
  <2> QED BY <1>b, <1>h, <2>2, <2>3, <2>4 DEF ReloadPC
<1>5. CASE ReloadConfigureFails(p)
  <2>1. pc' = [pc EXCEPT ![p] = "reject"]
    BY <1>5 DEF ReloadConfigureFails
  <2>2. \A q \in Procs : pc'[q] = IF q = p THEN "reject" ELSE pc[q]
    BY <1>a, <1>b, <2>1 DEF TypeInv, TypeOK
  <2>3. pc[p] = "configure" /\ UNCHANGED <<running, cancelled, todo, job>>
    BY <1>5 DEF ReloadConfigureFails
  <2>4. Reading(p)'
    BY <1>b, <1>d, <1>e, <1>f, <2>2, <2>3 DEF Reading, HoldsMu, UpToDate
  <2> QED BY <1>b, <1>h, <2>2, <2>3, <2>4 DEF ReloadPC
<1>7. CASE ReloadReject(p)
  <2>1. pc' = [pc EXCEPT ![p] = "each"] /\ job' = [job EXCEPT ![p] = NoJob]
    BY <1>7 DEF ReloadReject
  <2>2. \A q \in Procs : pc'[q] = IF q = p THEN "each" ELSE pc[q]
    BY <1>a, <1>b, <2>1 DEF TypeInv, TypeOK
  <2>3. pc[p] = "reject" /\ UNCHANGED <<running, cancelled, todo>>
    BY <1>7 DEF ReloadReject
  <2>4. \A q \in Procs : q # p => job'[q] = job[q]
    BY <1>a, <2>1 DEF TypeInv, TypeOK
  <2>5. \A i \in Ids : running[i] # None /\ UpToDate(i) => UpToDate(i)'
    BY <1>b, <1>d, <1>e, <1>g, <2>3, <2>4 DEF UpToDate, Procs
  <2>6. Reading(p)'
    BY <1>b, <1>d, <1>e, <1>f, <2>2, <2>3, <2>5 DEF Reading, HoldsMu
  <2> QED BY <1>b, <1>h, <2>2, <2>3, <2>4, <2>6 DEF ReloadPC
<1>8. CASE ReloadDone(p)
  <2>1. pc' = [pc EXCEPT ![p] = AfterReload(p)] /\ pc[p] = "each" /\ todo[p] = {}
    BY <1>8 DEF ReloadDone
  <2>2. UNCHANGED <<running, cancelled, job, todo>>
    BY <1>8 DEF ReloadDone
  <2>3. \A q \in Procs : pc'[q] = IF q = p THEN AfterReload(p) ELSE pc[q]
    BY <1>a, <1>b, <2>1 DEF TypeInv, TypeOK
  <2>4. CancelledAlive' /\ RunningLoops'
    BY <1>a, <1>b, <1>d, <2>2, <2>3, LoopsFrame DEF Procs
  <2>5. Boot' /\ \A q \in Callers : q # p => pc'[q] \notin ReloadPC
    BY <1>a, <1>b, <1>c, <2>3, Alone DEF Procs
  <2>6. \A i \in Ids : running[i] # None => Enabled(i) /\ UpToDate(i)
    BY <1>f, <2>1 DEF Reading, HoldsMu
  <2>7. Matches'
    BY <1>d, <1>e, <2>2, <2>6 DEF Matches, UpToDate
  <2>8. Reading(p)'
    BY <1>b, <2>3 DEF Reading, HoldsMu, AfterReload
  <2> QED BY <2>4, <2>5, <2>7, <2>8, SnapshotOfOne DEF Sync
<1>2. CASE ReloadLock(p)
  <2> DEFINE gone == {i \in Ids : running[i] # None /\ \A j \in todo[p] : j.id # i}
  <2>1. /\ pc[p] = "lock" /\ pc' = [pc EXCEPT ![p] = "each"]
        /\ running' = [i \in Ids |-> IF i \in gone THEN None ELSE running[i]]
        /\ cancelled' = cancelled \cup {l \in Loops : Alive(l) /\ l \in {running[i] : i \in gone}}
        /\ UNCHANGED <<job, todo>>
    BY <1>2 DEF ReloadLock, Cancel
  <2>2. \A q \in Procs : pc'[q] = IF q = p THEN "each" ELSE pc[q]
    BY <1>a, <1>b, <2>1 DEF TypeInv, TypeOK
  <2>3. CancelledAlive'
    BY <1>a, <1>b, <2>1, <2>2 DEF Sync, CancelledAlive, Alive, TypeInv, TypeOK, Procs
  <2>4. ASSUME NEW i \in Ids, running'[i] # None
        PROVE  i \notin gone /\ running'[i] = running[i] /\ running[i] \in Loops
    BY <1>g, <2>1, <2>4
  <2>5. RunningLoops'
    <3> SUFFICES ASSUME ~root, NEW i \in Ids, running'[i] # None
                 PROVE  /\ Alive(running[i])' /\ running[i] \notin cancelled'
                        /\ job'[running[i]].id = i
      BY <1>d, <2>4 DEF RunningLoops
    <3>1. i \notin gone /\ running[i] \in Loops
      BY <2>4
    <3>2. Alive(running[i]) /\ running[i] \notin cancelled /\ job[running[i]].id = i
      BY <3>1 DEF Sync, RunningLoops
    <3>3. \A k \in gone : job[running[k]].id = k
      BY DEF Sync, RunningLoops
    <3>4. running[i] \notin {running[k] : k \in gone}
      BY <3>1, <3>2, <3>3
    <3> QED BY <1>b, <2>1, <2>2, <3>1, <3>2, <3>4 DEF Alive, Procs
  <2>6. \A q \in Callers : q # p => pc'[q] = pc[q]
    BY <2>2 DEF Procs
  <2>7. Boot' /\ Matches' /\ \A q \in Callers : q # p => pc'[q] \notin ReloadPC
    BY <1>a, <1>b, <1>c, <2>2, <2>6, Alone DEF ReloadPC
  <2>8. todo[p] = Wanted
    BY <1>f, <2>1 DEF Reading
  <2>9. ASSUME NEW i \in Ids, running'[i] # None
        PROVE  Enabled(i) /\ JobOf(i) \in todo[p]
    <3>1. PICK j \in todo[p] : j.id = i
      BY <2>4, <2>9
    <3> QED BY <2>8, <3>1, WantedFacts
  <2>10. Reading(p)'
    BY <1>b, <1>d, <1>e, <2>1, <2>2, <2>8, <2>9 DEF Reading, HoldsMu
  <2> QED BY <2>3, <2>5, <2>7, <2>10, SnapshotOfOne DEF Sync
<1>3. CASE ReloadEach(p)
  <2>1. PICK j \in todo[p] :
          /\ cancelled' = cancelled \cup {l \in Loops : Alive(l) /\ l = running[j.id]}
          /\ running' = [running EXCEPT ![j.id] = None]
          /\ todo' = [todo EXCEPT ![p] = @ \ {j}]
          /\ \/ job' = [job EXCEPT ![p] = j] /\ pc' = [pc EXCEPT ![p] = "token"]
             \/ UNCHANGED <<job, pc>>
    BY <1>3 DEF ReloadEach, Cancel
  <2>2. pc[p] = "each" /\ todo[p] \subseteq Wanted /\ j \in Wanted
    BY <1>3, <1>f, <2>1 DEF ReloadEach, Reading, HoldsMu
  <2>3. j.id \in Ids /\ j = JobOf(j.id)
    BY <2>2, WantedFacts
  <2>4. \A q \in Procs : q # p => pc'[q] = pc[q] /\ job'[q] = job[q]
    BY <1>a, <2>1 DEF TypeInv, TypeOK
  <2>5. pc'[p] \in {"each", "token"} /\ (pc'[p] = "token" => job'[p] = j)
    BY <1>a, <1>b, <2>1, <2>2 DEF TypeInv, TypeOK
  <2>6. CancelledAlive'
    <3>1. cancelled \subseteq Loops
      BY <1>a DEF TypeInv, TypeOK
    <3> QED BY <1>b, <2>1, <2>4, <3>1 DEF Sync, CancelledAlive, Alive, Procs
  <2>7. ASSUME NEW i \in Ids, running'[i] # None
        PROVE  i # j.id /\ running'[i] = running[i] /\ running[i] \in Loops
    BY <1>a, <1>g, <2>1, <2>3, <2>7 DEF TypeInv, TypeOK
  <2>8. RunningLoops'
    <3> SUFFICES ASSUME ~root, NEW i \in Ids, running'[i] # None
                 PROVE  /\ Alive(running[i])' /\ running[i] \notin cancelled'
                        /\ job'[running[i]].id = i
      BY <1>d, <2>7 DEF RunningLoops
    <3>1. i # j.id /\ running[i] \in Loops
      BY <2>7
    <3>2. Alive(running[i]) /\ running[i] \notin cancelled /\ job[running[i]].id = i
      BY <3>1 DEF Sync, RunningLoops
    <3>3. running[j.id] # None => job[running[j.id]].id = j.id
      BY <2>3 DEF Sync, RunningLoops
    <3>4. running[i] # running[j.id]
      BY <3>1, <3>2, <3>3
    <3> QED BY <1>b, <2>1, <2>4, <3>1, <3>2, <3>4 DEF Alive, Procs
  <2>9. \A q \in Callers : q # p => pc'[q] = pc[q]
    BY <2>4 DEF Procs
  <2>10. Boot' /\ Matches' /\ \A q \in Callers : q # p => pc'[q] \notin ReloadPC
    BY <1>a, <1>c, <2>5, <2>9, Alone DEF ReloadPC
  <2>11. todo'[p] = todo[p] \ {j}
    BY <1>a, <2>1 DEF TypeInv, TypeOK
  <2>12. ASSUME NEW i \in Ids, running'[i] # None
         PROVE  Enabled(i)' /\ (JobOf(i)' \in todo'[p] \/ UpToDate(i)')
    <3>1. i # j.id /\ running'[i] = running[i] /\ running[i] \in Loops /\ running[i] # None
      BY <2>7, <2>12
    <3>2. Enabled(i) /\ (JobOf(i) \in todo[p] \/ UpToDate(i))
      BY <1>f, <2>2, <3>1 DEF Reading, HoldsMu
    <3>3. JobOf(i) # j
      BY <2>3, <3>1, <3>2, WantedFacts
    <3>4. UpToDate(i) => UpToDate(i)'
      BY <1>b, <1>d, <1>e, <2>4, <3>1 DEF UpToDate, Procs
    <3> QED BY <1>e, <2>11, <3>2, <3>3, <3>4
  <2>13. Reading(p)'
    BY <1>d, <2>2, <2>5, <2>11, <2>12 DEF Reading, HoldsMu
  <2> QED BY <2>6, <2>8, <2>10, <2>13, SnapshotOfOne DEF Sync
<1>6. CASE ReloadStart(p)
  <2>1. PICK l \in Loops :
          /\ pc[l] = "free"
          /\ running' = [running EXCEPT ![job[p].id] = l]
          /\ cancelled' = IF root THEN cancelled \cup {l} ELSE cancelled
          /\ pc' = [pc EXCEPT ![p] = "each", ![l] = "resolve"]
          /\ job' = [job EXCEPT ![p] = NoJob, ![l] = job[p]]
    BY <1>6 DEF ReloadStart
  <2>2. pc[p] = "configure" /\ UNCHANGED todo
    BY <1>6 DEF ReloadStart
  <2>3. job[p] \in Wanted /\ todo[p] \subseteq Wanted
    BY <1>f, <2>2 DEF Reading, HoldsMu
  <2> DEFINE n == job[p].id
  <2>4. n \in Ids /\ job[p] = JobOf(n) /\ Enabled(n)
    BY <2>3, WantedFacts
  <2>5. \A q \in Procs : /\ pc'[q] = IF q = l THEN "resolve" ELSE IF q = p THEN "each" ELSE pc[q]
                         /\ job'[q] = IF q = l THEN job[p] ELSE IF q = p THEN NoJob ELSE job[q]
    BY <1>a, <1>b, <2>1 DEF TypeInv, TypeOK
  <2>6. \A i \in Ids : running'[i] = IF i = n THEN l ELSE running[i]
    BY <1>a, <2>1 DEF TypeInv, TypeOK
  <2>7. l \in Procs /\ l # p /\ l \notin Callers
    BY DEF Procs
  <2>8. CancelledAlive'
    BY <1>a, <1>b, <2>1, <2>5 DEF Sync, CancelledAlive, Alive, TypeInv, TypeOK, Procs
  <2>9. RunningLoops'
    <3> SUFFICES ASSUME ~root, NEW i \in Ids, running'[i] # None
                 PROVE  /\ Alive(running[i])' /\ running'[i] \notin cancelled'
                        /\ job'[running'[i]].id = i
      BY <1>d DEF RunningLoops
    <3>1. CASE i = n
      <4>1. running'[i] = l /\ pc'[l] = "resolve" /\ job'[l] = job[p]
        BY <2>5, <2>6, <2>7, <3>1
      <4>2. l \notin cancelled /\ cancelled' = cancelled
        BY <2>1 DEF Sync, CancelledAlive, Alive
      <4> QED BY <3>1, <4>1, <4>2 DEF Alive
    <3>2. CASE i # n
      <4>1. running'[i] = running[i] /\ running[i] \in Loops
        BY <1>g, <2>6, <3>2
      <4>2. Alive(running[i]) /\ running[i] \notin cancelled /\ job[running[i]].id = i
        BY <4>1 DEF Sync, RunningLoops
      <4>3. running[i] # l
        BY <2>1, <4>2 DEF Alive
      <4>4. pc'[running[i]] = pc[running[i]] /\ job'[running[i]] = job[running[i]]
        BY <1>b, <2>5, <4>1, <4>3 DEF Procs
      <4>5. cancelled' = cancelled
        BY <2>1
      <4> QED BY <4>1, <4>2, <4>4, <4>5 DEF Alive
    <3> QED BY <3>1, <3>2
  <2>10. \A q \in Callers : q # p => pc'[q] = pc[q]
    BY <2>5, <2>7 DEF Procs
  <2>11. Boot' /\ Matches' /\ \A q \in Callers : q # p => pc'[q] \notin ReloadPC
    BY <1>a, <1>b, <1>c, <2>5, <2>7, <2>10, Alone DEF ReloadPC
  <2>12. ASSUME NEW i \in Ids, running'[i] # None
         PROVE  Enabled(i)' /\ (JobOf(i)' \in todo'[p] \/ UpToDate(i)')
    <3>1. CASE i = n
      <4>1. job'[running'[i]] = JobOf(i)
        BY <2>4, <2>5, <2>6, <2>7, <3>1
      <4>2. UpToDate(i)'
        BY <1>e, <4>1 DEF UpToDate
      <4> QED BY <1>e, <2>4, <3>1, <4>2
    <3>2. CASE i # n
      <4>1. running'[i] = running[i] /\ running[i] \in Loops /\ running[i] # None
        BY <1>g, <2>6, <2>12, <3>2
      <4>2. Enabled(i) /\ (JobOf(i) \in todo[p] \/ UpToDate(i))
        BY <1>f, <2>2, <4>1 DEF Reading, HoldsMu
      <4>3. UpToDate(i) => UpToDate(i)'
        <5> SUFFICES ASSUME ~root, job[running[i]] = JobOf(i)
                     PROVE  job'[running[i]] = JobOf(i)
          BY <1>d, <1>e, <4>1 DEF UpToDate
        <5>1. running[i] # l
          BY <2>1, <4>1 DEF Sync, RunningLoops, Alive
        <5> QED BY <1>b, <2>5, <4>1, <5>1 DEF Procs
      <4> QED BY <1>e, <2>2, <4>2, <4>3
    <3> QED BY <3>1, <3>2
  <2>13. Reading(p)'
    BY <1>b, <1>d, <2>2, <2>3, <2>5, <2>7, <2>12 DEF Reading, HoldsMu
  <2> QED BY <2>8, <2>9, <2>11, <2>13, SnapshotOfOne DEF Sync
<1> QED
  BY <1>1, <1>2, <1>3, <1>4, <1>5, <1>6, <1>7, <1>8 DEF ReloadStep

\* While requests come one at a time, once a request has been answered only
\* enabled instances have a loop, and it runs the stored config (Reload).
THEOREM InStep == OneRequest => (Spec => []RunningMatchesDatabase)
<1> SUFFICES ASSUME OneRequest PROVE Spec => []RunningMatchesDatabase
  OBVIOUS
<1>1. IInv /\ Sync /\ [Next]_vars /\ IInv' => Sync'
  <2> SUFFICES ASSUME IInv, Sync, [Next]_vars, IInv' PROVE Sync'
    OBVIOUS
  <2>1. TypeInv /\ TypeInv'
    BY DEF IInv
  <2>2. CASE UNCHANGED vars \/ Terminated
    BY <2>1, <2>2, SyncFrame
    DEF Terminated, vars, dbVars, schedVars, Alive
  <2>3. CASE Next /\ ~Terminated
    BY <2>1, <2>3, RequestSync, ReloadSync, FetchSync, OtherSync DEF Next
  <2> QED BY <2>2, <2>3
<1>2. Sync => RunningMatchesDatabase
  BY DEF Sync, Matches, RunningMatchesDatabase, Quiet, Enabled, UpToDate, FetchPC, ReloadPC
<1> QED BY <1>1, <1>2, InitSync, IInvCorrect, PTL DEF Spec
=============================================================================
