------------------------ MODULE AdminListsProofs ------------------------
(***************************************************************************)
(* Theorems about AdminPages: the session, the pages that list things -    *)
(* plugins, themes, clients, displays - and the colour picker.  A page is  *)
(* one of a kind of behaviour: its invariant is shown of its own actions,  *)
(* and the theorems say it holds in AdminPages whenever that page is the   *)
(* one that is open.                                                       *)
(***************************************************************************)
EXTENDS AdminPages, FiniteSetTheorems, TLAPS

Ats == {"sent", "ok", "refused", "lost"}
IsRequest(c) == c = [kind |-> c.kind, arg |-> c.arg, at |-> c.at, data |-> c.data]

\* At most one request is in flight.
Alone == \A x, y \in Calls : call[x] # NoCall /\ call[y] # NoCall => x = y

LogType(n) == log \in [edits : 0..n, twin : BOOLEAN, torn : BOOLEAN]

\* What the admin does counts, and may overlap with a request.
LEMMA LogCounts ==
  ASSUME NEW n \in Nat, LogType(n), log.edits < n, NEW b \in BOOLEAN,
         log' = [log EXCEPT !.edits = log.edits + 1, !.twin = b]
  PROVE  LogType(n)'
<1>1. log.edits \in 0..n /\ log.twin \in BOOLEAN /\ log.torn \in BOOLEAN
  BY DEF LogType
<1>2. log = [edits |-> log.edits, twin |-> log.twin, torn |-> log.torn]
  BY DEF LogType
<1>3. log'.edits = log.edits + 1 /\ log'.twin = b /\ log'.torn = log.torn
  BY <1>2
<1>4. log' = [edits |-> log'.edits, twin |-> log'.twin, torn |-> log'.torn]
  BY <1>2
<1> QED BY <1>1, <1>3, <1>4 DEF LogType

LEMMA LogActs ==
  ASSUME NEW n \in Nat, LogType(n), log.edits < n, log' = [log EXCEPT !.edits = log.edits + 1]
  PROVE  LogType(n)'
<1>1. log' = [log EXCEPT !.edits = log.edits + 1, !.twin = log.twin] /\ log.twin \in BOOLEAN
  BY DEF LogType
<1> QED BY <1>1, LogCounts

LEMMA LogTears ==
  ASSUME NEW n, LogType(n), NEW b \in BOOLEAN, log' = [log EXCEPT !.torn = b]
  PROVE  LogType(n)'
BY Zenon DEF LogType

\* The answer to a request is written beside it.
LEMMA Answer ==
  ASSUME DOMAIN call = Calls, NEW x \in Calls, IsRequest(call[x]), NEW a, NEW d,
         call' = [call EXCEPT ![x].at = a, ![x].data = d]
  PROVE  /\ DOMAIN call' = Calls /\ IsRequest(call'[x])
         /\ call'[x].kind = call[x].kind /\ call'[x].arg = call[x].arg
         /\ call'[x].at = a /\ call'[x].data = d
         /\ \A y \in Calls : y # x => call'[y] = call[y]
BY DEF IsRequest

Safe == ~log.twin /\ ~log.torn

\* What is sent while nothing is under way does not overlap.
LEMMA Sends ==
  ASSUME NEW n \in Nat, LogType(n), log.edits < n,
         log' = [log EXCEPT !.edits = log.edits + 1, !.twin = log.twin \/ Open # {}]
  PROVE  /\ LogType(n)' /\ log'.torn = log.torn /\ log'.edits # log.edits
         /\ ~log'.twin => ~log.twin /\ \A y \in Calls : call[y] = NoCall
<1> DEFINE b == log.twin \/ Open # {}
<1>1. b \in BOOLEAN
  BY DEF LogType
<1>2. LogType(n)'
  <2> HIDE DEF b
  <2> QED BY <1>1, LogCounts DEF b
<1>3. log'.twin = b /\ log'.torn = log.torn /\ log'.edits = log.edits + 1 /\ log.edits \in 0..n
  BY DEF LogType
<1>4. ~log'.twin => ~log.twin /\ Open = {}
  BY <1>3
<1>5. Open = {} => \A y \in Calls : call[y] = NoCall
  BY DEF Open, Idle
<1> QED BY <1>2, <1>3, <1>4, <1>5

LEMMA Acts ==
  ASSUME NEW n \in Nat, LogType(n), log.edits < n, log' = [log EXCEPT !.edits = log.edits + 1]
  PROVE  LogType(n)' /\ log'.torn = log.torn /\ log'.twin = log.twin /\ log'.edits # log.edits
<1>1. log'.torn = log.torn /\ log'.twin = log.twin /\ log'.edits = log.edits + 1 /\ log.edits \in 0..n
  BY DEF LogType
<1> QED BY <1>1, LogActs

LEMMA Replies ==
  ASSUME DOMAIN call = Calls, NEW x \in Calls, IsRequest(call[x]), NEW n, LogType(n),
         NEW r, Replied(x, r)
  PROVE  /\ db' = r.db /\ ui' = ui /\ DOMAIN call' = Calls /\ IsRequest(call'[x])
         /\ call'[x].kind = call[x].kind /\ call'[x].arg = call[x].arg /\ call'[x].data = r.data
         /\ call'[x].at = IF r.ok THEN "ok" ELSE "refused"
         /\ \A y \in Calls : y # x => call'[y] = call[y]
         /\ LogType(n)' /\ log'.edits = log.edits /\ log'.twin = log.twin
         /\ ~log'.torn => ~log.torn /\ r.ok
<1> DEFINE a == IF r.ok THEN "ok" ELSE "refused"
           b == log.torn \/ ~r.ok
<1>1. call' = [call EXCEPT ![x].at = a, ![x].data = r.data] /\ log' = [log EXCEPT !.torn = b]
      /\ db' = r.db /\ ui' = ui
  BY DEF Replied
<1>2. b \in BOOLEAN
  OBVIOUS
<1>3. log'.edits = log.edits /\ log'.twin = log.twin /\ log'.torn = b
  BY <1>1 DEF LogType
<1>4. LogType(n)'
  <2> HIDE DEF b
  <2> QED BY <1>1, <1>2, LogTears
<1>5. /\ DOMAIN call' = Calls /\ IsRequest(call'[x])
      /\ call'[x].kind = call[x].kind /\ call'[x].arg = call[x].arg
      /\ call'[x].at = a /\ call'[x].data = r.data
      /\ \A y \in Calls : y # x => call'[y] = call[y]
  <2> HIDE DEF a
  <2> QED BY <1>1, Answer
<1> QED BY <1>1, <1>3, <1>4, <1>5

LEMMA Loses ==
  ASSUME DOMAIN call = Calls, NEW x \in Calls, IsRequest(call[x]), NEW n, LogType(n), Lose(x)
  PROVE  /\ db' = db /\ ui' = ui /\ DOMAIN call' = Calls /\ IsRequest(call'[x])
         /\ call'[x].kind = call[x].kind /\ call'[x].arg = call[x].arg /\ call'[x].at = "lost"
         /\ call[x] # NoCall /\ \A y \in Calls : y # x => call'[y] = call[y]
         /\ LogType(n)' /\ log'.edits = log.edits /\ log'.twin = log.twin /\ log'.torn
<1>1. call' = [call EXCEPT ![x].at = "lost", ![x].data = None] /\ log' = [log EXCEPT !.torn = TRUE]
      /\ db' = db /\ ui' = ui /\ call[x] # NoCall
  BY DEF Lose
<1>2. log'.edits = log.edits /\ log'.twin = log.twin /\ log'.torn
  BY <1>1 DEF LogType
<1>3. LogType(n)'
  BY <1>1, LogTears
<1>4. /\ DOMAIN call' = Calls /\ IsRequest(call'[x])
      /\ call'[x].kind = call[x].kind /\ call'[x].arg = call[x].arg /\ call'[x].at = "lost"
      /\ \A y \in Calls : y # x => call'[y] = call[y]
  BY <1>1, Answer
<1> QED BY <1>1, <1>2, <1>3, <1>4

PTable == [Two -> P!Instance \cup {None}]
PArg == [id : Two \cup {None}, row : P!Instance, chosen : BOOLEAN]
PPanel == [id : Two \cup {None}, row : P!Instance, ask : Calls \cup {None},
           options : (SUBSET Options) \cup {None}, touched : BOOLEAN, busy : Calls \cup {None}]

PCall(c) ==
  /\ IsRequest(c) /\ c.at \in Ats
  /\ c.kind \in {"load", "create", "update", "toggle", "delete", "revoke", "authorize", "discover"}
  /\ c.kind = "load" => c.arg \in Two \cup {None} /\ (c.at = "ok" => c.data \in PTable)
  /\ c.kind \in {"create", "update", "toggle"} => c.arg \in PArg
  /\ c.kind = "create" /\ c.at = "ok" => c.data \in Two
  /\ c.kind \in {"update", "toggle"} => c.arg.id \in Two
  /\ c.kind = "toggle" => ~c.arg.chosen
  /\ c.kind \in {"delete", "revoke", "authorize", "discover"} => c.arg \in Two
  /\ c.kind = "discover" /\ c.at = "ok" => c.data \in SUBSET Options

PUi == ui \in [rows : PTable \cup {None}, panel : PPanel \cup {None},
               left : Two \cup {None}, note : {None, "success", "error"}]
PDb == db \in PTable
PCalls == DOMAIN call = Calls /\ \A x \in Calls : call[x] # NoCall => PCall(call[x])
PLog == LogType(MaxEdits - 1)

PType == PUi /\ PDb /\ PCalls /\ PLog

LEMMA PBegin == Init /\ page = "plugins" => P!Init
BY DEF Init

\* A slot is given a request, or freed.
LEMMA PPut ==
  ASSUME PCalls, NEW x \in Calls, NEW c, c = NoCall \/ PCall(c),
         call' = [call EXCEPT ![x] = c]
  PROVE  PCalls'
BY DEF PCalls

LEMMA PSends == ASSUME PLog, P!Sending PROVE PLog'
<1> DEFINE n == MaxEdits - 1
           b == log.twin \/ P!Open # {}
<1>1. n \in Nat /\ b \in BOOLEAN
  BY BoundsAssumption DEF PLog, LogType
<1>2. log.edits < n /\ log' = [log EXCEPT !.edits = log.edits + 1, !.twin = b] /\ LogType(n)
  BY DEF P!Sending, PLog
<1>3. LogType(n)'
  <2> HIDE DEF n, b
  <2> QED BY <1>1, <1>2, LogCounts
<1> QED BY <1>3 DEF PLog

LEMMA PActs == ASSUME PLog, P!Act PROVE PLog'
BY BoundsAssumption, LogActs DEF PLog, P!Act

LEMMA PSend ==
  ASSUME PCalls, PLog, NEW kind, NEW arg, PCall(P!Request(kind, arg)), P!Send(kind, arg)
  PROVE  PCalls' /\ PLog'
<1>1. PLog'
  BY PSends DEF P!Send, P!SendAs
<1> QED BY <1>1, PPut DEF P!Send, P!SendAs

\* A row is changed and stays a row.
LEMMA PRow ==
  ASSUME NEW row \in P!Instance, NEW old \in P!Instance, NEW b \in BOOLEAN
  PROVE  /\ [row EXCEPT !.oauth = old.oauth, !.auth = old.auth] \in P!Instance
         /\ [row EXCEPT !.auth = b] \in P!Instance
         /\ [row EXCEPT !.on = b] \in P!Instance
BY Zenon DEF P!Instance

LEMMA PPanels ==
  ASSUME NEW u, NEW rows, NEW left, NEW note, NEW p \in PPanel,
         u = [rows |-> rows, panel |-> p, left |-> left, note |-> note],
         NEW o \in (SUBSET Options) \cup {None}, NEW k \in Calls \cup {None},
         NEW name \in Names, NEW b \in BOOLEAN, NEW picked \in SUBSET Options
  PROVE  /\ [p EXCEPT !.ask = None, !.options = o] \in PPanel
BY Zenon DEF PPanel

LEMMA PInitType == ASSUME P!Init PROVE PType
<1>1. PUi /\ PLog
  BY BoundsAssumption
  DEF P!Init, P!Page, P!Mounted, P!NewLog, PUi, PLog, LogType
<1>2. PDb
  BY NamesAssumption DEF P!Init, P!AnInstance, P!AName, PDb, PTable, P!Instance
<1>3. PCalls
  BY DEF P!Init, P!Mounted, P!Request, P!NoCalls, PCalls, PCall, IsRequest, Ats
<1> QED BY <1>1, <1>2, <1>3 DEF PType

LEMMA PServeType == ASSUME PType, NEW x \in Calls, P!Serve(x) PROVE PType'
<1> USE DEF PType
<1> PICK r \in P!Served(call[x]) : P!Replied(x, r)
  BY DEF P!Serve
<1> DEFINE c == call[x]
<1>1. PCall(c) /\ c # NoCall /\ c.at = "sent"
  BY DEF P!Serve, P!Sent, PCalls
<1>2. /\ DOMAIN call' = Calls /\ IsRequest(call'[x])
      /\ call'[x].kind = c.kind /\ call'[x].arg = c.arg
      /\ call'[x].at = (IF r.ok THEN "ok" ELSE "refused") /\ call'[x].data = r.data
      /\ \A y \in Calls : y # x => call'[y] = call[y]
  <2> DEFINE a == IF r.ok THEN "ok" ELSE "refused"
  <2>1. call' = [call EXCEPT ![x].at = a, ![x].data = r.data]
    BY DEF P!Replied
  <2>2. DOMAIN call = Calls /\ IsRequest(call[x])
    BY <1>1 DEF PCalls, PCall
  <2> HIDE DEF a
  <2>3. /\ DOMAIN call' = Calls /\ IsRequest(call'[x])
        /\ call'[x].kind = c.kind /\ call'[x].arg = c.arg
        /\ call'[x].at = a /\ call'[x].data = r.data
        /\ \A y \in Calls : y # x => call'[y] = call[y]
    BY <2>1, <2>2, Answer
  <2> QED BY <2>3 DEF a
<1>3. PUi' /\ db' = r.db
  BY DEF P!Replied, PUi
<1>4. PLog'
  <2>1. (log.torn \/ ~r.ok) \in BOOLEAN
    OBVIOUS
  <2> QED BY <2>1, LogTears DEF P!Replied, PLog
<1>5. r.db \in PTable /\ PCall(call'[x])
  <2>1. CASE c.kind \in {"load", "create", "delete"}
    BY <1>1, <1>2, <2>1 DEF P!Served, P!Reply, PCall, Ats, PDb, PTable, PArg
  <2>2. CASE c.kind \in {"update", "toggle"}
    <3> DEFINE i == c.arg.id
               row == c.arg.row
    <3>1. i \in Two /\ row \in P!Instance
      BY <1>1, <2>2 DEF PCall, PArg
    <3>2. r = P!Write(i, row)
      BY <2>2 DEF P!Served
    <3>3. db[i] # None => [row EXCEPT !.oauth = db[i].oauth, !.auth = db[i].auth] \in P!Instance
      BY <3>1, PRow DEF PDb, PTable
    <3>4. r.db \in PTable
      BY <3>1, <3>2, <3>3 DEF P!Write, P!Refuse, P!Reply, PDb, PTable
    <3> QED BY <1>1, <1>2, <2>2, <3>4 DEF PCall, Ats
  <2>3. CASE c.kind = "revoke"
    <3>1. c.arg \in Two /\ (db[c.arg] # None => [db[c.arg] EXCEPT !.auth = FALSE] \in P!Instance)
      BY <1>1, <2>3, PRow DEF PCall, PDb, PTable
    <3>2. r.db = db \/ (db[c.arg] # None /\ r.db = [db EXCEPT ![c.arg] = [db[c.arg] EXCEPT !.auth = FALSE]])
      BY <2>3 DEF P!Served, P!Refuse, P!Reply
    <3>3. r.db \in PTable
      BY <3>1, <3>2 DEF PDb, PTable
    <3> QED BY <1>1, <1>2, <2>3, <3>3 DEF PCall, Ats
  <2>4. CASE c.kind \in {"authorize", "discover"}
    BY <1>1, <1>2, <2>4 DEF P!Served, P!Refuse, P!Reply, PCall, Ats, PDb
  <2> QED BY <1>1, <2>1, <2>2, <2>3, <2>4 DEF PCall
<1> QED BY <1>2, <1>3, <1>4, <1>5 DEF PDb, PCalls

LEMMA PPageType ==
  ASSUME PType, NEW x \in Calls,
         P!Lose(x) \/ P!Loaded(x) \/ P!Reload(x) \/ P!NotAuthorized(x) \/ P!Unheard(x)
           \/ P!Leave(x) \/ P!Unread(x) \/ P!Discovered(x) \/ P!Saved(x) \/ P!NotSaved(x)
  PROVE  PType'
<1> USE DEF PType
<1>1. CASE P!Lose(x)
  <2>1. PLog'
    BY <1>1, LogTears DEF P!Lose, PLog
  <2>2. DOMAIN call = Calls /\ PCall(call[x]) /\ IsRequest(call[x])
    BY <1>1 DEF P!Lose, PCalls, PCall
  <2>3. /\ DOMAIN call' = Calls /\ PCall(call'[x])
        /\ \A y \in Calls : y # x => call'[y] = call[y]
    <3>1. call' = [call EXCEPT ![x].at = "lost", ![x].data = None]
      BY <1>1 DEF P!Lose
    <3>2. /\ DOMAIN call' = Calls /\ IsRequest(call'[x])
          /\ call'[x].kind = call[x].kind /\ call'[x].arg = call[x].arg /\ call'[x].at = "lost"
          /\ \A y \in Calls : y # x => call'[y] = call[y]
      BY <2>2, <3>1, Answer
    <3> QED BY <2>2, <3>2 DEF PCall, Ats
  <2> QED BY <1>1, <2>1, <2>3 DEF P!Lose, PUi, PDb, PCalls
<1>2. CASE P!Loaded(x)
  BY <1>2 DEF P!Loaded, P!Answered, P!Done, P!DoneThen, P!Request, PUi, PDb, PLog, LogType, PCalls, PCall, IsRequest, Ats
<1>3. CASE P!Reload(x)
  BY <1>3 DEF P!Reload, P!Answered, P!DoneThen, P!Request, PUi, PDb, PLog, LogType, PCalls, PCall, IsRequest, Ats
<1>4. CASE P!NotAuthorized(x) \/ P!Unheard(x) \/ P!Unread(x)
  BY <1>4 DEF P!NotAuthorized, P!Unheard, P!Unread, P!Done, PUi, PDb, PLog, LogType, PCalls
<1>5. CASE P!Leave(x)
  BY <1>5 DEF P!Leave, P!Answered, P!Done, P!Page, PUi, PDb, PLog, LogType, PCalls, PCall
<1>6. CASE P!Discovered(x)
  <2>1. PDb' /\ PCalls' /\ PLog'
    BY <1>6 DEF P!Discovered, P!Done, PDb, PLog, LogType, PCalls
  <2>2. CASE P!Asked(x)
    <3> DEFINE o == IF call[x].at = "ok" THEN call[x].data ELSE {}
    <3>1. o \in SUBSET Options /\ ui.panel \in PPanel
      BY <1>6, <2>2 DEF P!Discovered, P!Asked, P!Answered, P!Failed, PUi, PCalls, PCall
    <3>2. ui' = [ui EXCEPT !.panel.ask = None, !.panel.options = o]
      BY <1>6, <2>2 DEF P!Discovered
    <3> HIDE DEF o
    <3>3. ui' = [ui EXCEPT !.panel = [ui.panel EXCEPT !.ask = None, !.options = o]]
      BY <3>2
    <3>4. [ui.panel EXCEPT !.ask = None, !.options = o] \in PPanel
      BY Zenon, <3>1 DEF PPanel
    <3> QED BY <2>1, <3>3, <3>4 DEF PUi
  <2> QED BY <1>6, <2>1, <2>2 DEF P!Discovered, PUi
<1>7. CASE P!Saved(x)
  BY <1>7 DEF P!Saved, P!Answered, P!DoneThen, P!Request, PUi, PDb, PLog, LogType, PCalls, PCall, IsRequest, Ats
<1>8. CASE P!NotSaved(x)
  BY <1>8 DEF P!NotSaved, P!Done, PUi, PPanel, PDb, PLog, LogType, PCalls, PCall
<1> QED BY <1>1, <1>2, <1>3, <1>4, <1>5, <1>6, <1>7, <1>8

LEMMA PAdminType == ASSUME PType, P!Admin PROVE PType'
<1> USE DEF PType
<1>1. ASSUME NEW i \in Two, P!ToggleEnabled(i) PROVE PType'
  <2>1. [id |-> i, row |-> [ui.rows[i] EXCEPT !.on = ~@], chosen |-> FALSE] \in PArg
    <3>1. ui.rows[i] \in P!Instance
      BY <1>1 DEF P!ToggleEnabled, P!Row, PUi, PTable
    <3>2. (~ui.rows[i].on) \in BOOLEAN
      OBVIOUS
    <3>3. [ui.rows[i] EXCEPT !.on = ~@] \in P!Instance
      BY <3>1, <3>2, PRow
    <3> QED BY <3>3 DEF PArg
  <2>2. PCall(P!Request("toggle", [id |-> i, row |-> [ui.rows[i] EXCEPT !.on = ~@], chosen |-> FALSE]))
    BY <2>1 DEF P!Request, PCall, IsRequest, Ats
  <2> QED BY <1>1, <2>2, PSend DEF P!ToggleEnabled, PUi, PDb
<1>2. ASSUME NEW i \in Two, P!Delete(i) \/ P!Authorize(i) \/ P!Deauthorize(i) PROVE PType'
  <2>1. \A k \in {"delete", "authorize", "revoke"} : PCall(P!Request(k, i))
    BY DEF P!Request, PCall, IsRequest, Ats
  <2>2. PUi' /\ PDb'
    BY <1>2 DEF P!Delete, P!Authorize, P!Deauthorize, PUi, PDb
  <2>3. \E k \in {"delete", "authorize", "revoke"} : P!Send(k, i)
    BY <1>2 DEF P!Delete, P!Authorize, P!Deauthorize
  <2>4. PICK k \in {"delete", "authorize", "revoke"} : P!Send(k, i)
    BY <2>3
  <2>5. PCalls' /\ PLog'
    BY <2>1, <2>4, PSend
  <2> QED BY <2>2, <2>5
<1>3. ASSUME NEW i \in Two, P!OpenEdit(i) PROVE PType'
  <2>1. ui.rows[i] \in P!Instance /\ PLog' /\ PDb'
    BY <1>3, PSends DEF P!OpenEdit, P!Row, PUi, PTable, PDb
  <2>2. \A x \in Calls \cup {None} :
          [id |-> i, row |-> ui.rows[i], ask |-> x, options |-> None, touched |-> FALSE, busy |-> None]
            \in PPanel
    BY <2>1 DEF PPanel
  <2>3. CASE ui.rows[i].oauth /\ ~ui.rows[i].auth
    BY <1>3, <2>1, <2>2, <2>3 DEF P!OpenEdit, P!Panel, PUi, PCalls
  <2>4. CASE ~(ui.rows[i].oauth /\ ~ui.rows[i].auth)
    <3>1. PICK x \in P!Idle :
            /\ ui' = [ui EXCEPT !.panel = [P!Panel(i, ui.rows[i]) EXCEPT !.ask = x]]
            /\ call' = [call EXCEPT ![x] = P!Request("discover", i)]
      BY <1>3, <2>4 DEF P!OpenEdit
    <3>2. PCall(P!Request("discover", i)) /\ x \in Calls
      BY DEF P!Request, PCall, IsRequest, Ats, P!Idle
    <3>3. PCalls'
      BY <3>1, <3>2, PPut
    <3>4. [P!Panel(i, ui.rows[i]) EXCEPT !.ask = x] \in PPanel
      BY <2>2, <3>2 DEF P!Panel
    <3> QED BY <2>1, <3>1, <3>3, <3>4 DEF PUi
  <2> QED BY <2>3, <2>4
<1>4. ASSUME NEW b \in BOOLEAN, P!OpenAdd(b) PROVE PType'
  <2>1. PLog' /\ PDb' /\ PCalls'
    BY <1>4, PActs DEF P!OpenAdd, PDb, PCalls
  <2>2. [oauth |-> b, auth |-> FALSE, name |-> P!AName, on |-> TRUE, picked |-> {}] \in P!Instance
    BY NamesAssumption DEF P!Instance, P!AName
  <2>3. P!Panel(None, [oauth |-> b, auth |-> FALSE, name |-> P!AName, on |-> TRUE, picked |-> {}]) \in PPanel
    BY <2>2 DEF P!Panel, PPanel
  <2> QED BY <1>4, <2>1, <2>3 DEF P!OpenAdd, PUi
<1>5. ASSUME NEW b \in BOOLEAN, P!ComeBack(b) PROVE PType'
  <2>1. PLog'
    BY <1>5, PSends DEF P!ComeBack
  <2>2. PCalls'
    <3>1. PCall(P!Request("load", None))
      BY DEF P!Request, PCall, IsRequest, Ats
    <3> QED BY <1>5, <3>1, PPut DEF P!ComeBack
  <2>3. PDb'
    <3>1. ui.left \in Two
      BY <1>5 DEF P!ComeBack, P!Here, PUi
    <3>2. db' = db \/ (db[ui.left] # None /\ db' = [db EXCEPT ![ui.left] = [db[ui.left] EXCEPT !.auth = TRUE]])
      BY <1>5 DEF P!ComeBack
    <3>3. db[ui.left] # None => [db[ui.left] EXCEPT !.auth = TRUE] \in P!Instance
      BY <3>1, PRow DEF PDb, PTable
    <3> QED BY <3>1, <3>2, <3>3 DEF PDb, PTable
  <2>4. PUi'
    BY <1>5 DEF P!ComeBack, P!Page, PUi
  <2> QED BY <2>1, <2>2, <2>3, <2>4
<1>6. ASSUME NEW n \in Names, NEW on \in BOOLEAN, P!EditPlain(n, on) PROVE PType'
  <2>1. PLog' /\ PDb' /\ PCalls'
    BY <1>6, PActs DEF P!EditPlain, PDb, PCalls
  <2>2. ui.panel \in PPanel /\ ui.panel.row \in P!Instance
    BY <1>6 DEF P!EditPlain, PUi, PPanel
  <2>3. [ui.panel.row EXCEPT !.name = n, !.on = on] \in P!Instance
    BY Zenon, <2>2 DEF P!Instance
  <2>4. [ui.panel EXCEPT !.row = [ui.panel.row EXCEPT !.name = n, !.on = on]] \in PPanel
    BY <2>2, <2>3 DEF PPanel
  <2>5. ui' = [ui EXCEPT !.panel = [ui.panel EXCEPT !.row = [ui.panel.row EXCEPT !.name = n, !.on = on]]]
    BY <1>6, <2>2 DEF P!EditPlain, PUi, PPanel
  <2> QED BY <2>1, <2>4, <2>5 DEF PUi
<1>7. ASSUME NEW o \in SUBSET Options, P!Choose(o) PROVE PType'
  <2>1. PLog' /\ PDb' /\ PCalls'
    BY <1>7, PActs DEF P!Choose, PDb, PCalls
  <2>2. ui.panel \in PPanel /\ ui.panel.row \in P!Instance
    BY <1>7 DEF P!Choose, PUi, PPanel
  <2>3. [ui.panel.row EXCEPT !.picked = o] \in P!Instance
    BY Zenon, <2>2 DEF P!Instance
  <2>4. [ui.panel EXCEPT !.row = [ui.panel.row EXCEPT !.picked = o], !.touched = TRUE] \in PPanel
    BY Zenon, <2>2, <2>3 DEF PPanel
  <2>5. ui' = [ui EXCEPT !.panel = [ui.panel EXCEPT !.row = [ui.panel.row EXCEPT !.picked = o], !.touched = TRUE]]
    BY <1>7, <2>2 DEF P!Choose, PUi, PPanel
  <2> QED BY <2>1, <2>4, <2>5 DEF PUi
<1>8. CASE P!Submit
  <2>1. PICK x \in Calls :
          /\ P!SendAs(x, IF ui.panel.id = None THEN "create" ELSE "update",
                     [id |-> ui.panel.id, row |-> ui.panel.row, chosen |-> ui.panel.touched])
          /\ ui' = [ui EXCEPT !.panel.busy = x]
    BY <1>8 DEF P!Submit
  <2>2. ui.panel \in PPanel
    BY <1>8 DEF P!Submit, PUi
  <2>3. [id |-> ui.panel.id, row |-> ui.panel.row, chosen |-> ui.panel.touched] \in PArg
    BY Zenon, <2>2 DEF PArg, PPanel
  <2>4. ui.panel.id \in Two \cup {None}
    BY <2>2 DEF PPanel
  <2>5. PCall(P!Request(IF ui.panel.id = None THEN "create" ELSE "update",
                       [id |-> ui.panel.id, row |-> ui.panel.row, chosen |-> ui.panel.touched]))
    BY <2>3, <2>4 DEF P!Request, PCall, IsRequest, Ats
  <2>6. PCalls'
    BY <2>1, <2>5, PPut DEF P!SendAs
  <2>7. PLog' /\ PDb'
    BY <1>8, <2>1, PSends DEF P!SendAs, P!Submit, PDb
  <2>8. [ui.panel EXCEPT !.busy = x] \in PPanel
    BY Zenon, <2>2 DEF PPanel
  <2>9. PUi'
    BY <2>1, <2>8 DEF PUi
  <2> QED BY <2>6, <2>7, <2>9
<1>9. CASE P!Cancel
  BY <1>9, PActs DEF P!Cancel, PUi, PDb, PCalls
<1> QED BY <1>1, <1>2, <1>3, <1>4, <1>5, <1>6, <1>7, <1>8, <1>9 DEF P!Admin

LEMMA PTyped == PType /\ [P!Next]_vars => PType'
<1>1. ASSUME PType, UNCHANGED vars PROVE PType'
  BY <1>1 DEF vars, PType, PUi, PDb, PCalls, PLog, LogType
<1> QED BY <1>1, PAdminType, PServeType, PPageType DEF P!Next

---------------------------------------------------------------------------
\* Goes for the authorization of i, now or next.
PCovers(x, i) ==
  /\ call[x] # NoCall
  /\ \/ call[x].kind = "create" /\ call[x].at = "ok" /\ call[x].data = i /\ call[x].arg.row.oauth
     \/ call[x].kind \in {"load", "authorize"} /\ call[x].at \in {"sent", "ok"} /\ call[x].arg = i
PConsent ==
  ui.left = None /\ ui.note = None /\ Safe =>
    \A i \in Two \ {P!AnInstance} :
      db[i] # None /\ db[i].oauth => \E x \in Calls : PCovers(x, i)

\* Will be followed by the list as it is.
PReloads(x) ==
  /\ call[x] # NoCall
  /\ \/ call[x].kind \in {"create", "update", "toggle", "delete", "revoke"} /\ call[x].at = "ok"
     \/ call[x].kind = "load" /\ call[x].at \in {"sent", "ok"}
PFresh ==
  Safe =>
    /\ \A x \in Calls :
         call[x] # NoCall /\ call[x].kind = "load" /\ call[x].at = "ok" => call[x].data = db
    /\ ui.rows \notin {None, db} => \E x \in Calls : PReloads(x)

PSame(i, picked) == db[i] # None => db[i].picked = picked
PForm ==
  Safe /\ ui.panel # None /\ ui.panel.id # None =>
    /\ \A x \in Calls : call[x] # NoCall =>
         \/ call[x].kind = "discover"
         \/ /\ call[x].kind = "update" /\ call[x].arg.id = ui.panel.id
            /\ ~ui.panel.touched => ~call[x].arg.chosen
    /\ ~ui.panel.touched => PSame(ui.panel.id, ui.panel.row.picked)
PAsked ==
  Safe => \A x \in Calls :
    call[x] # NoCall /\ call[x].kind \in {"update", "toggle"} /\ call[x].at = "sent" /\ ~call[x].arg.chosen
      => PSame(call[x].arg.id, call[x].arg.row.picked)
PGone == ui.left # None => ui.rows = None /\ ui.panel = None

PInv == /\ PType /\ PGone /\ (~log.twin => Alone)
        /\ PConsent /\ PFresh /\ PForm /\ PAsked

\* What is sent while nothing is under way does not overlap.
LEMMA PSendsAlone ==
  ASSUME PType, P!Sending, NEW x \in Calls, NEW r, call' = [call EXCEPT ![x] = r]
  PROVE  /\ ~log'.twin => /\ ~log.twin /\ \A y \in Calls : call[y] = NoCall
                         /\ \A y \in Calls : y # x => call'[y] = NoCall
         /\ log'.torn = log.torn /\ call'[x] = r
         /\ ~log'.twin => Alone'
<1>1. log'.twin = (log.twin \/ P!Open # {}) /\ log'.torn = log.torn
  BY DEF P!Sending, PType, PLog, LogType
<1>2. \A y \in Calls : call'[y] = IF y = x THEN r ELSE call[y]
  BY DEF PType, PCalls
<1>3. ~log'.twin => ~log.twin /\ \A y \in Calls : call[y] = NoCall
  BY <1>1 DEF P!Open, P!Idle
<1> QED BY <1>1, <1>2, <1>3 DEF Alone

LEMMA PInitInv == ASSUME P!Init PROVE PInv
<1>1. PType
  BY PInitType
<1>2. PGone /\ Alone /\ PFresh /\ PForm /\ PAsked
  BY <1>1 DEF P!Init, P!Page, P!Mounted, P!NoCalls, P!Request, PGone, Alone, PFresh, PForm, PAsked, PType, PCalls
<1>3. \A i \in Two \ {P!AnInstance} : db[i] = None
  BY DEF P!Init
<1> QED BY <1>1, <1>2, <1>3 DEF PInv, PConsent

\* The admin does something that sends nothing.
LEMMA PActInv ==
  ASSUME PInv, P!Admin,
         \/ \E b \in BOOLEAN : P!OpenAdd(b)
         \/ \E n \in Names, on \in BOOLEAN : P!EditPlain(n, on)
         \/ \E o \in SUBSET Options : P!Choose(o)
         \/ P!Cancel
  PROVE  PInv'
<1>1. PType /\ PType'
  BY PAdminType DEF PInv
<1>2. UNCHANGED <<db, call>> /\ log'.twin = log.twin /\ log'.torn = log.torn
  BY <1>1 DEF P!OpenAdd, P!EditPlain, P!Choose, P!Cancel, P!Act, PType, PLog, LogType
<1>3. UNCHANGED <<ui.left, ui.note, ui.rows>>
  BY <1>1 DEF P!OpenAdd, P!EditPlain, P!Choose, P!Cancel, PType, PUi
<1>4. ui.left = None
  BY DEF P!OpenAdd, P!EditPlain, P!Choose, P!Cancel, P!Here
<1>5. PForm'
  <2>1. CASE (\E b \in BOOLEAN : P!OpenAdd(b)) \/ P!Cancel
    BY <1>1, <2>1 DEF P!OpenAdd, P!Cancel, P!Panel, PType, PUi, PForm
  <2>2. ASSUME NEW n \in Names, NEW on \in BOOLEAN, P!EditPlain(n, on) PROVE PForm'
    <3>1. /\ ui.panel # None /\ ui'.panel.id = ui.panel.id /\ ui'.panel.touched = ui.panel.touched
          /\ ui'.panel.row.picked = ui.panel.row.picked
      BY <1>1, <2>2 DEF P!EditPlain, PType, PUi, PPanel, P!Instance
    <3> QED BY <1>2, <3>1 DEF PInv, PForm, PSame, Safe
  <2>3. ASSUME NEW o \in SUBSET Options, P!Choose(o) PROVE PForm'
    <3>1. ui.panel # None /\ ui'.panel.id = ui.panel.id /\ ui'.panel.touched
      BY <1>1, <2>3 DEF P!Choose, PType, PUi, PPanel, P!Instance
    <3> QED BY <1>2, <3>1 DEF PInv, PForm, PSame, Safe
  <2> QED BY <2>1, <2>2, <2>3
<1>6. (~log.twin => Alone)' /\ PConsent' /\ PFresh' /\ PAsked' /\ PGone'
  BY <1>2, <1>3, <1>4 DEF PInv, PConsent, PFresh, PAsked, PGone, PSame, PCovers, PReloads, Safe, Alone
<1> QED BY <1>1, <1>5, <1>6 DEF PInv

\* The admin does something that sends a request: under Safe it is the first.
LEMMA PSendInv ==
  ASSUME PInv, P!Admin,
         \/ \E i \in Two : P!ToggleEnabled(i) \/ P!Delete(i) \/ P!Authorize(i) \/ P!Deauthorize(i)
         \/ \E i \in Two : P!OpenEdit(i)
         \/ P!Submit
         \/ \E b \in BOOLEAN : P!ComeBack(b)
  PROVE  PInv'
<1>1. PType /\ PType'
  BY PAdminType DEF PInv
<1>2. ASSUME NEW i \in Two, P!ToggleEnabled(i) \/ P!Delete(i) \/ P!Authorize(i) \/ P!Deauthorize(i)
      PROVE  PInv'
  <2>1. PICK x, r :
          /\ x \in Calls /\ P!Sending /\ call' = [call EXCEPT ![x] = r] /\ UNCHANGED <<ui, db>>
          /\ ui.panel = None /\ ui.left = None /\ ui.rows # None /\ ui.rows[i] # None
          /\ \/ r.kind \in {"delete", "authorize", "revoke"}
             \/ /\ r.kind = "toggle" /\ r.arg.id = i
                /\ r.arg.row = [ui.rows[i] EXCEPT !.on = ~ui.rows[i].on]
          /\ r.at = "sent"
    <3>1. CASE P!ToggleEnabled(i)
      <4>1. PICK x \in Calls :
              P!SendAs(x, "toggle", [id |-> i, row |-> [ui.rows[i] EXCEPT !.on = ~ui.rows[i].on],
                                     chosen |-> FALSE])
        BY <3>1 DEF P!ToggleEnabled, P!Send
      <4> DEFINE r == P!Request("toggle", [id |-> i, row |-> [ui.rows[i] EXCEPT !.on = ~ui.rows[i].on],
                                           chosen |-> FALSE])
      <4>2. /\ r.kind = "toggle" /\ r.arg.id = i /\ r.at = "sent"
            /\ r.arg.row = [ui.rows[i] EXCEPT !.on = ~ui.rows[i].on]
        BY DEF P!Request
      <4>3. P!Sending /\ call' = [call EXCEPT ![x] = r]
        BY <4>1 DEF P!SendAs
      <4> HIDE DEF r
      <4> QED BY <3>1, <4>2, <4>3 DEF P!ToggleEnabled, P!Row, P!Here
    <3>2. CASE P!Delete(i) \/ P!Authorize(i) \/ P!Deauthorize(i)
      <4>1. PICK x \in Calls, k \in {"delete", "authorize", "revoke"} : P!SendAs(x, k, i)
        BY <3>2 DEF P!Delete, P!Authorize, P!Deauthorize, P!Send
      <4> DEFINE r == P!Request(k, i)
      <4>2. r.kind = k /\ r.at = "sent"
        BY DEF P!Request
      <4>3. P!Sending /\ call' = [call EXCEPT ![x] = r]
        BY <4>1 DEF P!SendAs
      <4> HIDE DEF r
      <4> QED BY <3>2, <4>2, <4>3 DEF P!Delete, P!Authorize, P!Deauthorize, P!Row, P!Here
    <3> QED BY <1>2, <3>1, <3>2
  <2>2. /\ ~log'.twin => /\ ~log.twin /\ \A y \in Calls : call[y] = NoCall
                         /\ \A y \in Calls : y # x => call'[y] = NoCall
        /\ log'.torn = log.torn /\ call'[x] = r /\ (~log'.twin => Alone')
    BY <1>1, <2>1, PSendsAlone
  <2>3. PGone' /\ PForm' /\ PConsent' /\ PFresh'
    BY <2>1, <2>2 DEF PInv, PGone, PForm, PConsent, PFresh, Safe, PCovers, PReloads
  <2>4. PAsked'
    <3>1. ui.rows[i] \in P!Instance /\ r.kind = "toggle" => r.arg.row.picked = ui.rows[i].picked
      BY <2>1 DEF P!Instance
    <3>2. ui.rows[i] \in P!Instance
      BY <1>1, <2>1 DEF PType, PUi, PTable
    <3>3. Safe' => ui.rows = db
      BY <2>1, <2>2 DEF PInv, PFresh, Safe, PReloads
    <3> QED BY <2>1, <2>2, <3>1, <3>2, <3>3 DEF PAsked, PSame, Safe
  <2> QED BY <1>1, <2>2, <2>3, <2>4 DEF PInv
<1>3. ASSUME NEW i \in Two, P!OpenEdit(i) PROVE PInv'
  <2>1. /\ P!Sending /\ UNCHANGED db /\ ui.left = None /\ ui.panel = None /\ ui.rows # None
        /\ UNCHANGED <<ui.left, ui.note, ui.rows>>
        /\ ui'.panel.id = i /\ ui'.panel.row = ui.rows[i]
    BY <1>1, <1>3 DEF P!OpenEdit, P!Row, P!Here, P!Panel, PType, PUi
  <2>2. ui.rows[i] \in P!Instance
    BY <1>1, <1>3 DEF P!OpenEdit, P!Row, PType, PUi, PTable
  <2>3. log'.torn = log.torn /\ (~log'.twin => ~log.twin /\ \A y \in Calls : call[y] = NoCall)
    BY <1>1, <2>1 DEF P!Sending, P!Open, P!Idle, PType, PLog, LogType
  <2>4. \/ UNCHANGED call
        \/ \E x \in Calls : call' = [call EXCEPT ![x] = P!Request("discover", i)]
    BY <1>3 DEF P!OpenEdit, P!Idle
  <2>5. /\ ~log'.twin => \A y \in Calls : call'[y] # NoCall => call'[y].kind = "discover"
        /\ ~log'.twin => Alone'
    BY <1>1, <2>3, <2>4 DEF PType, PCalls, Alone, P!Request
  <2>6. Safe' => ui.rows = db
    BY <2>1, <2>3 DEF PInv, PFresh, Safe, PReloads
  <2>7. PForm'
    BY <2>1, <2>5, <2>6 DEF PForm, PSame, Safe
  <2>8. PGone' /\ PConsent' /\ PFresh' /\ PAsked'
    BY <2>1, <2>3, <2>5 DEF PInv, PGone, PConsent, PFresh, PAsked, Safe, PCovers, PReloads
  <2> QED BY <1>1, <2>5, <2>7, <2>8 DEF PInv
<1>4. CASE P!Submit
  <2>1. PICK x, r :
          /\ x \in Calls /\ P!Sending /\ call' = [call EXCEPT ![x] = r] /\ UNCHANGED db
          /\ ui' = [ui EXCEPT !.panel.busy = x] /\ ui.panel # None /\ ui.left = None
          /\ r.kind = IF ui.panel.id = None THEN "create" ELSE "update"
          /\ r.arg = [id |-> ui.panel.id, row |-> ui.panel.row, chosen |-> ui.panel.touched]
          /\ r.at = "sent"
    <3>1. PICK x \in Calls :
            /\ P!SendAs(x, IF ui.panel.id = None THEN "create" ELSE "update",
                       [id |-> ui.panel.id, row |-> ui.panel.row, chosen |-> ui.panel.touched])
            /\ ui' = [ui EXCEPT !.panel.busy = x]
      BY <1>4 DEF P!Submit
    <3> DEFINE r == P!Request(IF ui.panel.id = None THEN "create" ELSE "update",
                       [id |-> ui.panel.id, row |-> ui.panel.row, chosen |-> ui.panel.touched])
    <3>2. /\ r.kind = (IF ui.panel.id = None THEN "create" ELSE "update") /\ r.at = "sent"
          /\ r.arg = [id |-> ui.panel.id, row |-> ui.panel.row, chosen |-> ui.panel.touched]
      BY DEF P!Request
    <3>3. P!Sending /\ call' = [call EXCEPT ![x] = r]
      BY <3>1 DEF P!SendAs
    <3> HIDE DEF r
    <3> QED BY <1>4, <3>1, <3>2, <3>3 DEF P!Submit, P!Here
  <2>2. /\ ~log'.twin => /\ ~log.twin /\ \A y \in Calls : call[y] = NoCall
                         /\ \A y \in Calls : y # x => call'[y] = NoCall
        /\ log'.torn = log.torn /\ call'[x] = r /\ (~log'.twin => Alone')
    BY <1>1, <2>1, PSendsAlone
  <2>3. /\ UNCHANGED <<ui.left, ui.note, ui.rows, ui.panel.id, ui.panel.row, ui.panel.touched>>
        /\ r.arg.id = ui.panel.id /\ r.arg.row = ui.panel.row /\ r.arg.chosen = ui.panel.touched
    BY <1>1, <2>1 DEF PType, PUi, PPanel
  <2>4. PForm' /\ PAsked'
    BY <2>1, <2>2, <2>3 DEF PInv, PForm, PAsked, PSame, Safe
  <2>5. PGone' /\ PConsent' /\ PFresh'
    BY <2>1, <2>2, <2>3 DEF PInv, PGone, PConsent, PFresh, Safe, PCovers, PReloads
  <2> QED BY <1>1, <2>2, <2>4, <2>5 DEF PInv
<1>5. ASSUME NEW b \in BOOLEAN, P!ComeBack(b) PROVE PInv'
  <2>1. PICK x \in Calls : call' = [call EXCEPT ![x] = P!Request("load", None)]
    BY <1>5 DEF P!ComeBack
  <2>2. /\ ~log'.twin => \A y \in Calls : y # x => call'[y] = NoCall
        /\ call'[x].kind = "load" /\ call'[x].at = "sent" /\ (~log'.twin => Alone')
    <3>1. P!Sending /\ P!Request("load", None).kind = "load" /\ P!Request("load", None).at = "sent"
      BY <1>5 DEF P!ComeBack, P!Request
    <3> QED BY <1>1, <2>1, <3>1, PSendsAlone
  <2>3. ui'.rows = None /\ ui'.panel = None /\ ui'.note \in {"success", "error"}
    BY <1>5 DEF P!ComeBack, P!Page
  <2>4. ui'.note # None
    BY <2>3, NoneAssumption
  <2>5. PGone' /\ PConsent' /\ PForm'
    BY <2>3, <2>4 DEF PGone, PConsent, PForm
  <2>6. PFresh' /\ PAsked'
    BY <2>2, <2>3 DEF PFresh, PAsked, Safe
  <2> QED BY <1>1, <2>2, <2>5, <2>6 DEF PInv
<1> QED BY <1>2, <1>3, <1>4, <1>5

LEMMA PLoseInv == ASSUME PInv, NEW x \in Calls, P!Lose(x) PROVE PInv'
<1>1. PType /\ PType' /\ UNCHANGED ui
  BY PPageType DEF PInv, P!Lose
<1>2. log'.torn /\ log'.twin = log.twin
  BY <1>1 DEF P!Lose, PType, PLog, LogType
<1>3. \A y \in Calls : call'[y] # NoCall => call[y] # NoCall
  BY <1>1 DEF P!Lose, PType, PCalls
<1> QED BY <1>1, <1>2, <1>3 DEF PInv, PGone, PConsent, PFresh, PForm, PAsked, Safe, Alone

\* An answer leaves the slot taken.
LEMMA PAnswered ==
  ASSUME PType, NEW x \in Calls, call[x] # NoCall, NEW r \in P!Served(call[x]), P!Replied(x, r)
  PROVE  call'[x] # NoCall
<1> DEFINE c == call[x]
           d == [kind |-> c.kind, arg |-> c.arg, at |-> IF r.ok THEN "ok" ELSE "refused", data |-> r.data]
<1>1. PCall(c) /\ DOMAIN call = Calls
  BY DEF PType, PCalls
<1>2. call'[x] = d
  <2> DEFINE a == IF r.ok THEN "ok" ELSE "refused"
  <2>1. call' = [call EXCEPT ![x].at = a, ![x].data = r.data]
    BY DEF P!Replied
  <2>2. DOMAIN call = Calls /\ IsRequest(call[x])
    BY <1>1 DEF PCall
  <2> HIDE DEF a, d
  <2>3. /\ DOMAIN call' = Calls /\ IsRequest(call'[x])
        /\ call'[x].kind = c.kind /\ call'[x].arg = c.arg
        /\ call'[x].at = a /\ call'[x].data = r.data
        /\ \A y \in Calls : y # x => call'[y] = call[y]
    BY <2>1, <2>2, Answer
  <2> QED BY <2>3 DEF IsRequest, a, d
<1>3. r.data \in Two \cup {None} \cup PTable \cup SUBSET Options
  BY <1>1 DEF P!Served, P!Write, P!Refuse, P!Reply, PCall, PType, PDb
<1>4. c.arg \in Two \cup {None} \cup PArg
  BY <1>1 DEF PCall
<1> QED BY <1>1, <1>2, <1>3, <1>4, PluginsAssumption DEF Requested, PCall, PTable, PArg

LEMMA PReqd ==
  \A i \in Two \cup {None}, k \in {"load", "authorize"} :
    /\ P!Request(k, i) # NoCall /\ P!Request(k, i).kind = k
    /\ P!Request(k, i).arg = i /\ P!Request(k, i).at = "sent"
BY PluginsAssumption DEF P!Request, Requested

LEMMA PServeInv == ASSUME PInv, NEW x \in Calls, P!Serve(x) PROVE PInv'
<1>1. PType /\ PType' /\ UNCHANGED ui
  BY PServeType DEF PInv, P!Serve, P!Replied
<1>2. PICK r \in P!Served(call[x]) : P!Replied(x, r)
  BY DEF P!Serve
<1> DEFINE c == call[x]
<1>3. c # NoCall /\ PCall(c) /\ c.at = "sent"
  BY <1>1 DEF P!Serve, P!Sent, PType, PCalls
<1>4. /\ c.kind = call'[x].kind /\ c.arg = call'[x].arg /\ call'[x].data = r.data
      /\ (r.ok => call'[x].at = "ok") /\ call'[x].at # "sent"
      /\ \A y \in Calls : y # x => call'[y] = call[y]
  BY <1>1, <1>2, <1>3 DEF P!Replied, PType, PCalls, PCall, IsRequest
<1>5. log'.twin = log.twin /\ (~log'.torn => ~log.torn /\ r.ok) /\ db' = r.db
  BY <1>1, <1>2 DEF P!Replied, PType, PLog, LogType
<1>6. (~log.twin => Alone)'
  BY <1>3, <1>4, <1>5 DEF PInv, Alone
<1>7. Safe' => Safe /\ r.ok /\ \A y \in Calls : y # x => call[y] = NoCall /\ call'[y] = NoCall
  BY <1>3, <1>4, <1>5 DEF PInv, Alone, Safe
<1>8. call'[x] # NoCall
  BY <1>1, <1>2, <1>3, PAnswered
<1>9. CASE c.kind \in {"load", "authorize", "discover"}
  <2>1. r.db = db /\ (c.kind = "load" => r.data = db)
    BY <1>2, <1>9 DEF P!Served, P!Refuse, P!Reply
  <2>2. PConsent'
    BY <1>1, <1>3, <1>4, <1>5, <1>7, <1>8, <2>1 DEF PInv, PConsent, PCovers, Safe
  <2>3. PFresh'
    BY <1>1, <1>3, <1>4, <1>5, <1>7, <1>8, <2>1 DEF PInv, PFresh, PReloads, Safe
  <2>4. PForm' /\ PAsked'
    BY <1>1, <1>3, <1>4, <1>5, <1>7, <1>8, <1>9, <2>1 DEF PInv, PForm, PAsked, PSame, Safe
  <2> QED BY <1>1, <1>6, <2>2, <2>3, <2>4 DEF PInv, PGone
<1>10. CASE c.kind = "create"
  <2>1. r.data \in Two /\ r.db = [db EXCEPT ![r.data] = c.arg.row]
    BY <1>2, <1>10 DEF P!Served, P!Reply
  <2>2. \A j \in Two : db'[j] = IF j = r.data THEN c.arg.row ELSE db[j]
    BY <1>1, <1>5, <2>1 DEF PType, PDb, PTable
  <2>3. ASSUME Safe', NEW i \in Two, db'[i] # None, db'[i].oauth, i = r.data
        PROVE  PCovers(x, i)'
    BY <1>4, <1>7, <1>8, <1>10, <2>2, <2>3 DEF PCovers
  <2>4. ASSUME ui.left = None, ui.note = None, Safe', NEW i \in Two \ {P!AnInstance},
               db'[i] # None, db'[i].oauth, i # r.data
        PROVE  FALSE
    <3>1. PICK y \in Calls : PCovers(y, i)
      BY <1>7, <2>2, <2>4 DEF PInv, PConsent
    <3> QED BY <1>3, <1>7, <1>10, <2>4, <3>1 DEF PCovers
  <2>5. PConsent'
    BY <1>1, <2>3, <2>4 DEF PConsent
  <2>6. PFresh' /\ PForm' /\ PAsked'
    BY <1>1, <1>3, <1>4, <1>5, <1>7, <1>8, <1>10 DEF PInv, PFresh, PReloads, PForm, PAsked, Safe
  <2> QED BY <1>1, <1>6, <2>5, <2>6 DEF PInv, PGone
<1>11. CASE c.kind \in {"update", "toggle"}
  <2>1. c.arg \in PArg /\ c.arg.id \in Two
    BY <1>3, <1>11 DEF PCall
  <2>2. r = P!Write(c.arg.id, c.arg.row)
    BY <1>2, <1>11 DEF P!Served
  <2>3. r.ok => /\ db[c.arg.id] # None /\ db'[c.arg.id].oauth = db[c.arg.id].oauth
                /\ db'[c.arg.id].picked = c.arg.row.picked
                /\ \A j \in Two : j # c.arg.id => db'[j] = db[j]
    BY <1>1, <1>5, <2>1, <2>2 DEF P!Write, P!Refuse, P!Reply, PType, PDb, PTable, PArg, P!Instance
  <2>4. PConsent'
    BY <1>1, <1>3, <1>4, <1>5, <1>7, <1>8, <1>11, <2>3 DEF PInv, PConsent, PCovers, Safe
  <2>5. PFresh' /\ PAsked'
    BY <1>1, <1>3, <1>4, <1>5, <1>7, <1>8, <1>11 DEF PInv, PFresh, PReloads, PAsked, Safe
  <2>6. PForm'
    BY <1>1, <1>3, <1>4, <1>5, <1>7, <1>8, <1>11, <2>3 DEF PInv, PForm, PAsked, PSame, Safe
  <2> QED BY <1>1, <1>6, <2>4, <2>5, <2>6 DEF PInv, PGone
<1>12. CASE c.kind \in {"delete", "revoke"}
  <2>1. c.arg \in Two
    BY <1>3, <1>12 DEF PCall
  <2>2. \A j \in Two : db'[j] # None => db[j] # None /\ db'[j].oauth = db[j].oauth
    BY <1>1, <1>2, <1>5, <1>12, <2>1 DEF P!Served, P!Refuse, P!Reply, PType, PDb, PTable, P!Instance
  <2>3. PConsent'
    BY <1>1, <1>3, <1>4, <1>5, <1>7, <1>8, <1>12, <2>2 DEF PInv, PConsent, PCovers, Safe
  <2>4. PFresh' /\ PForm' /\ PAsked'
    BY <1>1, <1>3, <1>4, <1>5, <1>7, <1>8, <1>12 DEF PInv, PFresh, PReloads, PForm, PAsked, Safe
  <2> QED BY <1>1, <1>6, <2>3, <2>4 DEF PInv, PGone
<1> QED BY <1>3, <1>9, <1>10, <1>11, <1>12 DEF PCall

LEMMA PPageInv ==
  ASSUME PInv, NEW x \in Calls,
         P!Loaded(x) \/ P!Reload(x) \/ P!NotAuthorized(x) \/ P!Unheard(x)
           \/ P!Leave(x) \/ P!Unread(x) \/ P!Discovered(x) \/ P!Saved(x) \/ P!NotSaved(x)
  PROVE  PInv'
<1> DEFINE c == call[x]
<1>1. PType /\ PType'
  BY PPageType DEF PInv
<1>2. UNCHANGED <<db, log>> /\ c # NoCall /\ c.at # "sent" /\ PCall(c)
      /\ \A y \in Calls : y # x => call'[y] = call[y]
  BY <1>1 DEF P!Loaded, P!Reload, P!NotAuthorized, P!Unheard, P!Leave, P!Unread, P!Discovered, P!Saved,
     P!NotSaved, P!Answered, P!Failed, P!Done, P!DoneThen, PType, PCalls
<1>3. Safe' => Safe /\ \A y \in Calls : y # x => call[y] = NoCall /\ call'[y] = NoCall
  BY <1>2 DEF PInv, Alone, Safe
<1>4. (~log.twin => Alone)'
  BY <1>2 DEF PInv, Alone
<1>5. call'[x] # NoCall => call'[x].kind \in {"load", "authorize"} /\ call'[x].at = "sent"
  BY <1>1 DEF P!Loaded, P!Reload, P!NotAuthorized, P!Unheard, P!Leave, P!Unread, P!Discovered, P!Saved,
     P!NotSaved, P!Answered, P!Done, P!DoneThen, PType, PCalls, PCall, P!Request
<1>6. PAsked'
  BY <1>2, <1>3, <1>5 DEF PAsked, Safe
<1>7. CASE P!Loaded(x)
  <2>1. /\ c.kind = "load" /\ c.at = "ok" /\ c.arg \in Two \cup {None}
        /\ UNCHANGED <<ui.left, ui.note, ui.panel>> /\ ui'.rows = c.data /\ ui.left = None
    BY <1>1, <1>2, <1>7 DEF P!Loaded, P!Answered, P!Here, PType, PUi, PCall
  <2>2. IF c.arg = None THEN call'[x] = NoCall
        ELSE call'[x] = P!Request("authorize", c.arg)
    BY <1>1, <1>7 DEF P!Loaded, P!Done, P!DoneThen, PType, PCalls
  <2>3. PConsent'
    <3> SUFFICES ASSUME ui'.left = None, ui'.note = None, Safe', NEW i \in Two \ {P!AnInstance},
                        db'[i] # None, db'[i].oauth
                 PROVE  PCovers(x, i)'
      BY DEF PConsent
    <3>1. Safe /\ \E y \in Calls : PCovers(y, i)
      BY <1>2, <1>3, <2>1 DEF PInv, PConsent
    <3>2. c.arg = i
      BY <1>2, <1>3, <2>1, <3>1 DEF PCovers
    <3>3. call'[x] = P!Request("authorize", i)
      BY <2>2, <3>2, NoneAssumption
    <3> QED BY <3>3, PReqd DEF PCovers
  <2>4. PFresh' /\ PForm' /\ PGone'
    BY <1>2, <1>3, <1>5, <2>1 DEF PInv, PFresh, PReloads, PForm, PGone, Safe
  <2> QED BY <1>1, <1>4, <1>6, <2>3, <2>4 DEF PInv
<1>8. CASE P!Reload(x)
  <2>1. /\ c.kind \in {"toggle", "delete", "revoke"} /\ UNCHANGED ui
        /\ call'[x] = P!Request("load", None)
    BY <1>1, <1>8 DEF P!Reload, P!Answered, P!DoneThen, PType, PCalls
  <2>2. PConsent' /\ PForm' /\ PGone'
    BY <1>2, <1>3, <1>5, <2>1 DEF PInv, PConsent, PCovers, PForm, PGone, Safe
  <2>3. PFresh'
    BY <1>2, <1>3, <1>5, <2>1, PReqd DEF PFresh, PReloads, Safe, P!Request
  <2> QED BY <1>1, <1>4, <1>6, <2>2, <2>3 DEF PInv
<1>9. CASE P!NotAuthorized(x) \/ P!Unheard(x)
  <2>1. /\ call'[x] = NoCall /\ UNCHANGED <<ui.left, ui.rows, ui.panel>> /\ c.at # "ok" /\ ui.left = None
        /\ c.kind \in {"load", "toggle", "delete", "revoke", "authorize"}
        /\ ui'.note = None => ui.note = None
    <3>1. call'[x] = NoCall /\ c.at # "ok" /\ ui.left = None
          /\ c.kind \in {"load", "toggle", "delete", "revoke", "authorize"}
      BY <1>1, <1>9 DEF P!NotAuthorized, P!Unheard, P!Answered, P!Done, P!Here, PType, PCalls
    <3>2. UNCHANGED ui \/ ui' = [ui EXCEPT !.note = "error"]
      BY <1>9 DEF P!NotAuthorized, P!Unheard
    <3> QED BY <1>1, <3>1, <3>2, NoneAssumption DEF PType, PUi
  <2>2. PConsent' /\ PForm' /\ PGone' /\ PFresh'
    BY <1>2, <1>3, <2>1 DEF PInv, PConsent, PCovers, PForm, PGone, PFresh, PReloads, Safe
  <2> QED BY <1>1, <1>4, <1>6, <2>2 DEF PInv
<1>10. CASE P!Leave(x)
  <2>1. ui'.rows = None /\ ui'.panel = None /\ ui'.left \in Two /\ call'[x] = NoCall
    BY <1>1, <1>2, <1>10 DEF P!Leave, P!Page, P!Answered, P!Done, PType, PUi, PCall, PCalls
  <2>2. ui'.left # None
    BY <2>1, NoneAssumption
  <2> QED BY <1>1, <1>2, <1>3, <1>4, <1>6, <2>1, <2>2 DEF PInv, PConsent, PFresh, PForm, PGone, Safe
<1>11. CASE P!Unread(x)
  <2>1. ui.left # None /\ UNCHANGED ui /\ call'[x] = NoCall
    BY <1>1, <1>11 DEF P!Unread, P!Here, P!Done, PType, PCalls
  <2> QED BY <1>1, <1>2, <1>3, <1>4, <1>6, <2>1 DEF PInv, PConsent, PFresh, PForm, PGone, Safe
<1>12. CASE P!Discovered(x) \/ P!NotSaved(x)
  <2>1. /\ call'[x] = NoCall /\ UNCHANGED <<ui.left, ui.note, ui.rows>> /\ ui.left = None
        /\ c.kind \in {"discover", "create", "update"} /\ (c.kind # "discover" => c.at # "ok")
    BY <1>1, <1>12 DEF P!Discovered, P!NotSaved, P!Answered, P!Failed, P!Done, P!Here, PType, PUi, PCalls
  <2>2. /\ ui'.panel # None => ui.panel # None
        /\ ui.panel # None => UNCHANGED <<ui.panel.id, ui.panel.row, ui.panel.touched>>
    <3>1. ui.panel # None => ui.panel \in PPanel
      BY <1>1 DEF PType, PUi
    <3>2. CASE UNCHANGED ui
      BY <3>2
    <3>3. CASE /\ ui.panel # None
               /\ \/ ui' = [ui EXCEPT !.panel.ask = None, !.panel.options =
                             IF call[x].at = "ok" THEN call[x].data ELSE {}]
                  \/ ui' = [ui EXCEPT !.panel.busy = None]
      <4>1. PICK o : \/ ui'.panel = [ui.panel EXCEPT !.ask = None, !.options = o]
                     \/ ui'.panel = [ui.panel EXCEPT !.busy = None]
        BY <1>1, <3>3 DEF PType, PUi
      <4>2. UNCHANGED <<ui.panel.id, ui.panel.row, ui.panel.touched>>
        BY <3>1, <3>3, <4>1 DEF PPanel
      <4> QED BY <3>3, <4>2
    <3> QED BY <1>12, <3>2, <3>3 DEF P!Discovered, P!NotSaved, P!Asked
  <2>3. PForm'
    BY <1>2, <1>3, <2>1, <2>2 DEF PInv, PForm, PSame, Safe
  <2>4. PConsent' /\ PGone' /\ PFresh'
    BY <1>2, <1>3, <2>1 DEF PInv, PConsent, PCovers, PGone, PFresh, PReloads, Safe
  <2> QED BY <1>1, <1>4, <1>6, <2>3, <2>4 DEF PInv
<1>13. CASE P!Saved(x)
  <2>1. /\ ui'.panel = None /\ UNCHANGED <<ui.left, ui.note, ui.rows>> /\ ui.left = None
        /\ c.kind \in {"create", "update"} /\ c.at = "ok"
        /\ call'[x] = P!Request("load", IF c.kind = "create" /\ c.arg.row.oauth THEN c.data ELSE None)
    BY <1>1, <1>13 DEF P!Saved, P!Answered, P!DoneThen, P!Here, PType, PUi, PCalls
  <2>2. PConsent'
    BY <1>2, <1>3, <2>1, PReqd DEF PInv, PConsent, PCovers, Safe, PCall
  <2>3. PForm' /\ PGone' /\ PFresh'
    BY <1>2, <1>3, <1>5, <2>1, PReqd DEF PForm, PGone, PFresh, PReloads, Safe, PCall, P!Request
  <2> QED BY <1>1, <1>4, <1>6, <2>2, <2>3 DEF PInv
<1> QED BY <1>7, <1>8, <1>9, <1>10, <1>11, <1>12, <1>13

LEMMA PInductive == PInv /\ [P!Next]_vars => PInv'
<1>1. ASSUME PInv, UNCHANGED vars PROVE PInv'
  BY <1>1, PTyped DEF vars, PInv, PGone, Alone, PConsent, PCovers, PFresh, PReloads, PForm, PSame,
     PAsked, Safe
<1> QED BY <1>1, PActInv, PSendInv, PLoseInv, PServeInv, PPageInv DEF P!Next, P!Admin

\* What the admin chose is kept.
LEMMA PKeeps == PInv /\ [P!Next]_vars => P!ChoiceIsKept
<1> SUFFICES ASSUME PInv, [P!Next]_vars, Safe,
                    NEW i \in Two, db[i] # None, db'[i] # None, db'[i].picked # db[i].picked
             PROVE  \E x \in Calls : P!Sent(x) /\ call[x].kind = "update" /\ call[x].arg.id = i
                         /\ call[x].arg.chosen
  BY DEF P!ChoiceIsKept, Safe
<1>1. PType
  BY DEF PInv
<1>2. CASE \E b \in BOOLEAN : P!ComeBack(b)
  BY <1>1, <1>2 DEF P!ComeBack, PType, PDb, PTable, P!Instance
<1>3. CASE \E x \in Calls : P!Serve(x)
  <2> PICK x \in Calls : P!Serve(x)
    BY <1>3
  <2>1. PICK r \in P!Served(call[x]) : P!Sent(x) /\ P!Replied(x, r)
    BY DEF P!Serve
  <2> DEFINE c == call[x]
  <2>2. PCall(c) /\ c.at = "sent" /\ c # NoCall /\ db' = r.db
    BY <1>1, <2>1 DEF P!Sent, P!Replied, PType, PCalls
  <2>3. c.kind \in {"update", "toggle"}
    <3>1. CASE c.kind \in {"load", "authorize", "discover"}
      BY <2>1, <2>2, <3>1 DEF P!Served, P!Refuse, P!Reply
    <3>2. CASE c.kind \in {"create", "delete", "revoke"}
      BY <1>1, <2>1, <2>2, <3>2 DEF P!Served, P!Refuse, P!Reply, PType, PDb, PTable, P!Instance, PCall
    <3> QED BY <2>2, <3>1, <3>2 DEF PCall
  <2>4. r = P!Write(c.arg.id, c.arg.row) /\ c.arg \in PArg /\ c.arg.id \in Two
    BY <2>1, <2>2, <2>3 DEF P!Served, PCall
  <2>5. c.arg.id = i /\ db'[i].picked = c.arg.row.picked
    BY <1>1, <2>2, <2>4 DEF P!Write, P!Refuse, P!Reply, PType, PDb, PTable, PArg, P!Instance
  <2>6. c.arg.chosen
    BY <2>2, <2>3, <2>5 DEF PInv, PAsked, PSame
  <2>7. c.kind = "update"
    BY <2>2, <2>3, <2>6 DEF PCall
  <2> QED BY <2>1, <2>5, <2>6, <2>7
<1>4. CASE UNCHANGED db
  BY <1>4
<1>5. CASE UNCHANGED vars
  BY <1>5 DEF vars
<1>6. ASSUME NEW j \in Two,
             P!ToggleEnabled(j) \/ P!Delete(j) \/ P!Authorize(j) \/ P!Deauthorize(j) \/ P!OpenEdit(j)
      PROVE  UNCHANGED db
  BY <1>6 DEF P!ToggleEnabled, P!Delete, P!Authorize, P!Deauthorize, P!OpenEdit
<1>7. ASSUME \/ \E b \in BOOLEAN : P!OpenAdd(b)
             \/ \E n \in Names, on \in BOOLEAN : P!EditPlain(n, on)
             \/ \E o \in SUBSET Options : P!Choose(o)
             \/ P!Submit \/ P!Cancel
      PROVE  UNCHANGED db
  BY <1>7 DEF P!OpenAdd, P!EditPlain, P!Choose, P!Submit, P!Cancel
<1>8. ASSUME NEW x \in Calls,
             P!Lose(x) \/ P!Loaded(x) \/ P!Reload(x) \/ P!NotAuthorized(x) \/ P!Unheard(x) \/ P!Leave(x)
               \/ P!Unread(x) \/ P!Discovered(x) \/ P!Saved(x) \/ P!NotSaved(x)
      PROVE  UNCHANGED db
  BY <1>8 DEF P!Lose, P!Loaded, P!Reload, P!NotAuthorized, P!Unheard, P!Leave, P!Unread, P!Discovered,
     P!Saved, P!NotSaved, P!Done, P!DoneThen
<1> QED BY <1>2, <1>3, <1>4, <1>5, <1>6, <1>7, <1>8 DEF P!Next, P!Admin

LEMMA PConsents == PInv => P!ConsentFollowsAdd
BY DEF PInv, PConsent, PCovers, P!ConsentFollowsAdd, P!Quiet, P!Open, P!Idle, P!Here, Safe

\* As long as no two requests overlap and none is refused or lost: a list that is
\* behind will be loaded again, an instance that needs consent is on its way to a
\* provider while the browser has not been at one, and a form or a request that
\* leaves the choice of options alone carries the choice that is stored
\* (PluginsPage.tsx).  A page that was left for a provider shows nothing.
THEOREM PluginsCorrect == Spec => [](page = "plugins" => PInv)
<1>1. Init => (page = "plugins" => PInv)
  BY PInitInv DEF Init
<1>2. (page = "plugins" => PInv) /\ [Next]_all => (page = "plugins" => PInv)'
  BY PInductive DEF Next, all
<1> QED BY <1>1, <1>2, PTL DEF Spec

\* While the browser has been at no provider and nothing overlapped, was refused
\* or lost, every instance that was added has its authorization or needs none
\* (submitInstance).
THEOREM Consent == Spec => []ConsentFollowsAdd
<1>1. (page = "plugins" => PInv) => ConsentFollowsAdd
  BY PConsents DEF ConsentFollowsAdd
<1> QED BY <1>1, PluginsCorrect, PTL

\* What is chosen of a dynamic field stays chosen until the admin changes the
\* choice, although a toggle and an edit store the whole row, as long as nothing
\* overlaps, is refused or lost (handleToggleEnabled, SetupFieldInput).
THEOREM ChoiceKept == Spec => [][page = "plugins" => P!ChoiceIsKept]_all
<1>1. (page = "plugins" => PInv) /\ [Next]_all => [page = "plugins" => P!ChoiceIsKept]_all
  BY PKeeps DEF Next, all
<1> QED BY <1>1, PluginsCorrect, PTL DEF Spec

---------------------------------------------------------------------------
AForm == [name : People \cup {None}, pending : People \cup {None}, busy : Calls \cup {None},
          done : BOOLEAN]
AStatus == [required : BOOLEAN, off : BOOLEAN]
Tokens == 1..Len(db.owner)
ASession == [token : Tokens, name : People]

ACall(c) ==
  /\ IsRequest(c) /\ c.at \in Ats
  /\ c.kind \in {"status", "setup", "login", "verify", "forgot", "reset", "api"}
  /\ c.kind = "status" /\ c.at = "ok" => c.data \in AStatus
  /\ c.kind \in {"setup", "login"} => c.arg \in People
  /\ c.kind = "setup" /\ c.at = "ok" => c.data \in Tokens /\ db.owner[c.data] = c.arg
  /\ c.kind = "login" /\ c.at = "ok" =>
       c.data = c.arg \/ (c.data \in Tokens /\ db.owner[c.data] = c.arg)
  /\ c.kind = "verify" => c.arg \in [name : People, pending : People]
  /\ c.kind = "verify" /\ c.at = "ok" => c.data \in Tokens /\ db.owner[c.data] = c.arg.pending
  /\ c.kind = "api" => c.arg \in Nat /\ (c.at = "refused" => c.arg <= db.expired)

AUi == ui \in [at : A!Places, status : AStatus \cup {None}, form : AForm, session : ASession \cup {None}]
ADb == /\ db = [people |-> db.people, mfa |-> db.mfa, off |-> db.off, link |-> db.link,
                expired |-> db.expired, owner |-> db.owner]
       /\ db.people \in SUBSET People /\ db.mfa \subseteq db.people /\ db.link \in People \cup {None}
       /\ db.off \in BOOLEAN
       /\ db.owner \in Seq(People) /\ db.expired \in 0..Len(db.owner)
ACalls == DOMAIN call = Calls /\ \A x \in Calls : call[x] # NoCall => ACall(call[x])
AFilled ==
  /\ ui.form.pending # None => ui.form.name # None
  /\ \A x \in Calls :
       call[x] # NoCall /\ call[x].kind = "login" /\ ui.form.busy = x => ui.form.name # None

AType == AUi /\ ADb /\ ACalls /\ AFilled /\ LogType(MaxEdits)

ANamed ==
  ~log.twin =>
    /\ ui.session # None => db.owner[ui.session.token] = ui.session.name
    /\ ui.form.pending # None => ui.form.name = ui.form.pending
    /\ \A x \in Calls : call[x] # NoCall =>
         /\ call[x].kind = "login" /\ ui.form.busy = x => ui.form.name = call[x].arg
         /\ call[x].kind = "verify" => call[x].arg.name = call[x].arg.pending
         /\ call[x].kind = "api" /\ ui.session # None => call[x].arg = ui.session.token

AInv == AType /\ ANamed /\ (~log.twin => Alone)

LEMMA ASending ==
  ASSUME LogType(MaxEdits), A!Sending
  PROVE  /\ LogType(MaxEdits)' /\ log'.edits # log.edits
         /\ ~log'.twin => ~log.twin /\ \A y \in Calls : call[y] = NoCall
BY BoundsAssumption, Sends DEF A!Sending, A!Open, A!Idle, Open, Idle

LEMMA AActing ==
  ASSUME LogType(MaxEdits), A!Act
  PROVE  LogType(MaxEdits)' /\ log'.twin = log.twin /\ log'.edits # log.edits
BY BoundsAssumption, Acts DEF A!Act

\* A page that is shown for another one has an empty form.
AUis == [at : A!Places, status : AStatus \cup {None}, form : AForm, session : ASession \cup {None}]

LEMMA ABecome ==
  ASSUME NEW u \in AUis, A!Become(u)
  PROVE  /\ ui' \in AUis /\ ui'.session = u.session /\ ui'.status = u.status
         /\ (ui'.form = u.form \/ (ui'.form.busy = None /\ ui'.form.pending = None))
<1>1. A!NewForm \in AForm /\ A!NewForm.busy = None /\ A!NewForm.pending = None
  BY DEF A!NewForm, AForm
<1>2. ui' = u \/ ui' = [u EXCEPT !.form = A!NewForm]
  BY DEF A!Become
<1> QED BY <1>1, <1>2 DEF AUis

LEMMA AInitInv == ASSUME A!Init PROVE AInv
<1>1. PICK people \in SUBSET People, mfa \in SUBSET People, off \in BOOLEAN,
        link \in People \cup {None}, held \in People \cup {None} :
       /\ mfa \subseteq people /\ {link, held} \ {None} \subseteq people
       /\ off => people = {}
       /\ db = [people |-> people, mfa |-> mfa, off |-> off, link |-> link, expired |-> 0,
                owner |-> IF held = None THEN <<>> ELSE <<held>>]
       /\ \E at \in A!Places :
            ui = [at |-> at, status |-> None, form |-> A!NewForm,
                  session |-> IF held = None THEN None ELSE [token |-> 1, name |-> held]]
  BY DEF A!Init
<1>2. ADb
  BY <1>1 DEF ADb
<1>3. A!NewForm \in AForm /\ A!NewForm.busy = None /\ A!NewForm.pending = None
  BY DEF A!NewForm, AForm
<1>4. AUi
  BY <1>1, <1>3 DEF AUi, ASession, Tokens
<1>5. ACalls /\ Alone /\ \A x \in Calls : call[x] # NoCall => call[x].kind = "status"
  BY DEF A!Init, A!Mounted, A!NoCalls, A!Request, ACalls, ACall, IsRequest, Ats, Alone
<1>6. LogType(MaxEdits)
  BY BoundsAssumption DEF A!Init, A!Mounted, A!NewLog, LogType
<1>7. ANamed /\ AFilled
  BY <1>1, <1>3, <1>5 DEF ANamed, AFilled
<1> QED BY <1>2, <1>4, <1>5, <1>6, <1>7 DEF AInv, AType

LEMMA AServeInv == ASSUME AInv, NEW x \in Calls, A!Serve(x) PROVE AInv'
<1>1. AType /\ call[x] # NoCall /\ ACall(call[x]) /\ call[x].at = "sent"
  BY DEF AInv, AType, ACalls, A!Serve, A!Sent
<1>2. PICK r \in A!Served(call[x]) : A!Replied(x, r)
  BY DEF A!Serve
<1>3. DOMAIN call = Calls /\ IsRequest(call[x]) /\ LogType(MaxEdits)
  BY <1>1 DEF AType, ACalls, ACall
<1>4. Replied(x, r)
  BY <1>2 DEF A!Replied, A!Sent, Replied, Sent
<1>5. /\ db' = r.db /\ ui' = ui /\ DOMAIN call' = Calls /\ IsRequest(call'[x])
      /\ call'[x].kind = call[x].kind /\ call'[x].arg = call[x].arg /\ call'[x].data = r.data
      /\ call'[x].at = IF r.ok THEN "ok" ELSE "refused"
      /\ \A y \in Calls : y # x => call'[y] = call[y]
      /\ LogType(MaxEdits)' /\ log'.twin = log.twin
  BY <1>3, <1>4, Replies
<1> DEFINE c == call[x]
\* The rows grow: who owns a token stays.
<1>a. ASSUME NEW u \in People, NEW new, r = A!Issue(u, new), new.owner = db.owner,
             new = [db EXCEPT !.people = new.people], new.people \in SUBSET People,
             db.mfa \subseteq new.people
      PROVE  /\ ADb' /\ Len(db.owner) <= Len(db'.owner) /\ db'.expired = db.expired
             /\ \A t \in Tokens : db'.owner[t] = db.owner[t]
             /\ r.ok /\ r.data \in Tokens' /\ db'.owner[r.data] = u
  <2>1. db' = [new EXCEPT !.owner = Append(db.owner, u)] /\ r.data = Len(db.owner) + 1 /\ r.ok
    BY <1>5, <1>a DEF A!Issue, A!Reply
  <2>2. ADb
    BY <1>1 DEF AType
  <2>3. db' = [people |-> new.people, mfa |-> db.mfa, off |-> db.off, link |-> db.link,
               expired |-> db.expired, owner |-> Append(db.owner, u)]
    BY <1>a, <2>1, <2>2 DEF ADb
  <2>4. Append(db.owner, u) \in Seq(People) /\ Len(Append(db.owner, u)) = Len(db.owner) + 1
        /\ Append(db.owner, u)[Len(db.owner) + 1] = u
        /\ \A t \in 1..Len(db.owner) : Append(db.owner, u)[t] = db.owner[t]
    BY <2>2 DEF ADb
  <2>5. db'.owner = Append(db.owner, u) /\ db'.expired = db.expired /\ db'.mfa = db.mfa
        /\ db'.people = new.people /\ db'.link = db.link /\ db'.off = db.off
    BY <2>3
  <2>6. ADb'
    BY <1>a, <2>2, <2>3, <2>4, <2>5 DEF ADb
  <2> QED BY <2>1, <2>2, <2>4, <2>5, <2>6 DEF ADb, Tokens
<1>b. ASSUME r.db = db
      PROVE  /\ ADb' /\ Len(db.owner) <= Len(db'.owner) /\ db'.expired = db.expired
             /\ \A t \in Tokens : db'.owner[t] = db.owner[t]
  BY <1>b, <1>1, <1>5 DEF AType, ADb, Tokens
<1>6. /\ ADb' /\ Len(db.owner) <= Len(db'.owner) /\ db'.expired = db.expired
      /\ \A t \in Tokens : db'.owner[t] = db.owner[t]
      /\ c.kind = "status" /\ r.ok => r.data \in AStatus
      /\ c.kind = "setup" /\ r.ok => r.data \in Tokens' /\ db'.owner[r.data] = c.arg
      /\ c.kind = "verify" /\ r.ok => r.data \in Tokens' /\ db'.owner[r.data] = c.arg.pending
      /\ c.kind = "login" /\ r.ok =>
           r.data = c.arg \/ (r.data \in Tokens' /\ db'.owner[r.data] = c.arg)
      /\ c.kind = "api" /\ ~r.ok => c.arg <= db.expired
  <2>1. ADb /\ c.kind \in {"status", "setup", "login", "verify", "forgot", "reset", "api"}
    BY <1>1 DEF AType, ACall
  <2>2. A!Refuse.db = db /\ ~A!Refuse.ok
    BY DEF A!Refuse, A!Reply
  <2>3. CASE c.kind = "status"
    <3>1. r = A!Reply(db, A!Checked(db.people = {} /\ ~db.off, db.off), TRUE)
      BY <2>3, <1>2 DEF A!Served
    <3>2. A!Checked(db.people = {} /\ ~db.off, db.off) \in AStatus
      BY <2>1 DEF A!Checked, AStatus, ADb
    <3> QED BY <2>3, <3>1, <3>2, <1>b DEF A!Reply
  <2>4. CASE c.kind = "setup"
    <3>1. r = IF db.people # {} THEN A!Refuse ELSE A!Issue(c.arg, [db EXCEPT !.people = {c.arg}])
      BY <2>4, <1>2 DEF A!Served
    <3>2. c.arg \in People
      BY <2>4, <1>1 DEF ACall
    <3>3. CASE db.people # {}
      BY <2>4, <2>2, <3>1, <3>3, <1>b
    <3>4. CASE db.people = {}
      <4> DEFINE new == [db EXCEPT !.people = {c.arg}]
      <4>1. new.owner = db.owner /\ new = [db EXCEPT !.people = new.people]
            /\ new.people \in SUBSET People /\ db.mfa \subseteq new.people
        BY <2>1, <3>2, <3>4 DEF ADb
      <4>2. r = A!Issue(c.arg, new)
        BY <3>1, <3>4
      <4> HIDE DEF new
      <4> QED BY <2>4, <3>2, <4>1, <4>2, <1>a
    <3> QED BY <3>3, <3>4
  <2>5. CASE c.kind = "login"
    <3>1. r = A!Refuse \/ r = A!Reply(db, c.arg, TRUE) \/ r = A!Issue(c.arg, db)
      BY <2>5, <1>2 DEF A!Served
    <3>2. c.arg \in People
      BY <2>5, <1>1 DEF ACall
    <3>3. CASE r = A!Refuse
      BY <2>5, <2>2, <3>3, <1>b
    <3>4. CASE r = A!Reply(db, c.arg, TRUE)
      BY <2>5, <3>4, <1>b DEF A!Reply
    <3>5. CASE r = A!Issue(c.arg, db)
      <4>1. db = [db EXCEPT !.people = db.people] /\ db.people \in SUBSET People /\ db.mfa \subseteq db.people
        BY <2>1 DEF ADb
      <4> QED BY <2>5, <3>2, <3>5, <4>1, <1>a
    <3> QED BY <3>1, <3>3, <3>4, <3>5
  <2>6. CASE c.kind = "verify"
    <3>1. r = A!Refuse \/ r = A!Issue(c.arg.pending, db)
      BY <2>6, <1>2 DEF A!Served
    <3>2. c.arg.pending \in People
      BY <2>6, <1>1 DEF ACall
    <3>3. CASE r = A!Refuse
      BY <2>6, <2>2, <3>3, <1>b
    <3>4. CASE r = A!Issue(c.arg.pending, db)
      <4>1. db = [db EXCEPT !.people = db.people] /\ db.people \in SUBSET People /\ db.mfa \subseteq db.people
        BY <2>1 DEF ADb
      <4> QED BY <2>6, <3>2, <3>4, <4>1, <1>a
    <3> QED BY <3>1, <3>3, <3>4
  <2>7. CASE c.kind = "forgot"
    <3>1. r.db = db
      BY <2>7, <1>2 DEF A!Served, A!Refuse, A!Reply
    <3> QED BY <2>7, <3>1, <1>b
  <2>8. CASE c.kind = "reset"
    <3> DEFINE new == [db EXCEPT !.link = None, !.mfa = IF c.arg THEN @ \ {db.link} ELSE @]
    <3>1. r = A!Refuse \/ r = A!Reply(new, None, TRUE)
      BY <2>8, <1>2 DEF A!Served
    <3>2. CASE r = A!Refuse
      BY <2>8, <2>2, <3>2, <1>b
    <3>3. CASE r = A!Reply(new, None, TRUE)
      <4>1. db' = new
        BY <3>3, <1>5 DEF A!Reply
      <4>2. db' = [people |-> db.people, mfa |-> db'.mfa, off |-> db.off, link |-> None,
                   expired |-> db.expired, owner |-> db.owner] /\ db'.mfa \subseteq db.mfa
        BY <2>1, <4>1 DEF ADb
      <4> QED BY <2>1, <2>8, <4>2 DEF ADb, Tokens
    <3> QED BY <3>1, <3>2, <3>3
  <2>9. CASE c.kind = "api"
    <3>1. r = IF db.off \/ A!Live(c.arg) THEN A!Reply(db, None, TRUE) ELSE A!Refuse
      BY <2>9, <1>2 DEF A!Served
    <3>2. r.db = db /\ (~r.ok => ~(c.arg > db.expired))
      BY <3>1, <2>2 DEF A!Reply, A!Live
    <3>3. c.arg \in Nat /\ db.expired \in Nat
      BY <2>1, <2>9, <1>1 DEF ADb, ACall
    <3> QED BY <2>9, <3>2, <3>3, <1>b
  <2> QED BY <2>1, <2>3, <2>4, <2>5, <2>6, <2>7, <2>8, <2>9
<1>7. \A t \in Tokens : t \in Tokens'
  BY <1>6, <1>1 DEF AType, ADb, Tokens
<1>8. ACall(call[x])'
  BY <1>1, <1>5, <1>6, <1>7 DEF ACall, Ats
<1>9. ACalls'
  <2>1. ASSUME NEW y \in Calls, y # x, ACall(call[y]) PROVE ACall(call[y])'
    BY <2>1, <1>5, <1>6, <1>7 DEF ACall
  <2> QED BY <1>1, <1>5, <1>8, <2>1 DEF AType, ACalls
<1>10. AUi'
  BY <1>1, <1>5, <1>7 DEF AType, AUi, ASession
<1>11. AFilled'
  BY <1>1, <1>5 DEF AType, AFilled
<1>12. ui.session # None => ui.session.token \in Tokens
  BY <1>1 DEF AType, AUi, ASession
<1>13. ANamed'
  BY <1>1, <1>5, <1>6, <1>12 DEF AInv, ANamed
<1>14. ~log'.twin => Alone'
  BY <1>1, <1>5 DEF AInv, Alone
<1> QED BY <1>5, <1>6, <1>9, <1>10, <1>11, <1>13, <1>14 DEF AInv, AType

\* Requests are answered, lost or read, and the form is left, emptied, or free again.
LEMMA AKeep ==
  ASSUME AInv, AUi', ADb', LogType(MaxEdits)', db'.owner = db.owner, db'.expired >= db.expired,
         ~log'.twin => ~log.twin,
         DOMAIN call' = Calls,
         \A y \in Calls : call'[y] # NoCall =>
           /\ call[y] # NoCall /\ ACall(call'[y])
           /\ call'[y].kind = call[y].kind /\ call'[y].arg = call[y].arg,
         ui'.session \in {None, ui.session},
         \/ ui'.form.busy = None /\ ui'.form.pending = None
         \/ /\ ui'.form.name = ui.form.name /\ ui'.form.pending \in {None, ui.form.pending}
            /\ ui'.form.busy \in {None, ui.form.busy}
  PROVE  AInv'
<1>1. AType /\ None \notin Calls
  BY NoneAssumption DEF AInv
<1>2. Tokens' = Tokens
  BY DEF Tokens
<1>3. ACalls'
  BY <1>2, <1>1 DEF ACalls, ACall, AType, ADb
<1>4. AFilled'
  BY <1>1 DEF AType, AFilled
<1>5. ANamed'
  BY <1>1 DEF AInv, ANamed
<1>6. ~log'.twin => Alone'
  BY DEF AInv, Alone
<1> QED BY <1>3, <1>4, <1>5, <1>6 DEF AInv, AType

LEMMA ADone ==
  ASSUME AInv, NEW x \in Calls, A!Done(x)
  PROVE  /\ db' = db /\ log' = log /\ LogType(MaxEdits)' /\ ADb' /\ Tokens' = Tokens
         /\ DOMAIN call' = Calls
         /\ \A y \in Calls : call'[y] # NoCall =>
              y # x /\ call[y] # NoCall /\ call'[y] = call[y] /\ ACall(call'[y])
BY DEF AInv, AType, ADb, ACalls, LogType, Tokens, A!Done

LEMMA AKeepDone ==
  ASSUME AInv, NEW x \in Calls, A!Done(x), AUi',
         ui'.session \in {None, ui.session},
         \/ ui'.form.busy = None /\ ui'.form.pending = None
         \/ /\ ui'.form.name = ui.form.name /\ ui'.form.pending \in {None, ui.form.pending}
            /\ ui'.form.busy \in {None, ui.form.busy}
  PROVE  AInv'
<1>1. db.expired \in Nat
  BY DEF AInv, AType, ADb
<1> QED BY <1>1, ADone, AKeep

LEMMA ASendAs ==
  ASSUME AInv, NEW x \in Calls, NEW kind, NEW arg, A!SendAs(x, kind, arg), db' = db,
         ACall(A!Request(kind, arg))
  PROVE  /\ LogType(MaxEdits)' /\ log'.edits # log.edits /\ ADb' /\ Tokens' = Tokens /\ ACalls'
         /\ call'[x] = A!Request(kind, arg) /\ \A y \in Calls : y # x => call'[y] = call[y]
         /\ ~log'.twin => ~log.twin /\ Alone' /\ \A y \in Calls : y # x => call'[y] = NoCall
<1>1. /\ LogType(MaxEdits)' /\ log'.edits # log.edits
      /\ ~log'.twin => ~log.twin /\ \A y \in Calls : call[y] = NoCall
  BY ASending DEF A!SendAs, AInv, AType
<1>2. DOMAIN call = Calls /\ call' = [call EXCEPT ![x] = A!Request(kind, arg)]
  BY DEF A!SendAs, AInv, AType, ACalls
<1>3. ADb' /\ Tokens' = Tokens
  BY DEF AInv, AType, ADb, Tokens
<1>4. ACalls'
  BY <1>2, <1>3 DEF ACalls, AInv, AType, ACall
<1> QED BY <1>1, <1>2, <1>3, <1>4 DEF Alone

LEMMA AAdminInv == ASSUME AInv, A!Admin PROVE AInv'
<1> USE DEF AUi
<1>1. /\ AType /\ ui \in AUis /\ ADb /\ DOMAIN call = Calls /\ LogType(MaxEdits) /\ None \notin Calls
      /\ \A y \in Calls : call[y] # NoCall => ACall(call[y])
  BY NoneAssumption DEF AInv, AType, ACalls, AUis
<1>2. ASSUME A!Act, db' = db, call' = call PROVE
        /\ LogType(MaxEdits)' /\ log'.twin = log.twin /\ ADb' /\ Tokens' = Tokens
        /\ db'.owner = db.owner /\ db'.expired >= db.expired
        /\ \A y \in Calls : call'[y] # NoCall =>
             /\ call[y] # NoCall /\ ACall(call'[y])
             /\ call'[y].kind = call[y].kind /\ call'[y].arg = call[y].arg
  BY <1>1, <1>2, AActing DEF ADb, Tokens
<1>3. ui.form \in AForm /\ ui.form = [name |-> ui.form.name, pending |-> ui.form.pending,
                                      busy |-> ui.form.busy, done |-> ui.form.done]
      /\ ui.form.name \in People \cup {None} /\ ui.form.pending \in People \cup {None}
      /\ ui.form.done \in BOOLEAN /\ ui.form.busy \in Calls \cup {None}
      /\ ui.session \in ASession \cup {None}
  BY <1>1 DEF AUis, AForm
<1>4. A!NewForm \in AForm /\ A!NewForm.busy = None /\ A!NewForm.pending = None
  BY DEF A!NewForm, AForm
<1>a. CASE A!Logout
  <2>1. [ui EXCEPT !.session = None] \in AUis
    BY <1>1 DEF AUis
  <2>2. ui' \in AUis /\ ui'.session = None
        /\ (ui'.form = ui.form \/ (ui'.form.busy = None /\ ui'.form.pending = None))
    BY <1>a, <1>1, <2>1, ABecome DEF A!Logout, AUis
  <2> QED BY <1>a, <1>1, <1>2, <2>2, AKeep DEF A!Logout, AUis, ASession
<1>b. ASSUME NEW at \in A!Places, A!Go(at) PROVE AInv'
  <2>1. [ui EXCEPT !.at = at] \in AUis
    BY <1>1 DEF AUis
  <2>2. ui' \in AUis /\ ui'.session = ui.session
        /\ (ui'.form = ui.form \/ (ui'.form.busy = None /\ ui'.form.pending = None))
    BY <1>b, <1>1, <2>1, ABecome DEF A!Go, AUis
  <2> QED BY <1>b, <1>1, <1>2, <2>2, AKeep DEF A!Go, AUis, ASession
<1>c. CASE A!BackToSignIn
  <2>1. ui' = [ui EXCEPT !.form = [ui.form EXCEPT !.pending = None]]
    BY <1>c DEF A!BackToSignIn
  <2>2. [ui.form EXCEPT !.pending = None] \in AForm
    BY <1>3 DEF AForm
  <2>3. ui' \in AUis /\ ui'.session = ui.session /\ ui'.form = [ui.form EXCEPT !.pending = None]
    BY <1>1, <2>1, <2>2 DEF AUis
  <2>4. ui'.form.name = ui.form.name /\ ui'.form.pending = None /\ ui'.form.busy = ui.form.busy
    BY <1>3, <2>3
  <2> QED BY <1>c, <1>1, <1>2, <2>3, <2>4, AKeep DEF A!BackToSignIn, AUis, ASession
<1>d. ASSUME NEW n \in People, A!TypeName(n) PROVE AInv'
  <2>1. ui' = [ui EXCEPT !.form = [ui.form EXCEPT !.name = n]] /\ db' = db /\ call' = call
        /\ ui.form.pending = None
    BY <1>d DEF A!TypeName
  <2>2. [ui.form EXCEPT !.name = n] \in AForm
    BY <1>3 DEF AForm
  <2>3. ui' \in AUis /\ ui'.session = ui.session /\ ui'.form = [ui.form EXCEPT !.name = n]
    BY <1>1, <2>1, <2>2 DEF AUis
  <2>4. ui'.form.name = n /\ ui'.form.pending = None
    BY <1>3, <2>1, <2>3
  <2>5. LogType(MaxEdits)' /\ (~log'.twin => ~log.twin /\ \A y \in Calls : call[y] = NoCall)
    BY <1>1, <1>d, ASending DEF A!TypeName
  <2>6. ADb' /\ ACalls' /\ AUi' /\ Tokens' = Tokens
    BY <1>1, <2>1, <2>3 DEF ADb, ACalls, ACall, Tokens, AType, AUis, ASession
  <2>7. n # None
    BY SessionAssumption
  <2>8. AFilled'
    BY <1>1, <2>1, <2>4, <2>7 DEF AFilled, AType
  <2>9. ANamed' /\ (~log'.twin => Alone')
    BY <2>1, <2>3, <2>4, <2>5 DEF AInv, ANamed, Alone
  <2> QED BY <2>5, <2>6, <2>8, <2>9 DEF AInv, AType
<1>e. ASSUME NEW kept \in BOOLEAN, A!Refresh(kept) PROVE AInv'
  <2>1. PICK x \in Calls : A!SendAs(x, "status", None)
    BY <1>e DEF A!Refresh, A!Send
  <2>2. ACall(A!Request("status", None))
    BY DEF ACall, A!Request, IsRequest, Ats
  <2>3. db' = db /\ ui' = [ui EXCEPT !.status = None, !.form = A!NewForm,
                                     !.session = IF kept THEN ui.session ELSE None]
    BY <1>e DEF A!Refresh
  <2>4. ui' \in AUis /\ ui'.form = A!NewForm /\ ui'.session \in {None, ui.session}
    BY <1>1, <1>3, <1>4, <2>3 DEF AUis
  <2>5. /\ LogType(MaxEdits)' /\ ADb' /\ Tokens' = Tokens /\ ACalls'
        /\ call'[x] = A!Request("status", None)
        /\ ~log'.twin => ~log.twin /\ Alone' /\ \A y \in Calls : y # x => call'[y] = NoCall
    BY <2>1, <2>2, <2>3, ASendAs
  <2>6. AUi'
    BY <2>4, <2>5 DEF AUis, ASession
  <2>7. AFilled'
    BY <1>1, <1>4, <2>4 DEF AFilled
  <2>8. call'[x].kind = "status"
    BY <2>5 DEF A!Request
  <2>9. ANamed'
    BY <1>4, <2>3, <2>4, <2>5, <2>8 DEF AInv, ANamed
  <2> QED BY <2>5, <2>6, <2>7, <2>9 DEF AInv, AType
<1>f. CASE A!ApiFetch
  <2> DEFINE t == IF ui.session = None THEN 0 ELSE ui.session.token
  <2>1. PICK x \in Calls : A!SendAs(x, "api", t)
    BY <1>f DEF A!ApiFetch, A!Send
  <2>2. t \in Nat
    BY <1>3 DEF ASession, Tokens
  <2>3. ACall(A!Request("api", t))
    <3> HIDE DEF t
    <3> QED BY <2>2 DEF ACall, A!Request, IsRequest, Ats
  <2>4. db' = db /\ ui' = ui
    BY <1>f DEF A!ApiFetch
  <2>5. /\ LogType(MaxEdits)' /\ ADb' /\ Tokens' = Tokens /\ ACalls'
        /\ call'[x] = A!Request("api", t) /\ \A y \in Calls : y # x => call'[y] = call[y]
        /\ ~log'.twin => ~log.twin /\ Alone' /\ \A y \in Calls : y # x => call'[y] = NoCall
    BY <2>1, <2>3, <2>4, ASendAs
  <2>6. call'[x].kind = "api" /\ call'[x].arg = t
    <3> HIDE DEF t
    <3> QED BY <2>5 DEF A!Request
  <2>7. AUi' /\ AFilled'
    BY <1>1, <2>4, <2>5, <2>6 DEF AFilled, AType, AUis, ASession
  <2>8. ANamed'
    BY <2>4, <2>5, <2>6 DEF AInv, ANamed
  <2> QED BY <2>5, <2>7, <2>8 DEF AInv, AType
<1>g. ASSUME NEW kind \in {"setup", "login", "forgot", "reset", "verify"}, NEW arg, A!Sends(kind, arg),
             kind \in {"setup", "login"} => arg = ui.form.name /\ arg # None,
             kind = "verify" => /\ arg = [name |-> ui.form.name, pending |-> ui.form.pending]
                                /\ ui.form.pending # None
      PROVE  AInv'
  <2>1. PICK x \in Calls : A!SendAs(x, kind, arg) /\ ui' = [ui EXCEPT !.form = [ui.form EXCEPT !.busy = x]]
    BY <1>g DEF A!Sends
  <2>2. kind = "verify" => arg \in [name : People, pending : People]
    BY <1>1, <1>3, <1>g DEF AFilled, AType
  <2>3. ACall(A!Request(kind, arg))
    BY <1>g, <1>3, <2>2 DEF ACall, A!Request, IsRequest, Ats
  <2>4. db' = db
    BY <1>g DEF A!Sends
  <2>5. /\ LogType(MaxEdits)' /\ ADb' /\ Tokens' = Tokens /\ ACalls'
        /\ call'[x] = A!Request(kind, arg) /\ \A y \in Calls : y # x => call'[y] = call[y]
        /\ ~log'.twin => ~log.twin /\ Alone' /\ \A y \in Calls : y # x => call'[y] = NoCall
    BY <2>1, <2>3, <2>4, ASendAs
  <2>6. call'[x].kind = kind /\ call'[x].arg = arg
    BY <2>5 DEF A!Request
  <2>7. [ui.form EXCEPT !.busy = x] \in AForm
    BY <1>3 DEF AForm
  <2>8. ui' \in AUis /\ ui'.session = ui.session /\ ui'.form = [ui.form EXCEPT !.busy = x]
    BY <1>1, <2>1, <2>7 DEF AUis
  <2>9. ui'.form.name = ui.form.name /\ ui'.form.pending = ui.form.pending /\ ui'.form.busy = x
    BY <1>3, <2>8
  <2>10. AUi' /\ AFilled'
    BY <1>1, <1>g, <2>5, <2>6, <2>8, <2>9 DEF AFilled, AType, AUis, ASession
  <2>11. kind = "verify" /\ ~log.twin => arg.name = arg.pending
    BY <1>g DEF AInv, ANamed
  <2>12. ANamed'
    BY <1>g, <2>4, <2>5, <2>6, <2>8, <2>9, <2>11 DEF AInv, ANamed
  <2> QED BY <2>5, <2>10, <2>12 DEF AInv, AType
<1>h. CASE A!SubmitSetup
  BY <1>h, <1>g DEF A!SubmitSetup, A!Typed
<1>i. CASE A!SubmitLogin
  BY <1>i, <1>g DEF A!SubmitLogin, A!Typed
<1>j. CASE A!SubmitForgot
  BY <1>j, <1>g DEF A!SubmitForgot
<1>k. ASSUME NEW b \in BOOLEAN, A!SubmitReset(b) PROVE AInv'
  BY <1>k, <1>g DEF A!SubmitReset
<1>l. CASE A!SubmitCode
  BY <1>l, <1>g DEF A!SubmitCode
<1> QED BY <1>a, <1>b, <1>c, <1>d, <1>e, <1>f, <1>h, <1>i, <1>j, <1>k, <1>l DEF A!Admin

LEMMA AExpireInv == ASSUME AInv, A!Expire PROVE AInv'
<1>1. ui' = ui /\ call' = call /\ log' = log /\ db' = [db EXCEPT !.expired = db.expired + 1]
      /\ db.expired < Len(db.owner)
  BY DEF A!Expire
<1>2. ADb /\ AType
  BY DEF AInv, AType
<1>3. db' = [people |-> db.people, mfa |-> db.mfa, off |-> db.off, link |-> db.link,
             expired |-> db.expired + 1, owner |-> db.owner]
  BY <1>1, <1>2 DEF ADb
<1>4. ADb' /\ db'.owner = db.owner /\ db'.expired >= db.expired
  BY <1>1, <1>2, <1>3 DEF ADb
<1>5. AUi' /\ LogType(MaxEdits)' /\ DOMAIN call' = Calls
      /\ \A y \in Calls : call'[y] # NoCall => call[y] # NoCall /\ ACall(call'[y])
  BY <1>1, <1>2, <1>4 DEF AType, AUi, ACalls, ASession, Tokens, LogType
<1> QED BY <1>1, <1>2, <1>4, <1>5, AKeep DEF AType, AUi, AForm

LEMMA ALoseInv == ASSUME AInv, NEW x \in Calls, A!Lose(x) PROVE AInv'
<1>1. AType /\ call[x] # NoCall /\ ACall(call[x]) /\ call[x].at \in {"sent", "ok"}
  BY DEF AInv, AType, ACalls, A!Lose
<1>2. DOMAIN call = Calls /\ IsRequest(call[x]) /\ LogType(MaxEdits)
  BY <1>1 DEF AType, ACalls, ACall
<1>3. Lose(x)
  BY DEF A!Lose, Lose
<1>4. /\ db' = db /\ ui' = ui /\ DOMAIN call' = Calls /\ IsRequest(call'[x])
      /\ call'[x].kind = call[x].kind /\ call'[x].arg = call[x].arg /\ call'[x].at = "lost"
      /\ \A y \in Calls : y # x => call'[y] = call[y]
      /\ LogType(MaxEdits)' /\ log'.twin = log.twin
  BY <1>2, <1>3, Loses
<1>5. ACall(call'[x])
  BY <1>1, <1>4 DEF ACall, Ats
<1>6. \A y \in Calls : call'[y] # NoCall =>
        /\ call[y] # NoCall /\ ACall(call'[y])
        /\ call'[y].kind = call[y].kind /\ call'[y].arg = call[y].arg
  BY <1>1, <1>4, <1>5 DEF AType, ACalls
<1>7. AUi' /\ ADb' /\ db.expired \in Nat
  BY <1>1, <1>4 DEF AType, AUi, ADb, ASession, Tokens
<1> QED BY <1>1, <1>4, <1>6, <1>7, AKeep DEF AType, AUi, AForm

\* A form is free again, or as it was.
LEMMA AFree ==
  ASSUME AInv, NEW x \in Calls
  PROVE  /\ A!Free(x, ui) \in AUis /\ A!Free(x, ui).session = ui.session
         /\ A!Free(x, ui).status = ui.status
         /\ A!Free(x, ui).form.name = ui.form.name /\ A!Free(x, ui).form.pending = ui.form.pending
         /\ A!Free(x, ui).form.busy = IF ui.form.busy = x THEN None ELSE ui.form.busy
<1>1. ui \in AUis /\ ui.form \in AForm
  BY DEF AInv, AType, AUi, AUis
<1>2. [ui EXCEPT !.form.busy = None] = [ui EXCEPT !.form = [ui.form EXCEPT !.busy = None]]
      /\ [ui.form EXCEPT !.busy = None] \in AForm
  BY <1>1 DEF AForm
<1>3. [ui EXCEPT !.form = [ui.form EXCEPT !.busy = None]] \in AUis
  BY <1>1, <1>2 DEF AUis
<1> QED BY <1>1, <1>2, <1>3 DEF A!Free, AUis, AForm

\* A session that is set is that of the answer.
LEMMA ASets ==
  ASSUME AInv, NEW x \in Calls, A!Done(x), call[x] # NoCall,
         NEW t \in Tokens, NEW n \in People, ~log.twin => db.owner[t] = n,
         NEW u \in AUis, u.session = [token |-> t, name |-> n],
         u.form.name = ui.form.name, u.form.pending = ui.form.pending,
         u.form.busy \in {None, ui.form.busy}, A!Become(u)
  PROVE  AInv' /\ ui'.session = [token |-> t, name |-> n]
<1>1. AType /\ None \notin Calls
  BY NoneAssumption DEF AInv
<1>2. ui' \in AUis /\ ui'.session = u.session
      /\ (ui'.form = u.form \/ (ui'.form.busy = None /\ ui'.form.pending = None))
  BY ABecome
<1>3. /\ db' = db /\ log' = log /\ LogType(MaxEdits)' /\ ADb' /\ Tokens' = Tokens
      /\ DOMAIN call' = Calls
      /\ \A y \in Calls : call'[y] # NoCall =>
           y # x /\ call[y] # NoCall /\ call'[y] = call[y] /\ ACall(call'[y])
  BY ADone
<1>4. AUi'
  BY <1>2, <1>3 DEF AUi, AUis, ASession
<1>5. ACalls'
  BY <1>3 DEF ACalls, ACall
<1>6. AFilled'
  BY <1>1, <1>2, <1>3 DEF AFilled, AType
<1>7. ~log'.twin => Alone' /\ \A y \in Calls : call'[y] = NoCall
  BY <1>3 DEF AInv, Alone
<1>8. ANamed'
  BY <1>2, <1>3, <1>7 DEF AInv, ANamed
<1> QED BY <1>2, <1>3, <1>4, <1>5, <1>6, <1>7, <1>8 DEF AInv, AType

LEMMA AAnswerInv ==
  ASSUME AInv, NEW x \in Calls,
         \/ A!StatusKnown(x) \/ A!ApiFetched(x) \/ A!SetupDone(x) \/ A!LoggedIn(x) \/ A!Verified(x)
         \/ A!LinkAnswered(x) \/ A!SubmitFailed(x)
  PROVE  AInv'
<1>1. AType /\ ui \in AUis /\ (call[x] # NoCall => ACall(call[x]))
  BY DEF AInv, AType, AUi, AUis, ACalls
<1>2. ui.form \in AForm /\ ui.session \in ASession \cup {None}
  BY <1>1 DEF AUis
<1>3. Tokens' = Tokens \/ ~A!Done(x)
  BY ADone
<1>4. /\ A!Free(x, ui) \in AUis /\ A!Free(x, ui).session = ui.session
      /\ A!Free(x, ui).status = ui.status
      /\ A!Free(x, ui).form.name = ui.form.name /\ A!Free(x, ui).form.pending = ui.form.pending
      /\ A!Free(x, ui).form.busy \in {None, ui.form.busy}
  BY AFree
<1>a. CASE A!StatusKnown(x)
  <2> DEFINE s == IF call[x].at = "ok" THEN call[x].data ELSE A!Checked(FALSE, FALSE)
  <2>1. A!Done(x) /\ A!Become([ui EXCEPT !.status = s]) /\ A!Answered(x, "status", call[x].at)
    BY <1>a DEF A!StatusKnown, A!Answered
  <2>2. s \in AStatus
    BY <1>1, <2>1 DEF ACall, A!Answered, A!Checked, AStatus
  <2>3. [ui EXCEPT !.status = s] \in AUis /\ [ui EXCEPT !.status = s].session = ui.session
        /\ [ui EXCEPT !.status = s].form = ui.form
    <3> HIDE DEF s
    <3> QED BY <1>1, <2>2 DEF AUis
  <2>4. ui' \in AUis /\ ui'.session = ui.session
        /\ (ui'.form = ui.form \/ (ui'.form.busy = None /\ ui'.form.pending = None))
    <3> HIDE DEF s
    <3> QED BY <2>1, <2>3, ABecome
  <2>5. AUi'
    BY <1>3, <2>1, <2>4 DEF AUi, AUis, ASession
  <2> QED BY <2>1, <2>4, <2>5, AKeepDone
<1>b. CASE A!ApiFetched(x)
  <2>1. A!Done(x)
    BY <1>b DEF A!ApiFetched
  <2>2. [ui EXCEPT !.session = None] \in AUis /\ [ui EXCEPT !.session = None].session = None
        /\ [ui EXCEPT !.session = None].form = ui.form
    BY <1>1 DEF AUis
  <2>3. ui' \in AUis /\ ui'.session \in {None, ui.session}
        /\ (ui'.form = ui.form \/ (ui'.form.busy = None /\ ui'.form.pending = None))
    BY <1>1, <1>b, <2>2, ABecome DEF A!ApiFetched
  <2>4. AUi'
    BY <1>3, <2>1, <2>3 DEF AUi, AUis, ASession
  <2> QED BY <2>1, <2>3, <2>4, AKeepDone
<1>c. CASE A!SetupDone(x)
  <2> DEFINE f == A!Free(x, ui)
             v == A!SetSession(f, call[x].data, call[x].arg)
             u == [v EXCEPT !.status = IF v.status = None THEN None ELSE [v.status EXCEPT !.required = FALSE]]
  <2>1. call[x] # NoCall /\ A!Done(x) /\ A!Become(u) /\ call[x].kind = "setup" /\ call[x].at = "ok"
    BY <1>c DEF A!SetupDone, A!Answered
  <2>2. call[x].data \in Tokens /\ call[x].arg \in People /\ db.owner[call[x].data] = call[x].arg
    BY <1>1, <2>1 DEF ACall
  <2>3. v \in AUis /\ v.session = [token |-> call[x].data, name |-> call[x].arg] /\ v.form = f.form
    BY <1>4, <2>2 DEF A!SetSession, AUis, ASession
  <2>4. v.status # None => [v.status EXCEPT !.required = FALSE] \in AStatus
    BY <2>3 DEF AUis, AStatus
  <2>5. u \in AUis /\ u.session = v.session /\ u.form = v.form
    <3> HIDE DEF v
    <3> QED BY <2>3, <2>4 DEF AUis
  <2> HIDE DEF u, v
  <2>6. u.form.name = ui.form.name /\ u.form.pending = ui.form.pending
        /\ u.form.busy \in {None, ui.form.busy}
    BY <1>4, <2>3, <2>5
  <2> QED BY <2>1, <2>2, <2>3, <2>5, <2>6, ASets
<1>d. CASE A!LoggedIn(x)
  <2>1. call[x] # NoCall /\ A!Done(x) /\ call[x].kind = "login" /\ call[x].at = "ok"
    BY <1>d DEF A!LoggedIn, A!Answered
  <2>2. call[x].arg \in People
        /\ (call[x].data = call[x].arg \/ (call[x].data \in Tokens /\ db.owner[call[x].data] = call[x].arg))
    BY <1>1, <2>1 DEF ACall
  <2>3. call[x].data \in Tokens => call[x].data \notin People
    BY SessionAssumption DEF Tokens
  <2>4. CASE call[x].data \notin People
    <3> DEFINE u == A!SetSession(A!Free(x, ui), call[x].data, call[x].arg)
    <3>1. call[x].data \in Tokens /\ db.owner[call[x].data] = call[x].arg
      BY <2>2, <2>4
    <3>2. u \in AUis /\ u.session = [token |-> call[x].data, name |-> call[x].arg]
          /\ u.form = A!Free(x, ui).form
      BY <1>4, <2>2, <3>1 DEF A!SetSession, AUis, ASession
    <3>3. A!Become(u)
      BY <1>d, <2>4 DEF A!LoggedIn
    <3> HIDE DEF u
    <3> QED BY <1>4, <2>1, <2>2, <3>1, <3>2, <3>3, ASets
  <2>5. CASE call[x].data \in People /\ ui.form.busy # x
    <3>1. ui' = ui
      BY <1>d, <2>5 DEF A!LoggedIn
    <3>2. AUi'
      BY <1>1, <1>3, <2>1, <3>1 DEF AUi, AUis, ASession
    <3> QED BY <2>1, <3>1, <3>2, <1>2, AKeepDone
  <2>6. CASE call[x].data \in People /\ ui.form.busy = x
    <3>1. ui' = [ui EXCEPT !.form = [ui.form EXCEPT !.busy = None, !.pending = call[x].arg]]
      BY <1>d, <2>2, <2>3, <2>6 DEF A!LoggedIn
    <3>2. [ui.form EXCEPT !.busy = None, !.pending = call[x].arg] \in AForm
      BY <1>2, <2>2 DEF AForm
    <3>3. ui' \in AUis /\ ui'.session = ui.session
          /\ ui'.form = [ui.form EXCEPT !.busy = None, !.pending = call[x].arg]
      BY <1>1, <3>1, <3>2 DEF AUis
    <3>4. ui'.form.busy = None /\ ui'.form.pending = call[x].arg /\ ui'.form.name = ui.form.name
      BY <1>2, <3>3 DEF AForm
    <3>5. /\ db' = db /\ log' = log /\ LogType(MaxEdits)' /\ ADb' /\ Tokens' = Tokens
          /\ DOMAIN call' = Calls
          /\ \A y \in Calls : call'[y] # NoCall =>
               y # x /\ call[y] # NoCall /\ call'[y] = call[y] /\ ACall(call'[y])
      BY <2>1, ADone
    <3>6. AUi'
      BY <3>3, <3>5 DEF AUi, AUis, ASession
    <3>7. ACalls'
      BY <3>5 DEF ACalls, ACall
    <3>8. AFilled'
      BY <1>1, <2>1, <2>6, <3>4, <3>5, NoneAssumption DEF AFilled, AType
    <3>9. ~log'.twin => Alone'
      BY <3>5 DEF AInv, Alone
    <3>10. ANamed'
      BY <2>1, <2>6, <3>3, <3>4, <3>5, NoneAssumption DEF AInv, ANamed
    <3> QED BY <3>5, <3>6, <3>7, <3>8, <3>9, <3>10 DEF AInv, AType
  <2> QED BY <2>4, <2>5, <2>6
<1>e. CASE A!Verified(x)
  <2> DEFINE u == A!SetSession(A!Free(x, ui), call[x].data, call[x].arg.name)
  <2>1. call[x] # NoCall /\ A!Done(x) /\ A!Become(u) /\ call[x].kind = "verify" /\ call[x].at = "ok"
    BY <1>e DEF A!Verified, A!Answered
  <2>2. call[x].data \in Tokens /\ call[x].arg.name \in People /\ db.owner[call[x].data] = call[x].arg.pending
        /\ (~log.twin => call[x].arg.name = call[x].arg.pending)
    BY <1>1, <2>1 DEF ACall, AInv, ANamed
  <2>3. u \in AUis /\ u.session = [token |-> call[x].data, name |-> call[x].arg.name]
        /\ u.form = A!Free(x, ui).form
    BY <1>4, <2>2 DEF A!SetSession, AUis, ASession
  <2> HIDE DEF u
  <2> QED BY <1>4, <2>1, <2>2, <2>3, ASets
<1>f. CASE A!LinkAnswered(x)
  <2>1. A!Done(x)
    BY <1>f DEF A!LinkAnswered
  <2>2. [ui.form EXCEPT !.busy = None, !.done = TRUE] \in AForm
    BY <1>2, Zenon DEF AForm
  <2>3. ui' = ui \/ ui' = [ui EXCEPT !.form = [ui.form EXCEPT !.busy = None, !.done = TRUE]]
    BY <1>f DEF A!LinkAnswered
  <2>4. ui' \in AUis /\ ui'.session = ui.session
        /\ ui'.form \in {ui.form, [ui.form EXCEPT !.busy = None, !.done = TRUE]}
    BY <1>1, <2>2, <2>3 DEF AUis
  <2>5. ui'.form.name = ui.form.name /\ ui'.form.pending = ui.form.pending
        /\ ui'.form.busy \in {None, ui.form.busy}
    BY <1>2, <2>4 DEF AForm
  <2>6. AUi'
    BY <1>3, <2>1, <2>4 DEF AUi, AUis, ASession
  <2> QED BY <2>1, <2>4, <2>5, <2>6, AKeepDone
<1>g. CASE A!SubmitFailed(x)
  <2>1. A!Done(x) /\ ui' = A!Free(x, ui)
    BY <1>g DEF A!SubmitFailed
  <2>2. AUi'
    BY <1>3, <1>4, <2>1 DEF AUi, AUis, ASession
  <2> QED BY <1>4, <2>1, <2>2, AKeepDone
<1> QED BY <1>a, <1>b, <1>c, <1>d, <1>e, <1>f, <1>g

LEMMA AInductive == AInv /\ [A!Next]_vars => AInv'
<1> SUFFICES ASSUME AInv, [A!Next]_vars PROVE AInv'
  OBVIOUS
<1>1. CASE UNCHANGED vars
  BY <1>1 DEF vars, AInv, AType, AUi, ADb, ACalls, ACall, AFilled, ANamed, Alone, LogType, Tokens, ASession
<1>2. CASE A!Next
  BY <1>2, AServeInv, AAdminInv, AExpireInv, ALoseInv, AAnswerInv DEF A!Next
<1> QED BY <1>1, <1>2

LEMMA ATyped == AInv => A!TypeOK /\ A!NameIsOwners
<1> SUFFICES ASSUME AInv PROVE A!TypeOK /\ A!NameIsOwners
  OBVIOUS
<1>1. AType
  BY DEF AInv
<1>2. A!CallsTypeOK
  BY <1>1 DEF A!CallsTypeOK, AType, ACalls, ACall, Ats, LogType
<1>3. /\ ui.at \in A!Places /\ ui.status \in [required : BOOLEAN, off : BOOLEAN] \cup {None}
      /\ ui.session \in ASession \cup {None} /\ ui.form \in AForm
  BY <1>1 DEF AType, AUi, AStatus
<1>4. db.owner \in Seq(People) /\ DOMAIN db.owner = Tokens
  BY <1>1 DEF AType, ADb, Tokens
<1>5. ui.session = None \/ (ui.session.token \in DOMAIN db.owner /\ ui.session.name \in People)
  BY <1>3, <1>4 DEF ASession
<1>6. /\ {ui.form.name, ui.form.pending} \subseteq People \cup {None}
      /\ ui.form.busy \in Calls \cup {None} /\ ui.form.done \in BOOLEAN
  BY <1>3 DEF AForm
<1>7. A!TypeOK
  BY <1>1, <1>2, <1>3, <1>5, <1>6 DEF A!TypeOK, AType, ADb
<1> QED BY <1>7 DEF AInv, ANamed, A!NameIsOwners

\* What signs in sets a session, and what does not leaves it, but for these.
LEMMA AEnds == AInv /\ [A!Next]_vars => A!EndsForCause
<1> SUFFICES ASSUME AInv, [A!Next]_vars, ui.session # None, ui'.session = None, ~log.twin,
                    log'.edits = log.edits
             PROVE  ~A!Live(ui.session.token)
  BY DEF A!EndsForCause
<1>1. AType /\ ui \in AUis /\ ui.form \in AForm /\ LogType(MaxEdits)
  BY DEF AInv, AType, AUi, AUis
<1>2. ASSUME A!Act \/ A!Sending PROVE FALSE
  BY <1>1, <1>2, AActing, ASending
<1>3. CASE A!Admin
  <2>1. ASSUME NEW at \in A!Places, A!Go(at) PROVE FALSE
    BY <2>1, <1>2 DEF A!Go
  <2>2. ASSUME NEW b \in BOOLEAN, A!Refresh(b) \/ A!SubmitReset(b) PROVE FALSE
    BY <2>2, <1>2 DEF A!Refresh, A!SubmitReset, A!Sends, A!Send, A!SendAs
  <2>3. ASSUME NEW n \in People, A!TypeName(n) PROVE FALSE
    BY <2>3, <1>2 DEF A!TypeName
  <2>4. ASSUME A!Logout \/ A!ApiFetch \/ A!SubmitSetup \/ A!SubmitLogin \/ A!SubmitForgot
               \/ A!SubmitCode \/ A!BackToSignIn
        PROVE  FALSE
    BY <2>4, <1>2 DEF A!Logout, A!ApiFetch, A!SubmitSetup, A!SubmitLogin, A!SubmitForgot,
       A!SubmitCode, A!BackToSignIn, A!Sends, A!Send, A!SendAs
  <2> QED BY <1>3, <2>1, <2>2, <2>3, <2>4 DEF A!Admin
<1>4. CASE UNCHANGED ui
  BY <1>4
<1>5. ASSUME NEW x \in Calls, A!Serve(x) PROVE FALSE
  BY <1>5 DEF A!Serve, A!Replied
<1>6. ASSUME NEW x \in Calls, A!Lose(x) PROVE FALSE
  BY <1>6 DEF A!Lose
<1>7. ASSUME NEW x \in Calls, A!ApiFetched(x) PROVE ~A!Live(ui.session.token)
  <2>1. call[x] # NoCall /\ call[x].kind = "api" /\ call[x].at = "refused"
    BY <1>7 DEF A!ApiFetched, A!Answered
  <2>2. ACall(call[x])
    BY <1>1, <2>1 DEF AType, ACalls
  <2>3. call[x].arg = ui.session.token /\ call[x].arg \in Nat /\ call[x].arg <= db.expired
    BY <2>1, <2>2 DEF AInv, ANamed, ACall
  <2>4. db.expired \in Nat
    BY <1>1 DEF AType, ADb
  <2> QED BY <2>3, <2>4 DEF A!Live
<1>8. ASSUME NEW x \in Calls, A!StatusKnown(x) PROVE FALSE
  <2> DEFINE s == IF call[x].at = "ok" THEN call[x].data ELSE A!Checked(FALSE, FALSE)
  <2>1. A!Become([ui EXCEPT !.status = s])
    BY <1>8 DEF A!StatusKnown
  <2>2. ui'.session = ui.session
    <3> HIDE DEF s
    <3> QED BY <1>1, <2>1 DEF A!Become, AUis
  <2> QED BY <2>2
<1>9. ASSUME NEW x \in Calls, A!LinkAnswered(x) \/ A!SubmitFailed(x) PROVE FALSE
  BY <1>1, <1>9 DEF A!LinkAnswered, A!SubmitFailed, A!Free, AUis
<1>10. ASSUME NEW x \in Calls, A!SetupDone(x) \/ A!LoggedIn(x) \/ A!Verified(x) PROVE FALSE
  <2>1. ASSUME NEW t, NEW n, t \in Tokens, n \in People PROVE [token |-> t, name |-> n] # None
    BY <2>1, SessionAssumption DEF Tokens
  <2>2. call[x] # NoCall /\ ACall(call[x]) /\ call[x].at = "ok"
    BY <1>1, <1>10 DEF A!SetupDone, A!LoggedIn, A!Verified, A!Answered, AType, ACalls
  <2>3. A!Free(x, ui) \in AUis /\ A!Free(x, ui).session = ui.session
    BY AFree
  <2>4. ASSUME NEW t, NEW n PROVE A!SetSession(A!Free(x, ui), t, n).session = [token |-> t, name |-> n]
    BY <2>3 DEF A!SetSession, AUis
  <2>5. CASE A!SetupDone(x)
    <3>1. call[x].data \in Tokens /\ call[x].arg \in People
      BY <2>2, <2>5 DEF A!SetupDone, A!Answered, ACall
    <3> DEFINE v == A!SetSession(A!Free(x, ui), call[x].data, call[x].arg)
               u == [v EXCEPT !.status = IF v.status = None THEN None ELSE [v.status EXCEPT !.required = FALSE]]
    <3>2. A!Become(u)
      BY <2>5 DEF A!SetupDone
    <3>3. u.session = [token |-> call[x].data, name |-> call[x].arg]
      BY <2>3 DEF A!SetSession, AUis
    <3>4. ui'.session = u.session
      <4> HIDE DEF v
      <4> QED BY <3>2 DEF A!Become
    <3> QED BY <2>1, <3>1, <3>3, <3>4
  <2>6. CASE A!LoggedIn(x)
    <3>1. call[x].arg \in People /\ (call[x].data = call[x].arg \/ call[x].data \in Tokens)
      BY <2>2, <2>6 DEF A!LoggedIn, A!Answered, ACall
    <3>2. CASE call[x].data \notin People
      <4> DEFINE v == A!SetSession(A!Free(x, ui), call[x].data, call[x].arg)
      <4>1. A!Become(v)
        BY <2>6, <3>2 DEF A!LoggedIn
      <4>2. v.session = [token |-> call[x].data, name |-> call[x].arg]
        BY <2>4
      <4>3. ui'.session = v.session
        <5> HIDE DEF v
        <5> QED BY <4>1 DEF A!Become
      <4> QED BY <2>1, <3>1, <3>2, <4>2, <4>3
    <3>3. CASE call[x].data \in People
      BY <1>1, <2>6, <3>3 DEF A!LoggedIn, AUis
    <3> QED BY <3>2, <3>3
  <2>7. CASE A!Verified(x)
    <3>1. call[x].data \in Tokens /\ call[x].arg.name \in People
      BY <2>2, <2>7 DEF A!Verified, A!Answered, ACall
    <3> DEFINE v == A!SetSession(A!Free(x, ui), call[x].data, call[x].arg.name)
    <3>2. A!Become(v)
      BY <2>7 DEF A!Verified
    <3>3. v.session = [token |-> call[x].data, name |-> call[x].arg.name]
      BY <2>4
    <3>4. ui'.session = v.session
      <4> HIDE DEF v
      <4> QED BY <3>2 DEF A!Become
    <3> QED BY <2>1, <3>1, <3>3, <3>4
  <2> QED BY <1>10, <2>5, <2>6, <2>7
<1>11. CASE A!Expire
  BY <1>11 DEF A!Expire
<1> QED BY <1>3, <1>4, <1>5, <1>6, <1>7, <1>8, <1>9, <1>10, <1>11 DEF A!Next, vars

\* While requests do not overlap, the name the admin is shown is that of the
\* account the token is for, the login that is under way is of the account the
\* form names, and what a page asks for is asked with the session's token
\* (LoginPage.tsx, useApiFetch).
THEOREM SessionCorrect == Spec => [](page = "session" => AInv)
<1>1. Init => (page = "session" => AInv)
  BY AInitInv DEF Init
<1>2. (page = "session" => AInv) /\ [Next]_all => (page = "session" => AInv)'
  BY AInductive DEF Next, all
<1> QED BY <1>1, <1>2, PTL DEF Spec

\* While requests do not overlap, a session goes on until the admin does
\* something, the page is loaded again, or its token is dead: no answer about
\* another session ends it (useApiFetch).
THEOREM EndsForCause == Spec => SessionEndsForCause
<1>1. (page = "session" => AInv) /\ [Next]_all => [page = "session" => A!EndsForCause]_all
  BY AEnds DEF Next, all
<1> QED BY <1>1, SessionCorrect, PTL DEF Spec, SessionEndsForCause

---------------------------------------------------------------------------
(* Themes.                                                                 *)

TBg == [type : T!Types, lines : Seq(T!Line)]
TTokens == [bg : TBg, accent : Colours \cup {Blank}, heading : Fonts]
TStored == [bg : TBg, accent : Colours \cup {Blank}, heading : Fonts \cup {Absent}]
TTheme == [tokens : TStored, used : BOOLEAN]
TDb == [Two -> TTheme \cup {None}]
TUp == [base : TTokens, urls : Seq(Urls), at : Nat, by : Calls]
TSave == [id : Two \cup {None}, tokens : TTokens]

TCall(c) ==
  /\ IsRequest(c) /\ c.at \in Ats
  /\ c.kind \in {"list", "get", "save", "delete", "upload"}
  /\ c.kind \in {"get", "delete"} => c.arg \in Two
  /\ c.kind = "get" /\ c.at = "ok" => c.data \in TTheme
  /\ c.kind = "list" /\ c.at = "ok" => c.data \in TDb
  /\ c.kind = "save" => c.arg \in TSave

TUi ==
  /\ ui = [page |-> ui.page, list |-> ui.list, id |-> ui.id, tokens |-> ui.tokens,
           busy |-> ui.busy, import |-> ui.import, up |-> ui.up]
  /\ ui.page \in {"list", "edit"} /\ ui.list \in TDb \cup {None}
  /\ ui.id \in Two \cup {None} /\ ui.tokens \in TTokens \cup {None}
  /\ ui.import \in BOOLEAN /\ ui.up \in TUp \cup {None}

\* What is edited, saved or kept for an upload is complete; what is stored is
\* but for what was added later.
TInv ==
  /\ TUi /\ db \in TDb /\ LogType(MaxEdits)
  /\ DOMAIN call = Calls /\ \A x \in Calls : call[x] # NoCall => TCall(call[x])

LEMMA TDefault ==
  /\ T!DefaultTheme \in TTokens /\ T!Preset \in TTokens
  /\ T!DefaultTheme.heading \in Fonts /\ Default.colour \in Colours
<1>1. Default.colour \in Colours /\ Default.font \in Fonts
  BY ThemesAssumption
<1>2. <<"gradient", Default.colour>> \in T!Line /\ Default.colour \in T!Line
  BY <1>1 DEF T!Line, T!Gradients
<1>3. <<(<<"gradient", Default.colour>>)>> \in Seq(T!Line) /\ <<Default.colour>> \in Seq(T!Line)
  BY <1>2
<1>4. (CHOOSE c \in Colours : c # Default.colour) \in Colours
  BY ThemesAssumption
<1>5. T!Background("gradient", <<(<<"gradient", Default.colour>>)>>) \in TBg
      /\ T!Background("solid", <<Default.colour>>) \in TBg
  BY <1>3 DEF T!Background, TBg, T!Types
<1> QED BY <1>1, <1>4, <1>5 DEF T!DefaultTheme, T!Preset, TTokens

\* What was added later is taken from the built-in theme.
LEMMA TMerged == ASSUME NEW t \in TStored PROVE T!Merged(t) \in TTokens
<1>1. DOMAIN T!DefaultTheme = {"bg", "accent", "heading"}
  BY DEF T!DefaultTheme
<1>2. T!Merged(t) = [bg |-> IF t.bg = Absent THEN T!DefaultTheme.bg ELSE t.bg,
                     accent |-> IF t.accent = Absent THEN T!DefaultTheme.accent ELSE t.accent,
                     heading |-> IF t.heading = Absent THEN T!DefaultTheme.heading ELSE t.heading]
  BY <1>1 DEF T!Merged
<1> QED BY <1>2, TDefault DEF TStored, TTokens

LEMMA TValidated ==
  ASSUME NEW f \in T!Files, T!Valid(f)
  PROVE  T!Validated(f) \in TTokens
<1>1. T!DefaultTheme \in TTokens /\ T!Preset \in TTokens /\ T!DefaultTheme.heading \in Fonts
  BY TDefault
<1>2. [T!Preset EXCEPT !.accent = Absent].accent = Absent /\ [T!Preset EXCEPT !.bg = Absent].bg = Absent
  BY <1>1 DEF TTokens
<1>3. f \in {T!DefaultTheme, T!Preset, [T!Preset EXCEPT !.heading = Absent]}
  BY <1>2 DEF T!Files, T!Valid
<1>4. CASE f = [T!Preset EXCEPT !.heading = Absent]
  <2>1. T!Validated(f) = [f EXCEPT !.heading = T!DefaultTheme.heading]
    BY <1>1, <1>4 DEF T!Validated, TTokens
  <2> QED BY <1>1, <1>4, <2>1 DEF TTokens
<1>5. CASE f \in TTokens
  <2>1. f.heading # Absent
    BY <1>5, ThemesAssumption DEF TTokens
  <2> QED BY <1>5, <2>1 DEF T!Validated, TTokens
<1> QED BY <1>1, <1>3, <1>4, <1>5

LEMMA TInitInv == ASSUME T!Init PROVE TInv
<1>1. ui = T!Closed /\ TUi
  BY DEF T!Init, T!Closed, TUi
<1>2. PICK old \in Two, heading \in Fonts \cup {Absent}, used \in BOOLEAN :
        db = [i \in Two |-> IF i # old THEN None
               ELSE [tokens |-> [T!DefaultTheme EXCEPT !.heading = heading], used |-> used]]
  BY DEF T!Init
<1>3. [T!DefaultTheme EXCEPT !.heading = heading] \in TStored
  BY TDefault DEF TTokens, TStored
<1>4. [tokens |-> [T!DefaultTheme EXCEPT !.heading = heading], used |-> used] \in TTheme
  BY <1>3 DEF TTheme
<1>5. db \in TDb
  BY <1>2, <1>4 DEF TDb
<1>6. LogType(MaxEdits) /\ DOMAIN call = Calls /\ \A x \in Calls : call[x] # NoCall => TCall(call[x])
  BY BoundsAssumption DEF T!Init, T!Mounted, T!NewLog, T!NoCalls, T!Request, LogType, TCall, IsRequest, Ats
<1> QED BY <1>1, <1>5, <1>6 DEF TInv

LEMMA TServeInv == ASSUME TInv, NEW x \in Calls, T!Serve(x) PROVE TInv'
<1>1. call[x] # NoCall /\ TCall(call[x]) /\ call[x].at = "sent"
  BY DEF TInv, T!Serve, T!Sent
<1> DEFINE c == call[x]
           r == T!Served(c)
<1>2. DOMAIN call = Calls /\ IsRequest(call[x]) /\ LogType(MaxEdits) /\ db \in TDb
  BY <1>1 DEF TInv, TCall
<1>3. Replied(x, r)
  BY DEF T!Serve, T!Replied, T!Sent, Replied, Sent
<1>4. /\ db' = r.db /\ ui' = ui /\ DOMAIN call' = Calls /\ IsRequest(call'[x])
      /\ call'[x].kind = call[x].kind /\ call'[x].arg = call[x].arg /\ call'[x].data = r.data
      /\ call'[x].at = IF r.ok THEN "ok" ELSE "refused"
      /\ \A y \in Calls : y # x => call'[y] = call[y]
      /\ LogType(MaxEdits)'
  <2> HIDE DEF r
  <2> QED BY <1>2, <1>3, Replies
<1>5. /\ r.db \in TDb /\ (c.kind = "get" /\ r.ok => r.data \in TTheme)
      /\ c.kind = "list" => r.data \in TDb
  <2>1. CASE c.kind \in {"list", "upload"}
    BY <1>2, <2>1 DEF T!Served, T!Reply
  <2>2. CASE c.kind = "get"
    BY <1>1, <1>2, <2>2 DEF T!Served, T!Reply, TCall, TDb
  <2>3. CASE c.kind = "delete"
    BY <1>1, <1>2, <2>3 DEF T!Served, T!Reply, T!Refuse, TCall, TDb
  <2>4. CASE c.kind = "save"
    <3> DEFINE i == IF c.arg.id = None THEN CHOOSE j \in Two : db[j] = None ELSE c.arg.id
    <3>1. c.arg \in TSave /\ i \in Two
      <4>1. c.arg.id = None => \E j \in Two : db[j] = None
        BY <2>4 DEF T!Serve
      <4> QED BY <1>1, <2>4, <4>1 DEF TCall, TSave
    <3>2. CASE c.arg.id # None /\ db[i] = None
      BY <1>2, <2>4, <3>2 DEF T!Served, T!Reply, T!Refuse
    <3>3. CASE ~(c.arg.id # None /\ db[i] = None)
      <4> DEFINE used == IF db[i] = None THEN FALSE ELSE db[i].used
                 new == [tokens |-> c.arg.tokens, used |-> used]
      <4>1. r = T!Reply([db EXCEPT ![i] = new], None, TRUE)
        BY <2>4, <3>3 DEF T!Served
      <4>2. used \in BOOLEAN
        BY <1>2, <3>1 DEF TDb, TTheme
      <4>3. new \in TTheme
        <5> HIDE DEF used
        <5> QED BY <3>1, <4>2 DEF TSave, TTheme, TTokens, TStored
      <4> HIDE DEF i, new
      <4> QED BY <1>2, <2>4, <3>1, <4>1, <4>3 DEF T!Reply, TDb
    <3> QED BY <3>2, <3>3
  <2> QED BY <1>1, <2>1, <2>2, <2>3, <2>4 DEF TCall
<1> HIDE DEF r
<1>6. TCall(call[x])'
  BY <1>1, <1>4, <1>5 DEF TCall, Ats
<1> QED BY <1>4, <1>5, <1>6 DEF TInv, TUi

LEMMA TActing ==
  ASSUME TInv, T!Act \/ T!Sending
  PROVE  LogType(MaxEdits)'
BY BoundsAssumption, Acts, Sends DEF TInv, T!Act, T!Sending, T!Open, T!Idle, Open, Idle

\* The admin edits, and nothing is sent.
LEMMA TEdits ==
  ASSUME TInv, T!Act \/ T!Sending, UNCHANGED <<db, call>>, TUi'
  PROVE  TInv'
BY TActing DEF TInv, TCall

LEMMA TSets ==
  ASSUME TInv, T!Act \/ T!Sending, NEW t \in TTokens, T!SetTokens(t)
  PROVE  TInv'
<1>1. ui' = [ui EXCEPT !.tokens = t] /\ UNCHANGED <<db, call>>
  BY DEF T!SetTokens
<1>2. TUi'
  BY <1>1 DEF TInv, TUi
<1> QED BY <1>1, <1>2, TEdits

LEMMA TSends ==
  ASSUME TInv, NEW x \in Calls, NEW kind, NEW arg, T!SendAs(x, kind, arg), UNCHANGED db, TUi',
         TCall(T!Request(kind, arg))
  PROVE  TInv'
<1>1. call' = [call EXCEPT ![x] = T!Request(kind, arg)] /\ LogType(MaxEdits)'
  BY TActing DEF T!SendAs
<1> QED BY <1>1 DEF TInv, TCall

\* An answer is read, and perhaps the next request sent.
LEMMA TReads ==
  ASSUME TInv, NEW x \in Calls, TUi',
         \/ T!Done(x)
         \/ \E kind, arg : T!DoneThen(x, kind, arg) /\ TCall(T!Request(kind, arg))
  PROVE  TInv'
<1>1. UNCHANGED <<db, log>>
  BY DEF T!Done, T!DoneThen
<1>2. DOMAIN call' = Calls /\ \A y \in Calls : call'[y] # NoCall => TCall(call'[y])
  BY DEF T!Done, T!DoneThen, TInv
<1>3. (\A y \in Calls : call[y] # NoCall => TCall(call[y]))'
  BY <1>2 DEF TCall
<1> QED BY <1>1, <1>2, <1>3 DEF TInv, LogType

LEMMA TBackground ==
  ASSUME NEW t \in TTokens, NEW b \in TBg
  PROVE  [t EXCEPT !.bg = b] \in TTokens
BY DEF TTokens

LEMMA TAdminInv == ASSUME TInv, T!Admin PROVE TInv'
<1>1. /\ TUi /\ (ui.tokens # None => ui.tokens \in TTokens) /\ (ui.up # None => ui.up \in TUp)
      /\ ui.id \in Two \cup {None} /\ ui.import \in BOOLEAN
  BY DEF TInv, TUi
<1>2. T!Closed.page = "list" /\ T!Closed.tokens = None /\ T!Closed.up = None /\ T!Closed.id = None
      /\ T!Closed = [page |-> "list", list |-> None, id |-> None, tokens |-> None,
                     busy |-> None, import |-> FALSE, up |-> None]
  BY DEF T!Closed
<1>a. ASSUME NEW i \in Two, T!Delete(i) PROVE TInv'
  <2>1. PICK x \in Calls : T!SendAs(x, "delete", i)
    BY <1>a DEF T!Delete, T!Send
  <2>2. UNCHANGED <<ui, db>> /\ TUi'
    BY <1>1, <1>a DEF T!Delete, TUi
  <2>3. TCall(T!Request("delete", i))
    BY DEF TCall, T!Request, IsRequest, Ats
  <2> QED BY <2>1, <2>2, <2>3, TSends
<1>b. ASSUME NEW i \in Two, T!OpenTheme(i) PROVE TInv'
  <2>1. PICK x \in Calls : T!SendAs(x, "get", i)
    BY <1>b DEF T!OpenTheme, T!Send
  <2>2. UNCHANGED db /\ ui' = [T!Closed EXCEPT !.page = "edit", !.id = i]
    BY <1>b DEF T!OpenTheme
  <2>3. TUi'
    BY <1>2, <2>2 DEF TUi
  <2>4. TCall(T!Request("get", i))
    BY DEF TCall, T!Request, IsRequest, Ats
  <2> QED BY <2>1, <2>2, <2>3, <2>4, TSends
<1>c. CASE T!OpenNew
  <2>1. TUi'
    BY <1>c, <1>2, TDefault DEF T!OpenNew, TUi
  <2> QED BY <1>c, <2>1, TEdits DEF T!OpenNew
<1>d. CASE T!PickPreset
  BY <1>d, TDefault, TSets DEF T!PickPreset, T!Touch
<1>e. CASE T!OpenImport \/ T!CancelImport
  <2>1. TUi'
    BY <1>e, <1>1 DEF T!OpenImport, T!CancelImport, TUi
  <2> QED BY <1>e, <2>1, TEdits DEF T!OpenImport, T!CancelImport
<1>f. CASE T!Submit
  <2>1. PICK x \in Calls : T!SendAs(x, "save", [id |-> ui.id, tokens |-> ui.tokens])
                           /\ ui' = [ui EXCEPT !.busy = x]
    BY <1>f DEF T!Submit
  <2>2. UNCHANGED db /\ ui.tokens \in TTokens
    BY <1>1, <1>f DEF T!Submit, T!Editing
  <2>3. TUi'
    BY <1>1, <2>1 DEF TUi
  <2>4. TCall(T!Request("save", [id |-> ui.id, tokens |-> ui.tokens]))
    BY <1>1, <2>2 DEF TCall, T!Request, IsRequest, Ats, TSave
  <2> QED BY <2>1, <2>2, <2>3, <2>4, TSends
<1>g. CASE T!Leave
  <2>1. PICK x \in Calls : T!SendAs(x, "list", None)
    BY <1>g DEF T!Leave, T!Send
  <2>2. UNCHANGED db /\ ui' = T!Closed /\ TUi'
    BY <1>2, <1>g DEF T!Leave, TUi
  <2>3. TCall(T!Request("list", None))
    BY DEF TCall, T!Request, IsRequest, Ats
  <2> QED BY <2>1, <2>2, <2>3, TSends
<1>h. ASSUME NEW c \in Colours \cup {Blank}, T!SetAccent(c) PROVE TInv'
  <2>1. ui.tokens \in TTokens
    BY <1>1, <1>h DEF T!SetAccent, T!Editing
  <2>2. [ui.tokens EXCEPT !.accent = c] \in TTokens
    BY <2>1 DEF TTokens
  <2> QED BY <1>h, <2>2, TSets DEF T!SetAccent, T!Touch
<1>i. ASSUME NEW f \in Fonts, T!SetHeading(f) PROVE TInv'
  <2>1. ui.tokens \in TTokens
    BY <1>1, <1>i DEF T!SetHeading, T!Editing
  <2>2. [ui.tokens EXCEPT !.heading = f] \in TTokens
    BY <2>1 DEF TTokens
  <2> QED BY <1>i, <2>2, TSets DEF T!SetHeading, T!Touch
<1>j. ASSUME NEW type \in T!Types, T!SwitchType(type) PROVE TInv'
  <2> DEFINE lines == ui.tokens.bg.lines
             first == IF lines = <<>> THEN Default.colour ELSE lines[1]
             made == type = "gradient" /\ (lines = <<>> \/ lines[1] \notin T!Gradients)
             new == IF made THEN <<(<<"gradient", first>>)>> ELSE lines
  <2>1. ui.tokens \in TTokens /\ lines \in Seq(T!Line)
    BY <1>1, <1>j DEF T!SwitchType, T!Editing, TTokens, TBg
  <2>2. made => first \in Colours \cup Urls
    BY <2>1, TDefault DEF T!Line
  <2>3. made => <<"gradient", first>> \in T!Line
    <3> HIDE DEF first, made
    <3> QED BY <2>2 DEF T!Line, T!Gradients
  <2>4. new \in Seq(T!Line)
    <3> HIDE DEF first, made, lines
    <3> QED BY <2>1, <2>3
  <2>5. T!Background(type, new) \in TBg
    <3> HIDE DEF new
    <3> QED BY <2>4 DEF T!Background, TBg
  <2>6. T!SetTokens([ui.tokens EXCEPT !.bg = T!Background(type, new)])
    BY <1>j DEF T!SwitchType
  <2> HIDE DEF new
  <2> QED BY <1>j, <2>1, <2>5, <2>6, TBackground, TSets DEF T!SwitchType, T!Touch
<1>k. ASSUME NEW l \in T!Lines, T!TypeLines(l) PROVE TInv'
  <2>1. ui.tokens \in TTokens /\ ui.tokens.bg \in TBg
    BY <1>1, <1>k DEF T!TypeLines, T!Editing, TTokens
  <2>2. l \in Seq(T!Line)
    <3>1. l = <<>> \/ \E y \in T!Line : l = <<y>>
      BY DEF T!Lines
    <3>2. ASSUME NEW y \in T!Line PROVE <<y>> \in Seq(T!Line)
      OBVIOUS
    <3>3. <<>> \in Seq(T!Line)
      OBVIOUS
    <3> QED BY <3>1, <3>2, <3>3, Zenon
  <2>3. [ui.tokens.bg EXCEPT !.lines = l] \in TBg
    BY <2>1, <2>2 DEF TBg
  <2>4. T!SetTokens([ui.tokens EXCEPT !.bg = [ui.tokens.bg EXCEPT !.lines = l]])
    BY <1>k, <2>1 DEF T!TypeLines
  <2> QED BY <1>k, <2>1, <2>3, <2>4, TBackground, TSets DEF T!TypeLines, T!Touch
<1>l. ASSUME NEW urls \in T!Uploads, T!Upload(urls) PROVE TInv'
  <2>1. PICK x \in Calls :
          /\ T!SendAs(x, "upload", urls[1])
          /\ ui' = [ui EXCEPT !.up = [base |-> ui.tokens, urls |-> urls, at |-> 1, by |-> x]]
    BY <1>l DEF T!Upload
  <2>2. ui.tokens \in TTokens /\ UNCHANGED db /\ urls \in Seq(Urls)
    <3>1. (\E u \in Urls : urls = <<u>>) \/ \E u, v \in Urls : urls = <<u, v>>
      BY DEF T!Uploads
    <3>2. ASSUME NEW u \in Urls, NEW v \in Urls PROVE <<u>> \in Seq(Urls) /\ <<u, v>> \in Seq(Urls)
      OBVIOUS
    <3> QED BY <1>1, <1>l, <3>1, <3>2 DEF T!Upload, T!Editing
  <2>3. [base |-> ui.tokens, urls |-> urls, at |-> 1, by |-> x] \in TUp
    BY <2>2 DEF TUp
  <2>4. TUi'
    BY <1>1, <2>1, <2>3 DEF TUi
  <2>5. TCall(T!Request("upload", urls[1]))
    BY DEF TCall, T!Request, IsRequest, Ats
  <2> QED BY <2>1, <2>2, <2>4, <2>5, TSends
<1>m. ASSUME NEW f \in T!Files, T!Import(f) PROVE TInv'
  <2>1. ui' = IF T!Valid(f) THEN [ui EXCEPT !.tokens = T!Validated(f), !.import = FALSE] ELSE ui
    BY <1>m DEF T!Import
  <2>2. TUi'
    BY <1>1, <2>1, TValidated DEF TUi
  <2> QED BY <1>m, <2>2, TEdits DEF T!Import
<1> QED BY <1>a, <1>b, <1>c, <1>d, <1>e, <1>f, <1>g, <1>h, <1>i, <1>j, <1>k, <1>l, <1>m DEF T!Admin

LEMMA TAnswerInv ==
  ASSUME TInv, NEW x \in Calls,
         \/ T!Fails(x) \/ T!Listed(x) \/ T!Deleted(x) \/ T!Loaded(x)
         \/ T!Uploaded(x) \/ T!UploadFails(x) \/ T!Saved(x) \/ T!SaveFails(x)
  PROVE  TInv'
<1>1. /\ TUi /\ (ui.tokens # None => ui.tokens \in TTokens) /\ (ui.up # None => ui.up \in TUp)
      /\ ui.id \in Two \cup {None} /\ ui.import \in BOOLEAN /\ (call[x] # NoCall => TCall(call[x]))
  BY DEF TInv, TUi
<1>2. T!Closed = [page |-> "list", list |-> None, id |-> None, tokens |-> None,
                  busy |-> None, import |-> FALSE, up |-> None]
  BY DEF T!Closed
<1>3. TCall(T!Request("list", None))
  BY DEF TCall, T!Request, IsRequest, Ats
<1>a. CASE T!Fails(x)
  <2>1. TUi' /\ T!Done(x)
    BY <1>1, <1>a DEF T!Fails, TUi
  <2> QED BY <2>1, TReads
<1>b. CASE T!Listed(x)
  <2>1. T!Done(x) /\ ui' \in {ui, [ui EXCEPT !.list = call[x].data]} /\ call[x].data \in TDb
    BY <1>1, <1>b DEF T!Listed, T!Answered, TCall
  <2>2. TUi'
    BY <1>1, <2>1 DEF TUi
  <2> QED BY <2>1, <2>2, TReads
<1>c. CASE T!Deleted(x)
  <2>1. TUi' /\ T!DoneThen(x, "list", None)
    BY <1>1, <1>c DEF T!Deleted, TUi
  <2> QED BY <1>3, <2>1, TReads
<1>d. CASE T!Loaded(x)
  <2>1. T!Done(x) /\ call[x] # NoCall /\ call[x].data \in TTheme
    BY <1>1, <1>d DEF T!Loaded, T!Answered, TCall
  <2>2. T!Merged(call[x].data.tokens) \in TTokens
    BY <2>1, TMerged DEF TTheme
  <2>3. ui' \in {ui, [ui EXCEPT !.tokens = T!Merged(call[x].data.tokens)]}
    BY <1>d DEF T!Loaded
  <2>4. TUi'
    BY <1>1, <2>2, <2>3 DEF TUi
  <2> QED BY <2>1, <2>4, TReads
<1>e. CASE T!Uploaded(x)
  <2>1. CASE ui.up = None \/ ui.up.by # x
    <3>1. T!Done(x) /\ TUi'
      BY <1>1, <1>e, <2>1 DEF T!Uploaded, TUi
    <3> QED BY <3>1, TReads
  <2>2. CASE ui.up # None /\ ui.up.by = x /\ ui.up.at < Len(ui.up.urls)
    <3>1. T!DoneThen(x, "upload", ui.up.urls[ui.up.at + 1])
          /\ ui' = [ui EXCEPT !.up = [ui.up EXCEPT !.at = ui.up.at + 1]]
      BY <1>e, <2>2 DEF T!Uploaded
    <3>2. [ui.up EXCEPT !.at = ui.up.at + 1] \in TUp
      BY <1>1, <2>2 DEF TUp
    <3>3. TUi'
      BY <1>1, <3>1, <3>2 DEF TUi
    <3>4. TCall(T!Request("upload", ui.up.urls[ui.up.at + 1]))
      BY DEF TCall, T!Request, IsRequest, Ats
    <3> QED BY <3>1, <3>3, <3>4, TReads
  <2>3. CASE ui.up # None /\ ui.up.by = x /\ ~(ui.up.at < Len(ui.up.urls))
    <3> DEFINE lines == ui.up.base.bg.lines \o ui.up.urls
               b == T!Background("image", lines)
               t == [ui.up.base EXCEPT !.bg = b]
    <3>1. T!Done(x) /\ ui' = [ui EXCEPT !.up = None, !.tokens = t]
      BY <1>1, <1>e, <2>3 DEF T!Uploaded, TUp, TTokens
    <3>2. ui.up.base \in TTokens /\ ui.up.base.bg.lines \in Seq(T!Line) /\ ui.up.urls \in Seq(Urls)
      BY <1>1, <2>3 DEF TUp, TTokens, TBg
    <3>3. Seq(Urls) \subseteq Seq(T!Line)
      BY DEF T!Line
    <3>4. lines \in Seq(T!Line)
      BY <3>2, <3>3
    <3>5. b \in TBg
      <4> HIDE DEF lines
      <4> QED BY <3>4 DEF T!Background, TBg, T!Types
    <3>6. t \in TTokens
      <4> HIDE DEF b
      <4> QED BY <3>2, <3>5, TBackground
    <3>7. TUi'
      <4> HIDE DEF t
      <4> QED BY <1>1, <3>1, <3>6 DEF TUi
    <3> QED BY <3>1, <3>7, TReads
  <2> QED BY <2>1, <2>2, <2>3
<1>f. CASE T!UploadFails(x)
  <2>1. T!Done(x) /\ TUi'
    BY <1>1, <1>f DEF T!UploadFails, TUi
  <2> QED BY <2>1, TReads
<1>g. CASE T!Saved(x)
  <2>1. T!DoneThen(x, "list", None) /\ TUi'
    BY <1>2, <1>g DEF T!Saved, TUi
  <2> QED BY <1>3, <2>1, TReads
<1>h. CASE T!SaveFails(x)
  <2>1. T!Done(x) /\ TUi'
    BY <1>1, <1>h DEF T!SaveFails, TUi
  <2> QED BY <2>1, TReads
<1> QED BY <1>a, <1>b, <1>c, <1>d, <1>e, <1>f, <1>g, <1>h

LEMMA TLoseInv == ASSUME TInv, NEW x \in Calls, T!Lose(x) PROVE TInv'
<1>1. call[x] # NoCall /\ TCall(call[x])
  BY DEF TInv, T!Lose
<1>2. DOMAIN call = Calls /\ IsRequest(call[x]) /\ LogType(MaxEdits) /\ Lose(x)
  BY <1>1 DEF TInv, TCall, T!Lose, Lose
<1>3. /\ db' = db /\ ui' = ui /\ DOMAIN call' = Calls /\ IsRequest(call'[x])
      /\ call'[x].kind = call[x].kind /\ call'[x].arg = call[x].arg /\ call'[x].at = "lost"
      /\ \A y \in Calls : y # x => call'[y] = call[y]
      /\ LogType(MaxEdits)'
  BY <1>2, Loses
<1>4. TCall(call[x])'
  BY <1>1, <1>3 DEF TCall, Ats
<1> QED BY <1>3, <1>4 DEF TInv, TUi

LEMMA TInductive == TInv /\ [T!Next]_vars => TInv'
<1> SUFFICES ASSUME TInv, [T!Next]_vars PROVE TInv'
  OBVIOUS
<1>1. CASE UNCHANGED vars
  BY <1>1 DEF vars, TInv, TUi, TCall, LogType
<1>2. CASE T!Next
  BY <1>2, TServeInv, TAdminInv, TLoseInv, TAnswerInv DEF T!Next
<1> QED BY <1>1, <1>2

LEMMA TComplete == ASSUME NEW t \in TTokens PROVE T!Complete(t)
<1>1. t.bg \in TBg
  BY DEF TTokens
<1>2. t.bg # Absent
  BY <1>1, ThemesAssumption DEF TBg
<1> QED BY <1>1, <1>2 DEF T!Complete, TTokens, TBg

\* What is stored is valid unless a field is blank; validation adds the font.
LEMMA TExports ==
  ASSUME NEW t \in TTokens \cup TStored, ~T!HasBlank(t)
  PROVE  /\ T!Valid(t) /\ T!Complete(T!Validated(t))
         /\ \A k \in DOMAIN t : t[k] # Absent => T!Validated(t)[k] = t[k]
<1>1. t \in TStored /\ t.accent # Blank /\ t.bg.lines # <<>>
  BY DEF TTokens, TStored, T!HasBlank
<1>2. t.bg \in TBg /\ t.accent \in Colours /\ t.heading \in Fonts \cup {Absent}
  BY <1>1 DEF TStored
<1>3. t.bg # Absent /\ t.accent # Absent
  BY <1>2, ThemesAssumption DEF TBg
<1>4. T!Valid(t)
  BY <1>1, <1>2, <1>3 DEF T!Valid, TBg
<1>5. DOMAIN t = {"bg", "accent", "heading"} /\ t = [bg |-> t.bg, accent |-> t.accent, heading |-> t.heading]
  BY <1>1 DEF TStored
<1> DEFINE font == IF t.heading = Absent THEN T!DefaultTheme.heading ELSE t.heading
<1>6. T!Validated(t) = [bg |-> t.bg, accent |-> t.accent, heading |-> font]
  BY <1>1 DEF T!Validated, TStored
<1>7. font \in Fonts /\ (t.heading # Absent => font = t.heading)
  BY <1>2, TDefault
<1> HIDE DEF font
<1>8. T!Validated(t) \in TTokens
  BY <1>2, <1>6, <1>7 DEF TTokens
<1>9. \A k \in DOMAIN t : t[k] # Absent => T!Validated(t)[k] = t[k]
  BY <1>5, <1>6, <1>7
<1> QED BY <1>4, <1>8, <1>9, TComplete

LEMMA TTyped == TInv => T!TypeOK /\ T!ExportReimports
<1> SUFFICES ASSUME TInv PROVE T!TypeOK /\ T!ExportReimports
  OBVIOUS
<1>1. T!CallsTypeOK
  BY DEF T!CallsTypeOK, TInv, TCall, Ats, LogType
<1>2. T!TypeOK
  BY <1>1, TComplete DEF T!TypeOK, TInv, TUi, TUp, TDb, TTheme
<1>3. ASSUME NEW t \in T!Exported PROVE t \in TTokens \cup TStored
  <2>1. CASE ui.page = "edit"
    BY <1>3, <2>1 DEF T!Exported, TInv, TUi
  <2>2. CASE ui.page # "edit"
    <3>1. ui.list # None
      BY <1>3, <2>2 DEF T!Exported
    <3>2. PICK i \in Two : ui.list[i] # None /\ t = ui.list[i].tokens
      BY <1>3, <2>2, <3>1 DEF T!Exported
    <3>3. ui.list[i] \in TTheme
      BY <3>1, <3>2 DEF TInv, TUi, TDb
    <3> QED BY <3>2, <3>3 DEF TTheme
  <2> QED BY <2>1, <2>2
<1>4. ASSUME NEW x \in T!Open, call[x].kind = "save" PROVE T!Complete(call[x].arg.tokens)
  <2>1. call[x].arg \in TSave
    BY <1>4 DEF T!Open, T!Idle, TInv, TCall
  <2> QED BY <2>1, TComplete DEF TSave
<1> QED BY <1>2, <1>3, <1>4, TExports DEF T!ExportReimports

\* What the editor holds, saves, or keeps for an upload has every token; what is
\* stored lacks at most the font that was added later (tokens are merged over the
\* default ones, ThemeEditorPage.tsx).
THEOREM ThemesCorrect == Spec => [](page = "themes" => TInv)
<1>1. Init => (page = "themes" => TInv)
  BY TInitInv DEF Init
<1>2. (page = "themes" => TInv) /\ [Next]_all => (page = "themes" => TInv)'
  BY TInductive DEF Next, all
<1> QED BY <1>1, <1>2, PTL DEF Spec

\* A theme without a blank field that the list or the editor exports can be
\* imported again, complete and unchanged in what it had, and what is stored is
\* complete (ThemesPage.tsx, ThemeEditorPage.tsx and validateThemeTokens).
THEOREM Reimports == Spec => []ExportReimports
<1>1. (page = "themes" => TInv) => ExportReimports
  BY TTyped DEF ExportReimports
<1> QED BY <1>1, ThemesCorrect, PTL

---------------------------------------------------------------------------
(* Clients.                                                                *)

CTable == [Two -> C!Client \cup {None}]
CMessages == Messages \cup {None}
CPanel == [mode : {"approve", "edit"}, id : Two, client : C!Client, busy : Calls \cup {None}]
COffline == [of : {1}, text : Messages, custom : BOOLEAN, loaded : BOOLEAN, touched : BOOLEAN,
             busy : Calls \cup {None}]
CUpdate == [id : Two, row : C!Client, from : {"edit", "row"}]

CFormed(c) ==
  /\ IsRequest(c) /\ c.at \in Ats
  /\ c.kind \in {"clients", "approve", "update", "delete", "offline", "setOffline"}
  /\ c.kind = "clients" => c.arg \in {None, "edit", "row"} /\ c.data \in CTable \cup {None}
                           /\ (c.at = "ok" => c.data \in CTable)
  /\ c.kind = "approve" => c.arg \in [id : Two, display : {1}] /\ c.data = None
  /\ c.kind = "update" => c.arg \in CUpdate /\ c.data = None
  /\ c.kind = "delete" => c.arg \in [id : Two] /\ c.data = None
  /\ c.kind = "setOffline" => c.arg \in [of : {1}, text : CMessages]
CCall(c) ==
  /\ CFormed(c)
  /\ c.kind = "offline" => c.arg = 1 /\ (c.at = "ok" => c.data = db.offline[1])
  /\ c.kind = "setOffline" => c.at # "refused"
  /\ c.at \in {"refused", "lost"} => log.torn

CUi ==
  /\ ui = [clients |-> ui.clients, panel |-> ui.panel, offline |-> ui.offline]
  /\ ui.clients \in CTable \cup {None} /\ ui.panel \in CPanel \cup {None}
  /\ ui.offline \in COffline \cup {None}
CDb == /\ db = [clients |-> db.clients, offline |-> db.offline]
       /\ db.clients \in CTable /\ db.offline \in [{1} -> CMessages]
CCalls == DOMAIN call = Calls /\ \A x \in Calls : call[x] # NoCall => CCall(call[x])

CType == CUi /\ CDb /\ CCalls /\ LogType(MaxEdits - 1)

\* The editor of an offline screen has at most one request, for what is stored
\* and then to store what is typed.
COff(x) == call[x] # NoCall /\ call[x].kind \in {"offline", "setOffline"}
CEditor ==
  /\ \A x, y \in Calls : COff(x) /\ COff(y) => x = y
  /\ \A x \in Calls : COff(x) =>
       /\ ui.offline # None
       /\ call[x].kind = "offline" => ~ui.offline.loaded /\ ui.offline.busy = None
       /\ call[x].kind = "setOffline" => ui.offline.loaded /\ ui.offline.busy = x
  /\ ui.offline # None /\ ~ui.offline.loaded => ui.offline.text = C!DefaultMessage
CShown ==
  ui.offline # None /\ ui.offline.loaded /\ ~ui.offline.touched /\ ui.offline.busy = None
  /\ ~log.torn => LET html == db.offline[1] IN
    /\ ui.offline.custom <=> html # None
    /\ html \notin Unreadable => ui.offline.text = IF html = None THEN C!DefaultMessage ELSE html

\* What is listed is as it is stored, unless a change is on its way back.
CMatch(rows) == \A c \in Two : rows[c] # None => db.clients[c] = rows[c]
CStill(x) == \/ call[x] = NoCall
             \/ call[x].kind \in {"offline", "setOffline"}
             \/ call[x].kind \in {"approve", "update", "delete"} /\ call[x].at = "sent"
CIs(c) == db.clients[c] # None /\ db.clients[c].status = "approved"
CListed ==
  /\ (\A x \in Calls : CStill(x)) /\ ui.clients # None => CMatch(ui.clients)
  /\ \A x \in Calls : call[x] # NoCall /\ call[x].kind = "clients" /\ call[x].at = "ok" =>
       CMatch(call[x].data)

\* A row that is sent as approved is of a client that is.
CRows ==
  /\ \A x \in Calls : call[x] # NoCall /\ call[x].kind = "update" /\ call[x].at = "sent"
                      /\ call[x].arg.row.status = "approved" => CIs(call[x].arg.id)
  /\ ui.panel # None /\ ui.panel.mode = "edit" =>
       /\ CIs(ui.panel.id)
       /\ \A x \in Calls : call[x] # NoCall =>
            \/ call[x].kind = "clients"
            \/ call[x].kind = "update" /\ call[x].arg.row.status = "approved"
CEdited ==
  /\ ui.panel # None /\ ui.panel.mode = "edit" => ui.panel.client.status = "approved"
  /\ ui.panel = None \/ ui.offline = None

CInv == CType /\ CEditor /\ CShown /\ CEdited /\ (~log.twin => Alone) /\ (Safe => CListed /\ CRows)

\* A request that changes or loads the list is one.
LEMMA CReal ==
  ASSUME NEW c, CFormed(c), c.kind \in {"clients", "approve", "update", "delete"}
  PROVE  c # NoCall
<1>1. c.kind = "clients" => c \in Requested({"clients"}, {None, "edit", "row"}, CTable \cup {None})
  BY DEF CFormed, IsRequest, Requested, Ats
<1>2. c.kind # "clients" => c \in Requested(
       {"approve", "update", "delete"}, [id : Two, display : {1}] \cup CUpdate \cup [id : Two], {None})
  BY DEF CFormed, IsRequest, Requested, Ats
<1> QED BY <1>1, <1>2, ClientsAssumption DEF CTable, CUpdate

LEMMA CActs ==
  ASSUME LogType(MaxEdits - 1), C!Act
  PROVE  LogType(MaxEdits - 1)' /\ log'.torn = log.torn /\ log'.twin = log.twin
BY BoundsAssumption, Acts DEF C!Act

LEMMA CSending ==
  ASSUME LogType(MaxEdits - 1), C!Sending
  PROVE  /\ LogType(MaxEdits - 1)' /\ log'.torn = log.torn
         /\ ~log'.twin => ~log.twin /\ \A y \in Calls : call[y] = NoCall
BY BoundsAssumption, Sends DEF C!Sending, C!Open, C!Idle, Open, Idle

LEMMA CSends ==
  ASSUME CType, NEW x \in Calls, NEW kind, NEW arg, C!SendAs(x, kind, arg), db' = db,
         CCall(C!Request(kind, arg))
  PROVE  /\ LogType(MaxEdits - 1)' /\ log'.torn = log.torn /\ CDb' /\ CCalls'
         /\ call[x] = NoCall /\ call'[x] = C!Request(kind, arg)
         /\ call'[x].kind = kind /\ call'[x].arg = arg /\ call'[x].at = "sent"
         /\ \A y \in Calls : y # x => call'[y] = call[y]
         /\ ~log'.twin => ~log.twin /\ Alone' /\ \A y \in Calls : call[y] = NoCall
<1>1. /\ LogType(MaxEdits - 1)' /\ log'.torn = log.torn
      /\ ~log'.twin => ~log.twin /\ \A y \in Calls : call[y] = NoCall
  BY CSending DEF C!SendAs, CType
<1>2. DOMAIN call = Calls /\ call' = [call EXCEPT ![x] = C!Request(kind, arg)] /\ call[x] = NoCall
  BY DEF C!SendAs, C!Idle, CType, CCalls
<1>3. CDb' /\ CCalls'
  BY <1>1, <1>2 DEF CType, CDb, CCalls, CCall, CFormed
<1> QED BY <1>1, <1>2, <1>3 DEF Alone, C!Request

\* What a handler does to the requests: x is read, and perhaps the list loaded.
LEMMA CReads ==
  ASSUME CType, NEW x \in Calls,
         C!Done(x) \/ \E arg \in {None, "edit", "row"} : C!DoneThen(x, "clients", arg)
  PROVE  /\ LogType(MaxEdits - 1)' /\ log' = log /\ db' = db /\ CDb' /\ CCalls'
         /\ \A y \in Calls : y # x => call'[y] = call[y]
         /\ \/ call'[x] = NoCall
            \/ call'[x] # NoCall /\ call'[x].kind = "clients" /\ call'[x].at = "sent"
<1>1. log' = log /\ db' = db /\ DOMAIN call = Calls
  BY DEF C!Done, C!DoneThen, CType, CCalls
<1>2. LogType(MaxEdits - 1)' /\ CDb'
  BY <1>1 DEF CType, LogType, CDb
<1>3. CASE C!Done(x)
  BY <1>1, <1>2, <1>3 DEF C!Done, CType, CCalls, CCall, CFormed
<1>4. ASSUME NEW arg \in {None, "edit", "row"}, C!DoneThen(x, "clients", arg)
      PROVE  /\ CCalls' /\ \A y \in Calls : y # x => call'[y] = call[y]
             /\ call'[x] # NoCall /\ call'[x].kind = "clients" /\ call'[x].at = "sent"
  <2>1. CCall(C!Request("clients", arg))
    BY <1>1 DEF CCall, CFormed, C!Request, IsRequest, Ats
  <2>2. call' = [call EXCEPT ![x] = C!Request("clients", arg)]
    BY <1>4 DEF C!DoneThen
  <2>3. C!Request("clients", arg).kind = "clients" /\ C!Request("clients", arg).at = "sent"
    BY DEF C!Request
  <2>4. C!Request("clients", arg) # NoCall
    BY <2>1, <2>3, CReal DEF CCall
  <2> QED BY <1>1, <2>1, <2>2, <2>3, <2>4 DEF CType, CCalls, CCall, CFormed
<1> QED BY <1>1, <1>2, <1>3, <1>4

LEMMA CEditorForm ==
  ASSUME NEW o \in COffline
  PROVE  /\ \A t \in Messages : LET n == [o EXCEPT !.text = t, !.touched = TRUE] IN
              n \in COffline /\ n.loaded = o.loaded /\ n.touched /\ n.busy = o.busy
         /\ \A x \in Calls \cup {None} : LET n == [o EXCEPT !.busy = x] IN
              n \in COffline /\ n.loaded = o.loaded /\ n.text = o.text /\ n.custom = o.custom
              /\ n.touched = o.touched /\ n.busy = x
<1>1. ASSUME NEW t \in Messages PROVE [o EXCEPT !.text = t, !.touched = TRUE] \in COffline
  BY Zenon DEF COffline
<1>2. ASSUME NEW x \in Calls \cup {None} PROVE [o EXCEPT !.busy = x] \in COffline
  BY Zenon DEF COffline
<1> QED BY <1>1, <1>2 DEF COffline

LEMMA CInitInv == ASSUME C!Init PROVE CInv
<1>1. PICK n \in {1}, s \in C!Statuses, html \in Messages \cup {None} :
       db = [clients |-> [i \in Two |->
               IF i # C!AClient THEN None
               ELSE [C!NewClient(n) EXCEPT !.status = s,
                                           !.display = IF s = "approved" THEN C!ADisplay ELSE None]],
             offline |-> [d \in {1} |-> IF d = C!ADisplay THEN html ELSE None]]
  BY DEF C!Init
<1>2. C!ADisplay \in {1}
  BY DEF C!ADisplay
<1>3. [C!NewClient(n) EXCEPT !.status = s, !.display = IF s = "approved" THEN C!ADisplay ELSE None]
        \in C!Client
  BY <1>2 DEF C!NewClient, C!Client, C!Statuses, C!Modes
<1>4. CDb
  BY <1>1, <1>3 DEF CDb, CTable, CMessages
<1>5. ui = [clients |-> None, panel |-> None, offline |-> None] /\ CUi
  BY DEF C!Init, CUi
<1>6. PICK x \in Calls : call = [C!NoCalls EXCEPT ![x] = C!Request("clients", None)]
  BY DEF C!Init, C!Mounted
<1>7. CCall(C!Request("clients", None)) /\ C!Request("clients", None).kind = "clients"
      /\ C!Request("clients", None).at = "sent"
  BY DEF CCall, CFormed, C!Request, IsRequest, Ats
<1>8. C!Request("clients", None) # NoCall
  BY <1>7, CReal DEF CCall
<1>9. /\ CCalls /\ Alone
      /\ \A y \in Calls : call[y] # NoCall => call[y].kind = "clients" /\ call[y].at = "sent"
  BY <1>6, <1>7 DEF CCalls, C!NoCalls, Alone
<1>10. LogType(MaxEdits - 1)
  BY BoundsAssumption DEF C!Init, C!Mounted, C!NewLog, LogType
<1>11. CEditor /\ CShown /\ CEdited
  BY <1>5, <1>9 DEF CEditor, COff, CShown, CEdited
<1>12. CListed /\ CRows
  BY <1>5, <1>9 DEF CListed, CRows
<1> QED BY <1>4, <1>5, <1>9, <1>10, <1>11, <1>12 DEF CInv, CType

LEMMA CSetClient ==
  ASSUME CDb, NEW c \in Two, NEW row \in C!Client \cup {None}
  PROVE  LET r == C!SetClient(c, row) IN
         /\ r.db = [clients |-> [db.clients EXCEPT ![c] = IF db.clients[c] = None THEN None ELSE row],
                    offline |-> db.offline]
         /\ r.ok = (db.clients[c] # None) /\ r.data = None
         /\ r.db.offline = db.offline /\ r.db.clients \in CTable
         /\ r.db.clients[c] = IF db.clients[c] = None THEN None ELSE row
         /\ \A d \in Two : d # c => r.db.clients[d] = db.clients[d]
<1> DEFINE new == [db.clients EXCEPT ![c] = IF db.clients[c] = None THEN None ELSE row]
<1>1. db = [clients |-> db.clients, offline |-> db.offline] /\ db.clients \in CTable
  BY DEF CDb
<1>2. C!SetClient(c, row) = C!Reply([db EXCEPT !.clients = new], None, db.clients[c] # None)
  BY <1>1 DEF C!SetClient
<1>3. [db EXCEPT !.clients = new] = [clients |-> new, offline |-> db.offline]
  BY <1>1
<1>4. new \in CTable /\ new[c] = (IF db.clients[c] = None THEN None ELSE row)
      /\ \A d \in Two : d # c => new[d] = db.clients[d]
  BY <1>1 DEF CTable
<1> HIDE DEF new
<1>5. C!SetClient(c, row).db = [clients |-> new, offline |-> db.offline]
      /\ C!SetClient(c, row).data = None /\ C!SetClient(c, row).ok = (db.clients[c] # None)
  BY <1>2, <1>3 DEF C!Reply
<1> QED BY <1>4, <1>5 DEF new

\* What the server does.
LEMMA CServed ==
  ASSUME CType, NEW x \in Calls, C!Serve(x)
  PROVE  LET r == C!Served(call[x])
             c == call[x] IN
         /\ c # NoCall /\ c.at = "sent" /\ CCall(c) /\ Replied(x, r)
         /\ r.db = [clients |-> r.db.clients, offline |-> r.db.offline]
         /\ r.db.clients \in CTable /\ r.db.offline \in [{1} -> CMessages]
         /\ c.kind \in {"clients", "offline", "setOffline"} => r.ok /\ r.db.clients = db.clients
         /\ c.kind # "setOffline" => r.db.offline = db.offline
         /\ c.kind \in {"approve", "update", "delete", "setOffline"} => r.data = None
         /\ c.kind = "clients" => r.data = db.clients
         /\ c.kind = "offline" => r.data = db.offline[1]
         /\ c.kind = "update" /\ r.ok =>
              db.clients[c.arg.id] # None /\ r.db.clients[c.arg.id] = c.arg.row
         /\ c.kind \in {"approve", "update", "delete"} =>
              \A d \in Two : d # c.arg.id => r.db.clients[d] = db.clients[d]
         /\ c.kind = "approve" => \A d \in Two : db.clients[d] # None => r.db.clients[d] # None
<1> DEFINE c == call[x]
           r == C!Served(c)
<1>1. c # NoCall /\ c.at = "sent" /\ CCall(c) /\ Replied(x, r) /\ CDb
  BY DEF C!Serve, C!Sent, C!Replied, Sent, Replied, CType, CCalls
<1>2. db = [clients |-> db.clients, offline |-> db.offline] /\ db.clients \in CTable
      /\ db.offline \in [{1} -> CMessages]
  BY <1>1 DEF CDb
<1>3. CASE c.kind = "clients"
  BY <1>1, <1>2, <1>3 DEF C!Served, C!Reply
<1>4. CASE c.kind = "offline"
  BY <1>1, <1>2, <1>4 DEF C!Served, C!Reply, CCall, CFormed
<1>5. CASE c.kind = "setOffline"
  <2> DEFINE new == [db.offline EXCEPT ![1] = c.arg.text]
  <2>1. c.arg.of = 1 /\ c.arg.text \in CMessages
    BY <1>1, <1>5 DEF CCall, CFormed
  <2>2. r = C!Reply([db EXCEPT !.offline = new], None, TRUE)
    BY <1>2, <1>5, <2>1 DEF C!Served
  <2>3. [db EXCEPT !.offline = new] = [clients |-> db.clients, offline |-> new]
    BY <1>2
  <2>4. new \in [{1} -> CMessages]
    BY <1>2, <2>1
  <2> HIDE DEF new
  <2>5. r.db = [clients |-> db.clients, offline |-> new] /\ r.data = None /\ r.ok
    BY <2>2, <2>3 DEF C!Reply
  <2>6. r.db.clients = db.clients /\ r.db.offline = new
    BY <2>5
  <2> QED BY <1>1, <1>2, <1>5, <2>4, <2>5, <2>6
<1>6. CASE c.kind = "approve"
  <2>1. c.arg.id \in Two /\ c.arg.display = 1
    BY <1>1, <1>6 DEF CCall, CFormed
  <2>2. r = C!Approved(c.arg.id, c.arg.display)
    BY <1>6 DEF C!Served
  <2>3. CASE db.clients[c.arg.id] = None
    <3>1. r.db = db /\ ~r.ok /\ r.data = None
      BY <2>2, <2>3 DEF C!Approved, C!Refuse, C!Reply
    <3> QED BY <1>1, <1>2, <1>6, <3>1
  <2>4. CASE db.clients[c.arg.id] # None
    <3> DEFINE row == [db.clients[c.arg.id] EXCEPT !.status = "approved", !.display = c.arg.display]
    <3>1. row \in C!Client
      BY <1>2, <2>1, <2>4 DEF CTable, C!Client, C!Statuses
    <3>2. r = C!SetClient(c.arg.id, row)
      BY <2>2, <2>4 DEF C!Approved
    <3>3. row # None
      BY <3>1, ClientsAssumption
    <3> HIDE DEF row
    <3>4. /\ r.db = [clients |-> [db.clients EXCEPT ![c.arg.id] =
                                   IF db.clients[c.arg.id] = None THEN None ELSE row],
                     offline |-> db.offline]
          /\ r.data = None /\ r.db.offline = db.offline /\ r.db.clients \in CTable
          /\ r.db.clients[c.arg.id] = IF db.clients[c.arg.id] = None THEN None ELSE row
          /\ \A d \in Two : d # c.arg.id => r.db.clients[d] = db.clients[d]
      BY <1>1, <2>1, <3>1, <3>2, CSetClient
    <3> QED BY <1>1, <1>2, <1>6, <3>3, <3>4
  <2> QED BY <2>3, <2>4
<1>7. CASE c.kind = "update"
  <2>1. c.arg.id \in Two /\ c.arg.row \in C!Client
    BY <1>1, <1>7 DEF CCall, CFormed, CUpdate
  <2>2. r = C!SetClient(c.arg.id, c.arg.row)
    BY <1>7 DEF C!Served
  <2>3. /\ r.db = [clients |-> [db.clients EXCEPT ![c.arg.id] =
                                 IF db.clients[c.arg.id] = None THEN None ELSE c.arg.row],
                   offline |-> db.offline]
        /\ r.ok = (db.clients[c.arg.id] # None)
        /\ r.data = None /\ r.db.offline = db.offline /\ r.db.clients \in CTable
        /\ r.db.clients[c.arg.id] = IF db.clients[c.arg.id] = None THEN None ELSE c.arg.row
        /\ \A d \in Two : d # c.arg.id => r.db.clients[d] = db.clients[d]
    BY <1>1, <2>1, <2>2, CSetClient
  <2> QED BY <1>1, <1>2, <1>7, <2>3
<1>8. CASE c.kind = "delete"
  <2>1. c.arg.id \in Two
    BY <1>1, <1>8 DEF CCall, CFormed
  <2>2. r = C!SetClient(c.arg.id, None)
    BY <1>8 DEF C!Served
  <2>3. /\ r.db = [clients |-> [db.clients EXCEPT ![c.arg.id] =
                                 IF db.clients[c.arg.id] = None THEN None ELSE None],
                   offline |-> db.offline]
        /\ r.data = None /\ r.db.offline = db.offline /\ r.db.clients \in CTable
        /\ \A d \in Two : d # c.arg.id => r.db.clients[d] = db.clients[d]
    BY <1>1, <2>1, <2>2, CSetClient
  <2> QED BY <1>1, <1>2, <1>8, <2>3
<1> QED BY <1>1, <1>3, <1>4, <1>5, <1>6, <1>7, <1>8 DEF CCall, CFormed

LEMMA CServeInv == ASSUME CInv, NEW x \in Calls, C!Serve(x) PROVE CInv'
<1> DEFINE c == call[x]
           r == C!Served(c)
<1>1. CType /\ DOMAIN call = Calls /\ LogType(MaxEdits - 1)
  BY DEF CInv, CType, CCalls
<1>2. /\ c # NoCall /\ c.at = "sent" /\ CCall(c) /\ Replied(x, r)
      /\ r.db = [clients |-> r.db.clients, offline |-> r.db.offline]
      /\ r.db.clients \in CTable /\ r.db.offline \in [{1} -> CMessages]
      /\ c.kind \in {"clients", "offline", "setOffline"} => r.ok /\ r.db.clients = db.clients
      /\ c.kind # "setOffline" => r.db.offline = db.offline
      /\ c.kind \in {"approve", "update", "delete", "setOffline"} => r.data = None
      /\ c.kind = "clients" => r.data = db.clients
      /\ c.kind = "offline" => r.data = db.offline[1]
      /\ c.kind = "update" /\ r.ok => r.db.clients[c.arg.id] = c.arg.row
      /\ c.kind = "update" => \A d \in Two : d # c.arg.id => r.db.clients[d] = db.clients[d]
  BY <1>1, CServed
<1> HIDE DEF r
<1>3. IsRequest(c)
  BY <1>2 DEF CCall, CFormed
<1>4. /\ db' = r.db /\ ui' = ui /\ DOMAIN call' = Calls /\ IsRequest(call'[x])
      /\ call'[x].kind = call[x].kind /\ call'[x].arg = call[x].arg /\ call'[x].data = r.data
      /\ call'[x].at = IF r.ok THEN "ok" ELSE "refused"
      /\ \A y \in Calls : y # x => call'[y] = call[y]
      /\ LogType(MaxEdits - 1)' /\ log'.twin = log.twin
      /\ ~log'.torn => ~log.torn /\ r.ok
  BY <1>1, <1>2, <1>3, Replies
<1>5. CEditor /\ CShown /\ CEdited
  BY DEF CInv
<1>6. \A y \in Calls : c.kind = "setOffline" /\ y # x /\ call[y] # NoCall => call[y].kind # "offline"
  BY <1>2, <1>5 DEF CEditor, COff
<1>7. CCall(call[x])'
  BY <1>2, <1>4 DEF CCall, CFormed, Ats
<1>8. ASSUME NEW y \in Calls, y # x, call[y] # NoCall PROVE CCall(call[y])'
  <2>1. CCall(call[y]) /\ call'[y] = call[y]
    BY <1>1, <1>4, <1>8 DEF CType, CCalls
  <2>2. call[y].kind = "offline" => db'.offline = db.offline
    BY <1>2, <1>4, <1>6, <1>8
  <2>3. log.torn => log'.torn
    BY <1>4
  <2> QED BY <2>1, <2>2, <2>3 DEF CCall, CFormed
<1>9. CType'
  BY <1>1, <1>2, <1>4, <1>7, <1>8 DEF CType, CUi, CDb, CCalls
<1>10. CEditor'
  BY <1>2, <1>4, <1>5 DEF CEditor, COff
<1>11. c.kind = "setOffline" => ui.offline.busy # None
  BY <1>2, <1>5, NoneAssumption DEF CEditor, COff
<1>12. CShown'
  BY <1>2, <1>4, <1>5, <1>11 DEF CShown
<1>13. CEdited'
  BY <1>4, <1>5 DEF CEdited
<1>14. ~log'.twin => Alone'
  BY <1>2, <1>4 DEF CInv, Alone
<1>15. ASSUME Safe' PROVE CListed' /\ CRows'
  <2>1. r.ok /\ CListed /\ CRows /\ \A y \in Calls : y # x => call[y] = NoCall
    BY <1>2, <1>4, <1>15 DEF Safe, CInv, Alone
  <2>2. c.kind \in {"clients", "approve", "update", "delete"} => call'[x] # NoCall
    <3>1. ASSUME c.kind \in {"clients", "approve", "update", "delete"} PROVE CFormed(call'[x])
      BY <1>2, <1>4, <3>1 DEF CCall, CFormed, Ats
    <3> QED BY <1>4, <3>1, CReal DEF CCall
  <2>3. CStill(x)' => CStill(x) /\ db'.clients = db.clients
    BY <1>2, <1>4, <2>1, <2>2 DEF CStill, CCall, CFormed
  <2>4. \A y \in Calls : CStill(y)' => CStill(y)
    BY <2>1, <2>3 DEF CStill
  <2>5. CListed'
    BY <1>2, <1>4, <2>1, <2>3, <2>4 DEF CListed, CMatch
  <2>6. ASSUME NEW d \in Two, CIs(d), c.kind = "clients" \/ (c.kind = "update" /\ c.arg.row.status = "approved")
        PROVE  CIs(d)'
    BY <1>2, <1>4, <2>1, <2>6, ClientsAssumption DEF CIs, CCall, CFormed, CUpdate
  <2>7. ui.panel # None => ui.panel.id \in Two
    BY <1>1 DEF CType, CUi, CPanel
  <2>8. CRows'
    BY <1>2, <1>4, <2>1, <2>6, <2>7 DEF CRows
  <2> QED BY <2>5, <2>8
<1> QED BY <1>4, <1>9, <1>10, <1>12, <1>13, <1>14, <1>15 DEF CInv

LEMMA CLoseInv == ASSUME CInv, NEW x \in Calls, C!Lose(x) PROVE CInv'
<1>1. CType /\ DOMAIN call = Calls /\ LogType(MaxEdits - 1) /\ call[x] # NoCall /\ CCall(call[x])
      /\ Lose(x) /\ CEditor /\ CEdited
  BY DEF CInv, CType, CCalls, C!Lose, Lose
<1>2. /\ db' = db /\ ui' = ui /\ DOMAIN call' = Calls /\ IsRequest(call'[x])
      /\ call'[x].kind = call[x].kind /\ call'[x].arg = call[x].arg /\ call'[x].at = "lost"
      /\ \A y \in Calls : y # x => call'[y] = call[y]
      /\ LogType(MaxEdits - 1)' /\ log'.twin = log.twin /\ log'.torn
  BY <1>1, Loses DEF CCall, CFormed
<1>3. call'[x].data = None
  BY <1>1 DEF C!Lose
<1>4. CCall(call[x])'
  BY <1>1, <1>2, <1>3 DEF CCall, CFormed, Ats
<1>5. ASSUME NEW y \in Calls, y # x, call[y] # NoCall PROVE CCall(call[y])'
  <2>1. CCall(call[y]) /\ call'[y] = call[y]
    BY <1>1, <1>2, <1>5 DEF CType, CCalls
  <2> QED BY <2>1, <1>2 DEF CCall, CFormed
<1>6. CType'
  BY <1>1, <1>2, <1>4, <1>5 DEF CType, CUi, CDb, CCalls
<1>7. CEditor' /\ CShown' /\ CEdited'
  BY <1>1, <1>2 DEF CEditor, COff, CShown, CEdited
<1>8. ~log'.twin => Alone'
  BY <1>1, <1>2 DEF CInv, Alone
<1> QED BY <1>2, <1>6, <1>7, <1>8 DEF CInv, Safe

LEMMA CRegisterInv == ASSUME CInv, NEW c \in Two, C!Register(c, 1) PROVE CInv'
<1>1. db.clients[c] = None /\ db' = [db EXCEPT !.clients = [db.clients EXCEPT ![c] = C!NewClient(1)]]
      /\ UNCHANGED <<ui, call, log>>
  BY DEF C!Register
<1>2. CType /\ CEditor /\ CShown /\ CEdited
  BY DEF CInv
<1>3. C!NewClient(1) \in C!Client
  BY DEF C!NewClient, C!Client, C!Statuses, C!Modes
<1>4. CDb' /\ db'.offline = db.offline /\ \A d \in Two : d # c => db'.clients[d] = db.clients[d]
  BY <1>1, <1>2, <1>3 DEF CType, CDb, CTable
<1>5. CType'
  BY <1>1, <1>2, <1>4 DEF CType, CUi, CCalls, CCall, CFormed, LogType
<1>6. CEditor' /\ CShown' /\ CEdited'
  BY <1>1, <1>2, <1>4 DEF CEditor, COff, CShown, CEdited
<1>7. ASSUME Safe' PROVE CListed' /\ CRows'
  <2>1. Safe /\ CListed /\ CRows
    BY <1>1, <1>7 DEF Safe, CInv
  <2>2. ASSUME NEW rows, CMatch(rows) PROVE CMatch(rows)'
    BY <1>1, <1>4, <2>2 DEF CMatch
  <2>3. CListed'
    BY <1>1, <2>1, <2>2 DEF CListed, CStill
  <2>4. ASSUME NEW d \in Two, CIs(d) PROVE CIs(d)'
    BY <1>1, <1>4, <2>4 DEF CIs
  <2>5. (ui.panel # None => ui.panel.id \in Two)
        /\ \A y \in Calls : call[y] # NoCall /\ call[y].kind = "update" => call[y].arg.id \in Two
    BY <1>2 DEF CType, CUi, CPanel, CCalls, CCall, CFormed, CUpdate
  <2>6. CRows'
    BY <1>1, <2>1, <2>4, <2>5 DEF CRows
  <2> QED BY <2>3, <2>6
<1>8. ~log'.twin => Alone'
  BY <1>1 DEF CInv, Alone
<1> QED BY <1>5, <1>6, <1>7, <1>8 DEF CInv

\* A request that is sent while nothing else is under way.
LEMMA CSendsSafe ==
  ASSUME CInv, NEW x \in Calls, NEW kind, NEW arg, C!SendAs(x, kind, arg), db' = db,
         CCall(C!Request(kind, arg)), ui'.clients = ui.clients, Safe',
         kind = "update" /\ arg.row.status = "approved" => CIs(arg.id),
         kind # "clients",
         ui'.panel # None /\ ui'.panel.mode = "edit" =>
           ui.panel # None /\ ui.panel.mode = "edit" /\ ui'.panel.id = ui.panel.id
           /\ kind = "update" /\ arg.row.status = "approved"
  PROVE  CListed' /\ CRows'
<1>1. /\ log'.torn = log.torn /\ call'[x].kind = kind /\ call'[x].arg = arg /\ call'[x].at = "sent"
      /\ \A y \in Calls : y # x => call'[y] = call[y]
      /\ ~log'.twin => ~log.twin /\ \A y \in Calls : call[y] = NoCall
  BY CSends DEF CInv
<1>2. CListed /\ CRows /\ \A y \in Calls : call[y] = NoCall
  BY <1>1 DEF CInv, Safe
<1>3. CListed'
  BY <1>1, <1>2 DEF CListed, CStill, CMatch
<1>4. CRows'
  BY <1>1, <1>2 DEF CRows, CIs
<1> QED BY <1>3, <1>4

\* The list stays as it is, and no form but the one that may be open.
LEMMA CKeepsSafe ==
  ASSUME CInv, Safe', log'.torn = log.torn, log'.twin = log.twin, db' = db,
         ui'.clients = ui.clients, call' = call,
         ui'.panel # None /\ ui'.panel.mode = "edit" =>
           ui.panel # None /\ ui.panel.mode = "edit" /\ ui'.panel.id = ui.panel.id
  PROVE  CListed' /\ CRows'
<1>1. CListed /\ CRows
  BY DEF CInv, Safe
<1>2. CListed'
  BY <1>1 DEF CListed, CStill, CMatch
<1>3. CRows'
  BY <1>1 DEF CRows, CIs
<1> QED BY <1>2, <1>3

LEMMA CAdminInv == ASSUME CInv, C!Admin PROVE CInv'
<1>1. /\ CType /\ CEditor /\ CShown /\ CEdited /\ (~log.twin => Alone)
      /\ CUi /\ CDb /\ CCalls /\ LogType(MaxEdits - 1)
      /\ ui.clients \in CTable \cup {None} /\ (ui.panel # None => ui.panel \in CPanel)
      /\ (ui.offline # None => ui.offline \in COffline) /\ DOMAIN call = Calls
  BY DEF CInv, CType, CUi, CCalls
<1>2. ui = [clients |-> ui.clients, panel |-> ui.panel, offline |-> ui.offline]
  BY <1>1 DEF CUi
<1>3. ASSUME UNCHANGED <<db, call>>, log'.torn = log.torn, LogType(MaxEdits - 1)' PROVE CDb' /\ CCalls'
  BY <1>1, <1>3 DEF CDb, CCalls, CCall, CFormed
<1>4. ASSUME UNCHANGED ui.offline, log'.torn = log.torn, db'.offline = db.offline,
             \A y \in Calls : COff(y)' => COff(y) /\ call'[y] = call[y]
      PROVE  CEditor' /\ CShown'
  BY <1>1, <1>4 DEF CEditor, CShown, COff
<1>a. ASSUME NEW c \in Two, C!OpenApprove(c) PROVE CInv'
  <2> DEFINE p == [mode |-> "approve", id |-> c, client |-> ui.clients[c], busy |-> None]
  <2>1. C!Act /\ ui' = [ui EXCEPT !.panel = p] /\ UNCHANGED <<db, call>>
        /\ ui.clients # None /\ ui.clients[c] # None /\ ui.offline = None
    BY <1>a DEF C!OpenApprove, C!Lists, C!Free
  <2>2. p \in CPanel
    BY <1>1, <2>1 DEF CPanel, CTable
  <2>3. LogType(MaxEdits - 1)' /\ log'.torn = log.torn /\ log'.twin = log.twin
    BY <1>1, <2>1, CActs
  <2>4. ui'.panel = p /\ ui'.clients = ui.clients /\ ui'.offline = ui.offline /\ CUi' /\ p.mode = "approve"
    BY <1>1, <1>2, <2>1, <2>2 DEF CUi
  <2> HIDE DEF p
  <2>5. CEditor' /\ CShown' /\ CEdited'
    BY <1>4, <2>1, <2>3, <2>4 DEF COff, CEdited
  <2>6. Safe' => CListed' /\ CRows'
    BY <2>1, <2>3, <2>4, CKeepsSafe
  <2> QED BY <1>1, <1>3, <2>1, <2>3, <2>4, <2>5, <2>6 DEF CInv, CType, Alone
<1>b. ASSUME NEW c \in Two, C!OpenEdit(c) PROVE CInv'
  <2> DEFINE p == [mode |-> "edit", id |-> c, client |-> ui.clients[c], busy |-> None]
  <2>1. C!Sending /\ ui' = [ui EXCEPT !.panel = p] /\ UNCHANGED <<db, call>>
        /\ ui.clients # None /\ ui.clients[c] # None /\ ui.clients[c].status = "approved"
        /\ ui.offline = None
    BY <1>b DEF C!OpenEdit, C!Lists, C!Free
  <2>2. p \in CPanel
    BY <1>1, <2>1 DEF CPanel, CTable
  <2>3. LogType(MaxEdits - 1)' /\ log'.torn = log.torn
        /\ (~log'.twin => ~log.twin /\ \A y \in Calls : call[y] = NoCall)
    BY <1>1, <2>1, CSending
  <2>4. ui'.panel = p /\ ui'.clients = ui.clients /\ ui'.offline = ui.offline /\ CUi'
        /\ p.id = c /\ p.client.status = "approved"
    BY <1>1, <1>2, <2>1, <2>2 DEF CUi
  <2> HIDE DEF p
  <2>5. CEditor' /\ CShown' /\ CEdited'
    BY <1>4, <2>1, <2>3, <2>4 DEF COff, CEdited
  <2>6. ASSUME Safe' PROVE CListed' /\ CRows'
    <3>1. CListed /\ CRows /\ \A y \in Calls : call[y] = NoCall
      BY <2>3, <2>6 DEF CInv, Safe
    <3>2. CIs(c)
      BY <2>1, <3>1 DEF CListed, CStill, CMatch, CIs
    <3>3. CListed'
      BY <2>1, <2>4, <3>1 DEF CListed, CMatch, CStill
    <3> QED BY <2>1, <2>4, <3>1, <3>2, <3>3 DEF CRows, CIs
  <2> QED BY <1>1, <1>3, <2>1, <2>3, <2>4, <2>5, <2>6 DEF CInv, CType, Alone
<1>c. CASE C!Cancel
  <2>1. C!Act /\ ui' = [ui EXCEPT !.panel = None] /\ UNCHANGED <<db, call>>
    BY <1>c DEF C!Cancel
  <2>2. LogType(MaxEdits - 1)' /\ log'.torn = log.torn /\ log'.twin = log.twin
    BY <1>1, <2>1, CActs
  <2>3. ui'.panel = None /\ ui'.clients = ui.clients /\ ui'.offline = ui.offline /\ CUi'
    BY <1>1, <1>2, <2>1 DEF CUi
  <2>4. CEditor' /\ CShown' /\ CEdited'
    BY <1>4, <2>1, <2>2, <2>3 DEF COff, CEdited
  <2>5. Safe' => CListed' /\ CRows'
    BY <2>1, <2>2, <2>3, CKeepsSafe
  <2> QED BY <1>1, <1>3, <2>1, <2>2, <2>3, <2>4, <2>5 DEF CInv, CType, Alone
\* What is sent for a row, or from a form that stays open while it is busy.
<1>5. ASSUME NEW x \in Calls, NEW kind \in {"approve", "update", "delete"}, NEW arg,
             C!SendAs(x, kind, arg), db' = db, CCall(C!Request(kind, arg)),
             ui'.clients = ui.clients, ui'.offline = ui.offline, CUi', CEdited',
             kind = "update" /\ arg.row.status = "approved" /\ Safe' => CIs(arg.id),
             ui'.panel # None /\ ui'.panel.mode = "edit" =>
               ui.panel # None /\ ui.panel.mode = "edit" /\ ui'.panel.id = ui.panel.id
               /\ kind = "update" /\ arg.row.status = "approved"
      PROVE  CInv'
  <2>1. /\ LogType(MaxEdits - 1)' /\ log'.torn = log.torn /\ CDb' /\ CCalls'
        /\ call'[x].kind = kind /\ \A y \in Calls : y # x => call'[y] = call[y]
        /\ ~log'.twin => Alone'
    BY <1>1, <1>5, CSends
  <2>2. CEditor' /\ CShown'
    BY <1>4, <1>5, <2>1 DEF COff
  <2>3. Safe' => CListed' /\ CRows'
    BY <1>5, CSendsSafe
  <2> QED BY <1>5, <2>1, <2>2, <2>3 DEF CInv, CType
<1>d. ASSUME NEW c \in Two, C!Reject(c) \/ C!Revoke(c) PROVE CInv'
  <2>1. ui.clients # None /\ ui.clients[c] # None /\ ui.panel = None /\ UNCHANGED <<ui, db>>
    BY <1>d DEF C!Reject, C!Revoke, C!Lists, C!Free
  <2>2. ui.clients[c] \in C!Client
    BY <1>1, <2>1 DEF CTable
  <2>3. ASSUME NEW row \in C!Client, row.status # "approved", NEW x \in Calls, C!Update(x, c, row, "row")
        PROVE  CInv'
    <3> DEFINE arg == [id |-> c, row |-> row, from |-> "row"]
    <3>1. C!SendAs(x, "update", arg) /\ arg.row.status # "approved"
      BY <2>3 DEF C!Update
    <3>2. CCall(C!Request("update", arg))
      BY DEF CCall, CFormed, C!Request, IsRequest, Ats, CUpdate
    <3>3. CUi' /\ CEdited'
      BY <1>1, <2>1 DEF CUi, CEdited
    <3> HIDE DEF arg
    <3> QED BY <1>5, <2>1, <3>1, <3>2, <3>3
  <2>4. /\ [ui.clients[c] EXCEPT !.status = "rejected"] \in C!Client
        /\ [ui.clients[c] EXCEPT !.status = "rejected"].status # "approved"
        /\ [ui.clients[c] EXCEPT !.status = "pending", !.display = None] \in C!Client
        /\ [ui.clients[c] EXCEPT !.status = "pending", !.display = None].status # "approved"
    BY <2>2 DEF C!Client, C!Statuses
  <2> QED BY <1>d, <2>3, <2>4 DEF C!Reject, C!Revoke
<1>e. ASSUME NEW c \in Two, C!Delete(c) PROVE CInv'
  <2>1. ui.panel = None /\ UNCHANGED <<ui, db>>
    BY <1>e DEF C!Delete, C!Lists, C!Free
  <2>2. PICK x \in Calls : C!SendAs(x, "delete", [id |-> c])
    BY <1>e DEF C!Delete, C!Send
  <2>3. CCall(C!Request("delete", [id |-> c]))
    BY DEF CCall, CFormed, C!Request, IsRequest, Ats
  <2>4. CUi' /\ CEdited'
    BY <1>1, <2>1 DEF CUi, CEdited
  <2> QED BY <1>5, <2>1, <2>2, <2>3, <2>4
<1>f. ASSUME NEW d \in {1}, C!SubmitApprove(d) PROVE CInv'
  <2> DEFINE arg == [id |-> ui.panel.id, display |-> d]
  <2>1. ui.panel # None /\ ui.panel.mode = "approve" /\ db' = db
    BY <1>f DEF C!SubmitApprove
  <2>2. PICK x \in Calls : C!SendAs(x, "approve", arg) /\ ui' = [ui EXCEPT !.panel = [ui.panel EXCEPT !.busy = x]]
    BY <1>f DEF C!SubmitApprove
  <2>3. CCall(C!Request("approve", arg))
    BY <1>1, <2>1 DEF CCall, CFormed, C!Request, IsRequest, Ats, CPanel
  <2>4. [ui.panel EXCEPT !.busy = x] \in CPanel /\ [ui.panel EXCEPT !.busy = x].mode = "approve"
    BY <1>1, <2>1 DEF CPanel
  <2>5. ui'.panel = [ui.panel EXCEPT !.busy = x] /\ ui'.clients = ui.clients /\ ui'.offline = ui.offline /\ CUi'
    BY <1>1, <1>2, <2>2, <2>4 DEF CUi
  <2>6. CEdited'
    BY <1>1, <2>1, <2>4, <2>5 DEF CEdited
  <2> HIDE DEF arg
  <2> QED BY <1>5, <2>1, <2>2, <2>3, <2>4, <2>5, <2>6
<1>g. ASSUME NEW n \in {1}, NEW d \in {1} \cup {None}, NEW m \in C!Modes, C!SubmitEdit(n, d, m) PROVE CInv'
  <2> DEFINE row == [ui.panel.client EXCEPT !.name = n, !.display = d, !.mode = m]
             arg == [id |-> ui.panel.id, row |-> row, from |-> "edit"]
  <2>1. ui.panel # None /\ ui.panel.mode = "edit" /\ db' = db
    BY <1>g DEF C!SubmitEdit
  <2>2. PICK x \in Calls : C!SendAs(x, "update", arg) /\ ui' = [ui EXCEPT !.panel = [ui.panel EXCEPT !.busy = x]]
    BY <1>g DEF C!SubmitEdit, C!Update
  <2>3. row \in C!Client /\ row.status = "approved"
    BY <1>1, <2>1 DEF CPanel, C!Client, CEdited
  <2>4. arg \in CUpdate /\ arg.row.status = "approved" /\ arg.id = ui.panel.id
    <3> HIDE DEF row
    <3> QED BY <1>1, <2>1, <2>3 DEF CUpdate, CPanel
  <2> HIDE DEF arg
  <2>5. CCall(C!Request("update", arg))
    BY <2>4 DEF CCall, CFormed, C!Request, IsRequest, Ats
  <2>6. [ui.panel EXCEPT !.busy = x] \in CPanel /\ [ui.panel EXCEPT !.busy = x].id = ui.panel.id
        /\ [ui.panel EXCEPT !.busy = x].client = ui.panel.client
    BY <1>1, <2>1 DEF CPanel
  <2>7. ui'.panel = [ui.panel EXCEPT !.busy = x] /\ ui'.clients = ui.clients /\ ui'.offline = ui.offline /\ CUi'
    BY <1>1, <1>2, <2>2, <2>6 DEF CUi
  <2>8. CEdited'
    BY <1>1, <2>1, <2>6, <2>7 DEF CEdited
  <2>9. Safe' => CIs(arg.id)
    <3>1. log'.torn = log.torn /\ (~log'.twin => ~log.twin)
      BY <1>1, <2>2, CSending DEF C!SendAs
    <3> QED BY <2>1, <2>4, <3>1 DEF CInv, CRows, Safe
  <2> QED BY <1>5, <2>1, <2>2, <2>4, <2>5, <2>6, <2>7, <2>8, <2>9
<1>h. ASSUME NEW d \in {1}, C!OpenOffline(d) PROVE CInv'
  <2> DEFINE o == [of |-> d, text |-> C!DefaultMessage, custom |-> FALSE, loaded |-> FALSE,
                   touched |-> FALSE, busy |-> None]
  <2>1. ui.panel = None /\ ui.offline = None /\ db' = db
    BY <1>h DEF C!OpenOffline, C!Free
  <2>2. PICK x \in Calls : C!SendAs(x, "offline", 1) /\ ui' = [ui EXCEPT !.offline = o]
    BY <1>h DEF C!OpenOffline, C!Send
  <2>3. o \in COffline /\ ~o.loaded /\ o.text = C!DefaultMessage /\ o.busy = None
    BY ClientsAssumption DEF COffline, C!DefaultMessage
  <2> HIDE DEF o
  <2>4. o # None
    BY <2>3, ClientsAssumption DEF COffline
  <2>5. ui'.offline = o /\ ui'.panel = ui.panel /\ ui'.clients = ui.clients /\ CUi'
    BY <1>1, <1>2, <2>2, <2>3 DEF CUi
  <2>6. CCall(C!Request("offline", 1))
    BY DEF CCall, CFormed, C!Request, IsRequest, Ats
  <2>7. /\ LogType(MaxEdits - 1)' /\ log'.torn = log.torn /\ CDb' /\ CCalls'
        /\ call'[x].kind = "offline" /\ \A y \in Calls : y # x => call'[y] = call[y]
        /\ ~log'.twin => Alone'
    BY <1>1, <2>1, <2>2, <2>6, CSends
  <2>8. \A y \in Calls : ~COff(y)
    BY <1>1, <2>1 DEF CEditor
  <2>9. CEditor' /\ CShown' /\ CEdited'
    BY <1>1, <2>1, <2>3, <2>4, <2>5, <2>7, <2>8 DEF CEditor, COff, CShown, CEdited
  <2>10. Safe' => CListed' /\ CRows'
    BY <2>1, <2>2, <2>5, <2>6, CSendsSafe
  <2> QED BY <2>5, <2>7, <2>9, <2>10 DEF CInv, CType
<1>i. ASSUME NEW m \in Messages, C!EditOffline(m) PROVE CInv'
  <2> DEFINE o == [ui.offline EXCEPT !.text = m, !.touched = TRUE]
  <2>1. C!Act /\ ui' = [ui EXCEPT !.offline = o] /\ UNCHANGED <<db, call>>
        /\ ui.offline # None /\ ui.offline \in COffline /\ ui.offline.loaded
    BY <1>1, <1>2, <1>i DEF C!EditOffline, COffline
  <2>2. o \in COffline /\ o.loaded = ui.offline.loaded /\ o.touched /\ o.busy = ui.offline.busy
    BY <2>1, CEditorForm
  <2> HIDE DEF o
  <2>3. o # None
    BY <2>2, ClientsAssumption DEF COffline
  <2>4. LogType(MaxEdits - 1)' /\ log'.torn = log.torn /\ log'.twin = log.twin
    BY <1>1, <2>1, CActs
  <2>5. ui'.offline = o /\ ui'.panel = ui.panel /\ ui'.clients = ui.clients /\ CUi'
    BY <1>1, <1>2, <2>1, <2>2 DEF CUi
  <2>6. CEditor' /\ CShown' /\ CEdited'
    BY <1>1, <2>1, <2>2, <2>3, <2>5 DEF CEditor, COff, CShown, CEdited
  <2>7. Safe' => CListed' /\ CRows'
    BY <2>1, <2>4, <2>5, CKeepsSafe
  <2> QED BY <1>1, <1>3, <2>1, <2>4, <2>5, <2>6, <2>7 DEF CInv, CType, Alone
<1>j. ASSUME NEW text \in CMessages, C!SetOffline(text) PROVE CInv'
  <2> DEFINE arg == [of |-> ui.offline.of, text |-> text]
  <2>1. ui.offline # None /\ ui.offline \in COffline /\ ui.offline.loaded /\ ui.offline.busy = None /\ db' = db
    BY <1>1, <1>j DEF C!SetOffline, C!Editing
  <2>2. PICK x \in Calls : C!SendAs(x, "setOffline", arg) /\ ui' = [ui EXCEPT !.offline = [ui.offline EXCEPT !.busy = x]]
    BY <1>j DEF C!SetOffline
  <2> DEFINE o == [ui.offline EXCEPT !.busy = x]
  <2>3. o \in COffline /\ o.loaded = ui.offline.loaded /\ o.busy = x
    <3>1. x \in Calls \cup {None}
      OBVIOUS
    <3> HIDE DEF o
    <3> QED BY <2>1, <3>1, CEditorForm DEF o
  <2>4. CCall(C!Request("setOffline", arg))
    BY <2>1 DEF CCall, CFormed, C!Request, IsRequest, Ats, COffline
  <2>5. ui' = [ui EXCEPT !.offline = o]
    BY <2>2
  <2> HIDE DEF o, arg
  <2>6. o # None
    BY <2>3, ClientsAssumption DEF COffline
  <2>7. ui'.offline = o /\ ui'.panel = ui.panel /\ ui'.clients = ui.clients /\ CUi'
    BY <1>1, <1>2, <2>5, <2>3 DEF CUi
  <2>8. /\ LogType(MaxEdits - 1)' /\ log'.torn = log.torn /\ CDb' /\ CCalls'
        /\ call'[x].kind = "setOffline" /\ \A y \in Calls : y # x => call'[y] = call[y]
        /\ ~log'.twin => Alone' /\ \A y \in Calls : call[y] = NoCall
    BY <1>1, <2>1, <2>2, <2>4, CSends
  <2>9. \A y \in Calls : ~COff(y)
    BY <1>1, <2>1, NoneAssumption DEF CEditor, COff
  <2>a. \A y \in Calls : COff(y)' => y = x
    BY <2>8, <2>9 DEF COff
  <2>b. ui.offline.busy # x /\ x # None
    BY <2>1, NoneAssumption
  <2>10. CEditor' /\ CShown' /\ CEdited'
    BY <1>1, <2>1, <2>3, <2>6, <2>7, <2>8, <2>a, <2>b DEF CEditor, CShown, CEdited
  <2>11. ui.panel = None
    BY <1>1, <2>1 DEF CEdited
  <2>12. Safe' => CListed' /\ CRows'
    BY <2>1, <2>2, <2>4, <2>7, <2>11, CSendsSafe
  <2> QED BY <2>7, <2>8, <2>10, <2>12 DEF CInv, CType
<1> QED BY <1>a, <1>b, <1>c, <1>d, <1>e, <1>f, <1>g, <1>h, <1>i, <1>j DEF C!Admin, CMessages

\* After an answer is read, and unless the list is loaded now, what was still
\* going on is.
LEMMA CReadsSafe ==
  ASSUME CInv, NEW x \in Calls, CListed', Safe',
         C!Done(x) \/ \E arg \in {None, "edit", "row"} : C!DoneThen(x, "clients", arg),
         ui'.panel = ui.panel \/ ui'.panel = None
  PROVE  CListed' /\ CRows'
<1>1. /\ db' = db /\ log' = log /\ \A y \in Calls : y # x => call'[y] = call[y]
      /\ \/ call'[x] = NoCall
         \/ call'[x] # NoCall /\ call'[x].kind = "clients" /\ call'[x].at = "sent"
  BY CReads DEF CInv
<1>2. CRows
  BY <1>1 DEF CInv, Safe
<1> QED BY <1>1, <1>2 DEF CRows, CIs

LEMMA CAnswerInv ==
  ASSUME CInv, NEW x \in Calls,
         \/ C!Fails(x) \/ C!ClientsLoaded(x) \/ C!ApproveDone(x) \/ C!Reload(x)
         \/ C!OfflineLoaded(x) \/ C!OfflineSet(x)
  PROVE  CInv'
<1>1. /\ CType /\ CEditor /\ CShown /\ CEdited /\ (~log.twin => Alone)
      /\ CUi /\ CDb /\ CCalls /\ LogType(MaxEdits - 1)
      /\ ui.clients \in CTable \cup {None} /\ (ui.panel # None => ui.panel \in CPanel)
      /\ (ui.offline # None => ui.offline \in COffline) /\ DOMAIN call = Calls
      /\ (call[x] # NoCall => CCall(call[x]))
  BY DEF CInv, CType, CUi, CCalls
<1>2. ui = [clients |-> ui.clients, panel |-> ui.panel, offline |-> ui.offline]
  BY <1>1 DEF CUi
<1>3. ASSUME C!Done(x) \/ \E arg \in {None, "edit", "row"} : C!DoneThen(x, "clients", arg)
      PROVE  /\ LogType(MaxEdits - 1)' /\ log' = log /\ db' = db /\ CDb' /\ CCalls'
             /\ \A y \in Calls : y # x => call'[y] = call[y]
             /\ \A y \in Calls : COff(y)' => COff(y) /\ y # x
             /\ ~log'.twin => Alone'
             /\ ~log'.twin => \A y \in Calls : y # x => call'[y] = NoCall
  <2>1. /\ LogType(MaxEdits - 1)' /\ log' = log /\ db' = db /\ CDb' /\ CCalls'
        /\ \A y \in Calls : y # x => call'[y] = call[y]
        /\ \/ call'[x] = NoCall
           \/ call'[x] # NoCall /\ call'[x].kind = "clients" /\ call'[x].at = "sent"
    BY <1>1, <1>3, CReads
  <2>2. (\A y \in Calls : COff(y)' => COff(y) /\ y # x)
    BY <2>1 DEF COff
  <2>3. call[x] # NoCall
    BY DEF C!Fails, C!Failed, C!ClientsLoaded, C!ApproveDone, C!Reload, C!OfflineLoaded, C!OfflineSet, C!Answered
  <2>4. ~log'.twin => Alone' /\ \A y \in Calls : y # x => call'[y] = NoCall
    BY <1>1, <2>1, <2>3 DEF Alone
  <2> QED BY <2>1, <2>2, <2>4
<1>4. ASSUME UNCHANGED ui.offline, log' = log, db' = db,
             \A y \in Calls : COff(y)' => COff(y) /\ y # x, \A y \in Calls : y # x => call'[y] = call[y]
      PROVE  CEditor' /\ CShown'
  BY <1>1, <1>4 DEF CEditor, CShown, COff
<1>a. CASE C!Fails(x)
  <2> DEFINE p == IF ui.panel # None /\ ui.panel.busy = x THEN [ui.panel EXCEPT !.busy = None] ELSE ui.panel
             o == IF ui.offline # None /\ ui.offline.busy = x THEN [ui.offline EXCEPT !.busy = None] ELSE ui.offline
  <2>1. C!Done(x) /\ ui' = [ui EXCEPT !.panel = p, !.offline = o]
    BY <1>a DEF C!Fails
  <2>2. log.torn
    BY <1>1, <1>a DEF C!Fails, C!Failed, C!Answered, CCall, CFormed
  <2>3. p \in CPanel \cup {None} /\ (p # None => ui.panel # None /\ p.mode = ui.panel.mode
                                       /\ p.id = ui.panel.id /\ p.client = ui.panel.client)
    BY <1>1 DEF CPanel
  <2>4. o \in COffline \cup {None} /\ (ui.offline = None => o = None)
        /\ (ui.offline # None => /\ o # None /\ o.loaded = ui.offline.loaded /\ o.text = ui.offline.text
                                 /\ o.busy = IF ui.offline.busy = x THEN None ELSE ui.offline.busy)
    <3>1. CASE ui.offline # None /\ ui.offline.busy = x
      <4> DEFINE n == [ui.offline EXCEPT !.busy = None]
      <4>1. n \in COffline /\ n.loaded = ui.offline.loaded /\ n.text = ui.offline.text /\ n.busy = None
        <5>1. ui.offline \in COffline /\ None \in Calls \cup {None}
          BY <1>1, <3>1
        <5> HIDE DEF n
        <5> QED BY <5>1, CEditorForm DEF n
      <4>2. n # None
        <5> HIDE DEF n
        <5> QED BY <4>1, ClientsAssumption DEF COffline
      <4> QED BY <3>1, <4>1, <4>2
    <3>2. CASE ~(ui.offline # None /\ ui.offline.busy = x)
      BY <1>1, <3>2
    <3> QED BY <3>1, <3>2
  <2> HIDE DEF p, o
  <2>5. ui'.clients = ui.clients /\ ui'.panel = p /\ ui'.offline = o /\ CUi'
    BY <1>1, <1>2, <2>1, <2>3, <2>4 DEF CUi
  <2>6. CEdited'
    BY <1>1, <2>3, <2>4, <2>5 DEF CEdited
  <2>7. log' = log /\ \A y \in Calls : COff(y)' => COff(y) /\ y # x /\ call'[y] = call[y]
    BY <1>3, <2>1
  <2>8. CEditor'
    <3>1. \A y, z \in Calls : COff(y)' /\ COff(z)' => y = z
      BY <1>1, <2>7 DEF CEditor
    <3>2. ASSUME NEW y \in Calls, COff(y)'
          PROVE  /\ ui'.offline # None
                 /\ call'[y].kind = "offline" => ~ui'.offline.loaded /\ ui'.offline.busy = None
                 /\ call'[y].kind = "setOffline" => ui'.offline.loaded /\ ui'.offline.busy = y
      BY <1>1, <2>4, <2>5, <2>7, <3>2 DEF CEditor
    <3>3. ui'.offline # None /\ ~ui'.offline.loaded => ui'.offline.text = C!DefaultMessage
      BY <1>1, <2>4, <2>5 DEF CEditor
    <3> QED BY <3>1, <3>2, <3>3 DEF CEditor, COff
  <2>9. CShown'
    BY <2>2, <2>7 DEF CShown
  <2> QED BY <1>3, <2>1, <2>2, <2>5, <2>6, <2>7, <2>8, <2>9 DEF CInv, CType, Safe
<1>b. CASE C!ClientsLoaded(x)
  <2> DEFINE p == IF call[x].arg = "edit" /\ ui.panel # None /\ ui.panel.mode = "edit" THEN None ELSE ui.panel
  <2>1. C!Done(x) /\ ui' = [ui EXCEPT !.clients = call[x].data, !.panel = p]
    BY <1>b DEF C!ClientsLoaded
  <2>2. call[x] # NoCall /\ call[x].kind = "clients" /\ call[x].at = "ok" /\ call[x].data \in CTable
    BY <1>1, <1>b DEF C!ClientsLoaded, C!Answered, CCall, CFormed
  <2>3. p \in {ui.panel, None}
    OBVIOUS
  <2> HIDE DEF p
  <2>4. ui'.clients = call[x].data /\ ui'.panel = p /\ ui'.offline = ui.offline /\ CUi'
    BY <1>1, <1>2, <2>1, <2>2, <2>3 DEF CUi
  <2>5. CEditor' /\ CShown'
    BY <1>3, <1>4, <2>1, <2>4
  <2>6. CEdited'
    BY <1>1, <2>3, <2>4 DEF CEdited
  <2>7. Safe' => CListed'
    BY <1>3, <2>1, <2>2, <2>4 DEF CInv, CListed, CMatch, CStill, Safe, C!Done
  <2>8. Safe' => CListed' /\ CRows'
    BY <2>1, <2>3, <2>4, <2>7, CReadsSafe
  <2> QED BY <1>3, <2>1, <2>4, <2>5, <2>6, <2>8 DEF CInv, CType
\* The list is to be loaded.
<1>5. ASSUME NEW arg \in {None, "edit", "row"}, C!DoneThen(x, "clients", arg), CUi',
             ui'.clients = ui.clients, ui'.offline = ui.offline, ui'.panel = ui.panel \/ ui'.panel = None
      PROVE  CInv'
  <2>1. CEditor' /\ CShown'
    BY <1>3, <1>4, <1>5
  <2>2. CEdited'
    BY <1>1, <1>5 DEF CEdited
  <2>3. CCall(C!Request("clients", arg)) /\ C!Request("clients", arg).kind = "clients"
        /\ C!Request("clients", arg).at = "sent"
    BY DEF CCall, CFormed, C!Request, IsRequest, Ats
  <2>4. call'[x] = C!Request("clients", arg) /\ call'[x] # NoCall
    BY <1>1, <1>5, <2>3, CReal DEF C!DoneThen, CCall
  <2>5. Safe' => CListed'
    BY <1>3, <1>5, <2>3, <2>4 DEF CListed, CStill, Safe
  <2>6. Safe' => CListed' /\ CRows'
    BY <1>5, <2>5, CReadsSafe
  <2> QED BY <1>3, <1>5, <2>1, <2>2, <2>6 DEF CInv, CType
<1>c. CASE C!ApproveDone(x)
  <2>1. C!DoneThen(x, "clients", None)
        /\ ui' = [ui EXCEPT !.panel = IF ui.panel # None /\ ui.panel.mode = "approve" THEN None ELSE ui.panel]
    BY <1>c DEF C!ApproveDone
  <2>2. ui'.clients = ui.clients /\ ui'.offline = ui.offline /\ (ui'.panel = ui.panel \/ ui'.panel = None) /\ CUi'
    BY <1>1, <1>2, <2>1 DEF CUi
  <2> QED BY <1>5, <2>1, <2>2
<1>d. CASE C!Reload(x)
  <2>1. ui' = ui /\ \E arg \in {None, "edit", "row"} : C!DoneThen(x, "clients", arg)
    BY <1>1, <1>d DEF C!Reload, C!Answered, CCall, CFormed, CUpdate
  <2>2. CUi'
    BY <1>1, <2>1 DEF CUi
  <2> QED BY <1>5, <2>1, <2>2
\* A request of the editor of an offline screen does not concern the list.
<1>6. ASSUME C!Done(x), COff(x), ui'.clients = ui.clients, ui'.panel = ui.panel, Safe'
      PROVE  CListed' /\ CRows'
  <2>1. CListed /\ log' = log /\ db' = db
    BY <1>3, <1>6 DEF CInv, Safe
  <2>2. \A y \in Calls : CStill(y)' => CStill(y)
    BY <1>3, <1>6 DEF COff, CStill
  <2>3. \A y \in Calls : call'[y] # NoCall => call'[y] = call[y]
    BY <1>1, <1>6 DEF C!Done
  <2>4. CListed'
    BY <1>6, <2>1, <2>2, <2>3 DEF CListed, CMatch
  <2> QED BY <1>6, <2>4, CReadsSafe
<1>e. CASE C!OfflineLoaded(x)
  <2> DEFINE html == call[x].data
             t == IF html \in {None} \cup Unreadable THEN ui.offline.text ELSE html
             b == html # None
             o == [ui.offline EXCEPT !.loaded = TRUE, !.custom = b, !.text = t]
  <2>1. C!Done(x) /\ COff(x) /\ html = db.offline[1] /\ call[x].kind = "offline"
    BY <1>1, <1>e DEF C!OfflineLoaded, C!Answered, CCall, CFormed, COff
  <2>2. ui.offline # None /\ ~ui.offline.loaded /\ ui.offline.text = C!DefaultMessage /\ ui.offline \in COffline
        /\ ui.offline.busy = None
    BY <1>1, <2>1 DEF CEditor
  <2>3. t \in Messages /\ b \in BOOLEAN
    BY <1>1, <2>1, <2>2 DEF CDb, CMessages, COffline
  <2>4. ui' = [ui EXCEPT !.offline = o]
    BY <1>e, <2>2 DEF C!OfflineLoaded, COffline
  <2>5. o \in COffline /\ o.loaded /\ o.custom = b /\ o.text = t /\ o.busy = ui.offline.busy
    <3> HIDE DEF t, b
    <3>1. [ui.offline EXCEPT !.loaded = TRUE, !.custom = b, !.text = t] \in COffline
      BY <2>2, <2>3, Zenon DEF COffline
    <3> QED BY <2>2, <2>3, <3>1 DEF COffline
  <2> HIDE DEF o
  <2>6. o # None
    BY <2>5, ClientsAssumption DEF COffline
  <2>7. ui'.clients = ui.clients /\ ui'.panel = ui.panel /\ ui'.offline = o /\ CUi'
    BY <1>1, <1>2, <2>4, <2>5 DEF CUi
  <2>8. CEdited'
    BY <1>1, <2>2, <2>7 DEF CEdited
  <2>9. log' = log /\ db' = db /\ \A y \in Calls : ~COff(y)'
    BY <1>1, <1>3, <2>1 DEF CEditor
  <2>10. CEditor'
    BY <2>5, <2>7, <2>9 DEF CEditor
  <2>11. CShown'
    BY <2>1, <2>2, <2>5, <2>7, <2>9 DEF CShown
  <2>12. Safe' => CListed' /\ CRows'
    BY <1>6, <2>1, <2>7
  <2> QED BY <1>3, <2>1, <2>7, <2>8, <2>10, <2>11, <2>12 DEF CInv, CType
<1>f. CASE C!OfflineSet(x)
  <2>1. C!Done(x) /\ COff(x) /\ ui' = [ui EXCEPT !.offline = None]
    BY <1>f DEF C!OfflineSet, C!Answered, COff
  <2>2. ui'.clients = ui.clients /\ ui'.panel = ui.panel /\ ui'.offline = None /\ CUi'
    BY <1>1, <1>2, <2>1 DEF CUi
  <2>3. \A y \in Calls : ~COff(y)'
    BY <1>1, <1>3, <2>1 DEF CEditor
  <2>4. CEditor' /\ CShown' /\ CEdited'
    BY <1>1, <2>2, <2>3 DEF CEditor, CShown, CEdited
  <2>5. Safe' => CListed' /\ CRows'
    BY <1>6, <2>1, <2>2
  <2> QED BY <1>3, <2>1, <2>2, <2>4, <2>5 DEF CInv, CType
<1> QED BY <1>a, <1>b, <1>c, <1>d, <1>e, <1>f

LEMMA CInductive == CInv /\ [C!Next]_vars => CInv'
<1> SUFFICES ASSUME CInv, [C!Next]_vars PROVE CInv'
  OBVIOUS
<1>1. CASE UNCHANGED vars
  BY <1>1 DEF vars, CInv, CType, CUi, CDb, CCalls, CCall, CFormed, CEditor, COff, CShown, CEdited,
     CListed, CStill, CMatch, CRows, CIs, Alone, Safe, LogType
<1>2. CASE C!Next
  BY <1>2, CServeInv, CAdminInv, CLoseInv, CRegisterInv, CAnswerInv DEF C!Next
<1> QED BY <1>1, <1>2

LEMMA CTyped == CInv => C!TypeOK /\ C!EditorShowsStored
<1> SUFFICES ASSUME CInv PROVE C!TypeOK /\ C!EditorShowsStored
  OBVIOUS
<1>1. CType /\ CUi /\ CDb /\ CShown
  BY DEF CInv, CType
<1>2. C!CallsTypeOK
  BY <1>1 DEF C!CallsTypeOK, CType, CCalls, CCall, CFormed, Ats, LogType
<1>3. C!TypeOK
  <2>1. \A c \in Two : db.clients[c] \in C!Client \cup {None}
    BY <1>1 DEF CDb, CTable
  <2>2. \A d \in {1} : db.offline[d] \in Messages \cup {None}
    BY <1>1 DEF CDb, CMessages
  <2>3. ui.panel = None \/ ui.panel.client \in C!Client
    BY <1>1 DEF CUi, CPanel
  <2>4. ui.offline = None \/ ui.offline.text \in Messages
    BY <1>1 DEF CUi, COffline
  <2> QED BY <1>2, <2>1, <2>2, <2>3, <2>4 DEF C!TypeOK
<1>4. ui.offline # None => ui.offline.of = 1
  BY <1>1 DEF CUi, COffline
<1> QED BY <1>1, <1>3, <1>4 DEF C!EditorShowsStored, CShown

\* What the server is asked for changes one row, to what was sent.
LEMMA CApproves == CInv /\ [C!Next]_vars => C!OnlyApprovalApproves
<1> SUFFICES ASSUME CInv, [C!Next]_vars, Safe, NEW c \in Two, C!Approves(c)
             PROVE  C!ByApproval(c)
  BY DEF C!OnlyApprovalApproves, Safe
<1>1. CType /\ CRows /\ db # db' /\ db'.clients # db.clients
      /\ db.clients[c] # None /\ db'.clients[c].status = "approved" /\ ~CIs(c)
  BY DEF CInv, CType, C!Approves, CIs
<1>2. ASSUME UNCHANGED db PROVE FALSE
  BY <1>1, <1>2
<1>3. ASSUME NEW x \in Calls, C!Serve(x) PROVE C!ByApproval(c)
  <2> DEFINE q == call[x]
             r == C!Served(q)
  <2>1. /\ q # NoCall /\ q.at = "sent" /\ CCall(q) /\ Replied(x, r)
        /\ q.kind \in {"clients", "offline", "setOffline"} => r.ok /\ r.db.clients = db.clients
        /\ q.kind = "update" /\ r.ok => r.db.clients[q.arg.id] = q.arg.row
        /\ q.kind \in {"approve", "update", "delete"} =>
             \A d \in Two : d # q.arg.id => r.db.clients[d] = db.clients[d]
    BY <1>1, <1>3, CServed
  <2>2. db' = r.db
    BY <2>1 DEF Replied
  <2>3. q.kind \in {"approve", "update", "delete"} /\ q.arg.id = c
    BY <1>1, <2>1, <2>2 DEF CCall, CFormed, C!Approves
  <2>4. CASE q.kind = "approve"
    BY <2>1, <2>3, <2>4 DEF C!ByApproval, C!Sent
  <2>5. CASE q.kind = "update"
    <3>1. r = C!SetClient(c, q.arg.row)
      BY <2>3, <2>5 DEF C!Served
    <3>a. q.arg.row \in C!Client \cup {None} /\ CDb
      BY <1>1, <2>1, <2>5 DEF CCall, CFormed, CUpdate, CType
    <3>b. C!SetClient(c, q.arg.row).ok = (db.clients[c] # None)
      BY <3>a, CSetClient
    <3>2. r.ok
      BY <1>1, <3>1, <3>b
    <3>3. q.arg.row.status = "approved"
      BY <1>1, <2>1, <2>2, <2>3, <2>5, <3>2
    <3> QED BY <1>1, <2>1, <2>3, <2>5, <3>3 DEF CRows
  <2>6. CASE q.kind = "delete"
    <3>1. r = C!SetClient(c, None) /\ CDb
      BY <1>1, <2>3, <2>6 DEF C!Served, CType
    <3>b. None \in C!Client \cup {None}
      OBVIOUS
    <3>a. C!SetClient(c, None).db.clients[c] = IF db.clients[c] = None THEN None ELSE None
      BY <3>1, <3>b, CSetClient
    <3>2. r.db.clients[c] = None
      BY <3>1, <3>a
    <3> QED BY <2>2, <3>2 DEF C!Approves
  <2> QED BY <2>3, <2>4, <2>5, <2>6
<1>4. ASSUME NEW d \in Two, NEW n \in {1}, C!Register(d, n) PROVE FALSE
  <2>1. db.clients[d] = None /\ db' = [db EXCEPT !.clients = [db.clients EXCEPT ![d] = C!NewClient(n)]]
    BY <1>4 DEF C!Register
  <2>2. d # c /\ db'.clients[c] = db.clients[c]
    BY <1>1, <2>1 DEF CType, CDb, CTable
  <2> QED BY <1>1, <2>2 DEF CIs
<1>5. ASSUME C!Admin PROVE UNCHANGED db
  <2>1. ASSUME NEW d \in Two,
               C!OpenApprove(d) \/ C!OpenEdit(d) \/ C!Reject(d) \/ C!Revoke(d) \/ C!Delete(d)
        PROVE UNCHANGED db
    BY <2>1 DEF C!OpenApprove, C!OpenEdit, C!Reject, C!Revoke, C!Delete
  <2>2. ASSUME NEW d \in {1}, C!SubmitApprove(d) \/ C!OpenOffline(d) PROVE UNCHANGED db
    BY <2>2 DEF C!SubmitApprove, C!OpenOffline
  <2>3. ASSUME NEW n, NEW d, NEW m, C!SubmitEdit(n, d, m) PROVE UNCHANGED db
    BY <2>3 DEF C!SubmitEdit
  <2>4. ASSUME NEW m, C!EditOffline(m) \/ C!SetOffline(m) \/ C!Cancel PROVE UNCHANGED db
    BY <2>4 DEF C!EditOffline, C!SetOffline, C!Cancel
  <2> QED BY <1>5, <2>1, <2>2, <2>3, <2>4 DEF C!Admin
<1>6. ASSUME NEW x \in Calls,
             C!Lose(x) \/ C!Fails(x) \/ C!ClientsLoaded(x) \/ C!ApproveDone(x) \/ C!Reload(x)
               \/ C!OfflineLoaded(x) \/ C!OfflineSet(x)
      PROVE  UNCHANGED db
  BY <1>6 DEF C!Lose, C!Fails, C!ClientsLoaded, C!ApproveDone, C!Reload, C!OfflineLoaded,
     C!OfflineSet, C!Done, C!DoneThen
<1> QED BY <1>2, <1>3, <1>4, <1>5, <1>6 DEF C!Next, vars

\* The editor of an offline screen has one request under way and, untouched,
\* shows what is stored.  As long as no two requests overlap and none is refused
\* or lost, what is listed is stored unless a change is on its way back, and a row
\* that is sent as approved is of a client that is (ClientsPage.tsx).
THEOREM ClientsCorrect == Spec => [](page = "clients" => CInv)
<1>1. Init => (page = "clients" => CInv)
  BY CInitInv DEF Init
<1>2. (page = "clients" => CInv) /\ [Next]_all => (page = "clients" => CInv)'
  BY CInductive DEF Next, all
<1> QED BY <1>1, <1>2, PTL DEF Spec

\* No row that is sent back undoes a rejection or a revocation (updateClient):
\* only an approval approves a client.
THEOREM OnlyApproved == Spec => [][page = "clients" => C!OnlyApprovalApproves]_all
<1>1. (page = "clients" => CInv) /\ [Next]_all => [page = "clients" => C!OnlyApprovalApproves]_all
  BY CApproves DEF Next, all
<1> QED BY <1>1, ClientsCorrect, PTL DEF Spec

---------------------------------------------------------------------------
(* Displays.                                                               *)

DTable == [Two -> D!Display \cup {None}]
DRows(rows) == \E n \in 0..Cardinality(ScreenIds) : rows \in [1..n -> D!Screen]
DPanels == [id : Two \cup {None}, busy : Calls \cup {None}, row : D!Display]
DForms == [busy : Calls \cup {None}, row : D!Screen \cup {None}]
DNew == [of : Two, name : Names, pos : 0..Cardinality(ScreenIds)]

DSave == [id : Two \cup {None}, row : D!Display]
DDelete == [id : Two, sel : Two \cup {None}]
DAdd == [sel : Two, row : DNew]
DEdit == [sel : Two, row : D!Screen]
DMove == [sel : Two, row : D!Screen, mate : Calls]

DCall(c) ==
  /\ IsRequest(c) /\ c.at \in Ats
  /\ c.kind \in {"displays", "screens", "saveDisplay", "deleteDisplay", "addScreen", "saveScreen",
                 "deleteScreen", "move"}
  /\ c.kind = "displays" => c.arg = None /\ c.data \in DTable \cup {None}
                            /\ (c.at = "ok" => c.data \in DTable)
  /\ c.kind = "screens" => c.arg \in Two /\ (c.data = None \/ DRows(c.data))
                           /\ (c.at = "ok" => DRows(c.data))
  /\ c.kind = "saveDisplay" => c.arg \in DSave
  /\ c.kind = "deleteDisplay" => c.arg \in DDelete
  /\ c.kind = "addScreen" => c.arg \in DAdd
  /\ c.kind \in {"saveScreen", "deleteScreen"} => c.arg \in DEdit
  /\ c.kind = "move" => c.arg \in DMove
  /\ c.kind \notin {"displays", "screens"} => c.data = None

DUi ==
  /\ ui = [displays |-> ui.displays, sel |-> ui.sel, rows |-> ui.rows, wait |-> ui.wait,
           panel |-> ui.panel, form |-> ui.form]
  /\ ui.displays \in DTable \cup {None} /\ ui.sel \in Two \cup {None} /\ DRows(ui.rows)
  /\ ui.wait \in BOOLEAN /\ ui.panel \in DPanels \cup {None} /\ ui.form \in DForms \cup {None}
DScreens(table) ==
  /\ table \in [ScreenIds -> D!Screen \cup {None}]
  /\ \A s \in ScreenIds : table[s] # None => table[s].id = s
DDb == db = [displays |-> db.displays, screens |-> db.screens] /\ db.displays \in DTable
       /\ DScreens(db.screens)
DCalls == DOMAIN call = Calls
          /\ \A x \in Calls : call[x] # NoCall =>
               DCall(call[x]) /\ (call[x].at \in {"refused", "lost"} => log.torn)

\* A row is moved by two requests, each of which knows the other.
DMoves(x) == call[x] # NoCall /\ call[x].kind = "move"
DMates == \A x \in Calls : DMoves(x) =>
            LET y == call[x].arg.mate IN y # x /\ DMoves(y) /\ call[y].arg.mate = x

DType == DUi /\ DDb /\ DCalls /\ DMates /\ LogType(MaxEdits)

\* At most one change is under way.
DAlone == \A x, y \in Calls : call[x] # NoCall /\ call[y] # NoCall =>
            x = y \/ (call[x].kind = "move" /\ call[x].arg.mate = y)

DGoing(x, kind) == call[x] # NoCall /\ call[x].kind = kind /\ call[x].at \in {"sent", "ok"}
DDone(x, kinds) == call[x] # NoCall /\ call[x].kind \in kinds /\ call[x].at = "ok"

\* The list is what is stored, or will be loaded.
DListed ==
  /\ \/ ui.displays = db.displays
     \/ \E x \in Calls : DGoing(x, "displays") \/ DDone(x, {"saveDisplay", "deleteDisplay"})
  /\ \A x \in Calls : DDone(x, {"displays"}) => call[x].data = db.displays
  /\ \A x \in Calls, d \in Two :
       DDone(x, {"screens"}) /\ call[x].arg = d => call[x].data = D!Listed(d)

\* What is under way is about the display that is selected.
DOf(c) == IF c.kind = "screens" THEN c.arg ELSE c.arg.sel
DDropped(x, d) == DDone(x, {"deleteDisplay"}) /\ call[x].arg.id = d
DChanged(x) == DDone(x, {"addScreen", "saveScreen", "deleteScreen", "move"})
DSelected ==
  /\ ui.wait => \E x \in Calls : DGoing(x, "screens")
  /\ \A d \in Two : ui.sel = d =>
       /\ \A x \in Calls : call[x] # NoCall /\ call[x].kind \notin {"displays", "saveDisplay"}
            => DOf(call[x]) = d
       /\ db.displays[d] # None \/ \E x \in Calls : DDropped(x, d)
       /\ \/ ui.rows = D!Listed(d)
          \/ \E x \in Calls : DGoing(x, "screens") \/ DDropped(x, d) \/ DChanged(x)

\* A row that can be sent back is of the screen it was read from, and stays so
\* when a screen is added.
DHolds(a) ==
  \/ ui.sel # None /\ ~ui.wait /\ \E i \in DOMAIN ui.rows : ui.rows[i] = a
  \/ ui.form # None /\ ui.form.row = a
  \/ \E x \in Calls : call[x] # NoCall /\ call[x].kind \in {"saveScreen", "move"} /\ call[x].arg.row = a
DAdding == \E x \in Calls : call[x] # NoCall /\ call[x].kind = "addScreen" /\ call[x].at = "sent"
DKept(a) == /\ db.screens[a.id] # None => db.screens[a.id].look = a.look
            /\ DAdding => db.screens[a.id] # None
DLooks == \A a \in D!Screen : DHolds(a) => DKept(a)

DInv == DType /\ (~log.twin => DAlone) /\ (Safe => DListed /\ DSelected /\ DLooks)

---------------------------------------------------------------------------
\* Finitely many screens with numbers of their own can be put in order: each
\* goes behind as many as come before it.
LEMMA Sorted ==
  ASSUME NEW U, IsFiniteSet(U), \A a \in U : a.pos \in Nat /\ a.id \in Nat,
         \A a, b \in U : a.id = b.id => a = b
  PROVE  \E rows \in [1..Cardinality(U) -> U] :
           \A i, j \in DOMAIN rows : i < j => D!Before(rows[i], rows[j])
<1> DEFINE n == Cardinality(U)
           Upto(a) == {b \in U : b = a \/ D!Before(b, a)}
           rank == [a \in U |-> Cardinality(Upto(a))]
<1>1. n \in Nat
  BY FS_CardinalityType
<1>2. ASSUME NEW a \in U PROVE IsFiniteSet(Upto(a)) /\ rank[a] \in 1..n /\ rank[a] \in Int
  <2>1. Upto(a) \in SUBSET U /\ Upto(a) # {}
    OBVIOUS
  <2> HIDE DEF Upto
  <2>2. IsFiniteSet(Upto(a)) /\ Cardinality(Upto(a)) <= n
    BY <2>1, FS_Subset
  <2>3. Cardinality(Upto(a)) \in Nat /\ Cardinality(Upto(a)) # 0
    BY <2>1, <2>2, FS_CardinalityType, FS_EmptySet
  <2> QED BY <1>1, <2>2, <2>3
<1>3. ASSUME NEW a \in U, NEW b \in U, D!Before(a, b) PROVE rank[a] < rank[b]
  <2>1. Upto(a) \in SUBSET Upto(b) /\ b \in Upto(b) /\ b \notin Upto(a)
    BY <1>3 DEF D!Before
  <2> HIDE DEF Upto
  <2>2. /\ Cardinality(Upto(a)) <= Cardinality(Upto(b))
        /\ Cardinality(Upto(a)) # Cardinality(Upto(b))
    BY <1>2, <2>1, FS_Subset
  <2>3. rank[a] \in Nat /\ rank[b] \in Nat
    BY <1>1, <1>2
  <2> QED BY <2>2, <2>3
<1>4. \A a, b \in U : a = b \/ D!Before(a, b) \/ D!Before(b, a)
  BY DEF D!Before
<1> DEFINE V == 1..n
<1>5. rank \in Injection(U, V)
  <2>1. rank \in [U -> V]
    BY <1>2
  <2>2. \A a, b \in U : rank[a] \in Int /\ rank[b] \in Int
    BY <1>2
  <2> HIDE DEF rank
  <2>3. \A a, b \in U : rank[a] = rank[b] => a = b
    BY <1>3, <1>4, <2>2
  <2> QED BY <2>1, <2>3 DEF Injection, IsInjective
<1>6. IsFiniteSet(V) /\ Cardinality(V) = n
  BY <1>1, FS_Interval
<1>7. rank \in Surjection(U, V)
  <2> HIDE DEF rank, V
  <2> QED BY <1>5, <1>6, FS_Injection
<1>8. \A i \in V : \E a \in U : rank[a] = i
  <2> HIDE DEF rank
  <2> QED BY <1>7 DEF Surjection
<1> DEFINE rows == [i \in V |-> CHOOSE a \in U : rank[a] = i]
<1>9. \A i \in V : rows[i] \in U /\ rank[rows[i]] = i
  <2> HIDE DEF rank, V
  <2> QED BY <1>8
<1>10. \A i, j \in V : i < j => D!Before(rows[i], rows[j])
  <2> SUFFICES ASSUME NEW i \in V, NEW j \in V, i < j PROVE D!Before(rows[i], rows[j])
    OBVIOUS
  <2> HIDE DEF rank, rows
  <2>1. rows[i] # rows[j] /\ ~D!Before(rows[j], rows[i])
    BY <1>1, <1>3, <1>9
  <2> QED BY <1>4, <1>9, <2>1
<1>11. rows \in [1..n -> U] /\ DOMAIN rows = V
  BY <1>9
<1> QED
  <2> HIDE DEF rows
  <2> QED BY <1>10, <1>11

LEMMA DCount == ASSUME NEW U PROVE D!Cardinality(U) = Cardinality(U)
BY Zenon DEF D!Cardinality, Cardinality

LEMMA DListedIs ==
  ASSUME DisplaysAssumption, DDb, NEW d \in Two
  PROVE  /\ DRows(D!Listed(d))
         /\ \A i \in DOMAIN D!Listed(d) : \E s \in ScreenIds :
              db.screens[s] # None /\ D!Listed(d)[i] = db.screens[s]
<1> DEFINE U == D!ScreensOf(d)
           V == {s \in D!Existing(db.screens) : db.screens[s].of = d}
           f == [s \in V |-> db.screens[s]]
<1>1. DOMAIN db.screens = ScreenIds /\ V \in SUBSET ScreenIds
  BY DEF DDb, DScreens, D!Existing
<1>2. \A a \in U : \E s \in ScreenIds : db.screens[s] # None /\ a = db.screens[s]
  BY <1>1 DEF D!ScreensOf, D!Existing
<1>3. \A a \in U : a \in D!Screen /\ a.pos \in Nat /\ a.id \in Nat
  <2>1. \A a \in U : a \in D!Screen
    BY <1>2 DEF DDb, DScreens
  <2>2. Cardinality(ScreenIds) \in Nat /\ ScreenIds \subseteq Nat
    BY DisplaysAssumption, FS_CardinalityType
  <2> QED BY <2>1, <2>2 DEF D!Screen
<1>4. \A a, b \in U : a.id = b.id => a = b
  BY <1>2 DEF DDb, DScreens
<1>5. IsFiniteSet(V) /\ Cardinality(V) <= Cardinality(ScreenIds) /\ Cardinality(V) \in Nat
      /\ Cardinality(ScreenIds) \in Nat
  BY <1>1, DisplaysAssumption, FS_Subset, FS_CardinalityType
<1>6. f \in Surjection(V, U)
  BY DEF Surjection, D!ScreensOf
<1>7. IsFiniteSet(U) /\ Cardinality(U) <= Cardinality(V) /\ Cardinality(U) \in Nat
  <2>1. IsFiniteSet(U) /\ Cardinality(U) <= Cardinality(V)
    <3> HIDE DEF f, V, U
    <3> QED BY <1>5, <1>6, FS_Surjection
  <2> QED BY <2>1, FS_CardinalityType
<1> HIDE DEF U
<1>8. \E rows \in [1..Cardinality(U) -> U] :
        \A i, j \in DOMAIN rows : i < j => D!Before(rows[i], rows[j])
  BY <1>3, <1>4, <1>7, Sorted
<1>9. D!Listed(d) \in [1..Cardinality(U) -> U]
  <2>1. D!Listed(d) = CHOOSE rows \in [1..Cardinality(D!ScreensOf(d)) -> D!ScreensOf(d)] :
          \A i, j \in DOMAIN rows : i < j => D!Before(rows[i], rows[j])
    BY Zenon, DCount DEF D!Listed
  <2> QED BY Zenon, <1>8, <2>1 DEF U
<1>10. DOMAIN D!Listed(d) = 1..Cardinality(U) /\ \A i \in DOMAIN D!Listed(d) : D!Listed(d)[i] \in U
  BY <1>9
<1>11. D!Listed(d) \in [1..Cardinality(U) -> D!Screen]
  BY <1>3, <1>9
<1>12. Cardinality(U) \in 0..Cardinality(ScreenIds)
  BY <1>5, <1>7
<1> QED BY <1>2, <1>10, <1>11, <1>12 DEF DRows

\* A list depends on the screens alone.
LEMMA DListedSame == ASSUME NEW d, D!ScreensOf(d)' = D!ScreensOf(d) PROVE D!Listed(d)' = D!Listed(d)
BY DEF D!Listed

LEMMA DListedStays == ASSUME NEW d, db'.screens = db.screens PROVE D!Listed(d)' = D!Listed(d)
BY DListedSame DEF D!ScreensOf, D!Existing

---------------------------------------------------------------------------
\* What is sent is a request.
LEMMA DFields ==
  ASSUME NEW c, c = [kind |-> c.kind, arg |-> c.arg, at |-> c.at, data |-> c.data], c.at \in Ats,
         NEW K, NEW V, NEW L, c.kind \in K, c.arg \in V, c.data \in L
  PROVE  c \in Requested(K, V, L)
BY Zenon DEF Requested, Ats

LEMMA DReal == ASSUME NEW c, DCall(c) PROVE c # NoCall
<1> DEFINE K1 == {"displays", "screens", "saveDisplay", "deleteDisplay"}
           K2 == {"addScreen", "saveScreen", "deleteScreen", "move"}
<1>1. Cardinality(ScreenIds) \in Nat
  BY DisplaysAssumption, FS_CardinalityType
<1>2. c = [kind |-> c.kind, arg |-> c.arg, at |-> c.at, data |-> c.data] /\ c.at \in Ats
  BY DEF DCall, IsRequest
<1>3. CASE c.kind \in K2
  <2>1. c.kind \in K2 /\ c.data \in {None}
    BY <1>3 DEF DCall
  <2>2. c.arg \in [sel : Two, row : [of : Two, name : Names, pos : Nat]]
                    \cup [sel : Two, row : D!Screen] \cup [sel : Two, row : D!Screen, mate : Calls]
    <3>1. DNew \subseteq [of : Two, name : Names, pos : Nat]
      BY <1>1 DEF DNew
    <3>2. c.kind = "addScreen" => c.arg \in [sel : Two, row : [of : Two, name : Names, pos : Nat]]
      BY <3>1 DEF DCall, DAdd
    <3>3. c.kind \in {"saveScreen", "deleteScreen"} => c.arg \in [sel : Two, row : D!Screen]
      BY DEF DCall, DEdit
    <3>4. c.kind = "move" => c.arg \in [sel : Two, row : D!Screen, mate : Calls]
      BY DEF DCall, DMove
    <3> QED BY <1>3, <3>2, <3>3, <3>4
  <2>3. c \in Requested(K2, [sel : Two, row : [of : Two, name : Names, pos : Nat]]
                    \cup [sel : Two, row : D!Screen] \cup [sel : Two, row : D!Screen, mate : Calls], {None})
    BY SMT, <1>2, <2>1, <2>2, DFields
  <2> QED BY Zenon, <2>3, DisplaysAssumption
<1>4. CASE c.kind = "screens" /\ c.data # None
  <2>1. PICK n \in 0..Cardinality(ScreenIds) : c.data \in [1..n -> D!Screen]
    BY <1>4 DEF DCall, DRows
  <2>2. c.kind \in {"screens"} /\ c.arg \in Two
    BY <1>4 DEF DCall
  <2>3. c \in Requested({"screens"}, Two, [1..n -> D!Screen])
    BY SMT, <1>2, <2>1, <2>2, DFields
  <2> QED BY Zenon, <2>3, DisplaysAssumption
<1>5. CASE c.kind \in K1 /\ (c.kind = "screens" => c.data = None)
  <2>1. c.kind \in K1 /\ c.data \in [Two -> D!Display \cup {None}] \cup {None}
    BY <1>5 DEF DCall, DTable
  <2>2. c.arg \in Two \cup {None} \cup [id : Two \cup {None}, row : D!Display]
                   \cup [id : Two, sel : Two \cup {None}]
    <3>1. c.kind \in {"displays", "screens"} => c.arg \in Two \cup {None}
      BY DEF DCall
    <3>2. c.kind = "saveDisplay" => c.arg \in [id : Two \cup {None}, row : D!Display]
      BY DEF DCall, DSave
    <3>3. c.kind = "deleteDisplay" => c.arg \in [id : Two, sel : Two \cup {None}]
      BY DEF DCall, DDelete
    <3> QED BY <1>5, <3>1, <3>2, <3>3
  <2>3. c \in Requested(K1, Two \cup {None} \cup [id : Two \cup {None}, row : D!Display]
                   \cup [id : Two, sel : Two \cup {None}], [Two -> D!Display \cup {None}] \cup {None})
    BY SMT, <1>2, <2>1, <2>2, DFields
  <2> QED BY Zenon, <2>3, DisplaysAssumption
<1> QED BY <1>3, <1>4, <1>5 DEF DCall

LEMMA DActs ==
  ASSUME LogType(MaxEdits), D!Act
  PROVE  LogType(MaxEdits)' /\ log'.torn = log.torn /\ log'.twin = log.twin
BY BoundsAssumption, Acts DEF D!Act

LEMMA DSending ==
  ASSUME LogType(MaxEdits), D!Sending
  PROVE  /\ LogType(MaxEdits)' /\ log'.torn = log.torn
         /\ ~log'.twin => ~log.twin /\ \A y \in Calls : call[y] = NoCall
BY BoundsAssumption, Sends DEF D!Sending, D!Open, D!Idle, Open, Idle

\* A request that moves nothing takes the place of none, or of one that moves
\* nothing, or nothing does.
LEMMA DPut ==
  ASSUME DCalls, DMates, NEW x \in Calls, ~DMoves(x), log'.torn = log.torn, NEW c,
         call' = [call EXCEPT ![x] = c],
         c = NoCall \/ (DCall(c) /\ c.kind # "move" /\ c.at = "sent")
  PROVE  /\ DCalls' /\ DMates' /\ call'[x] = c
         /\ \A y \in Calls : y # x => call'[y] = call[y]
<1>1. call'[x] = c /\ (\A y \in Calls : y # x => call'[y] = call[y]) /\ DOMAIN call' = Calls
  BY DEF DCalls
<1>2. \A y \in Calls : DMoves(y) => call[y].arg.mate \in Calls
  BY DEF DMoves, DCalls, DCall, DMove
<1>3. DCalls'
  BY <1>1 DEF DCalls
<1>4. \A y \in Calls : DMoves(y)' <=> DMoves(y) /\ y # x
  BY <1>1 DEF DMoves
<1>5. DMates'
  BY <1>1, <1>2, <1>4 DEF DMates
<1> QED BY <1>1, <1>3, <1>5

\* What the admin sends.
LEMMA DSends ==
  ASSUME DType, NEW x \in Calls, NEW kind, NEW arg, D!SendAs(x, kind, arg),
         DCall(D!Request(kind, arg)), kind # "move"
  PROVE  /\ LogType(MaxEdits)' /\ log'.torn = log.torn /\ DCalls' /\ DMates'
         /\ call[x] = NoCall /\ call'[x] # NoCall /\ DCall(call'[x])
         /\ call'[x].kind = kind /\ call'[x].arg = arg /\ call'[x].at = "sent"
         /\ ~log'.twin =>
              /\ ~log.twin /\ DAlone' /\ \A y \in Calls : call[y] = NoCall
              /\ \A y \in Calls : y # x => call'[y] = NoCall
<1>1. D!Sending /\ call[x] = NoCall /\ call' = [call EXCEPT ![x] = D!Request(kind, arg)]
  BY DEF D!SendAs, D!Idle
<1>2. /\ LogType(MaxEdits)' /\ log'.torn = log.torn
      /\ ~log'.twin => ~log.twin /\ \A y \in Calls : call[y] = NoCall
  BY <1>1, DSending DEF DType
<1>3. D!Request(kind, arg).kind = kind /\ D!Request(kind, arg).arg = arg
      /\ D!Request(kind, arg).at = "sent"
  BY DEF D!Request
<1>4. D!Request(kind, arg) # NoCall
  BY DReal
<1>5. /\ DCalls' /\ DMates' /\ call'[x] = D!Request(kind, arg)
      /\ \A y \in Calls : y # x => call'[y] = call[y]
  BY <1>1, <1>2, <1>3, DPut DEF DType, DMoves
<1> QED BY <1>1, <1>2, <1>3, <1>4, <1>5 DEF DAlone

\* What a handler does to the requests: x is read, and perhaps another sent.
LEMMA DReads ==
  ASSUME DType, NEW x \in Calls, ~DMoves(x), D!Done(x)
  PROVE  /\ LogType(MaxEdits)' /\ log' = log /\ db' = db /\ DDb' /\ DCalls' /\ DMates'
         /\ call'[x] = NoCall /\ \A y \in Calls : y # x => call'[y] = call[y]
         /\ (~log.twin => DAlone) => (~log'.twin => DAlone')
<1>1. log' = log /\ db' = db /\ call' = [call EXCEPT ![x] = NoCall]
  BY DEF D!Done
<1>2. LogType(MaxEdits)' /\ DDb'
  BY <1>1 DEF DType, LogType, DDb, DScreens
<1>3. /\ DCalls' /\ DMates' /\ call'[x] = NoCall
      /\ \A y \in Calls : y # x => call'[y] = call[y]
  BY <1>1, DPut DEF DType
<1> QED BY <1>1, <1>2, <1>3 DEF DAlone

LEMMA DReadsThen ==
  ASSUME DType, NEW x \in Calls, call[x] # NoCall, call[x].kind # "move", NEW kind, NEW arg,
         D!DoneThen(x, kind, arg), \/ kind = "displays" /\ arg = None
                                   \/ kind = "screens" /\ arg \in Two
  PROVE  /\ LogType(MaxEdits)' /\ log' = log /\ db' = db /\ DDb' /\ DCalls' /\ DMates'
         /\ call'[x] # NoCall /\ call'[x].kind = kind /\ call'[x].arg = arg /\ call'[x].at = "sent"
         /\ \A y \in Calls : y # x => call'[y] = call[y]
         /\ (~log.twin => DAlone) =>
              (~log'.twin => DAlone' /\ \A y \in Calls : y # x => call[y] = NoCall)
<1> DEFINE c == D!Request(kind, arg)
<1>1. log' = log /\ db' = db /\ call' = [call EXCEPT ![x] = c]
  BY DEF D!DoneThen
<1>2. LogType(MaxEdits)' /\ DDb'
  BY <1>1 DEF DType, LogType, DDb, DScreens
<1>3. DCall(c) /\ c.kind = kind /\ c.arg = arg /\ c.at = "sent"
  BY DEF D!Request, DCall, IsRequest, Ats
<1> HIDE DEF c
<1>4. c # NoCall
  BY <1>3, DReal
<1>5. /\ DCalls' /\ DMates' /\ call'[x] = c
      /\ \A y \in Calls : y # x => call'[y] = call[y]
  BY <1>1, <1>3, DPut DEF DType, DMoves
<1> QED BY <1>1, <1>2, <1>3, <1>4, <1>5 DEF DAlone

---------------------------------------------------------------------------
\* A set of natural numbers that is not empty has a least one.
LEMMA Least == ASSUME NEW U, U \subseteq Nat, U # {} PROVE \E m \in U : \A n \in U : m <= n
<1> DEFINE R == OpToRel(<, Nat)
<1>1. ASSUME NEW x \in Nat, NEW y \in Nat, x < y PROVE <<x, y>> \in R
  BY <1>1 DEF OpToRel
<1>2. IsWellFoundedOn(R, Nat)
  BY Zenon, NatLessThanWellFounded
<1> HIDE DEF R
<1>3. PICK m \in U : \A n \in U : ~ (<<n, m>> \in R)
  BY <1>2, WFMin
<1>4. \A n \in U : ~ (n < m)
  BY Zenon, <1>1, <1>3
<1>5. \A n \in U : n \in Int /\ m \in Int
  OBVIOUS
<1> QED BY <1>4, <1>5

LEMMA DNewScreen ==
  ASSUME NEW f \in DNew
  PROVE  \A s \in ScreenIds :
           [id |-> s, of |-> f.of, name |-> f.name, pos |-> f.pos, look |-> "default", aspect |-> "none"]
             \in D!Screen
BY DCount DEF DNew, D!Screen

LEMMA DWritten ==
  ASSUME NEW a \in D!Screen, NEW f \in D!Screen
  PROVE  LET w == [a EXCEPT !.name = f.name, !.pos = f.pos, !.look = f.look, !.aspect = "none"] IN
         w \in D!Screen /\ w.id = a.id /\ w.of = a.of /\ w.look = f.look
<1>1. f.name \in Names /\ f.pos \in 0..D!Cardinality(ScreenIds) /\ f.look \in {"own", "default"}
  BY DEF D!Screen
<1>2. [a EXCEPT !.name = f.name, !.pos = f.pos, !.look = f.look, !.aspect = "none"] \in D!Screen
  BY Zenon, <1>1 DEF D!Screen
<1> QED BY <1>2 DEF D!Screen

\* A row of one of the two tables is replaced.
LEMMA DPutScreen ==
  ASSUME DDb, NEW s \in ScreenIds, NEW row \in D!Screen \cup {None}, row # None => row.id = s
  PROVE  LET new == D!Put("screens", s, row) IN
         /\ new = [displays |-> new.displays, screens |-> new.screens]
         /\ new.displays = db.displays /\ DScreens(new.screens) /\ new.screens[s] = row
         /\ \A t \in ScreenIds : t # s => new.screens[t] = db.screens[t]
<1> DEFINE table == [db.screens EXCEPT ![s] = row]
<1>1. db = [displays |-> db.displays, screens |-> db.screens]
      /\ db.screens \in [ScreenIds -> D!Screen \cup {None}]
      /\ \A t \in ScreenIds : db.screens[t] # None => db.screens[t].id = t
  BY DEF DDb, DScreens
<1>2. table \in [ScreenIds -> D!Screen \cup {None}] /\ table[s] = row
      /\ \A t \in ScreenIds : t # s => table[t] = db.screens[t]
  BY <1>1
<1>3. D!Put("screens", s, row) = [db EXCEPT !["screens"] = table]
  BY <1>1 DEF D!Put
<1> HIDE DEF table
<1>4. D!Put("screens", s, row) = [displays |-> db.displays, screens |-> table]
  BY <1>1, <1>3
<1>5. \A t \in ScreenIds : table[t] # None => table[t].id = t
  BY <1>1, <1>2
<1> QED BY <1>2, <1>4, <1>5 DEF DScreens

LEMMA DPutDisplay ==
  ASSUME DDb, NEW d \in Two, NEW row \in D!Display
  PROVE  LET new == D!Put("displays", d, row) IN
         /\ new = [displays |-> new.displays, screens |-> new.screens]
         /\ new.screens = db.screens /\ new.displays \in DTable
         /\ \A t \in Two : db.displays[t] # None => new.displays[t] # None
<1> DEFINE table == [db.displays EXCEPT ![d] = row]
<1>1. db = [displays |-> db.displays, screens |-> db.screens] /\ db.displays \in DTable
  BY DEF DDb
<1>2. table \in DTable /\ table[d] = row /\ \A t \in Two : t # d => table[t] = db.displays[t]
  BY <1>1 DEF DTable
<1>3. D!Put("displays", d, row) = [db EXCEPT !["displays"] = table]
  BY <1>1 DEF D!Put
<1> HIDE DEF table
<1>4. D!Put("displays", d, row) = [displays |-> table, screens |-> db.screens]
  BY <1>1, <1>3
<1>5. row # None
  BY DisplaysAssumption
<1> QED BY <1>2, <1>4, <1>5

---------------------------------------------------------------------------
DShape(new) == new = [displays |-> new.displays, screens |-> new.screens]
               /\ new.displays \in DTable /\ DScreens(new.screens)

\* Writing a screen changes the look of no other, and writes its own.
DWrites(new, f) ==
  /\ \A s \in ScreenIds : db.screens[s] = None <=> new.screens[s] = None
  /\ \A s \in ScreenIds : s # f.id => new.screens[s] = db.screens[s]
  /\ new.screens[f.id] # None => new.screens[f.id].look = f.look

LEMMA DSaveScreenIs ==
  ASSUME DDb, NEW f \in D!Screen
  PROVE  LET r == D!SaveScreen(f) IN
         /\ DShape(r.db) /\ r.data = None
         /\ r.db.displays = db.displays /\ (r.db = db \/ DWrites(r.db, f))
<1>1. f.id \in ScreenIds
  BY DEF D!Screen
<1>2. DShape(db)
  BY DEF DDb, DShape
<1>3. CASE db.screens[f.id] = None
  BY <1>2, <1>3 DEF D!SaveScreen, D!Refuse, D!Reply
<1>4. CASE db.screens[f.id] # None
  <2> DEFINE row == [db.screens[f.id] EXCEPT
               !.name = f.name, !.pos = f.pos, !.look = f.look, !.aspect = "none"]
  <2>1. db.screens[f.id] \in D!Screen /\ db.screens[f.id].id = f.id
    BY <1>1, <1>4 DEF DDb, DScreens
  <2>2. row \in D!Screen /\ row.id = f.id /\ row.look = f.look
    BY <2>1, DWritten
  <2>3. D!SaveScreen(f) = D!Reply(D!Put("screens", f.id, row), None, TRUE)
    BY <1>4 DEF D!SaveScreen
  <2>4. row # None
    BY <2>2, DisplaysAssumption
  <2> HIDE DEF row
  <2> DEFINE new == D!Put("screens", f.id, row)
  <2>5. /\ new = [displays |-> new.displays, screens |-> new.screens]
        /\ new.displays = db.displays /\ DScreens(new.screens) /\ new.screens[f.id] = row
        /\ \A t \in ScreenIds : t # f.id => new.screens[t] = db.screens[t]
    BY <1>1, <2>2, DPutScreen
  <2>6. D!SaveScreen(f).db = new /\ D!SaveScreen(f).data = None
    BY <2>3 DEF D!Reply
  <2> HIDE DEF new
  <2> QED BY <1>2, <1>4, <2>2, <2>4, <2>5, <2>6 DEF DShape, DWrites
<1> QED BY <1>3, <1>4

LEMMA DCreateScreenIs ==
  ASSUME DDb, NEW f \in DNew, D!Unused # {}
  PROVE  LET r == D!CreateScreen(f) IN
         /\ DShape(r.db) /\ r.data = None /\ r.db.displays = db.displays
         /\ \A s \in ScreenIds : db.screens[s] # None => r.db.screens[s] = db.screens[s]
<1>1. DShape(db)
  BY DEF DDb, DShape
<1>2. CASE db.displays[f.of] = None
  BY <1>1, <1>2 DEF D!CreateScreen, D!Refuse, D!Reply
<1>3. CASE db.displays[f.of] # None
  <2> DEFINE s == CHOOSE s \in D!Unused : \A t \in D!Unused : s <= t
             row == [id |-> s, of |-> f.of, name |-> f.name, pos |-> f.pos,
                     look |-> "default", aspect |-> "none"]
  <2>1. D!Unused \subseteq Nat
    BY DisplaysAssumption DEF D!Unused
  <2>2. s \in D!Unused
    <3>1. \E m \in D!Unused : \A n \in D!Unused : m <= n
      BY Zenon, <2>1, Least
    <3> QED BY Zenon, <3>1
  <2>3. D!CreateScreen(f) = D!Reply(D!Put("screens", s, row), None, TRUE)
    BY <1>3 DEF D!CreateScreen
  <2> HIDE DEF s
  <2>4. s \in ScreenIds /\ db.screens[s] = None
    <3>1. s \in ScreenIds /\ \A t \in D!Existing(db.screens) : s > t
      BY <2>2 DEF D!Unused
    <3>2. s \notin D!Existing(db.screens) /\ DOMAIN db.screens = ScreenIds
      BY <3>1, DisplaysAssumption DEF DDb, DScreens
    <3> QED BY <3>1, <3>2 DEF D!Existing
  <2>5. row \in D!Screen /\ row.id = s
    BY <2>4, DNewScreen
  <2> HIDE DEF row
  <2> DEFINE new == D!Put("screens", s, row)
  <2>6. /\ new = [displays |-> new.displays, screens |-> new.screens]
        /\ new.displays = db.displays /\ DScreens(new.screens)
        /\ \A t \in ScreenIds : t # s => new.screens[t] = db.screens[t]
    BY <2>4, <2>5, DPutScreen
  <2>7. D!CreateScreen(f).db = new /\ D!CreateScreen(f).data = None
    BY <2>3 DEF D!Reply
  <2> HIDE DEF new
  <2> QED BY <1>1, <2>4, <2>6, <2>7 DEF DShape
<1> QED BY <1>2, <1>3

LEMMA DDeleteScreenIs ==
  ASSUME DDb, NEW s \in ScreenIds
  PROVE  LET r == D!DeleteScreen(s) IN
         /\ DShape(r.db) /\ r.data = None /\ r.db.displays = db.displays
         /\ \A t \in ScreenIds : r.db.screens[t] \in {None, db.screens[t]}
<1> DEFINE new == D!Put("screens", s, None)
<1>1. /\ new = [displays |-> new.displays, screens |-> new.screens]
      /\ new.displays = db.displays /\ DScreens(new.screens) /\ new.screens[s] = None
      /\ \A t \in ScreenIds : t # s => new.screens[t] = db.screens[t]
  BY DPutScreen
<1>2. D!DeleteScreen(s).db = new /\ D!DeleteScreen(s).data = None
  BY DEF D!DeleteScreen, D!Reply
<1> HIDE DEF new
<1> QED BY <1>1, <1>2 DEF DShape, DDb

LEMMA DSaveDisplayIs ==
  ASSUME DDb, NEW id \in Two \cup {None}, NEW f \in D!Display,
         id = None => D!Existing(db.displays) # Two
  PROVE  LET r == D!SaveDisplay(id, f) IN
         /\ DShape(r.db) /\ r.data = None /\ r.db.screens = db.screens
         /\ \A t \in Two : db.displays[t] # None => r.db.displays[t] # None
<1> DEFINE fresh == CHOOSE d \in Two : db.displays[d] = None
           i == IF id = None THEN fresh ELSE id
           row == IF id = None THEN [f EXCEPT !.night = FALSE, !.from = None] ELSE f
           taken == \E d \in D!Existing(db.displays) : d # id /\ db.displays[d].slug = f.slug
<1>1. DShape(db)
  BY DEF DDb, DShape
<1>2. i \in Two
  <2>1. id = None => \E d \in Two : db.displays[d] = None
    BY DEF D!Existing, DDb, DTable
  <2> QED BY <2>1
<1>3. row \in D!Display
  <2>1. [f EXCEPT !.night = FALSE, !.from = None] \in D!Display
    BY DEF D!Display
  <2> QED BY <2>1
<1>4. CASE taken \/ (id # None /\ db.displays[i] = None)
  <2>1. D!SaveDisplay(id, f) = D!Refuse
    BY <1>4 DEF D!SaveDisplay
  <2> QED BY <1>1, <2>1 DEF D!Refuse, D!Reply
<1>5. CASE ~(taken \/ (id # None /\ db.displays[i] = None))
  <2>1. D!SaveDisplay(id, f) = D!Reply(D!Put("displays", i, row), None, TRUE)
    BY <1>5 DEF D!SaveDisplay
  <2> HIDE DEF i, row
  <2> DEFINE new == D!Put("displays", i, row)
  <2>2. /\ new = [displays |-> new.displays, screens |-> new.screens]
        /\ new.screens = db.screens /\ new.displays \in DTable
        /\ \A t \in Two : db.displays[t] # None => new.displays[t] # None
    BY <1>2, <1>3, DPutDisplay
  <2>3. D!SaveDisplay(id, f).db = new /\ D!SaveDisplay(id, f).data = None
    BY <2>1 DEF D!Reply
  <2> HIDE DEF new
  <2> QED BY <1>1, <2>2, <2>3 DEF DShape
<1> QED BY <1>4, <1>5

LEMMA DDeleteDisplayIs ==
  ASSUME DDb, NEW d \in Two
  PROVE  LET r == D!DeleteDisplay(d) IN
         /\ DShape(r.db) /\ r.data = None
         /\ \A t \in Two : t # d => r.db.displays[t] = db.displays[t]
         /\ \A s \in ScreenIds : r.db.screens[s] =
              IF db.screens[s] # None /\ db.screens[s].of = d THEN None ELSE db.screens[s]
<1> DEFINE tables == [displays |-> [db.displays EXCEPT ![d] = None],
                      screens |-> [s \in ScreenIds |->
                        IF s \in D!Existing(db.screens) /\ db.screens[s].of = d
                        THEN None ELSE db.screens[s]]]
<1>1. D!DeleteDisplay(d).db = tables /\ D!DeleteDisplay(d).data = None
  BY DEF D!DeleteDisplay, D!Reply
<1>2. \A s \in ScreenIds : s \in D!Existing(db.screens) <=> db.screens[s] # None
  BY DEF D!Existing, DDb, DScreens
<1>3. tables.displays \in DTable /\ \A t \in Two : t # d => tables.displays[t] = db.displays[t]
  BY DEF DDb, DTable
<1>4. \A s \in ScreenIds : tables.screens[s] =
        IF db.screens[s] # None /\ db.screens[s].of = d THEN None ELSE db.screens[s]
  BY <1>2
<1>5. DScreens(tables.screens)
  BY <1>2 DEF DDb, DScreens
<1>6. tables = [displays |-> tables.displays, screens |-> tables.screens]
  OBVIOUS
<1> HIDE DEF tables
<1> QED BY <1>1, <1>3, <1>4, <1>5, <1>6 DEF DShape

---------------------------------------------------------------------------
\* What the server does.
LEMMA DServed ==
  ASSUME DType, NEW x \in Calls, D!Serve(x)
  PROVE  LET c == call[x]
             r == D!Served(c) IN
         /\ c # NoCall /\ c.at = "sent" /\ DCall(c) /\ Replied(x, r) /\ DShape(r.db)
         /\ c.kind = "displays" => r.db = db /\ r.data = db.displays /\ r.ok
         /\ c.kind = "screens" => r.db = db /\ r.data = D!Listed(c.arg) /\ r.ok
         /\ c.kind \notin {"displays", "screens"} => r.data = None
         /\ c.kind = "saveDisplay" =>
              /\ r.db.screens = db.screens
              /\ \A t \in Two : db.displays[t] # None => r.db.displays[t] # None
         /\ c.kind = "deleteDisplay" =>
              /\ \A t \in Two : t # c.arg.id => r.db.displays[t] = db.displays[t]
              /\ \A s \in ScreenIds : r.db.screens[s] =
                   IF db.screens[s] # None /\ db.screens[s].of = c.arg.id THEN None ELSE db.screens[s]
         /\ c.kind \in {"addScreen", "saveScreen", "deleteScreen", "move"} =>
              r.db.displays = db.displays
         /\ c.kind = "addScreen" =>
              \A s \in ScreenIds : db.screens[s] # None => r.db.screens[s] = db.screens[s]
         /\ c.kind \in {"saveScreen", "move"} => r.db = db \/ DWrites(r.db, c.arg.row)
         /\ c.kind = "deleteScreen" =>
              \A s \in ScreenIds : r.db.screens[s] \in {None, db.screens[s]}
<1> DEFINE c == call[x]
           r == D!Served(c)
<1>1. c # NoCall /\ c.at = "sent" /\ Replied(x, r) /\ DDb
  BY DEF D!Serve, D!Sent, D!Replied, Sent, Replied, DType
<1>2. DCall(c)
  BY <1>1 DEF DType, DCalls
<1>3. DShape(db)
  BY <1>1 DEF DDb, DShape
<1>4. CASE c.kind = "displays"
  <2>1. r = D!Reply(db, db.displays, TRUE)
    BY <1>4 DEF D!Served
  <2>2. r.db = db /\ r.data = db.displays /\ r.ok
    BY <2>1 DEF D!Reply
  <2> QED BY <1>1, <1>2, <1>3, <1>4, <2>2
<1>5. CASE c.kind = "screens"
  <2>1. r = D!Reply(db, D!Listed(c.arg), TRUE)
    BY <1>5 DEF D!Served
  <2>2. r.db = db /\ r.data = D!Listed(c.arg) /\ r.ok
    BY <2>1 DEF D!Reply
  <2> QED BY <1>1, <1>2, <1>3, <1>5, <2>2
<1>6. CASE c.kind = "saveDisplay"
  <2>1. r = D!SaveDisplay(c.arg.id, c.arg.row)
    BY <1>6 DEF D!Served
  <2>2. c.arg.id \in Two \cup {None} /\ c.arg.row \in D!Display
    BY <1>2, <1>6 DEF DCall, DSave
  <2>3. c.arg.id = None => D!Existing(db.displays) # Two
    BY <1>6 DEF D!Serve
  <2>4. /\ DShape(r.db) /\ r.data = None /\ r.db.screens = db.screens
        /\ \A t \in Two : db.displays[t] # None => r.db.displays[t] # None
    BY <1>1, <2>1, <2>2, <2>3, DSaveDisplayIs
  <2> QED BY <1>1, <1>2, <1>6, <2>4
<1>7. CASE c.kind = "deleteDisplay"
  <2>1. r = D!DeleteDisplay(c.arg.id) /\ c.arg.id \in Two
    BY <1>2, <1>7 DEF D!Served, DCall, DDelete
  <2>2. /\ DShape(r.db) /\ r.data = None
        /\ \A t \in Two : t # c.arg.id => r.db.displays[t] = db.displays[t]
        /\ \A s \in ScreenIds : r.db.screens[s] =
             IF db.screens[s] # None /\ db.screens[s].of = c.arg.id THEN None ELSE db.screens[s]
    BY <1>1, <2>1, DDeleteDisplayIs
  <2> QED BY <1>1, <1>2, <1>7, <2>2
<1>8. CASE c.kind \in {"saveScreen", "move"}
  <2>1. r = D!SaveScreen(c.arg.row) /\ c.arg.row \in D!Screen
    BY <1>2, <1>8 DEF D!Served, DCall, DEdit, DMove
  <2>2. /\ DShape(r.db) /\ r.data = None
        /\ r.db.displays = db.displays /\ (r.db = db \/ DWrites(r.db, c.arg.row))
    BY <1>1, <2>1, DSaveScreenIs
  <2> QED BY <1>1, <1>2, <1>8, <2>2
<1>9. CASE c.kind = "addScreen"
  <2>1. r = D!CreateScreen(c.arg.row) /\ c.arg.row \in DNew /\ D!Unused # {}
    BY <1>2, <1>9 DEF D!Served, D!Serve, DCall, DAdd
  <2>2. /\ DShape(r.db) /\ r.data = None /\ r.db.displays = db.displays
        /\ \A s \in ScreenIds : db.screens[s] # None => r.db.screens[s] = db.screens[s]
    BY <1>1, <2>1, DCreateScreenIs
  <2> QED BY <1>1, <1>2, <1>9, <2>2
<1>10. CASE c.kind = "deleteScreen"
  <2>1. r = D!DeleteScreen(c.arg.row.id) /\ c.arg.row.id \in ScreenIds
    BY <1>2, <1>10 DEF D!Served, DCall, DEdit, D!Screen
  <2>2. /\ DShape(r.db) /\ r.data = None /\ r.db.displays = db.displays
        /\ \A t \in ScreenIds : r.db.screens[t] \in {None, db.screens[t]}
    BY <1>1, <2>1, DDeleteScreenIs
  <2> QED BY <1>1, <1>2, <1>10, <2>2
<1> QED BY <1>2, <1>4, <1>5, <1>6, <1>7, <1>8, <1>9, <1>10 DEF DCall

LEMMA DServeType ==
  ASSUME DType, NEW x \in Calls, D!Serve(x)
  PROVE  LET r == D!Served(call[x]) IN
         /\ DType' /\ db' = r.db /\ ui' = ui
         /\ call'[x] # NoCall /\ call'[x].kind = call[x].kind /\ call'[x].arg = call[x].arg
         /\ call'[x].data = r.data /\ call'[x].at = IF r.ok THEN "ok" ELSE "refused"
         /\ \A y \in Calls : y # x => call'[y] = call[y]
         /\ log'.twin = log.twin /\ (~log'.torn => ~log.torn /\ r.ok)
<1> DEFINE c == call[x]
           r == D!Served(c)
<1>1. /\ c # NoCall /\ c.at = "sent" /\ DCall(c) /\ Replied(x, r) /\ DShape(r.db)
      /\ c.kind = "displays" => r.db = db /\ r.data = db.displays /\ r.ok
      /\ c.kind = "screens" => r.db = db /\ r.data = D!Listed(c.arg) /\ r.ok
      /\ c.kind \notin {"displays", "screens"} => r.data = None
  BY DServed
<1>2. DOMAIN call = Calls /\ LogType(MaxEdits) /\ DDb /\ IsRequest(c)
  BY <1>1 DEF DType, DCalls, DCall
<1>3. c.kind = "screens" => DRows(r.data)
  <2>1. ASSUME c.kind = "screens" PROVE c.arg \in Two
    BY <1>1, <2>1 DEF DCall
  <2> QED BY <1>1, <1>2, <2>1, DListedIs, DisplaysAssumption
<1>4. c.kind = "displays" => r.data \in DTable
  BY <1>1, <1>2 DEF DDb
<1>5. /\ db' = r.db /\ ui' = ui /\ DOMAIN call' = Calls /\ IsRequest(call'[x])
      /\ call'[x].kind = call[x].kind /\ call'[x].arg = call[x].arg /\ call'[x].data = r.data
      /\ call'[x].at = IF r.ok THEN "ok" ELSE "refused"
      /\ \A y \in Calls : y # x => call'[y] = call[y]
      /\ LogType(MaxEdits)' /\ log'.twin = log.twin
      /\ ~log'.torn => ~log.torn /\ r.ok
  BY <1>1, <1>2, Replies
<1>6. DCall(call'[x])
  BY <1>1, <1>3, <1>4, <1>5 DEF DCall, Ats
<1>7. call'[x] # NoCall
  BY <1>6, DReal
<1>8. DCalls'
  BY <1>5, <1>6 DEF DType, DCalls
<1>9. \A y \in Calls : /\ DMoves(y)' <=> DMoves(y)
                       /\ DMoves(y) => call[y].arg.mate \in Calls /\ call'[y].arg = call[y].arg
  <2>1. \A y \in Calls : DMoves(y) => call[y].arg.mate \in Calls
    BY DEF DMoves, DType, DCalls, DCall, DMove
  <2> QED BY <1>1, <1>5, <1>7, <2>1 DEF DMoves
<1>10. DMates'
  BY <1>9 DEF DType, DMates
<1>11. DUi' /\ DDb'
  BY <1>1, <1>5 DEF DType, DUi, DDb, DShape
<1> QED BY <1>5, <1>7, <1>8, <1>10, <1>11 DEF DType

---------------------------------------------------------------------------
\* No screen there was and is has another look, and a new one is one that was
\* added.
LEMMA DServeLooks ==
  ASSUME DType, Safe => DLooks, Safe, NEW x \in Calls, D!Serve(x)
  PROVE  \A s \in ScreenIds : db'.screens[s] # None =>
           \/ db.screens[s] # None /\ db'.screens[s].look = db.screens[s].look
           \/ db.screens[s] = None /\ call[x].kind = "addScreen"
<1> DEFINE c == call[x]
           r == D!Served(c)
<1>1. /\ c # NoCall /\ DCall(c) /\ db' = r.db
      /\ c.kind \in {"displays", "screens"} => r.db = db
      /\ c.kind = "saveDisplay" => r.db.screens = db.screens
      /\ c.kind = "deleteDisplay" => \A s \in ScreenIds : r.db.screens[s] \in {None, db.screens[s]}
      /\ c.kind = "addScreen" =>
           \A s \in ScreenIds : db.screens[s] # None => r.db.screens[s] = db.screens[s]
      /\ c.kind \in {"saveScreen", "move"} => r.db = db \/ DWrites(r.db, c.arg.row)
      /\ c.kind = "deleteScreen" =>
           \A s \in ScreenIds : r.db.screens[s] \in {None, db.screens[s]}
  BY DServed, DServeType
<1>2. c.kind \in {"saveScreen", "move"} => DKept(c.arg.row) /\ c.arg.row.id \in ScreenIds
  <2>1. c.kind \in {"saveScreen", "move"} => c.arg.row \in D!Screen /\ DHolds(c.arg.row)
    BY <1>1 DEF DHolds, DCall, DEdit, DMove
  <2>2. \A a \in D!Screen : a.id \in ScreenIds
    BY DEF D!Screen
  <2> QED BY <2>1, <2>2 DEF DLooks
<1>3. c.kind \in {"displays", "screens", "saveDisplay", "deleteDisplay", "addScreen", "saveScreen",
                  "deleteScreen", "move"}
  BY <1>1 DEF DCall
<1> HIDE DEF r
<1> QED BY <1>1, <1>2, <1>3 DEF DWrites, DKept

\* Of the screens there were and are, only the renamed or moved one changes.
LEMMA DServeOthers ==
  ASSUME DType, NEW x \in Calls, D!Serve(x)
  PROVE  \A s \in ScreenIds : db.screens[s] # None /\ db'.screens[s] # None =>
           \/ db'.screens[s] = db.screens[s]
           \/ /\ call[x] # NoCall /\ call[x].kind \in {"saveScreen", "move"}
              /\ call[x].arg.row.id = s
<1> DEFINE c == call[x]
           r == D!Served(c)
<1>1. /\ c # NoCall /\ DCall(c) /\ db' = r.db
      /\ c.kind \in {"displays", "screens"} => r.db = db
      /\ c.kind = "saveDisplay" => r.db.screens = db.screens
      /\ c.kind = "deleteDisplay" => \A s \in ScreenIds : r.db.screens[s] \in {None, db.screens[s]}
      /\ c.kind = "addScreen" =>
           \A s \in ScreenIds : db.screens[s] # None => r.db.screens[s] = db.screens[s]
      /\ c.kind \in {"saveScreen", "move"} => r.db = db \/ DWrites(r.db, c.arg.row)
      /\ c.kind = "deleteScreen" =>
           \A s \in ScreenIds : r.db.screens[s] \in {None, db.screens[s]}
  BY DServed, DServeType
<1>2. c.kind \in {"displays", "screens", "saveDisplay", "deleteDisplay", "addScreen", "saveScreen",
                  "deleteScreen", "move"}
  BY <1>1 DEF DCall
<1> HIDE DEF r
<1> QED BY <1>1, <1>2 DEF DWrites

LEMMA DServeInv == ASSUME DInv, NEW x \in Calls, D!Serve(x) PROVE DInv'
<1> DEFINE c == call[x]
           r == D!Served(c)
<1>1. /\ DType' /\ db' = r.db /\ ui' = ui
      /\ call'[x] # NoCall /\ call'[x].kind = c.kind /\ call'[x].arg = c.arg
      /\ call'[x].data = r.data /\ call'[x].at = IF r.ok THEN "ok" ELSE "refused"
      /\ \A y \in Calls : y # x => call'[y] = call[y]
      /\ log'.twin = log.twin /\ (~log'.torn => ~log.torn /\ r.ok)
  BY DServeType DEF DInv
<1>2. /\ c # NoCall /\ c.at = "sent" /\ DCall(c) /\ DShape(r.db)
      /\ c.kind = "displays" => r.db = db /\ r.data = db.displays
      /\ c.kind = "screens" => r.db = db /\ r.data = D!Listed(c.arg)
      /\ c.kind = "saveDisplay" =>
           /\ r.db.screens = db.screens
           /\ \A t \in Two : db.displays[t] # None => r.db.displays[t] # None
      /\ c.kind = "deleteDisplay" =>
           /\ \A t \in Two : t # c.arg.id => r.db.displays[t] = db.displays[t]
           /\ \A s \in ScreenIds : r.db.screens[s] =
                IF db.screens[s] # None /\ db.screens[s].of = c.arg.id THEN None ELSE db.screens[s]
      /\ c.kind \in {"addScreen", "saveScreen", "deleteScreen", "move"} => r.db.displays = db.displays
  BY DServed DEF DInv
<1> HIDE DEF r
<1>3. ~log'.twin => DAlone'
  BY <1>1, <1>2 DEF DInv, DAlone
<1> SUFFICES ASSUME Safe' PROVE DListed' /\ DSelected' /\ DLooks'
  BY <1>1, <1>3 DEF DInv
<1>4. Safe /\ r.ok /\ call'[x].at = "ok" /\ DType /\ DAlone /\ DListed /\ DSelected /\ DLooks
  BY <1>1 DEF Safe, DInv
<1>5. \A y \in Calls : y # x /\ call[y] # NoCall => c.kind = "move" /\ call[y].kind = "move"
  BY <1>2, <1>4 DEF DAlone
<1>6. c.kind # "displays" => ui.displays = db.displays
  BY <1>2, <1>4, <1>5 DEF DListed, DGoing, DDone
<1>7. c.kind # "screens" => ~ui.wait
  BY <1>2, <1>4, <1>5 DEF DSelected, DGoing
<1>8. ASSUME NEW d \in Two, ui.sel = d
      PROVE  db.displays[d] # None /\ (c.kind \notin {"screens", "move"} => ui.rows = D!Listed(d))
  <2>1. \A y \in Calls : ~DDropped(y, d)
    BY <1>2, <1>5 DEF DDropped, DDone
  <2> QED BY <1>2, <1>4, <1>5, <1>8, <2>1 DEF DSelected, DGoing, DChanged, DDone
<1>9. c.kind \in {"displays", "screens", "saveDisplay"} => \A d : D!Listed(d)' = D!Listed(d)
  BY <1>1, <1>2, DListedStays
<1>10. DListed'
  <2>1. ui'.displays = db'.displays
          \/ \E y \in Calls : DGoing(y, "displays")' \/ DDone(y, {"saveDisplay", "deleteDisplay"})'
    BY <1>1, <1>2, <1>4, <1>6 DEF DGoing, DDone, DCall
  <2>2. ASSUME NEW y \in Calls PROVE DDone(y, {"displays"})' => call'[y].data = db'.displays
    BY <1>1, <1>2, <1>5 DEF DDone
  <2>3. ASSUME NEW y \in Calls, NEW d \in Two, DDone(y, {"screens"})', call'[y].arg = d
        PROVE  call'[y].data = D!Listed(d)'
    <3>1. y = x /\ c.kind = "screens"
      BY <1>1, <1>5, <2>3 DEF DDone
    <3> QED BY <1>1, <1>2, <1>9, <2>3, <3>1
  <2> QED BY <2>1, <2>2, <2>3 DEF DListed
<1>11. DSelected'
  <2>1. ui'.wait => DGoing(x, "screens")'
    BY <1>1, <1>2, <1>4, <1>7 DEF DGoing
  <2> SUFFICES ASSUME NEW d \in Two, ui.sel = d
               PROVE  /\ \A y \in Calls : call'[y] # NoCall
                           /\ call'[y].kind \notin {"displays", "saveDisplay"} => DOf(call[y])' = d
                      /\ db'.displays[d] # None \/ DDropped(x, d)'
                      /\ \/ ui.rows = D!Listed(d)' \/ DGoing(x, "screens")' \/ DDropped(x, d)'
                         \/ DChanged(x)'
    BY <1>1, <2>1 DEF DSelected
  <2>2. \A y \in Calls : call'[y] # NoCall
          /\ call'[y].kind \notin {"displays", "saveDisplay"} => DOf(call[y])' = d
    BY <1>1, <1>2, <1>4 DEF DSelected, DOf
  <2>3. CASE c.kind = "displays"
    BY <1>2, <1>1, <1>8, <1>9, <2>2, <2>3
  <2>4. CASE c.kind = "screens"
    BY <1>1, <1>2, <1>4, <1>8, <2>2, <2>4 DEF DGoing
  <2>5. CASE c.kind = "saveDisplay"
    BY <1>1, <1>2, <1>8, <1>9, <2>2, <2>5
  <2>6. CASE c.kind = "deleteDisplay" /\ c.arg.id = d
    BY <1>1, <1>4, <2>2, <2>6 DEF DDropped, DDone
  <2>7. CASE c.kind = "deleteDisplay" /\ c.arg.id # d
    <3>1. DScreens(db.screens) /\ DScreens(db'.screens)
      BY <1>1, <1>4 DEF DType, DDb
    <3>2. DOMAIN db.screens = ScreenIds /\ DOMAIN db'.screens = ScreenIds
      BY <3>1 DEF DScreens
    <3>3. \A s \in ScreenIds : db'.screens[s] # None /\ db'.screens[s].of = d
                               <=> db.screens[s] # None /\ db.screens[s].of = d
      BY <1>1, <1>2, <2>7
    <3>4. \A s \in ScreenIds : db.screens[s] # None /\ db.screens[s].of = d
                               => db'.screens[s] = db.screens[s]
      BY <1>1, <1>2, <2>7
    <3>5. D!ScreensOf(d)' = D!ScreensOf(d)
      BY <3>2, <3>3, <3>4 DEF D!ScreensOf, D!Existing
    <3>6. D!Listed(d)' = D!Listed(d)
      BY <3>5, DListedSame
    <3> QED BY <1>1, <1>2, <1>8, <2>2, <2>7, <3>6
  <2>8. CASE c.kind \in {"addScreen", "saveScreen", "deleteScreen", "move"}
    BY <1>1, <1>2, <1>4, <1>8, <2>2, <2>8 DEF DChanged, DDone
  <2> QED BY <1>2, <2>3, <2>4, <2>5, <2>6, <2>7, <2>8 DEF DCall
<1>12. DLooks'
  <2>1. ~DAdding' /\ (c.kind = "addScreen" => DAdding)
    BY <1>1, <1>2, <1>4, <1>5 DEF DAdding
  <2>2. \A s \in ScreenIds : db'.screens[s] # None =>
           \/ db.screens[s] # None /\ db'.screens[s].look = db.screens[s].look
           \/ db.screens[s] = None /\ c.kind = "addScreen"
    BY <1>4, DServeLooks
  <2>3. ASSUME NEW a \in D!Screen, DHolds(a)' PROVE DHolds(a)
    BY <1>1, <1>2, <2>3 DEF DHolds
  <2>4. \A a \in D!Screen : a.id \in ScreenIds
    BY DEF D!Screen
  <2>5. ASSUME NEW a \in D!Screen, DKept(a) PROVE DKept(a)'
    BY <2>1, <2>2, <2>4, <2>5 DEF DKept
  <2> QED BY <1>4, <2>3, <2>5 DEF DLooks
<1> QED BY <1>10, <1>11, <1>12

---------------------------------------------------------------------------
LEMMA DLoseInv == ASSUME DInv, NEW x \in Calls, D!Lose(x) PROVE DInv'
<1>1. DType /\ DOMAIN call = Calls /\ LogType(MaxEdits) /\ call[x] # NoCall /\ DCall(call[x])
      /\ IsRequest(call[x]) /\ Lose(x)
  BY DEF DInv, DType, DCalls, DCall, D!Lose, Lose
<1>2. /\ db' = db /\ ui' = ui /\ DOMAIN call' = Calls /\ IsRequest(call'[x])
      /\ call'[x].kind = call[x].kind /\ call'[x].arg = call[x].arg /\ call'[x].at = "lost"
      /\ \A y \in Calls : y # x => call'[y] = call[y]
      /\ LogType(MaxEdits)' /\ log'.twin = log.twin /\ log'.torn
  BY <1>1, Loses
<1>3. call'[x].data = None
  BY <1>1 DEF Lose
<1>4. DCall(call'[x])
  BY <1>1, <1>2, <1>3 DEF DCall, Ats
<1>5. call'[x] # NoCall
  BY <1>4, DReal
<1>6. DCalls'
  BY <1>1, <1>2, <1>4 DEF DType, DCalls
<1>7. DMates'
  <2>1. \A y \in Calls : /\ DMoves(y)' <=> DMoves(y)
                         /\ DMoves(y) => call[y].arg.mate \in Calls /\ call'[y].arg = call[y].arg
    <3>1. \A y \in Calls : DMoves(y) => call[y].arg.mate \in Calls
      BY <1>1 DEF DMoves, DType, DCalls, DCall, DMove
    <3> QED BY <1>1, <1>2, <1>5, <3>1 DEF DMoves
  <2> QED BY <1>1, <2>1 DEF DType, DMates
<1>8. DType'
  BY <1>1, <1>2, <1>6, <1>7 DEF DType, DUi, DDb, DScreens
<1>9. ~log'.twin => DAlone'
  BY <1>1, <1>2 DEF DInv, DAlone
<1> QED BY <1>2, <1>8, <1>9 DEF DInv, Safe

\* Alone under way, x says what is not yet shown.
LEMMA DAlong ==
  ASSUME DInv, Safe, NEW x \in Calls, call[x] # NoCall, call[x].kind # "move"
  PROVE  /\ \A y \in Calls : y # x => call[y] = NoCall
         /\ DCall(call[x]) /\ call[x].at \in {"sent", "ok"}
         /\ call[x].kind \notin {"displays", "saveDisplay", "deleteDisplay"} => ui.displays = db.displays
         /\ DDone(x, {"displays"}) => call[x].data = db.displays
         /\ call[x].kind # "screens" => ~ui.wait
         /\ \A d \in Two : ui.sel = d =>
              /\ call[x].kind \notin {"displays", "saveDisplay"} => DOf(call[x]) = d
              /\ ~DDropped(x, d) => db.displays[d] # None
              /\ ~DDropped(x, d) /\ call[x].kind \in {"displays", "saveDisplay", "deleteDisplay"}
                   => ui.rows = D!Listed(d)
<1>1. DType /\ DAlone /\ DListed /\ DSelected
  BY DEF DInv, Safe
<1>2. \A y \in Calls : y # x => call[y] = NoCall
  BY <1>1 DEF DAlone
<1>3. DCall(call[x]) /\ call[x].at \in {"sent", "ok"}
  BY <1>1 DEF DType, DCalls, DCall, Safe, Ats
<1>4. call[x].kind \notin {"displays", "saveDisplay", "deleteDisplay"} => ui.displays = db.displays
  BY <1>1, <1>2 DEF DListed, DGoing, DDone
<1>5. DDone(x, {"displays"}) => call[x].data = db.displays
  BY <1>1 DEF DListed
<1>6. call[x].kind # "screens" => ~ui.wait
  BY <1>1, <1>2 DEF DSelected, DGoing
<1>7. ASSUME NEW d \in Two, ui.sel = d
      PROVE  /\ call[x].kind \notin {"displays", "saveDisplay"} => DOf(call[x]) = d
             /\ ~DDropped(x, d) => db.displays[d] # None
             /\ ~DDropped(x, d) /\ call[x].kind \in {"displays", "saveDisplay", "deleteDisplay"}
                  => ui.rows = D!Listed(d)
  <2>1. \A y \in Calls : y # x => ~DDropped(y, d) /\ ~DGoing(y, "screens") /\ ~DChanged(y)
    BY <1>2 DEF DDropped, DGoing, DChanged, DDone
  <2>2. call[x].kind \in {"displays", "saveDisplay", "deleteDisplay"}
          => ~DGoing(x, "screens") /\ ~DChanged(x)
    BY DEF DGoing, DChanged, DDone
  <2> QED BY <1>1, <1>7, <2>1, <2>2 DEF DSelected
<1> QED BY <1>2, <1>3, <1>4, <1>5, <1>6, <1>7

\* Nothing is being added when x is read, and what can be sent back of the page
\* could be before.
LEMMA DLooksOn ==
  ASSUME DLooks, db' = db, ~DAdding', \A a \in D!Screen : DHolds(a)' => DHolds(a)
  PROVE  DLooks'
BY DEF DLooks, DKept

LEMMA DUiSets ==
  ASSUME DUi, NEW v
  PROVE  /\ [ui EXCEPT !.displays = v] = [displays |-> v, sel |-> ui.sel, rows |-> ui.rows,
              wait |-> ui.wait, panel |-> ui.panel, form |-> ui.form]
         /\ [ui EXCEPT !.panel = v] = [displays |-> ui.displays, sel |-> ui.sel, rows |-> ui.rows,
              wait |-> ui.wait, panel |-> v, form |-> ui.form]
         /\ [ui EXCEPT !.form = v] = [displays |-> ui.displays, sel |-> ui.sel, rows |-> ui.rows,
              wait |-> ui.wait, panel |-> ui.panel, form |-> v]
BY DEF DUi

LEMMA DDisplaysLoadedInv == ASSUME DInv, NEW x \in Calls, D!DisplaysLoaded(x) PROVE DInv'
<1>1. call[x] # NoCall /\ call[x].kind = "displays" /\ call[x].at = "ok" /\ D!Done(x)
      /\ ui' = [ui EXCEPT !.displays = call[x].data] /\ DType /\ DUi
  BY DEF D!DisplaysLoaded, D!Answered, DInv, DType
<1>2. call[x].data \in DTable
  BY <1>1 DEF DType, DCalls, DCall
<1>3. /\ ui'.displays = call[x].data /\ ui'.sel = ui.sel /\ ui'.rows = ui.rows /\ ui'.wait = ui.wait
      /\ ui'.form = ui.form /\ DUi'
  <2>1. ui' = [displays |-> call[x].data, sel |-> ui.sel, rows |-> ui.rows, wait |-> ui.wait,
               panel |-> ui.panel, form |-> ui.form]
    BY <1>1, DUiSets
  <2> QED BY <1>1, <1>2, <2>1 DEF DUi
<1>4. /\ LogType(MaxEdits)' /\ log' = log /\ db' = db /\ DDb' /\ DCalls' /\ DMates'
      /\ call'[x] = NoCall /\ \A y \in Calls : y # x => call'[y] = call[y]
      /\ ~log'.twin => DAlone'
  BY <1>1, DReads DEF DMoves, DInv
<1> SUFFICES ASSUME Safe' PROVE DListed' /\ DSelected' /\ DLooks'
  BY <1>3, <1>4 DEF DInv, DType
<1>5. Safe /\ DLooks
  BY <1>4 DEF Safe, DInv
<1>6. /\ \A y \in Calls : call'[y] = NoCall
      /\ call[x].data = db.displays /\ ~ui.wait
      /\ \A d \in Two : ui.sel = d => db.displays[d] # None /\ ui.rows = D!Listed(d)
  BY <1>1, <1>4, <1>5, DAlong DEF DDone, DDropped
<1>7. \A d : D!Listed(d)' = D!Listed(d)
  BY <1>4, DListedStays
<1>8. DListed'
  BY <1>3, <1>4, <1>6 DEF DListed, DDone
<1>9. DSelected'
  BY <1>3, <1>4, <1>6, <1>7 DEF DSelected
<1>10. DLooks'
  <2>1. ~DAdding' /\ \A a \in D!Screen : DHolds(a)' => DHolds(a)
    BY <1>3, <1>6 DEF DAdding, DHolds
  <2> QED BY <1>4, <1>5, <2>1, DLooksOn
<1> QED BY <1>8, <1>9, <1>10

LEMMA DDisplaySavedInv == ASSUME DInv, NEW x \in Calls, D!DisplaySaved(x) PROVE DInv'
<1>1. call[x] # NoCall /\ call[x].kind = "saveDisplay" /\ call[x].at = "ok"
      /\ D!DoneThen(x, "displays", None) /\ ui' = [ui EXCEPT !.panel = None] /\ DType /\ DUi
  BY DEF D!DisplaySaved, D!Answered, DInv, DType
<1>2. /\ ui'.displays = ui.displays /\ ui'.sel = ui.sel /\ ui'.rows = ui.rows /\ ui'.wait = ui.wait
      /\ ui'.form = ui.form /\ DUi'
  <2>1. ui' = [displays |-> ui.displays, sel |-> ui.sel, rows |-> ui.rows, wait |-> ui.wait,
               panel |-> None, form |-> ui.form]
    BY <1>1, DUiSets
  <2> QED BY <1>1, <2>1 DEF DUi
<1>3. /\ LogType(MaxEdits)' /\ log' = log /\ db' = db /\ DDb' /\ DCalls' /\ DMates'
      /\ call'[x] # NoCall /\ call'[x].kind = "displays" /\ call'[x].at = "sent"
      /\ \A y \in Calls : y # x => call'[y] = call[y]
      /\ ~log'.twin => DAlone'
  BY <1>1, DReadsThen DEF DInv
<1> SUFFICES ASSUME Safe' PROVE DListed' /\ DSelected' /\ DLooks'
  BY <1>2, <1>3 DEF DInv, DType
<1>4. Safe /\ DLooks
  BY <1>3 DEF Safe, DInv
<1>5. /\ \A y \in Calls : y # x => call'[y] = NoCall
      /\ ~ui.wait
      /\ \A d \in Two : ui.sel = d => db.displays[d] # None /\ ui.rows = D!Listed(d)
  BY <1>1, <1>3, <1>4, DAlong DEF DDone, DDropped
<1>6. \A d : D!Listed(d)' = D!Listed(d)
  BY <1>3, DListedStays
<1>7. DListed'
  BY <1>3, <1>5 DEF DListed, DDone, DGoing
<1>8. DSelected'
  BY <1>2, <1>3, <1>5, <1>6 DEF DSelected
<1>9. DLooks'
  <2>1. ~DAdding' /\ \A a \in D!Screen : DHolds(a)' => DHolds(a)
    BY <1>2, <1>3, <1>5 DEF DAdding, DHolds
  <2> QED BY <1>3, <1>4, <2>1, DLooksOn
<1> QED BY <1>7, <1>8, <1>9

---------------------------------------------------------------------------
\* A failure tears: only the types are left to show.
LEMMA DFailedInv ==
  ASSUME DInv, NEW x \in Calls, call[x] # NoCall, call[x].kind # "move",
         call[x].at \in {"refused", "lost"}, D!Done(x), DUi'
  PROVE  DInv'
<1>1. DType /\ log.torn
  BY DEF DInv, DType, DCalls
<1>2. /\ LogType(MaxEdits)' /\ log' = log /\ db' = db /\ DDb' /\ DCalls' /\ DMates'
      /\ ~log'.twin => DAlone'
  BY <1>1, DReads DEF DMoves, DInv
<1> QED BY <1>1, <1>2 DEF DInv, DType, Safe

LEMMA DUnblockedIs ==
  ASSUME NEW x
  PROVE  /\ \A p \in DPanels \cup {None} : D!Unblocked(p, x) \in DPanels \cup {None}
         /\ \A f \in DForms \cup {None} : D!Unblocked(f, x) \in DForms \cup {None}
<1>1. ASSUME NEW p \in DPanels PROVE [p EXCEPT !.busy = None] \in DPanels
  BY Zenon DEF DPanels
<1>2. ASSUME NEW f \in DForms PROVE [f EXCEPT !.busy = None] \in DForms
  BY Zenon DEF DForms
<1> QED BY <1>1, <1>2 DEF D!Unblocked

LEMMA DNotSavedInv ==
  ASSUME DInv, NEW x \in Calls, D!DisplayNotSaved(x) \/ D!ScreenNotSaved(x) \/ D!Unheard(x)
  PROVE  DInv'
<1>1. DType /\ DUi
  BY DEF DInv, DType
<1>2. CASE D!DisplayNotSaved(x)
  <2>1. call[x] # NoCall /\ call[x].kind # "move" /\ call[x].at \in {"refused", "lost"} /\ D!Done(x)
        /\ ui' = [ui EXCEPT !.panel = D!Unblocked(ui.panel, x)]
    BY <1>2 DEF D!DisplayNotSaved, D!Failed, D!Answered
  <2>2. D!Unblocked(ui.panel, x) \in DPanels \cup {None}
    BY <1>1, DUnblockedIs DEF DUi
  <2>3. ui' = [displays |-> ui.displays, sel |-> ui.sel, rows |-> ui.rows, wait |-> ui.wait,
               panel |-> D!Unblocked(ui.panel, x), form |-> ui.form]
    BY <1>1, <2>1, DUiSets
  <2>4. DUi'
    BY <1>1, <2>2, <2>3 DEF DUi
  <2> QED BY <2>1, <2>4, DFailedInv
<1>3. CASE D!ScreenNotSaved(x)
  <2>1. call[x] # NoCall /\ call[x].kind # "move" /\ call[x].at \in {"refused", "lost"} /\ D!Done(x)
        /\ ui' = [ui EXCEPT !.form = D!Unblocked(ui.form, x)]
    BY <1>3 DEF D!ScreenNotSaved, D!Failed, D!Answered
  <2>2. D!Unblocked(ui.form, x) \in DForms \cup {None}
    BY <1>1, DUnblockedIs DEF DUi
  <2>3. ui' = [displays |-> ui.displays, sel |-> ui.sel, rows |-> ui.rows, wait |-> ui.wait,
               panel |-> ui.panel, form |-> D!Unblocked(ui.form, x)]
    BY <1>1, <2>1, DUiSets
  <2>4. DUi'
    BY <1>1, <2>2, <2>3 DEF DUi
  <2> QED BY <2>1, <2>4, DFailedInv
<1>4. CASE D!Unheard(x)
  <2>1. call[x] # NoCall /\ call[x].kind # "move" /\ call[x].at \in {"refused", "lost"} /\ D!Done(x)
        /\ ui' = ui
    BY <1>4 DEF D!Unheard, D!Answered
  <2>2. DUi'
    BY <1>1, <2>1 DEF DUi
  <2> QED BY <2>1, <2>2, DFailedInv
<1> QED BY <1>2, <1>3, <1>4

LEMMA DNoRows == DRows(<<>>)
<1>1. Cardinality(ScreenIds) \in Nat
  BY DisplaysAssumption, FS_CardinalityType
<1>2. <<>> \in [1..0 -> D!Screen]
  OBVIOUS
<1> QED BY <1>1, <1>2 DEF DRows

LEMMA DDisplayDeletedInv == ASSUME DInv, NEW x \in Calls, D!DisplayDeleted(x) PROVE DInv'
<1>1. call[x] # NoCall /\ call[x].kind = "deleteDisplay" /\ call[x].at \in {"ok", "refused"}
      /\ D!DoneThen(x, "displays", None) /\ DType /\ DUi
  BY DEF D!DisplayDeleted, D!Answered, DInv, DType
<1>2. \/ call[x].arg.sel # call[x].arg.id /\ ui' = ui
      \/ call[x].arg.sel = call[x].arg.id /\ ui' = [ui EXCEPT !.sel = None, !.rows = <<>>]
  BY DEF D!DisplayDeleted
<1>3. /\ ui'.displays = ui.displays /\ ui'.wait = ui.wait /\ ui'.form = ui.form /\ DUi'
      /\ \/ call[x].arg.sel # call[x].arg.id /\ ui' = ui
         \/ ui'.sel = None
  <2>1. CASE ui' = ui /\ call[x].arg.sel # call[x].arg.id
    BY <1>1, <2>1 DEF DUi
  <2>2. CASE ui' = [ui EXCEPT !.sel = None, !.rows = <<>>]
    <3>1. ui' = [displays |-> ui.displays, sel |-> None, rows |-> <<>>, wait |-> ui.wait,
                 panel |-> ui.panel, form |-> ui.form]
      BY <1>1, <2>2 DEF DUi
    <3> QED BY <1>1, <3>1, DNoRows DEF DUi
  <2> QED BY <1>2, <2>1, <2>2
<1>4. /\ LogType(MaxEdits)' /\ log' = log /\ db' = db /\ DDb' /\ DCalls' /\ DMates'
      /\ call'[x] # NoCall /\ call'[x].kind = "displays" /\ call'[x].at = "sent"
      /\ \A y \in Calls : y # x => call'[y] = call[y]
      /\ ~log'.twin => DAlone'
  BY <1>1, DReadsThen DEF DInv
<1> SUFFICES ASSUME Safe' PROVE DListed' /\ DSelected' /\ DLooks'
  BY <1>3, <1>4 DEF DInv, DType
<1>5. Safe /\ DLooks
  BY <1>4 DEF Safe, DInv
<1>6. /\ \A y \in Calls : y # x => call'[y] = NoCall
      /\ ~ui.wait
      /\ \A d \in Two : ui.sel = d =>
           /\ call[x].arg.sel = d
           /\ call[x].arg.id # d => db.displays[d] # None /\ ui.rows = D!Listed(d)
  BY <1>1, <1>4, <1>5, DAlong DEF DDone, DDropped, DOf
<1>7. \A d : D!Listed(d)' = D!Listed(d)
  BY <1>4, DListedStays
<1>8. DListed'
  BY <1>4, <1>6 DEF DListed, DDone, DGoing
<1>9. DSelected'
  BY <1>3, <1>4, <1>6, <1>7, NoneAssumption DEF DSelected
<1>10. DLooks'
  <2>1. ~DAdding' /\ \A a \in D!Screen : DHolds(a)' => DHolds(a)
    BY <1>3, <1>4, <1>6 DEF DAdding, DHolds
  <2> QED BY <1>4, <1>5, <2>1, DLooksOn
<1> QED BY <1>8, <1>9, <1>10

LEMMA DScreensLoadedInv == ASSUME DInv, NEW x \in Calls, D!ScreensLoaded(x) PROVE DInv'
<1>1. call[x] # NoCall /\ call[x].kind = "screens" /\ call[x].at = "ok" /\ D!Done(x)
      /\ ui' = [ui EXCEPT !.rows = call[x].data, !.wait = FALSE] /\ DType /\ DUi /\ DDb
  BY DEF D!ScreensLoaded, D!Answered, DInv, DType
<1>2. DRows(call[x].data) /\ call[x].arg \in Two
  BY <1>1 DEF DType, DCalls, DCall
<1>3. /\ ui'.displays = ui.displays /\ ui'.sel = ui.sel /\ ui'.rows = call[x].data /\ ~ui'.wait
      /\ ui'.form = ui.form /\ DUi'
  <2>1. ui' = [displays |-> ui.displays, sel |-> ui.sel, rows |-> call[x].data, wait |-> FALSE,
               panel |-> ui.panel, form |-> ui.form]
    BY <1>1 DEF DUi
  <2> QED BY <1>1, <1>2, <2>1 DEF DUi
<1>4. /\ LogType(MaxEdits)' /\ log' = log /\ db' = db /\ DDb' /\ DCalls' /\ DMates'
      /\ call'[x] = NoCall /\ \A y \in Calls : y # x => call'[y] = call[y]
      /\ ~log'.twin => DAlone'
  BY <1>1, DReads DEF DMoves, DInv
<1> SUFFICES ASSUME Safe' PROVE DListed' /\ DSelected' /\ DLooks'
  BY <1>3, <1>4 DEF DInv, DType
<1>5. Safe /\ DLooks /\ DListed
  BY <1>4 DEF Safe, DInv
<1>6. /\ \A y \in Calls : call'[y] = NoCall
      /\ ui.displays = db.displays
      /\ \A d \in Two : ui.sel = d => db.displays[d] # None /\ call[x].arg = d
  BY <1>1, <1>4, <1>5, DAlong DEF DDone, DDropped, DOf
<1>7. PICK d \in Two : call[x].data = D!Listed(d) /\ call[x].arg = d
  BY <1>1, <1>2, <1>5 DEF DListed, DDone
<1>8. \A e : D!Listed(e)' = D!Listed(e)
  BY <1>4, DListedStays
<1>9. DListed'
  BY <1>3, <1>4, <1>6 DEF DListed, DDone
<1>10. DSelected'
  BY <1>3, <1>4, <1>6, <1>7, <1>8 DEF DSelected
<1>11. DLooks'
  <2> SUFFICES ASSUME NEW a \in D!Screen, DHolds(a)' PROVE DKept(a)'
    BY DEF DLooks
  <2>1. ~DAdding'
    BY <1>6 DEF DAdding
  <2>2. CASE DHolds(a)
    BY <1>4, <1>5, <2>1, <2>2 DEF DLooks, DKept
  <2>3. CASE ~DHolds(a)
    <3>1. PICK i \in DOMAIN D!Listed(d) : D!Listed(d)[i] = a
      BY <1>3, <1>6, <1>7, <2>3 DEF DHolds
    <3>2. PICK s \in ScreenIds : db.screens[s] # None /\ a = db.screens[s]
      BY <1>1, <3>1, DListedIs, DisplaysAssumption
    <3>3. a.id = s
      BY <1>1, <3>2 DEF DDb, DScreens
    <3> QED BY <1>4, <2>1, <3>2, <3>3 DEF DKept
  <2> QED BY <2>2, <2>3
<1> QED BY <1>9, <1>10, <1>11

\* A change to the screens is read: the form may be closed, and the screens of
\* the display that was selected are loaded.
LEMMA DReloadInv ==
  ASSUME DInv, NEW x \in Calls, call[x] # NoCall,
         call[x].kind \in {"addScreen", "saveScreen", "deleteScreen"},
         NEW f \in {None, ui.form}, D!Reload(x, [ui EXCEPT !.form = f])
  PROVE  DInv'
<1>1. DType /\ DUi /\ D!DoneThen(x, "screens", call[x].arg.sel)
      /\ ui' = [[ui EXCEPT !.form = f] EXCEPT !.wait = TRUE]
  BY DEF D!Reload, DInv, DType
<1>2. call[x].arg.sel \in Two
  BY <1>1 DEF DType, DCalls, DCall, DAdd, DEdit
<1>3. /\ ui'.displays = ui.displays /\ ui'.sel = ui.sel /\ ui'.rows = ui.rows /\ ui'.wait = TRUE
      /\ ui'.form = f /\ DUi'
  <2>1. ui' = [displays |-> ui.displays, sel |-> ui.sel, rows |-> ui.rows, wait |-> TRUE,
               panel |-> ui.panel, form |-> f]
    BY <1>1, DUiSets
  <2> QED BY <1>1, <2>1 DEF DUi
<1>4. /\ LogType(MaxEdits)' /\ log' = log /\ db' = db /\ DDb' /\ DCalls' /\ DMates'
      /\ call'[x] # NoCall /\ call'[x].kind = "screens" /\ call'[x].at = "sent"
      /\ call'[x].arg = call[x].arg.sel
      /\ \A y \in Calls : y # x => call'[y] = call[y]
      /\ ~log'.twin => DAlone'
  BY <1>1, <1>2, DReadsThen DEF DInv
<1> SUFFICES ASSUME Safe' PROVE DListed' /\ DSelected' /\ DLooks'
  BY <1>3, <1>4 DEF DInv, DType
<1>5. Safe /\ DLooks
  BY <1>4 DEF Safe, DInv
<1>6. /\ \A y \in Calls : y # x => call'[y] = NoCall
      /\ ui.displays = db.displays
      /\ \A d \in Two : ui.sel = d => db.displays[d] # None /\ call[x].arg.sel = d
  BY <1>4, <1>5, DAlong DEF DDone, DDropped, DOf
<1>7. DListed'
  BY <1>3, <1>4, <1>6 DEF DListed, DDone
<1>8. DSelected'
  <2>1. DGoing(x, "screens")'
    BY <1>4 DEF DGoing
  <2>2. \A y \in Calls, d \in Two : call'[y] # NoCall /\ ui'.sel = d => DOf(call[y])' = d
    BY <1>3, <1>4, <1>6 DEF DOf
  <2> QED BY <1>3, <1>4, <1>6, <2>1, <2>2 DEF DSelected
<1>9. DLooks'
  <2>1. ~DAdding' /\ \A a \in D!Screen : DHolds(a)' => DHolds(a)
    <3>1. ASSUME NEW a \in D!Screen, DHolds(a)' PROVE DHolds(a)
      BY <1>3, <1>4, <1>6, <3>1 DEF DHolds
    <3> QED BY <1>4, <1>6, <3>1 DEF DAdding
  <2> QED BY <1>4, <1>5, <2>1, DLooksOn
<1> QED BY <1>7, <1>8, <1>9

LEMMA DScreenSavedInv ==
  ASSUME DInv, NEW x \in Calls, D!ScreenSaved(x) \/ D!ScreenDeleted(x) PROVE DInv'
<1>1. CASE D!ScreenSaved(x)
  <2>1. /\ call[x] # NoCall /\ call[x].kind \in {"addScreen", "saveScreen", "deleteScreen"}
        /\ D!Reload(x, [ui EXCEPT !.form = None])
    BY <1>1 DEF D!ScreenSaved, D!Answered
  <2> QED BY <2>1, DReloadInv
<1>2. CASE D!ScreenDeleted(x)
  <2>1. /\ call[x] # NoCall /\ call[x].kind \in {"addScreen", "saveScreen", "deleteScreen"}
        /\ D!Reload(x, ui)
    BY <1>2 DEF D!ScreenDeleted, D!Answered
  <2>2. ui = [ui EXCEPT !.form = ui.form]
    BY DEF DInv, DType, DUi
  <2>3. D!Reload(x, [ui EXCEPT !.form = ui.form])
    BY <2>1, <2>2
  <2> QED BY <2>1, <2>3, DReloadInv
<1> QED BY <1>1, <1>2

---------------------------------------------------------------------------
LEMMA DMated ==
  ASSUME DType, NEW x \in Calls, DMoves(x)
  PROVE  LET y == call[x].arg.mate IN
         /\ y \in Calls /\ y # x /\ DMoves(y) /\ call[y].arg.mate = x
         /\ DCall(call[x]) /\ DCall(call[y]) /\ call[x].arg.sel \in Two
         /\ \A z \in Calls : DMoves(z) /\ z # x /\ z # y => call[z].arg.mate \notin {x, y}
<1>1. \A z \in Calls : DMoves(z) => DCall(call[z]) /\ call[z].arg \in DMove
  BY DEF DType, DCalls, DCall, DMoves
<1>2. call[x].arg.mate \in Calls /\ call[x].arg.sel \in Two
  BY <1>1 DEF DMove
<1> QED BY <1>1, <1>2 DEF DType, DMates

LEMMA DMovedInv == ASSUME DInv, NEW x \in Calls, D!Moved(x) PROVE DInv'
<1> DEFINE y == call[x].arg.mate
           c == D!Request("screens", call[x].arg.sel)
<1>1. DMoves(x) /\ {call[x].at, call[y].at} \subseteq {"ok", "refused"}
      /\ call' = [call EXCEPT ![x] = c, ![y] = NoCall]
      /\ ui' = [ui EXCEPT !.wait = TRUE] /\ UNCHANGED <<db, log>> /\ DType /\ DUi /\ DCalls
  BY DEF D!Moved, DMoves, DInv, DType
<1>2. /\ y \in Calls /\ y # x /\ DMoves(y) /\ call[y].arg.mate = x
      /\ DCall(call[x]) /\ DCall(call[y]) /\ call[x].arg.sel \in Two
      /\ \A z \in Calls : DMoves(z) /\ z # x /\ z # y => call[z].arg.mate \notin {x, y}
  BY <1>1, DMated
<1>3. c.kind = "screens" /\ c.arg = call[x].arg.sel /\ c.at = "sent" /\ DCall(c)
  BY <1>2 DEF D!Request, DCall, IsRequest, Ats
<1>4. c # NoCall
  BY <1>3, DReal
<1> HIDE DEF c, y
<1>5. /\ DOMAIN call' = Calls /\ call'[x] = c /\ call'[y] = NoCall
      /\ \A z \in Calls : z # x /\ z # y => call'[z] = call[z]
  BY <1>1, <1>2 DEF DCalls
<1>6. DCalls'
  BY <1>1, <1>3, <1>5 DEF DCalls
<1>7. DMates'
  <2>1. \A z \in Calls : DMoves(z)' <=> DMoves(z) /\ z # x /\ z # y
    BY <1>3, <1>5 DEF DMoves
  <2>2. \A z \in Calls : DMoves(z) => call[z].arg.mate \in Calls
    BY <1>1, DMated
  <2>3. DMates
    BY <1>1 DEF DType
  <2> QED BY <1>2, <1>5, <2>1, <2>2, <2>3 DEF DMates
<1>8. /\ ui'.displays = ui.displays /\ ui'.sel = ui.sel /\ ui'.rows = ui.rows /\ ui'.wait = TRUE
      /\ ui'.form = ui.form /\ DUi'
  <2>1. ui' = [displays |-> ui.displays, sel |-> ui.sel, rows |-> ui.rows, wait |-> TRUE,
               panel |-> ui.panel, form |-> ui.form]
    BY <1>1 DEF DUi
  <2> QED BY <1>1, <2>1 DEF DUi
<1>9. DType'
  BY <1>1, <1>6, <1>7, <1>8 DEF DType, DDb, DScreens, LogType
<1>10. DAlone => /\ DAlone' /\ \A z \in Calls : z # x => call'[z] = NoCall
                 /\ \A z \in Calls : z # x /\ z # y => call[z] = NoCall
  BY <1>1, <1>2, <1>5 DEF DAlone, DMoves, y
<1> SUFFICES ASSUME Safe' PROVE DListed' /\ DSelected' /\ DLooks'
  BY <1>1, <1>9, <1>10 DEF DInv
<1>11. Safe /\ DListed /\ DSelected /\ DLooks /\ DAlone
  BY <1>1 DEF Safe, DInv
<1>12. \A z \in Calls : z # x => call'[z] = NoCall
  BY <1>10, <1>11
<1>13. \A z \in Calls : call[z] # NoCall => call[z].kind = "move"
  BY <1>1, <1>2, <1>10, <1>11 DEF DMoves
<1>14. ui.displays = db.displays
  BY <1>11, <1>13 DEF DListed, DGoing, DDone
<1>15. \A d \in Two : ui.sel = d => db.displays[d] # None /\ call[x].arg.sel = d
  BY <1>1, <1>11, <1>13 DEF DSelected, DDropped, DDone, DOf, DMoves
<1>16. DListed'
  BY <1>1, <1>3, <1>5, <1>8, <1>12, <1>14 DEF DListed, DDone
<1>17. DSelected'
  <2>1. DGoing(x, "screens")'
    BY <1>3, <1>4, <1>5 DEF DGoing
  <2>2. \A z \in Calls, d \in Two : call'[z] # NoCall /\ ui'.sel = d => DOf(call[z])' = d
    BY <1>3, <1>5, <1>8, <1>12, <1>15 DEF DOf
  <2> QED BY <1>1, <1>8, <1>15, <2>1, <2>2 DEF DSelected
<1>18. DLooks'
  <2>1. ASSUME NEW a \in D!Screen, DHolds(a)' PROVE DHolds(a)
    BY <1>3, <1>5, <1>8, <1>12, <2>1 DEF DHolds
  <2>2. ~DAdding'
    BY <1>3, <1>5, <1>12 DEF DAdding
  <2> QED BY <1>1, <1>11, <2>1, <2>2, DLooksOn
<1> QED BY <1>16, <1>17, <1>18

LEMMA DHalfMovedInv == ASSUME DInv, NEW x \in Calls, D!HalfMoved(x) PROVE DInv'
<1> DEFINE y == call[x].arg.mate
<1>1. DMoves(x) /\ "lost" \in {call[x].at, call[y].at}
      /\ call' = [call EXCEPT ![x] = NoCall, ![y] = NoCall]
      /\ UNCHANGED <<ui, db, log>> /\ DType /\ DCalls
  BY DEF D!HalfMoved, DMoves, DInv, DType
<1>2. /\ y \in Calls /\ y # x /\ DMoves(y)
      /\ \A z \in Calls : DMoves(z) /\ z # x /\ z # y => call[z].arg.mate \notin {x, y}
  BY <1>1, DMated
<1>3. log.torn
  BY <1>1, <1>2 DEF DCalls, DMoves
<1> HIDE DEF y
<1>4. /\ DOMAIN call' = Calls /\ call'[x] = NoCall /\ call'[y] = NoCall
      /\ \A z \in Calls : z # x /\ z # y => call'[z] = call[z]
  BY <1>1, <1>2 DEF DCalls
<1>5. DCalls'
  BY <1>1, <1>4 DEF DCalls
<1>6. DMates'
  <2>1. \A z \in Calls : DMoves(z)' <=> DMoves(z) /\ z # x /\ z # y
    BY <1>4 DEF DMoves
  <2>2. \A z \in Calls : DMoves(z) => call[z].arg.mate \in Calls
    BY <1>1, DMated
  <2>3. DMates
    BY <1>1 DEF DType
  <2> QED BY <1>2, <1>4, <2>1, <2>2, <2>3 DEF DMates
<1>7. DType'
  BY <1>1, <1>5, <1>6 DEF DType, DUi, DDb, DScreens, LogType
<1>8. ~log'.twin => DAlone'
  BY <1>1, <1>4 DEF DInv, DAlone
<1> QED BY <1>1, <1>3, <1>7, <1>8 DEF DInv, Safe

---------------------------------------------------------------------------
\* What the admin does that sends nothing.
LEMMA DActsInv ==
  ASSUME DInv, D!Act, UNCHANGED <<db, call>>, DUi', ui'.displays = ui.displays, ui'.rows = ui.rows \/ ui'.sel = None,
         ui'.sel \in {None, ui.sel}, ui'.wait = ui.wait, \A a \in D!Screen : DHolds(a)' => DHolds(a)
  PROVE  DInv'
<1>1. DType /\ LogType(MaxEdits)' /\ log'.torn = log.torn /\ log'.twin = log.twin
      /\ db' = db /\ call' = call
  BY DActs DEF DInv, DType
<1>2. DType'
  BY <1>1 DEF DType, DDb, DScreens, DCalls, DMates, DMoves
<1>3. ~log'.twin => DAlone'
  BY <1>1 DEF DInv, DAlone
<1> SUFFICES ASSUME Safe' PROVE DListed' /\ DSelected' /\ DLooks'
  BY <1>2, <1>3 DEF DInv
<1>4. Safe /\ DListed /\ DSelected /\ DLooks
  BY <1>1 DEF Safe, DInv
<1>5. \A d : D!Listed(d)' = D!Listed(d)
  BY <1>1, DListedStays
<1>6. DListed'
  BY <1>1, <1>4, <1>5 DEF DListed, DGoing, DDone
<1>7. DSelected'
  <2>1. ASSUME NEW d \in Two, ui'.sel = d PROVE ui.sel = d /\ ui'.rows = ui.rows
    BY <2>1, NoneAssumption
  <2> QED BY <1>1, <1>4, <1>5, <2>1 DEF DSelected, DGoing, DDropped, DChanged, DDone, DOf
<1>8. DLooks'
  BY <1>1, <1>4 DEF DLooks, DKept, DAdding
<1> QED BY <1>6, <1>7, <1>8

LEMMA DOpenDisplayInv ==
  ASSUME DInv, NEW id \in Two \cup {None}, D!OpenDisplay(id) PROVE DInv'
<1> DEFINE p == IF id = None
                THEN [id |-> None, busy |-> None,
                      row |-> [slug |-> CHOOSE n \in Names : TRUE, night |-> FALSE,
                               from |-> CHOOSE t \in Times : TRUE]]
                ELSE [id |-> id, busy |-> None,
                      row |-> [ui.displays[id] EXCEPT !.from =
                                 IF @ = None THEN CHOOSE t \in Times : TRUE ELSE @]]
<1>1. D!Act /\ UNCHANGED <<db, call>> /\ ui' = [ui EXCEPT !.panel = p] /\ DUi
      /\ (id # None => ui.displays[id] # None) /\ ui.displays # None
  BY DEF D!OpenDisplay, D!Free, D!Shown, DInv, DType
<1>2. (CHOOSE n \in Names : TRUE) \in Names /\ (CHOOSE t \in Times : TRUE) \in Times
  BY DisplaysAssumption
<1>3. p \in DPanels
  <2>1. CASE id = None
    BY <1>2, <2>1 DEF DPanels, D!Display
  <2>2. CASE id # None
    <3> DEFINE a == ui.displays[id]
               t == IF a.from = None THEN CHOOSE t \in Times : TRUE ELSE a.from
    <3>1. id \in Two /\ a \in D!Display
      BY <1>1, <2>2 DEF DUi, DTable
    <3>2. t \in Times \cup {None}
      BY <1>2, <3>1 DEF D!Display
    <3>3. p = [id |-> id, busy |-> None, row |-> [a EXCEPT !.from = t]]
      BY <2>2, <3>1
    <3> HIDE DEF t, a, p
    <3>4. [a EXCEPT !.from = t] \in D!Display
      BY Zenon, <3>1, <3>2 DEF D!Display
    <3> QED BY Zenon, <3>1, <3>3, <3>4 DEF DPanels
  <2> QED BY <2>1, <2>2
<1> HIDE DEF p
<1>4. ui' = [displays |-> ui.displays, sel |-> ui.sel, rows |-> ui.rows, wait |-> ui.wait,
             panel |-> p, form |-> ui.form]
  BY <1>1, DUiSets
<1>5. DUi' /\ \A a \in D!Screen : DHolds(a)' => DHolds(a)
  BY <1>1, <1>3, <1>4 DEF DUi, DHolds
<1> QED BY <1>1, <1>4, <1>5, DActsInv

LEMMA DEditDisplayInv ==
  ASSUME DInv, NEW row \in D!Display, D!EditDisplay(row) PROVE DInv'
<1> DEFINE p == [ui.panel EXCEPT !.row = row]
<1>1. D!Act /\ UNCHANGED <<db, call>> /\ ui' = [ui EXCEPT !.panel.row = row] /\ DUi /\ ui.panel # None
  BY DEF D!EditDisplay, DInv, DType
<1>2. ui' = [ui EXCEPT !.panel = p]
  BY <1>1
<1>3. p \in DPanels
  <2>1. ui.panel \in DPanels
    BY <1>1 DEF DUi
  <2> QED BY Zenon, <2>1 DEF DPanels
<1> HIDE DEF p
<1>4. ui' = [displays |-> ui.displays, sel |-> ui.sel, rows |-> ui.rows, wait |-> ui.wait,
             panel |-> p, form |-> ui.form]
  BY <1>1, <1>2, DUiSets
<1>5. DUi' /\ \A a \in D!Screen : DHolds(a)' => DHolds(a)
  BY <1>1, <1>3, <1>4 DEF DUi, DHolds
<1> QED BY <1>1, <1>4, <1>5, DActsInv

LEMMA DCancelInv == ASSUME DInv, D!Cancel PROVE DInv'
<1> DEFINE f == IF ui.panel = None THEN None ELSE ui.form
<1>1. D!Act /\ UNCHANGED <<db, call>> /\ DUi
      /\ ui' = [ui EXCEPT !.panel = None, !.form = f]
  BY DEF D!Cancel, DInv, DType, DUi
<1> HIDE DEF f
<1>2. ui' = [displays |-> ui.displays, sel |-> ui.sel, rows |-> ui.rows, wait |-> ui.wait,
             panel |-> None, form |-> f]
  BY <1>1 DEF DUi
<1>3. f \in {None, ui.form}
  BY DEF f
<1>4. DUi'
  BY <1>1, <1>2, <1>3 DEF DUi
<1>5. \A a \in D!Screen : DHolds(a)' => DHolds(a)
  BY <1>1, <1>2, <1>3 DEF DHolds
<1> QED BY <1>1, <1>2, <1>4, <1>5, DActsInv

LEMMA DOpenScreenInv ==
  ASSUME DInv, NEW i \in 0..Len(ui.rows), D!OpenScreen(i) PROVE DInv'
<1> DEFINE f == [busy |-> None, row |-> IF i = 0 THEN None ELSE ui.rows[i]]
<1>1. D!Act /\ UNCHANGED <<db, call>> /\ DUi /\ ui' = [ui EXCEPT !.form = f]
      /\ ui.sel # None /\ (i # 0 => ~ui.wait /\ i \in DOMAIN ui.rows)
  BY DEF D!OpenScreen, D!Section, DInv, DType
<1>2. i # 0 => ui.rows[i] \in D!Screen /\ DHolds(ui.rows[i])
  BY <1>1 DEF DUi, DRows, DHolds
<1>3. f \in DForms
  BY <1>2 DEF DForms
<1>4. f.row = IF i = 0 THEN None ELSE ui.rows[i]
  OBVIOUS
<1> HIDE DEF f
<1>5. ui' = [displays |-> ui.displays, sel |-> ui.sel, rows |-> ui.rows, wait |-> ui.wait,
             panel |-> ui.panel, form |-> f]
  BY <1>1, DUiSets
<1>6. DUi'
  BY <1>1, <1>3, <1>5 DEF DUi
<1>7. ASSUME NEW a \in D!Screen, DHolds(a)' PROVE DHolds(a)
  <2>1. a # None
    BY DisplaysAssumption
  <2>2. f.row = a => DHolds(a)
    BY <1>2, <1>4, <2>1
  <2> QED BY <1>1, <1>5, <1>7, <2>2 DEF DHolds
<1> QED BY <1>1, <1>5, <1>6, <1>7, DActsInv

---------------------------------------------------------------------------
\* While nothing is under way, what is shown is what is stored.
LEMMA DQuietly ==
  ASSUME DInv, Safe, \A y \in Calls : call[y] = NoCall
  PROVE  /\ ui.displays = db.displays /\ ~ui.wait
         /\ \A d \in Two : ui.sel = d => db.displays[d] # None /\ ui.rows = D!Listed(d)
<1>1. DListed /\ DSelected
  BY DEF DInv
<1>2. ui.displays = db.displays /\ ~ui.wait
  BY <1>1 DEF DListed, DSelected, DGoing, DDone
<1>3. ASSUME NEW d \in Two, ui.sel = d PROVE db.displays[d] # None /\ ui.rows = D!Listed(d)
  <2>1. \A y \in Calls : ~DDropped(y, d) /\ ~DGoing(y, "screens") /\ ~DChanged(y)
    BY DEF DDropped, DGoing, DChanged, DDone
  <2> QED BY <1>1, <1>3, <2>1 DEF DSelected
<1> QED BY <1>2, <1>3

\* What is sent then is about the selected display.
LEMMA DSentSafe ==
  ASSUME DInv, Safe, \A y \in Calls : call[y] = NoCall, db' = db, ui'.displays = ui.displays,
         ui'.rows = ui.rows, ui'.sel = ui.sel, ui'.wait = ui.wait,
         \A y \in Calls : call'[y] # NoCall =>
           /\ call'[y].at = "sent"
           /\ \/ call'[y].kind = "saveDisplay"
              \/ call'[y].kind # "screens" /\ call'[y].arg.sel = ui.sel
  PROVE  DListed' /\ DSelected'
<1>1. /\ ui.displays = db.displays /\ ~ui.wait
      /\ \A d \in Two : ui.sel = d => db.displays[d] # None /\ ui.rows = D!Listed(d)
  BY DQuietly
<1>2. \A d : D!Listed(d)' = D!Listed(d)
  BY DListedStays
<1>3. DListed'
  BY <1>1 DEF DListed, DDone
<1>4. \A y \in Calls, d \in Two :
        call'[y] # NoCall /\ call'[y].kind # "saveDisplay" /\ ui.sel = d => DOf(call[y])' = d
  BY DEF DOf
<1>5. DSelected'
  BY <1>1, <1>2, <1>4 DEF DSelected
<1> QED BY <1>3, <1>5

\* What is sent back is a row of what it was, but for its name or position.
LEMMA DSentLooks ==
  ASSUME DLooks, db' = db, ~DAdding',
         \A a \in D!Screen : DHolds(a)' => \E b \in D!Screen : DHolds(b) /\ b.id = a.id /\ b.look = a.look
  PROVE  DLooks'
BY DEF DLooks, DKept

LEMMA DSubmitDisplayInv == ASSUME DInv, D!SubmitDisplay PROVE DInv'
<1> DEFINE row == [ui.panel.row EXCEPT !.from = IF ui.panel.row.night THEN @ ELSE None]
           arg == [id |-> ui.panel.id, row |-> row]
<1>1. PICK x \in Calls : D!SendAs(x, "saveDisplay", arg) /\ ui' = [ui EXCEPT !.panel.busy = x]
  BY DEF D!SubmitDisplay
<1>2. DType /\ DUi /\ ui.panel # None /\ ui.panel \in DPanels /\ db' = db
  BY DEF D!SubmitDisplay, DInv, DType, DUi
<1>3. arg \in DSave
  <2> DEFINE t == IF ui.panel.row.night THEN ui.panel.row.from ELSE None
  <2>1. ui.panel.id \in Two \cup {None} /\ ui.panel.row \in D!Display
    BY <1>2 DEF DPanels
  <2>2. t \in Times \cup {None}
    BY <2>1 DEF D!Display
  <2>3. row = [ui.panel.row EXCEPT !.from = t]
    OBVIOUS
  <2> HIDE DEF t, row
  <2>4. row \in D!Display
    BY Zenon, <2>1, <2>2, <2>3 DEF D!Display
  <2> QED BY <2>1, <2>4 DEF DSave
<1> HIDE DEF arg
<1>4. DCall(D!Request("saveDisplay", arg))
  BY <1>3 DEF DCall, D!Request, IsRequest, Ats
<1>5. /\ LogType(MaxEdits)' /\ log'.torn = log.torn /\ DCalls' /\ DMates'
      /\ call'[x].kind = "saveDisplay" /\ call'[x].at = "sent"
      /\ ~log'.twin =>
           /\ ~log.twin /\ DAlone' /\ \A y \in Calls : call[y] = NoCall
           /\ \A y \in Calls : y # x => call'[y] = NoCall
  BY <1>1, <1>2, <1>4, DSends
<1>6. /\ ui'.displays = ui.displays /\ ui'.sel = ui.sel /\ ui'.rows = ui.rows /\ ui'.wait = ui.wait
      /\ ui'.form = ui.form /\ DUi'
  <2> DEFINE p == [ui.panel EXCEPT !.busy = x]
  <2>1. ui' = [ui EXCEPT !.panel = p]
    BY <1>1
  <2>2. p \in DPanels
    BY Zenon, <1>2 DEF DPanels
  <2> HIDE DEF p
  <2>3. ui' = [displays |-> ui.displays, sel |-> ui.sel, rows |-> ui.rows, wait |-> ui.wait,
               panel |-> p, form |-> ui.form]
    BY <1>2, <2>1, DUiSets
  <2> QED BY <1>2, <2>2, <2>3 DEF DUi
<1>7. DType'
  BY <1>2, <1>5, <1>6 DEF DType, DDb, DScreens
<1> SUFFICES ASSUME Safe' PROVE DListed' /\ DSelected' /\ DLooks'
  BY <1>5, <1>7 DEF DInv
<1>8. Safe /\ DLooks /\ (\A y \in Calls : call[y] = NoCall) /\ \A y \in Calls : y # x => call'[y] = NoCall
  BY <1>5 DEF Safe, DInv
<1>9. DListed' /\ DSelected'
  BY <1>2, <1>5, <1>6, <1>8, DSentSafe
<1>10. DLooks'
  <2>1. ~DAdding' /\ \A a \in D!Screen : DHolds(a)' => DHolds(a)
    BY <1>5, <1>6, <1>8 DEF DAdding, DHolds
  <2> QED BY <1>2, <1>8, <2>1, DLooksOn
<1> QED BY <1>9, <1>10

\* A deletion is sent, of a display or of a screen.
LEMMA DDeletes ==
  ASSUME DInv, NEW kind \in {"deleteDisplay", "deleteScreen"}, NEW arg, arg.sel = ui.sel,
         kind = "deleteDisplay" => arg \in DDelete, kind = "deleteScreen" => arg \in DEdit,
         D!Send(kind, arg), UNCHANGED <<ui, db>>
  PROVE  DInv'
<1>1. PICK x \in Calls : D!SendAs(x, kind, arg)
  BY DEF D!Send
<1>2. DType /\ db' = db /\ ui' = ui
  BY DEF DInv
<1>3. DCall(D!Request(kind, arg))
  BY DEF DCall, D!Request, IsRequest, Ats
<1>4. /\ LogType(MaxEdits)' /\ log'.torn = log.torn /\ DCalls' /\ DMates'
      /\ call'[x].kind = kind /\ call'[x].at = "sent" /\ call'[x].arg = arg
      /\ ~log'.twin =>
           /\ ~log.twin /\ DAlone' /\ \A y \in Calls : call[y] = NoCall
           /\ \A y \in Calls : y # x => call'[y] = NoCall
  BY <1>1, <1>2, <1>3, DSends
<1>5. DType'
  BY <1>2, <1>4 DEF DType, DUi, DDb, DScreens
<1> SUFFICES ASSUME Safe' PROVE DListed' /\ DSelected' /\ DLooks'
  BY <1>4, <1>5 DEF DInv
<1>6. Safe /\ DLooks /\ (\A y \in Calls : call[y] = NoCall) /\ \A y \in Calls : y # x => call'[y] = NoCall
  BY <1>4 DEF Safe, DInv
<1>7. DListed' /\ DSelected'
  BY <1>2, <1>4, <1>6, DSentSafe
<1>8. DLooks'
  <2>1. ~DAdding' /\ \A a \in D!Screen : DHolds(a)' => DHolds(a)
    BY <1>2, <1>4, <1>6 DEF DAdding, DHolds
  <2> QED BY <1>2, <1>6, <2>1, DLooksOn
<1> QED BY <1>7, <1>8

LEMMA DDeleteDisplayRowInv ==
  ASSUME DInv, NEW d \in Two, D!DeleteDisplayRow(d) PROVE DInv'
<1> DEFINE arg == [id |-> d, sel |-> ui.sel]
<1>1. D!Send("deleteDisplay", arg) /\ UNCHANGED <<ui, db>>
  BY DEF D!DeleteDisplayRow
<1>2. arg \in DDelete /\ arg.sel = ui.sel
  BY DEF DInv, DType, DUi, DDelete
<1> HIDE DEF arg
<1> QED BY <1>1, <1>2, DDeletes

LEMMA DDeleteRowInv ==
  ASSUME DInv, NEW i \in DOMAIN ui.rows, D!DeleteRow(i) PROVE DInv'
<1> DEFINE arg == [sel |-> ui.sel, row |-> ui.rows[i]]
<1>1. D!Send("deleteScreen", arg) /\ UNCHANGED <<ui, db>> /\ ui.sel # None
  BY DEF D!DeleteRow, D!Rows, D!Section
<1>2. ui.sel \in Two /\ ui.rows[i] \in D!Screen
  BY <1>1 DEF DInv, DType, DUi, DRows
<1>3. arg \in DEdit /\ arg.sel = ui.sel
  BY <1>2 DEF DEdit
<1> HIDE DEF arg
<1> QED BY <1>1, <1>3, DDeletes

LEMMA DSelectDisplayInv ==
  ASSUME DInv, NEW d \in Two, D!SelectDisplay(d) PROVE DInv'
<1>1. DType /\ DUi /\ db' = db /\ ui.displays # None /\ ui.displays[d] # None
  BY DEF D!SelectDisplay, D!Free, D!Shown, DInv, DType
<1>2. CASE ui.sel = d
  <2>1. D!Act /\ call' = call /\ ui' = [ui EXCEPT !.sel = None, !.rows = <<>>]
    BY <1>2 DEF D!SelectDisplay
  <2>2. ui' = [displays |-> ui.displays, sel |-> None, rows |-> <<>>, wait |-> ui.wait,
               panel |-> ui.panel, form |-> ui.form]
    BY <1>1, <2>1 DEF DUi
  <2>3. DUi' /\ \A a \in D!Screen : DHolds(a)' => DHolds(a)
    BY <1>1, <2>1, <2>2, DNoRows DEF DUi, DHolds
  <2> QED BY <1>1, <2>1, <2>2, <2>3, DActsInv
<1>3. CASE ui.sel # d
  <2>1. PICK x \in Calls : D!SendAs(x, "screens", d) /\ ui' = [ui EXCEPT !.sel = d, !.wait = TRUE]
    BY <1>3 DEF D!SelectDisplay, D!Send
  <2>2. DCall(D!Request("screens", d))
    BY DEF DCall, D!Request, IsRequest, Ats
  <2>3. /\ LogType(MaxEdits)' /\ log'.torn = log.torn /\ DCalls' /\ DMates' /\ call'[x] # NoCall
        /\ call'[x].kind = "screens" /\ call'[x].at = "sent" /\ call'[x].arg = d
        /\ ~log'.twin =>
             /\ ~log.twin /\ DAlone' /\ \A y \in Calls : call[y] = NoCall
             /\ \A y \in Calls : y # x => call'[y] = NoCall
    BY <1>1, <2>1, <2>2, DSends
  <2>4. /\ ui'.displays = ui.displays /\ ui'.sel = d /\ ui'.wait = TRUE /\ ui'.form = ui.form /\ DUi'
    <3>1. ui' = [displays |-> ui.displays, sel |-> d, rows |-> ui.rows, wait |-> TRUE,
                 panel |-> ui.panel, form |-> ui.form]
      BY <1>1, <2>1 DEF DUi
    <3> QED BY <1>1, <3>1 DEF DUi
  <2>5. DType'
    BY <1>1, <2>3, <2>4 DEF DType, DDb, DScreens
  <2> SUFFICES ASSUME Safe' PROVE DListed' /\ DSelected' /\ DLooks'
    BY <2>3, <2>5 DEF DInv
  <2>6. Safe /\ DLooks /\ (\A y \in Calls : call[y] = NoCall) /\ \A y \in Calls : y # x => call'[y] = NoCall
    BY <2>3 DEF Safe, DInv
  <2>7. ui.displays = db.displays
    BY <2>6, DQuietly
  <2>8. DListed'
    BY <1>1, <2>3, <2>4, <2>6, <2>7 DEF DListed, DDone
  <2>9. DSelected'
    <3>1. DGoing(x, "screens")'
      BY <2>3 DEF DGoing
    <3>2. \A y \in Calls : call'[y] # NoCall => DOf(call[y])' = d
      BY <2>3, <2>6 DEF DOf
    <3> QED BY <1>1, <2>4, <2>7, <3>1, <3>2 DEF DSelected
  <2>10. DLooks'
    <3>1. ~DAdding' /\ \A a \in D!Screen : DHolds(a)' => DHolds(a)
      BY <2>3, <2>4, <2>6 DEF DAdding, DHolds
    <3> QED BY <1>1, <2>6, <3>1, DLooksOn
  <2> QED BY <2>8, <2>9, <2>10
<1> QED BY <1>2, <1>3

---------------------------------------------------------------------------
LEMMA DSubmitScreenInv == ASSUME DInv, NEW name \in Names, D!SubmitScreen(name) PROVE DInv'
<1> DEFINE add == [sel |-> ui.sel, row |-> [of |-> ui.sel, name |-> name, pos |-> Len(ui.rows)]]
           edited == [ui.form.row EXCEPT !.name = name]
           edit == [sel |-> ui.sel, row |-> edited]
<1>1. PICK x \in Calls :
        /\ \/ ui.form.row = None /\ D!SendAs(x, "addScreen", add)
           \/ ui.form.row # None /\ D!SendAs(x, "saveScreen", edit)
        /\ ui' = [ui EXCEPT !.form.busy = x]
  BY DEF D!SubmitScreen
<1>2. DType /\ DUi /\ DDb /\ ui.form # None /\ ui.form \in DForms /\ ui.sel \in Two /\ db' = db
  BY DEF D!SubmitScreen, DInv, DType, DUi
<1>3. add \in DAdd
  <2>1. Len(ui.rows) \in 0..Cardinality(ScreenIds)
    BY <1>2 DEF DUi, DRows
  <2>2. add.row \in DNew
    BY <1>2, <2>1 DEF DNew
  <2> QED BY <1>2, <2>2 DEF DAdd
<1>4. ui.form.row # None => /\ ui.form.row \in D!Screen /\ edited \in D!Screen /\ edit \in DEdit
                            /\ edited.id = ui.form.row.id /\ edited.look = ui.form.row.look
  <2> SUFFICES ASSUME ui.form.row # None
               PROVE  /\ ui.form.row \in D!Screen /\ edited \in D!Screen /\ edit \in DEdit
                      /\ edited.id = ui.form.row.id /\ edited.look = ui.form.row.look
    OBVIOUS
  <2>1. ui.form.row \in D!Screen
    BY <1>2 DEF DForms
  <2>2. edited \in D!Screen
    BY Zenon, <2>1 DEF D!Screen
  <2>3. edited.id = ui.form.row.id /\ edited.look = ui.form.row.look
    BY <2>1 DEF D!Screen
  <2> HIDE DEF edited
  <2> QED BY <1>2, <2>1, <2>2, <2>3 DEF DEdit
<1>5. edit.row = edited /\ edit.sel = ui.sel /\ add.sel = ui.sel
  OBVIOUS
<1> HIDE DEF add, edit, edited
<1>6. PICK kind \in {"addScreen", "saveScreen"}, arg \in {add, edit} :
        /\ D!SendAs(x, kind, arg)
        /\ \/ ui.form.row = None /\ kind = "addScreen" /\ arg = add
           \/ ui.form.row # None /\ kind = "saveScreen" /\ arg = edit
  BY <1>1
<1>7. DCall(D!Request(kind, arg))
  BY <1>3, <1>4, <1>6 DEF DCall, D!Request, IsRequest, Ats
<1>8. /\ LogType(MaxEdits)' /\ log'.torn = log.torn /\ DCalls' /\ DMates'
      /\ call'[x].kind = kind /\ call'[x].at = "sent" /\ call'[x].arg = arg
      /\ ~log'.twin =>
           /\ ~log.twin /\ DAlone' /\ \A y \in Calls : call[y] = NoCall
           /\ \A y \in Calls : y # x => call'[y] = NoCall
  BY <1>2, <1>6, <1>7, DSends
<1>9. /\ ui'.displays = ui.displays /\ ui'.sel = ui.sel /\ ui'.rows = ui.rows /\ ui'.wait = ui.wait
      /\ ui'.form.row = ui.form.row /\ DUi'
  <2> DEFINE f == [ui.form EXCEPT !.busy = x]
  <2>1. ui' = [ui EXCEPT !.form = f]
    BY <1>1
  <2>2. f \in DForms
    BY Zenon, <1>2 DEF DForms
  <2>3. f.row = ui.form.row
    BY <1>2 DEF DForms
  <2> HIDE DEF f
  <2>4. ui' = [displays |-> ui.displays, sel |-> ui.sel, rows |-> ui.rows, wait |-> ui.wait,
               panel |-> ui.panel, form |-> f]
    BY <1>2, <2>1, DUiSets
  <2> QED BY <1>2, <2>2, <2>3, <2>4 DEF DUi
<1>10. DType'
  BY <1>2, <1>8, <1>9 DEF DType, DDb, DScreens
<1> SUFFICES ASSUME Safe' PROVE DListed' /\ DSelected' /\ DLooks'
  BY <1>8, <1>10 DEF DInv
<1>11. Safe /\ DLooks /\ (\A y \in Calls : call[y] = NoCall) /\ \A y \in Calls : y # x => call'[y] = NoCall
  BY <1>8 DEF Safe, DInv
<1>12. DListed' /\ DSelected'
  <2>1. arg.sel = ui.sel
    BY <1>5, <1>6
  <2> QED BY <1>2, <1>6, <1>8, <1>9, <1>11, <2>1, DSentSafe
<1>13. CASE kind = "addScreen"
  <2>1. \A a \in D!Screen : a # None
    BY DisplaysAssumption
  <2>2. ASSUME NEW a \in D!Screen, DHolds(a)' PROVE DHolds(a) /\ db.screens[a.id] # None
    <3>1. PICK i \in DOMAIN ui.rows : ui.rows[i] = a
      BY <1>6, <1>8, <1>9, <1>11, <1>13, <2>1, <2>2 DEF DHolds
    <3>2. ui.rows = D!Listed(ui.sel) /\ ~ui.wait /\ ui.sel # None
      BY <1>2, <1>11, DQuietly, NoneAssumption
    <3>3. PICK s \in ScreenIds : db.screens[s] # None /\ a = db.screens[s]
      BY <1>2, <3>1, <3>2, DListedIs, DisplaysAssumption
    <3>4. a.id = s
      BY <1>2, <3>3 DEF DDb, DScreens
    <3> QED BY <3>1, <3>2, <3>3, <3>4 DEF DHolds
  <2> QED BY <1>2, <1>11, <1>12, <2>2 DEF DLooks, DKept
<1>14. CASE kind = "saveScreen"
  <2>1. ~DAdding'
    BY <1>8, <1>11, <1>14 DEF DAdding
  <2>2. ASSUME NEW a \in D!Screen, DHolds(a)'
        PROVE  \E b \in D!Screen : DHolds(b) /\ b.id = a.id /\ b.look = a.look
    <3>1. CASE DHolds(a)
      BY <3>1
    <3>2. CASE ~DHolds(a)
      <4>1. a = edited
        BY <1>2, <1>5, <1>6, <1>8, <1>9, <1>11, <1>14, <2>2, <3>2 DEF DHolds
      <4>2. DHolds(ui.form.row)
        BY <1>2 DEF DHolds
      <4> QED BY <1>4, <1>6, <1>14, <4>1, <4>2
    <3> QED BY <3>1, <3>2
  <2>3. DLooks'
    BY <1>2, <1>11, <2>1, <2>2, DSentLooks
  <2> QED BY <1>12, <2>3
<1> QED BY <1>6, <1>13, <1>14

\* The rows that change places are sent back as they were listed.
LEMMA DHalf ==
  ASSUME DUi, ui.sel \in Two, NEW i \in DOMAIN ui.rows, NEW j \in DOMAIN ui.rows, NEW y \in Calls
  PROVE  LET row == [ui.rows[i] EXCEPT !.pos = ui.rows[j].pos]
             c == D!Request("move", [sel |-> ui.sel, row |-> row, mate |-> y]) IN
         /\ DCall(c) /\ c # NoCall /\ c.kind = "move" /\ c.at = "sent"
         /\ c.arg.sel = ui.sel /\ c.arg.mate = y /\ c.arg.row = row
         /\ row.id = ui.rows[i].id /\ row.look = ui.rows[i].look
<1> DEFINE row == [ui.rows[i] EXCEPT !.pos = ui.rows[j].pos]
           arg == [sel |-> ui.sel, row |-> row, mate |-> y]
           c == D!Request("move", arg)
<1>1. ui.rows[i] \in D!Screen /\ ui.rows[j] \in D!Screen
  BY DEF DUi, DRows
<1>2. ui.rows[j].pos \in 0..D!Cardinality(ScreenIds)
  BY <1>1 DEF D!Screen
<1>3. row \in D!Screen
  BY Zenon, <1>1, <1>2 DEF D!Screen
<1>4. row.id = ui.rows[i].id /\ row.look = ui.rows[i].look
  BY <1>1 DEF D!Screen
<1>5. c.kind = "move" /\ c.at = "sent" /\ c.arg = arg /\ c.data = None /\ IsRequest(c)
  BY DEF D!Request, IsRequest
<1> HIDE DEF row
<1>6. arg \in DMove /\ arg.sel = ui.sel /\ arg.mate = y /\ arg.row = row
  BY <1>3 DEF DMove
<1> HIDE DEF c, arg
<1>7. DCall(c)
  BY <1>5, <1>6 DEF DCall, Ats
<1>8. c # NoCall
  BY <1>7, DReal
<1>9. /\ DCall(c) /\ c # NoCall /\ c.kind = "move" /\ c.at = "sent"
      /\ c.arg.sel = ui.sel /\ c.arg.mate = y /\ c.arg.row = row
      /\ row.id = ui.rows[i].id /\ row.look = ui.rows[i].look
  BY <1>4, <1>5, <1>6, <1>7, <1>8
<1> QED BY <1>9 DEF c, arg, row

LEMMA DMoveScreenInv ==
  ASSUME DInv, NEW i \in DOMAIN ui.rows, NEW j \in DOMAIN ui.rows, D!MoveScreen(i, j)
  PROVE  DInv'
<1> DEFINE Row(k, l) == [ui.rows[k] EXCEPT !.pos = ui.rows[l].pos]
           Half(k, l, mate) == D!Request("move", [sel |-> ui.sel, row |-> Row(k, l), mate |-> mate])
<1>1. PICK x \in Calls, y \in Calls :
        /\ call[x] = NoCall /\ call[y] = NoCall /\ x # y
        /\ call' = [call EXCEPT ![x] = Half(i, j, y), ![y] = Half(j, i, x)]
  BY DEF D!MoveScreen, D!Idle
<1>2. /\ D!Sending /\ ui' = ui /\ db' = db /\ ui.sel \in Two /\ ~ui.wait
      /\ DType /\ DUi /\ DCalls /\ DMates
  BY DEF D!MoveScreen, D!Rows, D!Section, DInv, DType, DUi
<1>3. /\ LogType(MaxEdits)' /\ log'.torn = log.torn
      /\ ~log'.twin => ~log.twin /\ \A z \in Calls : call[z] = NoCall
  BY <1>2, DSending DEF DType
<1> DEFINE a == Half(i, j, y)
           b == Half(j, i, x)
<1>4. /\ DCall(a) /\ a # NoCall /\ a.kind = "move" /\ a.at = "sent"
      /\ a.arg.sel = ui.sel /\ a.arg.mate = y
      /\ a.arg.row.id = ui.rows[i].id /\ a.arg.row.look = ui.rows[i].look
      /\ DCall(b) /\ b # NoCall /\ b.kind = "move" /\ b.at = "sent"
      /\ b.arg.sel = ui.sel /\ b.arg.mate = x
      /\ b.arg.row.id = ui.rows[j].id /\ b.arg.row.look = ui.rows[j].look
  <2>1. /\ DCall(a) /\ a # NoCall /\ a.kind = "move" /\ a.at = "sent"
        /\ a.arg.sel = ui.sel /\ a.arg.mate = y /\ a.arg.row = Row(i, j)
        /\ Row(i, j).id = ui.rows[i].id /\ Row(i, j).look = ui.rows[i].look
    BY <1>2, DHalf
  <2>2. /\ DCall(b) /\ b # NoCall /\ b.kind = "move" /\ b.at = "sent"
        /\ b.arg.sel = ui.sel /\ b.arg.mate = x /\ b.arg.row = Row(j, i)
        /\ Row(j, i).id = ui.rows[j].id /\ Row(j, i).look = ui.rows[j].look
    BY <1>2, DHalf
  <2> HIDE DEF Half, Row
  <2> QED BY <2>1, <2>2
<1>5. call' = [call EXCEPT ![x] = a, ![y] = b]
  BY <1>1
<1> HIDE DEF a, b
<1>6. /\ DOMAIN call' = Calls /\ call'[x] = a /\ call'[y] = b
      /\ \A z \in Calls : z # x /\ z # y => call'[z] = call[z]
  BY <1>1, <1>2, <1>5 DEF DCalls
<1>7. DCalls'
  BY <1>2, <1>3, <1>4, <1>6 DEF DCalls
<1>8. DMates'
  <2>1. \A z \in Calls : DMoves(z)' <=> DMoves(z) \/ z = x \/ z = y
    BY <1>1, <1>4, <1>6 DEF DMoves
  <2>2. \A z \in Calls : DMoves(z) => call[z].arg.mate \in Calls
    BY <1>2, DMated
  <2>3. \A z \in Calls : DMoves(z) => z # x /\ z # y /\ DMoves(call[z].arg.mate)
    BY <1>1, <1>2 DEF DMates, DMoves
  <2>4. \A z \in Calls : DMoves(z) => call[z].arg.mate # x /\ call[z].arg.mate # y
    BY <1>1, <2>3 DEF DMoves
  <2> SUFFICES ASSUME NEW z \in Calls, call'[z] # NoCall, call'[z].kind = "move"
               PROVE  LET m == call'[z].arg.mate IN
                        m # z /\ call'[m] # NoCall /\ call'[m].kind = "move" /\ call'[m].arg.mate = z
    BY DEF DMates, DMoves
  <2>6. CASE z = x
    BY <1>1, <1>4, <1>6, <2>6
  <2>7. CASE z = y
    BY <1>1, <1>4, <1>6, <2>7
  <2>8. CASE z # x /\ z # y
    <3>1. DMoves(z) /\ call'[z] = call[z]
      BY <1>6, <2>8 DEF DMoves
    <3>2. LET m == call[z].arg.mate IN m # z /\ DMoves(m) /\ call[m].arg.mate = z /\ m \in Calls
      BY <1>2, <2>2, <3>1 DEF DMates
    <3> QED BY <1>6, <2>4, <3>1, <3>2 DEF DMoves
  <2> QED BY <2>6, <2>7, <2>8
<1>9. DType'
  BY <1>2, <1>3, <1>7, <1>8 DEF DType, DUi, DDb, DScreens
<1>10. ~log'.twin => DAlone'
  BY <1>3, <1>4, <1>6 DEF DAlone
<1> SUFFICES ASSUME Safe' PROVE DListed' /\ DSelected' /\ DLooks'
  BY <1>9, <1>10 DEF DInv
<1>11. Safe /\ DLooks /\ \A z \in Calls : call[z] = NoCall
  BY <1>3 DEF Safe, DInv
<1>12. \A z \in Calls : z # x /\ z # y => call'[z] = NoCall
  BY <1>6, <1>11
<1>13. DListed' /\ DSelected'
  BY <1>2, <1>4, <1>6, <1>11, <1>12, DSentSafe
<1>14. DLooks'
  <2>1. ~DAdding'
    BY <1>4, <1>6, <1>12 DEF DAdding
  <2>2. DHolds(ui.rows[i]) /\ DHolds(ui.rows[j]) /\ ui.rows[i] \in D!Screen /\ ui.rows[j] \in D!Screen
    BY <1>2, NoneAssumption DEF DHolds, DUi, DRows
  <2>3. ASSUME NEW s \in D!Screen, DHolds(s)'
        PROVE  \E t \in D!Screen : DHolds(t) /\ t.id = s.id /\ t.look = s.look
    <3>1. DHolds(s) \/ s = a.arg.row \/ s = b.arg.row
      BY <1>2, <1>4, <1>6, <1>12, <2>3 DEF DHolds
    <3> QED BY <1>4, <2>2, <3>1
  <2> QED BY <1>2, <1>11, <2>1, <2>3, DSentLooks
<1> QED BY <1>13, <1>14

---------------------------------------------------------------------------
LEMMA DFirst ==
  ASSUME DisplaysAssumption, NEW s \in ScreenIds, NEW d \in Two,
         NEW n \in 0..Cardinality(ScreenIds)
  PROVE  D!FirstScreen(s, d, n) \in D!Screen /\ D!FirstScreen(s, d, n).id = s
<1>1. (CHOOSE m \in Names : TRUE) \in Names
  OBVIOUS
<1> QED BY <1>1, DCount DEF D!FirstScreen, D!Screen

LEMMA DInitInv == ASSUME D!Init PROVE DInv
<1> DEFINE d1 == CHOOSE d \in Two : TRUE
           d2 == CHOOSE i \in Two : i # d1
           slug == CHOOSE f \in [Two -> Names] : \A i, j \in Two : i = j \/ f[i] # f[j]
           displays == [i \in Two |-> [slug |-> slug[i], night |-> FALSE, from |-> None]]
           screens == [s \in ScreenIds |->
                         CASE s <= 2 -> D!FirstScreen(s, d1, s - 1)
                           [] s = 3 -> D!FirstScreen(s, d2, 0)
                           [] OTHER -> None]
<1>1. /\ ui = [displays |-> None, sel |-> None, rows |-> <<>>, wait |-> FALSE,
               panel |-> None, form |-> None]
      /\ db = [displays |-> displays, screens |-> screens] /\ D!Mounted("displays", None)
  BY DEF D!Init
<1>2. d1 \in Two /\ d2 \in Two
  BY DEF Two
<1>3. slug \in [Two -> Names]
  <2>1. PICK m \in Names, n \in Names : m # n
    BY DisplaysAssumption
  <2> DEFINE f == [i \in Two |-> IF i = 1 THEN m ELSE n]
  <2>2. f \in [Two -> Names] /\ \A i, j \in Two : i = j \/ f[i] # f[j]
    BY <2>1 DEF Two
  <2> HIDE DEF f
  <2> QED BY <2>2
<1>4. displays \in DTable
  <2> HIDE DEF slug
  <2>1. \A i \in Two : [slug |-> slug[i], night |-> FALSE, from |-> None] \in D!Display
    BY <1>3 DEF D!Display
  <2> QED BY <2>1 DEF DTable
<1>5. DScreens(screens)
  <2>1. Cardinality(ScreenIds) \in Nat /\ \A s \in ScreenIds : s \in Nat \ {0}
    BY DisplaysAssumption, FS_CardinalityType
  <2>2. \A s \in ScreenIds : Cardinality(ScreenIds) >= 1
    BY DisplaysAssumption, FS_EmptySet, <2>1
  <2>3. ASSUME NEW s \in ScreenIds
        PROVE  /\ s <= 2 => D!FirstScreen(s, d1, s - 1) \in D!Screen
                            /\ D!FirstScreen(s, d1, s - 1).id = s
               /\ D!FirstScreen(s, d2, 0) \in D!Screen /\ D!FirstScreen(s, d2, 0).id = s
    <3>1. 0 \in 0..Cardinality(ScreenIds) /\ (s <= 2 => s - 1 \in 0..Cardinality(ScreenIds))
      BY <2>1, <2>2
    <3> HIDE DEF d1, d2
    <3> QED BY <1>2, <3>1, DFirst, DisplaysAssumption
  <2> HIDE DEF d1, d2
  <2>4. \A s \in ScreenIds : (screens[s] \in D!Screen /\ screens[s].id = s) \/ screens[s] = None
    BY <2>1, <2>3
  <2>5. screens = [s \in ScreenIds |-> screens[s]]
    OBVIOUS
  <2> HIDE DEF screens
  <2> QED BY <2>4, <2>5 DEF DScreens
<1> HIDE DEF displays, screens
<1>6. DDb
  BY <1>1, <1>4, <1>5 DEF DDb
<1>7. DUi /\ ui.sel = None /\ ui.form = None /\ ~ui.wait
  BY <1>1, DNoRows DEF DUi
<1>8. PICK x \in Calls : call = [D!NoCalls EXCEPT ![x] = D!Request("displays", None)]
  BY <1>1 DEF D!Mounted
<1>9. DCall(D!Request("displays", None)) /\ D!Request("displays", None).kind = "displays"
      /\ D!Request("displays", None).at = "sent"
  BY DEF DCall, D!Request, IsRequest, Ats
<1>10. D!Request("displays", None) # NoCall
  BY <1>9, DReal
<1>11. /\ DOMAIN call = Calls /\ call[x] # NoCall /\ DCall(call[x])
       /\ call[x].kind = "displays" /\ call[x].at = "sent"
       /\ \A y \in Calls : y # x => call[y] = NoCall
  BY <1>8, <1>9, <1>10 DEF D!NoCalls
<1>12. DCalls /\ DMates /\ DAlone
  BY <1>11 DEF DCalls, DMates, DMoves, DAlone
<1>13. LogType(MaxEdits)
  BY <1>1, BoundsAssumption DEF D!Mounted, D!NewLog, LogType
<1>14. DListed
  BY <1>11 DEF DListed, DGoing, DDone
<1>15. DSelected
  BY <1>7, NoneAssumption DEF DSelected
<1>16. DLooks
  <2>1. \A a \in D!Screen : ~DHolds(a)
    BY <1>7, <1>11 DEF DHolds
  <2> QED BY <2>1 DEF DLooks
<1> QED BY <1>6, <1>7, <1>12, <1>13, <1>14, <1>15, <1>16 DEF DInv, DType

LEMMA DInductive == DInv /\ [D!Next]_vars => DInv'
<1> SUFFICES ASSUME DInv, [D!Next]_vars PROVE DInv'
  OBVIOUS
<1>1. CASE UNCHANGED vars
  <2>1. ui' = ui /\ db' = db /\ call' = call /\ log' = log /\ \A d : D!Listed(d)' = D!Listed(d)
    BY <1>1, DListedStays DEF vars
  <2>2. DType' /\ (~log'.twin => DAlone')
    BY <2>1 DEF DInv, DType, DUi, DDb, DScreens, DCalls, DMates, DMoves, DAlone, LogType
  <2>3. Safe' => DListed' /\ DSelected'
    BY <2>1 DEF Safe, DInv, DListed, DSelected, DGoing, DDone, DDropped, DChanged, DOf
  <2>4. Safe' => DLooks'
    BY <2>1 DEF Safe, DInv, DLooks, DHolds, DKept, DAdding
  <2> QED BY <2>2, <2>3, <2>4 DEF DInv
<1>2. CASE D!Admin
  <2>1. ASSUME NEW d \in Two \cup {None}, D!OpenDisplay(d) PROVE DInv'
    BY <2>1, DOpenDisplayInv
  <2>2. ASSUME NEW d \in Two, D!DeleteDisplayRow(d) \/ D!SelectDisplay(d) PROVE DInv'
    BY <2>2, DDeleteDisplayRowInv, DSelectDisplayInv
  <2>3. ASSUME NEW row \in D!Display, D!EditDisplay(row) PROVE DInv'
    BY <2>3, DEditDisplayInv
  <2>4. ASSUME D!SubmitDisplay \/ D!Cancel PROVE DInv'
    BY <2>4, DSubmitDisplayInv, DCancelInv
  <2>5. ASSUME NEW i \in 0..Len(ui.rows), D!OpenScreen(i) PROVE DInv'
    BY <2>5, DOpenScreenInv
  <2>6. ASSUME NEW n \in Names, D!SubmitScreen(n) PROVE DInv'
    BY <2>6, DSubmitScreenInv
  <2>7. ASSUME NEW i \in DOMAIN ui.rows, D!DeleteRow(i) PROVE DInv'
    BY <2>7, DDeleteRowInv
  <2>8. ASSUME NEW i \in DOMAIN ui.rows, NEW j \in DOMAIN ui.rows, D!MoveScreen(i, j) PROVE DInv'
    BY <2>8, DMoveScreenInv
  <2> QED BY <1>2, <2>1, <2>2, <2>3, <2>4, <2>5, <2>6, <2>7, <2>8 DEF D!Admin
<1>3. ASSUME NEW x \in Calls,
             \/ D!Serve(x) \/ D!Lose(x)
             \/ D!DisplaysLoaded(x) \/ D!DisplaySaved(x) \/ D!DisplayNotSaved(x) \/ D!DisplayDeleted(x)
             \/ D!ScreensLoaded(x) \/ D!ScreenSaved(x) \/ D!ScreenNotSaved(x) \/ D!ScreenDeleted(x)
             \/ D!Moved(x) \/ D!HalfMoved(x) \/ D!Unheard(x)
      PROVE  DInv'
  BY <1>3, DServeInv, DLoseInv, DDisplaysLoadedInv, DDisplaySavedInv, DNotSavedInv,
     DDisplayDeletedInv, DScreensLoadedInv, DScreenSavedInv, DMovedInv, DHalfMovedInv
<1> QED BY <1>1, <1>2, <1>3 DEF D!Next

LEMMA DTyped == DInv => D!TypeOK /\ D!RowsAreOfSelected
<1> SUFFICES ASSUME DInv PROVE D!TypeOK /\ D!RowsAreOfSelected
  OBVIOUS
<1>1. DType /\ DUi /\ DDb /\ DCalls /\ LogType(MaxEdits)
  BY DEF DInv, DType
<1>2. D!CallsTypeOK
  BY <1>1 DEF D!CallsTypeOK, DCalls, DCall, Ats, LogType
<1>3. \A d \in Two : db.displays[d] \in D!Display \cup {None}
  BY <1>1 DEF DDb, DTable
<1>4. \A s \in D!Existing(db.screens) : db.screens[s] \in D!Screen /\ db.screens[s].id = s
  BY <1>1 DEF DDb, DScreens, D!Existing
<1>5. \A i \in DOMAIN ui.rows : ui.rows[i] \in D!Screen
  BY <1>1 DEF DUi, DRows
<1>6. D!TypeOK
  BY <1>1, <1>2, <1>3, <1>4, <1>5 DEF D!TypeOK, DUi
<1>7. ASSUME D!Quiet, Safe PROVE /\ ui.displays = db.displays
                                 /\ ui.sel # None => db.displays[ui.sel] # None /\ ~ui.wait
                                                     /\ ui.rows = D!Listed(ui.sel)
  <2>1. \A y \in Calls : call[y] = NoCall
    BY <1>7 DEF D!Quiet, D!Open, D!Idle
  <2>2. ui.sel # None => ui.sel \in Two
    BY <1>1 DEF DUi
  <2> QED BY <1>7, <2>1, <2>2, DQuietly
<1> QED BY <1>6, <1>7 DEF D!RowsAreOfSelected, Safe

\* What a step may change of a screen there was and is.
DSent(s) == \E x \in D!Open : call[x].kind \in {"saveScreen", "move"} /\ call[x].arg.row.id = s
DSpared(s) == /\ db'.screens[s].look = db.screens[s].look
              /\ db'.screens[s].aspect # db.screens[s].aspect => DSent(s)

LEMMA DKeeps == DInv /\ [D!Next]_vars => [D!KeepsLook]_vars
<1> SUFFICES ASSUME DInv, D!Next, Safe,
                    NEW s \in D!Existing(db.screens) \cap D!Existing(db'.screens)
             PROVE  DSpared(s)
  BY DEF D!KeepsLook, Safe, DSpared, DSent
<1>1. s \in ScreenIds /\ db.screens[s] # None /\ db'.screens[s] # None
  BY DEF D!Existing, DInv, DType, DDb, DScreens
<1>2. ASSUME NEW x \in Calls, D!Serve(x) PROVE DSpared(s)
  <2>1. db'.screens[s].look = db.screens[s].look
    BY <1>1, <1>2, DServeLooks DEF DInv
  <2>2. \/ db'.screens[s] = db.screens[s]
        \/ /\ call[x] # NoCall /\ call[x].kind \in {"saveScreen", "move"}
           /\ call[x].arg.row.id = s
    BY <1>1, <1>2, DServeOthers DEF DInv
  <2>3. db'.screens[s].aspect # db.screens[s].aspect => DSent(s)
    BY <2>2 DEF DSent, D!Open, D!Idle
  <2> QED BY <2>1, <2>3 DEF DSpared
<1>3. ASSUME db' = db PROVE DSpared(s)
  BY <1>3 DEF DSpared
<1>4. ASSUME D!Admin PROVE db' = db
  BY <1>4 DEF D!Admin, D!OpenDisplay, D!DeleteDisplayRow, D!SelectDisplay, D!EditDisplay,
     D!SubmitDisplay, D!Cancel, D!OpenScreen, D!SubmitScreen, D!DeleteRow, D!MoveScreen
<1>5. ASSUME NEW x \in Calls,
             \/ D!Lose(x)
             \/ D!DisplaysLoaded(x) \/ D!DisplaySaved(x) \/ D!DisplayNotSaved(x) \/ D!DisplayDeleted(x)
             \/ D!ScreensLoaded(x) \/ D!ScreenSaved(x) \/ D!ScreenNotSaved(x) \/ D!ScreenDeleted(x)
             \/ D!Moved(x) \/ D!HalfMoved(x) \/ D!Unheard(x)
      PROVE  db' = db
  BY <1>5 DEF D!Lose, D!DisplaysLoaded, D!DisplaySaved, D!DisplayNotSaved, D!DisplayDeleted,
     D!ScreensLoaded, D!ScreenSaved, D!ScreenNotSaved, D!ScreenDeleted, D!Reload, D!Moved,
     D!HalfMoved, D!Unheard, D!Done, D!DoneThen
<1> QED BY <1>2, <1>3, <1>4, <1>5 DEF D!Next

\* As long as no two changes overlap and none is refused or lost: the list is
\* the displays there are or will be loaded, what is under way is about the
\* display that is selected, and a row that can be sent back has the layout of
\* the screen it is of (DisplaysPage.tsx).
THEOREM DisplaysCorrect == Spec => [](page = "displays" => DInv)
<1>1. Init => (page = "displays" => DInv)
  BY DInitInv DEF Init
<1>2. (page = "displays" => DInv) /\ [Next]_all => (page = "displays" => DInv)'
  BY DInductive DEF Next, all
<1> QED BY <1>1, <1>2, PTL DEF Spec

\* Renaming, moving, adding and deleting screens changes the layout of none,
\* and the aspect ratio of none but the renamed or moved one, although each PUT
\* replaces a whole row, while requests do not overlap or get lost (submitScreen,
\* moveScreen).
THEOREM LooksKept == Spec => [][page = "displays" => D!KeepsLook]_all
<1>1. (page = "displays" => DInv) /\ [Next]_all => [page = "displays" => D!KeepsLook]_all
  BY DKeeps DEF Next, all, vars
<1> QED BY <1>1, DisplaysCorrect, PTL DEF Spec

---------------------------------------------------------------------------
(* The colour picker.                                                      *)

\* The quotient and the remainder are the only ones.
LEMMA FDivided ==
  ASSUME NEW n \in Int, NEW m \in Nat \ {0}, NEW q \in Int, NEW r \in Nat, r < m, n = m * q + r
  PROVE  n \div m = q /\ n % m = r
<1> DEFINE p == n \div m
           t == n % m
<1>1. p \in Int /\ t \in Int /\ n = m * p + t /\ 0 <= t /\ t < m
  OBVIOUS
<1> HIDE DEF p, t
<1>2. m * p + t = m * q + r
  BY <1>1
<1>3. p <= q
  <2>1. SUFFICES ASSUME p >= q + 1 PROVE FALSE
    BY <1>1
  <2>2. m * p >= m * (q + 1) /\ m * (q + 1) = m * q + m
    BY <1>1, <2>1
  <2> QED BY <1>1, <1>2, <2>2
<1>4. q <= p
  <2>1. SUFFICES ASSUME q >= p + 1 PROVE FALSE
    BY <1>1
  <2>2. m * q >= m * (p + 1) /\ m * (p + 1) = m * p + m
    BY <1>1, <2>1
  <2> QED BY <1>1, <1>2, <2>2
<1>5. p = q /\ t = r
  BY <1>1, <1>2, <1>3, <1>4
<1> QED BY <1>5 DEF p, t

LEMMA FRound ==
  ASSUME NEW n \in Nat, NEW d \in Nat \ {0}, n <= Full * d
  PROVE  F!Rounded(n, d) \in F!Level
<1>1. Full \in Nat
  BY ColourAssumption
<1> DEFINE q == (2 * n + d) \div (2 * d)
<1>2. q \in Int /\ (2 * d) * q <= 2 * n + d /\ 2 * n + d < (2 * d) * q + 2 * d
  OBVIOUS
<1> HIDE DEF q
<1>3. 0 <= q /\ q <= Full
  BY <1>1, <1>2
<1> QED BY <1>1, <1>2, <1>3 DEF F!Rounded, F!Level, q

\* What is whole is not rounded.
LEMMA FWhole ==
  ASSUME NEW k \in Nat, NEW d \in Nat \ {0}
  PROVE  F!Rounded(k * d, d) = k
<1>1. 2 * (k * d) + d \in Int /\ 2 * d \in Nat \ {0} /\ d < 2 * d
      /\ 2 * (k * d) + d = (2 * d) * k + d
  OBVIOUS
<1>2. (2 * (k * d) + d) \div (2 * d) = k
  BY <1>1, FDivided
<1> QED BY <1>2 DEF F!Rounded

\* The largest and the smallest of three.
LEMMA FEnds ==
  ASSUME NEW c \in F!Rgb
  PROVE  LET U == {c[1], c[2], c[3]}
             high == CHOOSE n \in U : \A m \in U : n >= m
             low == CHOOSE n \in U : \A m \in U : n <= m IN
         /\ high \in U /\ low \in U /\ U \subseteq F!Level /\ U \subseteq Int
         /\ \A m \in U : low <= m /\ m <= high
         /\ c = <<c[1], c[2], c[3]>>
<1> DEFINE U == {c[1], c[2], c[3]}
<1>1. U \subseteq F!Level /\ U \subseteq Int /\ c = <<c[1], c[2], c[3]>>
  BY ColourAssumption DEF F!Rgb, F!Level
<1>2. \E n \in U : \A m \in U : n >= m
  BY <1>1
<1>3. \E n \in U : \A m \in U : n <= m
  BY <1>1
<1> HIDE DEF U
<1>4. LET high == CHOOSE n \in U : \A m \in U : n >= m
          low == CHOOSE n \in U : \A m \in U : n <= m IN
      high \in U /\ low \in U /\ \A m \in U : low <= m /\ m <= high
  BY <1>1, <1>2, <1>3
<1> QED BY <1>1, <1>4 DEF U

\* The hue, saturation and value of a colour, by which channel is the largest.
FHue(c, high, d) ==
  CASE d = 0 -> F!Zero
    [] d # 0 /\ high = c[1] -> F!Fraction(c[2] - c[3], d)
    [] d # 0 /\ high # c[1] /\ high = c[2] -> F!Fraction(c[3] - c[1] + 2 * d, d)
    [] OTHER -> F!Fraction(c[1] - c[2] + 4 * d, d)
FSat(high, d) == IF high = 0 THEN F!Zero ELSE F!Fraction(d, high)
FParts(c, high, low) ==
  /\ high \in F!Level /\ low \in F!Level
  /\ high = c[1] \/ high = c[2] \/ high = c[3]
  /\ low = c[1] \/ low = c[2] \/ low = c[3]
  /\ \A i \in 1..3 : c[i] \in F!Level /\ low <= c[i] /\ c[i] <= high
  /\ c = <<c[1], c[2], c[3]>>
  /\ F!RgbToHsv(c) = [h |-> F!Turned(FHue(c, high, high - low)), s |-> FSat(high, high - low),
                      v |-> F!Fraction(high, Full)]

LEMMA FHsvIs == ASSUME NEW c \in F!Rgb PROVE \E high, low \in F!Level : FParts(c, high, low)
<1> DEFINE U == {c[1], c[2], c[3]}
           high == CHOOSE n \in U : \A m \in U : n >= m
           low == CHOOSE n \in U : \A m \in U : n <= m
<1>1. /\ high \in U /\ low \in U /\ U \subseteq F!Level
      /\ \A m \in U : low <= m /\ m <= high
      /\ c = <<c[1], c[2], c[3]>>
  BY FEnds
<1>2. F!RgbToHsv(c) = [h |-> F!Turned(FHue(c, high, high - low)), s |-> FSat(high, high - low),
                       v |-> F!Fraction(high, Full)]
  BY DEF F!RgbToHsv, FHue, FSat
<1> HIDE DEF high, low
<1>3. FParts(c, high, low)
  <2>1. \A i \in 1..3 : c[i] \in U
    OBVIOUS
  <2> QED BY <1>1, <1>2, <2>1 DEF FParts
<1> QED BY <1>1, <1>3

\* What is left of red is turned to the other end of the circle.
LEMMA FTurnedIs ==
  ASSUME NEW n \in Int, NEW d
  PROVE  F!Turned(F!Fraction(n, d)) = F!Fraction(IF n < 0 THEN n + 6 * d ELSE n, d)
BY DEF F!Turned, F!Fraction

LEMMA FHsvTyped == ASSUME NEW c \in F!Rgb PROVE F!RgbToHsv(c) \in F!Hsv
<1>1. PICK high, low \in F!Level : FParts(c, high, low)
  BY FHsvIs
<1> DEFINE d == high - low
<1>2. /\ c[1] \in Nat /\ c[2] \in Nat /\ c[3] \in Nat /\ Full \in Nat \ {0} /\ high \in 0..Full
      /\ d \in Nat /\ d <= high
      /\ -d <= c[2] - c[3] /\ c[2] - c[3] <= d /\ -d <= c[3] - c[1] /\ c[3] - c[1] <= d
      /\ -d <= c[1] - c[2] /\ c[1] - c[2] <= d
  BY <1>1, ColourAssumption DEF FParts, F!Level
<1> HIDE DEF d
<1>3. F!Zero \in F!UpTo(6) /\ F!Zero \in F!UpTo(1)
  BY DEF F!Zero, F!Fraction, F!UpTo
<1>4. ASSUME NEW n \in Int, -d <= n, n <= 5 * d, d # 0
      PROVE  F!Turned(F!Fraction(n, d)) \in F!UpTo(6)
  <2> DEFINE k == IF n < 0 THEN n + 6 * d ELSE n
  <2>1. k \in Nat /\ k <= 6 * d /\ d \in Nat \ {0}
    BY <1>2, <1>4
  <2>2. F!Turned(F!Fraction(n, d)) = F!Fraction(k, d)
    BY FTurnedIs
  <2> HIDE DEF k
  <2> QED BY <2>1, <2>2 DEF F!Fraction, F!UpTo
<1>5. F!Turned(FHue(c, high, d)) \in F!UpTo(6)
  <2>1. CASE d = 0
    <3>1. FHue(c, high, d) = F!Zero
      BY <2>1 DEF FHue
    <3>2. F!Turned(F!Zero) = F!Zero
      BY DEF F!Turned, F!Zero, F!Fraction
    <3> QED BY <1>3, <3>1, <3>2
  <2>2. CASE d # 0
    <3>1. \/ FHue(c, high, d) = F!Fraction(c[2] - c[3], d)
          \/ FHue(c, high, d) = F!Fraction(c[3] - c[1] + 2 * d, d)
          \/ FHue(c, high, d) = F!Fraction(c[1] - c[2] + 4 * d, d)
      BY <2>2 DEF FHue
    <3>2. /\ c[2] - c[3] \in Int /\ c[2] - c[3] <= 5 * d
          /\ c[3] - c[1] + 2 * d \in Int /\ -d <= c[3] - c[1] + 2 * d /\ c[3] - c[1] + 2 * d <= 5 * d
          /\ c[1] - c[2] + 4 * d \in Int /\ -d <= c[1] - c[2] + 4 * d /\ c[1] - c[2] + 4 * d <= 5 * d
      BY <1>2
    <3> QED BY <1>2, <1>4, <2>2, <3>1, <3>2
  <2> QED BY <2>1, <2>2
<1>6. FSat(high, d) \in F!UpTo(1)
  BY <1>2, <1>3 DEF FSat, F!Fraction, F!UpTo
<1>7. F!Fraction(high, Full) \in F!UpTo(1)
  BY <1>2 DEF F!Fraction, F!UpTo
<1> QED BY <1>1, <1>5, <1>6, <1>7 DEF FParts, F!Hsv, F!Hue, d

\* The channels of a hue, saturation and value.
LEMMA FRgbTyped == ASSUME NEW c \in F!Hsv PROVE F!HsvToRgb(c) \in F!Rgb
<1> DEFINE hn == c.h.num
           hd == c.h.den
           y == hd - F!Abs((hn % (2 * hd)) - hd)
           whole == c.v.den * c.s.den * hd
           chroma == c.v.num * c.s.num * hd
           x == c.v.num * c.s.num * y
           m == c.v.num * c.s.den * hd - chroma
           rgb == CASE hn < hd -> <<chroma, x, 0>>
                    [] hd <= hn /\ hn < 2 * hd -> <<x, chroma, 0>>
                    [] 2 * hd <= hn /\ hn < 3 * hd -> <<0, chroma, x>>
                    [] 3 * hd <= hn /\ hn < 4 * hd -> <<0, x, chroma>>
                    [] 4 * hd <= hn /\ hn < 5 * hd -> <<x, 0, chroma>>
                    [] OTHER -> <<chroma, 0, x>>
<1>1. /\ Full \in Nat /\ hn \in Nat /\ hd \in Nat \ {0}
      /\ c.v.num \in Nat /\ c.v.den \in Nat \ {0} /\ c.v.num <= c.v.den
      /\ c.s.num \in Nat /\ c.s.den \in Nat \ {0} /\ c.s.num <= c.s.den
  BY ColourAssumption DEF F!Hsv, F!Hue, F!UpTo
<1>2. y \in Nat /\ y <= hd
  <2>1. hn % (2 * hd) \in 0..(2 * hd - 1)
    BY <1>1
  <2> QED BY <1>1, <2>1 DEF F!Abs
<1> HIDE DEF y, hn, hd
<1>3. c.v.num * c.s.num \in Nat /\ c.v.num * c.s.num <= c.v.num * c.s.den
      /\ c.v.num * c.s.den \in Nat /\ c.v.num * c.s.den <= c.v.den * c.s.den
      /\ c.v.den * c.s.den \in Nat \ {0}
  BY <1>1
<1>4. chroma \in Nat /\ chroma <= c.v.num * c.s.den * hd /\ c.v.num * c.s.den * hd <= whole
      /\ whole \in Nat \ {0} /\ c.v.num * c.s.den * hd \in Nat
  BY <1>1, <1>3
<1>5. x \in Nat /\ x <= chroma
  BY <1>1, <1>2, <1>3
<1> HIDE DEF x, chroma, whole
<1>6. \A n \in {0, x, chroma} : n + m \in Nat /\ n + m <= whole
  BY <1>4, <1>5
<1>7. rgb[1] \in {0, x, chroma} /\ rgb[2] \in {0, x, chroma} /\ rgb[3] \in {0, x, chroma}
  <2> HIDE DEF m
  <2> QED OBVIOUS
<1>8. F!HsvToRgb(c) = [i \in 1..3 |-> F!Rounded(Full * (rgb[i] + m), whole)]
  BY DEF F!HsvToRgb, y, hn, hd, x, chroma, whole
<1> HIDE DEF rgb, m
<1>9. \A i \in 1..3 : F!Rounded(Full * (rgb[i] + m), whole) \in F!Level
  <2>1. ASSUME NEW n \in {0, x, chroma} PROVE F!Rounded(Full * (n + m), whole) \in F!Level
    <3>1. Full * (n + m) \in Nat /\ Full * (n + m) <= Full * whole
      BY <1>1, <1>4, <1>6
    <3> QED BY <1>4, <3>1, FRound
  <2> QED BY <1>7, <2>1
<1>10. F!HsvToRgb(c) = <<F!Rounded(Full * (rgb[1] + m), whole), F!Rounded(Full * (rgb[2] + m), whole),
                         F!Rounded(Full * (rgb[3] + m), whole)>>
  BY <1>8
<1> QED BY <1>9, <1>10 DEF F!Rgb

---------------------------------------------------------------------------
\* The second channel rises and falls with the hue.
LEMMA FTent ==
  ASSUME NEW d \in Nat \ {0}, NEW k \in {0, 2, 4, 6}, NEW a \in -d..d, k * d + a >= 0
  PROVE  d - F!Abs(((k * d + a) % (2 * d)) - d) = F!Abs(a)
<1>1. PICK j \in 0..3 : k = 2 * j
  <2>1. 0 = 2 * 0 /\ 2 = 2 * 1 /\ 4 = 2 * 2 /\ 6 = 2 * 3
    OBVIOUS
  <2> QED BY <2>1
<1>2. k * d + a \in Int /\ 2 * d \in Nat \ {0} /\ (2 * d) * j = k * d /\ j \in Int
      /\ (2 * d) * (j - 1) = k * d - 2 * d
  BY <1>1
<1>3. CASE a >= 0
  <2>1. a \in Nat /\ a < 2 * d /\ k * d + a = (2 * d) * j + a
    BY <1>2, <1>3
  <2>2. (k * d + a) % (2 * d) = a
    BY <1>2, <2>1, FDivided
  <2> QED BY <1>3, <2>2 DEF F!Abs
<1>4. CASE a < 0
  <2>1. 2 * d + a \in Nat /\ 2 * d + a < 2 * d /\ k * d + a = (2 * d) * (j - 1) + (2 * d + a)
        /\ j - 1 \in Int
    BY <1>2, <1>4
  <2>2. (k * d + a) % (2 * d) = 2 * d + a
    BY <1>2, <2>1, FDivided
  <2> QED BY <1>4, <2>2 DEF F!Abs
<1> QED BY <1>3, <1>4

\* Where the channels are, by the sixth of the circle the hue is in.
FSixth(h, d, high, mid, low, r) ==
  \/ h < d /\ r = <<high, mid, low>>
  \/ d <= h /\ h < 2 * d /\ r = <<mid, high, low>>
  \/ 2 * d <= h /\ h < 3 * d /\ r = <<low, high, mid>>
  \/ 3 * d <= h /\ h < 4 * d /\ r = <<low, mid, high>>
  \/ 4 * d <= h /\ h < 5 * d /\ r = <<mid, low, high>>
  \/ 5 * d <= h /\ r = <<high, low, mid>>

\* What the hue and the saturation of three channels are.
FFits(high, mid, low, hn, hd, sn, sd, r) ==
  /\ high \in F!Level /\ mid \in F!Level /\ low \in F!Level /\ low <= mid /\ mid <= high
  /\ hn \in Nat /\ hd \in Nat \ {0} /\ sn \in Nat /\ sd \in Nat \ {0}
  /\ high * sn = (high - low) * sd
  /\ (high - low) * (hd - F!Abs((hn % (2 * hd)) - hd)) = (mid - low) * hd
  /\ FSixth(hn, hd, high, mid, low, r)

\* Channels that are whole come out as they are, however fine the fractions.
LEMMA FChannels ==
  ASSUME NEW high, NEW mid, NEW low, NEW hn, NEW hd, NEW sn, NEW sd, NEW r,
         FFits(high, mid, low, hn, hd, sn, sd, r)
  PROVE  F!HsvToRgb([h |-> F!Fraction(hn, hd), s |-> F!Fraction(sn, sd), v |-> F!Fraction(high, Full)]) = r
<1> DEFINE c == [h |-> F!Fraction(hn, hd), s |-> F!Fraction(sn, sd), v |-> F!Fraction(high, Full)]
           y == hd - F!Abs((hn % (2 * hd)) - hd)
           K == sd * hd
           whole == Full * sd * hd
           chroma == high * sn * hd
           x == high * sn * y
           m == high * sd * hd - chroma
           rgb == CASE hn < hd -> <<chroma, x, 0>>
                    [] hd <= hn /\ hn < 2 * hd -> <<x, chroma, 0>>
                    [] 2 * hd <= hn /\ hn < 3 * hd -> <<0, chroma, x>>
                    [] 3 * hd <= hn /\ hn < 4 * hd -> <<0, x, chroma>>
                    [] 4 * hd <= hn /\ hn < 5 * hd -> <<x, 0, chroma>>
                    [] OTHER -> <<chroma, 0, x>>
<1>0. /\ high \in F!Level /\ mid \in F!Level /\ low \in F!Level /\ low <= mid /\ mid <= high
      /\ hn \in Nat /\ hd \in Nat \ {0} /\ sn \in Nat /\ sd \in Nat \ {0}
      /\ high * sn = (high - low) * sd
      /\ (high - low) * y = (mid - low) * hd
      /\ FSixth(hn, hd, high, mid, low, r)
  BY DEF FFits
<1>1. Full \in Nat \ {0} /\ high \in Nat /\ mid \in Nat /\ low \in Nat
  BY <1>0, ColourAssumption DEF F!Level
<1>2. K \in Nat \ {0} /\ Full * K \in Nat \ {0} /\ whole = Full * K
  BY <1>0, <1>1
<1>3. y \in Int
  <2>1. hn % (2 * hd) \in Int
    BY <1>0
  <2> QED BY <1>0, <2>1 DEF F!Abs
<1>4. F!HsvToRgb(c) = [i \in 1..3 |-> F!Rounded(Full * (rgb[i] + m), whole)]
  BY DEF F!HsvToRgb, F!Fraction
<1>5. chroma = (high - low) * K
  <2>1. chroma = (high - low) * sd * hd
    BY <1>0
  <2> QED BY <1>0, <1>1, <2>1
<1>6. x = (mid - low) * K
  <2> HIDE DEF y
  <2>1. x = ((high - low) * sd) * y
    BY <1>0
  <2>2. ((high - low) * sd) * y = ((high - low) * y) * sd
    BY <1>0, <1>1, <1>3
  <2>3. (high - low) * y = (mid - low) * hd
    BY <1>0
  <2>4. ((mid - low) * hd) * sd = (mid - low) * K
    BY <1>0, <1>1
  <2> QED BY <2>1, <2>2, <2>3, <2>4
<1>7. m = high * K - (high - low) * K
  BY <1>0, <1>1, <1>5
<1> HIDE DEF x, m, chroma, whole, K
<1>8. 0 + m = low * K /\ chroma + m = high * K /\ x + m = mid * K
  <2>1. high * K = low * K + (high - low) * K /\ mid * K = low * K + (mid - low) * K
        /\ low * K \in Int /\ (high - low) * K \in Int /\ (mid - low) * K \in Int /\ high * K \in Int
    BY <1>1, <1>2
  <2> QED BY <1>5, <1>6, <1>7, <2>1
<1>9. ASSUME NEW n \in Nat PROVE F!Rounded(Full * (n * K), whole) = n
  <2>1. Full * (n * K) = n * (Full * K)
    BY <1>1, <1>2
  <2> QED BY <1>2, <2>1, FWhole
<1>10. F!Rounded(Full * (0 + m), whole) = low /\ F!Rounded(Full * (chroma + m), whole) = high
       /\ F!Rounded(Full * (x + m), whole) = mid
  BY <1>1, <1>8, <1>9
<1>11. F!HsvToRgb(c) = <<F!Rounded(Full * (rgb[1] + m), whole), F!Rounded(Full * (rgb[2] + m), whole),
                         F!Rounded(Full * (rgb[3] + m), whole)>>
  <2> HIDE DEF rgb, c
  <2> QED BY <1>4
<1> HIDE DEF c
<1>12. F!HsvToRgb(c) = r
  BY <1>0, <1>10, <1>11 DEF FSixth
<1> QED BY <1>12 DEF c

\* The second largest channel is as far above the lowest as the hue is from the
\* largest.
FFound(c, high, low, k, n, mid) ==
  LET d == high - low IN
  /\ k \in {0, 2, 4, 6} /\ n \in -d..d /\ mid \in F!Level /\ mid - low = F!Abs(n)
  /\ k * d + n >= 0 /\ FSixth(k * d + n, d, high, mid, low, c)
  /\ F!Turned(FHue(c, high, d)) = F!Fraction(k * d + n, d)

LEMMA FMiddle ==
  ASSUME NEW c \in F!Rgb, NEW high \in F!Level, NEW low \in F!Level, FParts(c, high, low), high # low
  PROVE  \E k \in {0, 2, 4, 6}, n \in Int, mid \in F!Level : FFound(c, high, low, k, n, mid)
<1> DEFINE d == high - low
<1>1. /\ c[1] \in Nat /\ c[2] \in Nat /\ c[3] \in Nat /\ high \in Nat /\ low \in Nat /\ d \in Nat \ {0}
      /\ high = c[1] \/ high = c[2] \/ high = c[3]
      /\ low = c[1] \/ low = c[2] \/ low = c[3]
      /\ low <= c[1] /\ low <= c[2] /\ low <= c[3] /\ c[1] <= high /\ c[2] <= high /\ c[3] <= high
      /\ c = <<c[1], c[2], c[3]>> /\ c[1] \in F!Level /\ c[2] \in F!Level /\ c[3] \in F!Level
      /\ high = low + d
  BY ColourAssumption DEF FParts, F!Level
<1> HIDE DEF d
<1>2. ASSUME NEW k \in {0, 2, 4, 6}, NEW n \in Int, NEW mid \in F!Level,
             n \in -d..d, mid - low = F!Abs(n), k * d + n >= 0,
             FSixth(k * d + n, d, high, mid, low, c),
             F!Turned(FHue(c, high, d)) = F!Fraction(k * d + n, d)
      PROVE  \E i \in {0, 2, 4, 6}, j \in Int, l \in F!Level : FFound(c, high, low, i, j, l)
  <2>1. FFound(c, high, low, k, n, mid)
    BY <1>2 DEF FFound, d
  <2> QED BY <2>1
<1>3. \A n \in Int, k \in {0, 2, 4} : n + k * d >= 0 =>
        F!Turned(F!Fraction(n + k * d, d)) = F!Fraction(k * d + n, d)
  <2> SUFFICES ASSUME NEW n \in Int, NEW k \in {0, 2, 4}, n + k * d >= 0
               PROVE  F!Turned(F!Fraction(n + k * d, d)) = F!Fraction(k * d + n, d)
    OBVIOUS
  <2>1. n + k * d \in Int /\ n + k * d = k * d + n
    BY <1>1
  <2> QED BY <2>1, FTurnedIs
<1>4. CASE high = c[1]
  <2> DEFINE n == c[2] - c[3]
  <2>1. n \in Int /\ n \in -d..d /\ FHue(c, high, d) = F!Fraction(n, d)
    BY <1>1, <1>4 DEF FHue
  <2>2. CASE n >= 0
    <3>1. low = c[3] /\ F!Abs(n) = c[2] - low /\ 0 * d + n = n
      BY <1>1, <1>4, <2>1, <2>2 DEF F!Abs
    <3>2. FSixth(0 * d + n, d, high, c[2], low, c)
      BY <1>1, <1>4, <2>1, <2>2, <3>1 DEF FSixth
    <3>3. F!Turned(FHue(c, high, d)) = F!Fraction(0 * d + n, d)
      <4> HIDE DEF n
      <4> QED BY <2>1, <2>2, <3>1, FTurnedIs
    <3> HIDE DEF n
    <3> QED BY <1>1, <1>2, <2>1, <2>2, <3>1, <3>2, <3>3
  <2>3. CASE n < 0
    <3>1. low = c[2] /\ F!Abs(n) = c[3] - low /\ 6 * d + n = n + 6 * d /\ 6 * d + n >= 0
      BY <1>1, <1>4, <2>1, <2>3 DEF F!Abs
    <3>2. FSixth(6 * d + n, d, high, c[3], low, c)
      BY <1>1, <1>4, <2>1, <2>3, <3>1 DEF FSixth
    <3>3. F!Turned(FHue(c, high, d)) = F!Fraction(6 * d + n, d)
      <4> HIDE DEF n
      <4> QED BY <2>1, <2>3, <3>1, FTurnedIs
    <3> HIDE DEF n
    <3> QED BY <1>1, <1>2, <2>1, <2>3, <3>1, <3>2, <3>3
  <2> QED BY <2>1, <2>2, <2>3
<1>5. CASE high # c[1] /\ high = c[2]
  <2> DEFINE n == c[3] - c[1]
  <2>1. n \in Int /\ n \in -d..d /\ FHue(c, high, d) = F!Fraction(n + 2 * d, d)
    BY <1>1, <1>5 DEF FHue
  <2>2. n + 2 * d >= 0 /\ 2 * d + n >= 0
    BY <1>1, <2>1
  <2>3. F!Turned(FHue(c, high, d)) = F!Fraction(2 * d + n, d)
    <3> HIDE DEF n
    <3> QED BY <1>3, <2>1, <2>2
  <2>4. CASE n >= 0
    <3>1. low = c[1] /\ F!Abs(n) = c[3] - low
      BY <1>1, <1>5, <2>1, <2>4 DEF F!Abs
    <3>2. FSixth(2 * d + n, d, high, c[3], low, c)
      BY <1>1, <1>5, <2>1, <2>4, <3>1 DEF FSixth
    <3> HIDE DEF n
    <3> QED BY <1>1, <1>2, <2>1, <2>2, <2>3, <3>1, <3>2
  <2>5. CASE n < 0
    <3>1. low = c[3] /\ F!Abs(n) = c[1] - low
      BY <1>1, <1>5, <2>1, <2>5 DEF F!Abs
    <3>2. FSixth(2 * d + n, d, high, c[1], low, c)
      BY <1>1, <1>5, <2>1, <2>5, <3>1 DEF FSixth
    <3> HIDE DEF n
    <3> QED BY <1>1, <1>2, <2>1, <2>2, <2>3, <3>1, <3>2
  <2> QED BY <2>1, <2>4, <2>5
<1>6. CASE high # c[1] /\ high # c[2]
  <2> DEFINE n == c[1] - c[2]
  <2>1. n \in Int /\ n \in -d..d /\ FHue(c, high, d) = F!Fraction(n + 4 * d, d) /\ high = c[3]
    BY <1>1, <1>6 DEF FHue
  <2>2. n + 4 * d >= 0 /\ 4 * d + n >= 0
    BY <1>1, <2>1
  <2>3. F!Turned(FHue(c, high, d)) = F!Fraction(4 * d + n, d)
    <3> HIDE DEF n
    <3> QED BY <1>3, <2>1, <2>2
  <2>4. CASE n >= 0
    <3>1. low = c[2] /\ F!Abs(n) = c[1] - low
      BY <1>1, <1>6, <2>1, <2>4 DEF F!Abs
    <3>2. FSixth(4 * d + n, d, high, c[1], low, c)
      BY <1>1, <1>6, <2>1, <2>4, <3>1 DEF FSixth
    <3> HIDE DEF n
    <3> QED BY <1>1, <1>2, <2>1, <2>2, <2>3, <3>1, <3>2
  <2>5. CASE n < 0
    <3>1. low = c[1] /\ F!Abs(n) = c[2] - low
      BY <1>1, <1>6, <2>1, <2>5 DEF F!Abs
    <3>2. FSixth(4 * d + n, d, high, c[2], low, c)
      BY <1>1, <1>6, <2>1, <2>5, <3>1 DEF FSixth
    <3> HIDE DEF n
    <3> QED BY <1>1, <1>2, <2>1, <2>2, <2>3, <3>1, <3>2
  <2> QED BY <2>1, <2>4, <2>5
<1> QED BY <1>4, <1>5, <1>6

\* A colour survives the conversion to a hue, saturation and value and back.
LEMMA FExact == ASSUME NEW c \in F!Rgb PROVE F!HsvToRgb(F!RgbToHsv(c)) = c
<1>1. PICK high, low \in F!Level : FParts(c, high, low)
  BY FHsvIs
<1> DEFINE d == high - low
<1>2. /\ high \in Nat /\ low \in Nat /\ d \in Nat /\ high = low + d
      /\ \A i \in 1..3 : low <= c[i] /\ c[i] <= high
      /\ c = <<c[1], c[2], c[3]>>
      /\ F!RgbToHsv(c) = [h |-> F!Turned(FHue(c, high, d)), s |-> FSat(high, d), v |-> F!Fraction(high, Full)]
  <2>1. low <= high
    BY <1>1, ColourAssumption DEF FParts, F!Level
  <2> QED BY <1>1, <2>1, ColourAssumption DEF FParts, F!Level
<1>3. ASSUME NEW sn, NEW sd, FSat(high, d) = F!Fraction(sn, sd), NEW hn, NEW hd,
             F!Turned(FHue(c, high, d)) = F!Fraction(hn, hd)
      PROVE  F!RgbToHsv(c) = [h |-> F!Fraction(hn, hd), s |-> F!Fraction(sn, sd), v |-> F!Fraction(high, Full)]
  BY <1>2, <1>3
<1> HIDE DEF d
<1>4. PICK sn \in Nat, sd \in Nat \ {0} : FSat(high, d) = F!Fraction(sn, sd) /\ high * sn = d * sd
  <2>1. CASE high = 0
    <3>1. FSat(high, d) = F!Fraction(0, 1) /\ high * 0 = d * 1
      BY <1>2, <2>1 DEF FSat, F!Zero
    <3> QED BY <3>1
  <2>2. CASE high # 0
    <3>1. FSat(high, d) = F!Fraction(d, high) /\ high * d = d * high /\ high \in Nat \ {0}
      BY <1>2, <2>2 DEF FSat
    <3> QED BY <1>2, <3>1
  <2> QED BY <2>1, <2>2
<1>5. CASE d = 0
  <2>1. F!Turned(FHue(c, high, d)) = F!Fraction(0, 1)
    BY <1>5 DEF FHue, F!Turned, F!Zero, F!Fraction
  <2>2. c[1] = low /\ c[2] = low /\ c[3] = low /\ high = low
    <3>1. 1 \in 1..3 /\ 2 \in 1..3 /\ 3 \in 1..3
      OBVIOUS
    <3>2. c[1] \in Int /\ c[2] \in Int /\ c[3] \in Int
      BY <1>1, ColourAssumption DEF FParts, F!Level
    <3> QED BY <1>2, <1>5, <3>1, <3>2
  <2>3. FSixth(0, 1, high, low, low, c)
    BY <1>2, <2>2 DEF FSixth
  <2>4. (high - low) * (1 - F!Abs((0 % (2 * 1)) - 1)) = (low - low) * 1
    <3>1. 1 - F!Abs((0 % (2 * 1)) - 1) = 0
      BY DEF F!Abs
    <3> QED BY <1>2, <3>1
  <2>5. high * sn = (high - low) * sd
    BY <1>4 DEF d
  <2>6. F!HsvToRgb([h |-> F!Fraction(0, 1), s |-> F!Fraction(sn, sd), v |-> F!Fraction(high, Full)]) = c
    <3>1. FFits(high, low, low, 0, 1, sn, sd, c)
      BY <1>2, <2>2, <2>3, <2>4, <2>5 DEF FFits
    <3> QED BY <3>1, FChannels
  <2> QED BY <1>3, <1>4, <2>1, <2>6
<1>6. CASE d # 0
  <2>1. PICK k \in {0, 2, 4, 6}, n \in Int, mid \in F!Level : FFound(c, high, low, k, n, mid)
    <3>1. high # low
      BY <1>2, <1>6
    <3> QED BY <1>1, <3>1, FMiddle
  <2>2. /\ n \in -d..d /\ mid - low = F!Abs(n) /\ k * d + n >= 0
        /\ FSixth(k * d + n, d, high, mid, low, c)
        /\ F!Turned(FHue(c, high, d)) = F!Fraction(k * d + n, d)
    BY <2>1 DEF FFound, d
  <2>3. d \in Nat \ {0} /\ k * d + n \in Nat /\ mid \in Nat
    <3>1. k * d \in Int /\ mid \in Nat
      BY <1>2, ColourAssumption DEF F!Level
    <3> QED BY <1>2, <1>6, <2>2, <3>1
  <2>4. low <= mid /\ mid <= high
    <3>1. 0 <= F!Abs(n) /\ F!Abs(n) <= d
      BY <2>2, <2>3 DEF F!Abs
    <3> QED BY <1>2, <2>2, <2>3, <3>1
  <2>5. (high - low) * (d - F!Abs(((k * d + n) % (2 * d)) - d)) = (mid - low) * d
    <3>1. d - F!Abs(((k * d + n) % (2 * d)) - d) = mid - low
      BY <2>2, <2>3, FTent
    <3>2. high - low = d
      BY DEF d
    <3>3. d * (mid - low) = (mid - low) * d
      BY <1>2, <2>3
    <3> QED BY <3>1, <3>2, <3>3
  <2>6. high * sn = (high - low) * sd
    BY <1>4 DEF d
  <2>7. F!HsvToRgb([h |-> F!Fraction(k * d + n, d), s |-> F!Fraction(sn, sd),
                    v |-> F!Fraction(high, Full)]) = c
    <3>1. FFits(high, mid, low, k * d + n, d, sn, sd, c)
      BY <1>1, <1>4, <2>1, <2>2, <2>3, <2>4, <2>5, <2>6 DEF FFits
    <3> QED BY <3>1, FChannels
  <2> QED BY <1>3, <1>4, <2>2, <2>7
<1> QED BY <1>5, <1>6

---------------------------------------------------------------------------
FUi ==
  /\ ui = [value |-> ui.value, open |-> ui.open, hsv |-> ui.hsv, alpha |-> ui.alpha,
           seed |-> ui.seed, moved |-> ui.moved, hue |-> ui.hue]
  /\ ui.value \in F!Text /\ ui.open \in BOOLEAN /\ ui.hsv \in F!Hsv /\ ui.alpha \in F!Opacity
  /\ ui.seed \in F!Text /\ ui.moved \in SUBSET {"sv", "hue", "alpha", "text"} /\ ui.hue \in F!Hue
FSeed == F!ToHexAndAlpha(ui.seed).rgb

\* Until something is typed, the text is what the controls show, once they are
\* moved, and transparency alone leaves them as they were set.
FShown ==
  ui.open /\ "text" \notin ui.moved =>
    /\ ui.hsv.h = ui.hue
    /\ ui.moved = {} => ui.value = ui.seed
    /\ ui.moved # {} => ui.value = F!ComposeColor(F!HsvToRgb(ui.hsv), ui.alpha)
    /\ ui.moved \subseteq {"alpha"} => ui.hsv = F!RgbToHsv(FSeed)
FInv == FUi /\ LogType(MaxEdits - 1) /\ call = F!NoCalls /\ FShown

LEMMA FHex ==
  ASSUME NEW t \in F!Text
  PROVE  F!ToHexAndAlpha(t) \in F!Colour /\ F!ToHexAndAlpha(t).rgb \in F!Rgb
         /\ (F!ToHexAndAlpha(t).alpha = None \/ F!ToHexAndAlpha(t).alpha \in F!Opacity)
<1>1. F!Black \in F!Colour
  <2>1. 0 \in F!Level
    BY ColourAssumption DEF F!Level
  <2>2. <<0, 0, 0>> \in F!Rgb
    BY <2>1 DEF F!Rgb
  <2> QED BY <2>2 DEF F!Black, F!Colour
<1>2. F!ToHexAndAlpha(t) \in F!Colour
  BY <1>1 DEF F!ToHexAndAlpha, F!Text
<1> QED BY <1>2 DEF F!Colour

LEMMA FComposed ==
  ASSUME NEW rgb \in F!Rgb, NEW a \in F!Opacity
  PROVE  LET t == F!ComposeColor(rgb, a) IN
         t \in F!Text /\ t # Word /\ F!ToHexAndAlpha(t).rgb = rgb
<1> DEFINE t == F!ComposeColor(rgb, a)
<1>1. t \in F!Colour /\ t.rgb = rgb
  BY DEF F!ComposeColor, F!Colour
<1> HIDE DEF t
<1>2. t # Word
  BY <1>1, ColourAssumption
<1>3. t \in F!Text /\ t # Word /\ F!ToHexAndAlpha(t).rgb = rgb
  BY <1>1, <1>2 DEF F!Text, F!ToHexAndAlpha
<1> QED BY <1>3 DEF t

LEMMA FInitInv == ASSUME F!Init PROVE FInv
<1>1. PICK text \in F!Text :
        ui = [value |-> text, open |-> FALSE, hsv |-> [h |-> F!Zero, s |-> F!Zero, v |-> F!Zero],
              alpha |-> Opaque, seed |-> text, moved |-> {}, hue |-> F!Zero]
  BY DEF F!Init
<1>2. Opaque \in F!Opacity /\ F!Zero \in F!Hue /\ F!Zero \in F!UpTo(1)
  BY ColourAssumption DEF F!Opacity, F!Hue, F!UpTo, F!Zero, F!Fraction
<1>3. [h |-> F!Zero, s |-> F!Zero, v |-> F!Zero] \in F!Hsv
  BY <1>2 DEF F!Hsv
<1>4. FUi /\ FShown
  BY <1>1, <1>2, <1>3 DEF FUi, FShown
<1>5. LogType(MaxEdits - 1) /\ call = F!NoCalls
  BY BoundsAssumption DEF F!Init, F!NewLog, LogType
<1> QED BY <1>4, <1>5 DEF FInv

\* The admin does something to the field.
LEMMA FChanges ==
  ASSUME FInv, NEW new, F!Changes(new)
  PROVE  ui' = new /\ call' = call /\ db' = db /\ LogType(MaxEdits - 1)' /\ call' = F!NoCalls
<1>1. MaxEdits - 1 \in Nat /\ LogType(MaxEdits - 1) /\ call = F!NoCalls /\ F!Act
      /\ ui' = new /\ call' = call /\ db' = db
  BY BoundsAssumption DEF FInv, F!Changes
<1>2. LogType(MaxEdits - 1)'
  BY <1>1, Acts DEF F!Act
<1> QED BY <1>1, <1>2

LEMMA FEmitInv ==
  ASSUME FInv, ui.open, NEW control \in {"sv", "hue", "alpha"}, NEW hsv \in F!Hsv, NEW a \in F!Opacity,
         F!Emit(control, hsv, a), control # "hue" => hsv.h = ui.hsv.h,
         control = "alpha" => hsv = ui.hsv
  PROVE  FInv'
<1> DEFINE text == F!ComposeColor(F!HsvToRgb(hsv), a)
           moved == ui.moved \cup {control}
           hue == IF control = "hue" THEN hsv.h ELSE ui.hue
<1>1. FUi /\ FShown
  BY DEF FInv
<1>2. F!Changes([ui EXCEPT !.hsv = hsv, !.alpha = a, !.moved = moved, !.hue = hue, !.value = text])
  BY DEF F!Emit
<1>3. text \in F!Text
  BY FRgbTyped, FComposed
<1>4. moved \in SUBSET {"sv", "hue", "alpha", "text"} /\ hue \in F!Hue /\ moved # {}
      /\ ("text" \in moved <=> "text" \in ui.moved)
      /\ (moved \subseteq {"alpha"} => ui.moved \subseteq {"alpha"} /\ control = "alpha")
  BY <1>1 DEF FUi, F!Hsv
<1>5. "text" \notin ui.moved => hue = hsv.h
  BY <1>1 DEF FShown
<1> HIDE DEF text, moved, hue
<1>6. /\ LogType(MaxEdits - 1)' /\ call' = F!NoCalls
      /\ ui' = [ui EXCEPT !.hsv = hsv, !.alpha = a, !.moved = moved, !.hue = hue, !.value = text]
  BY <1>2, FChanges
<1>7. ui' = [value |-> text, open |-> ui.open, hsv |-> hsv, alpha |-> a, seed |-> ui.seed,
             moved |-> moved, hue |-> hue]
  BY <1>1, <1>6 DEF FUi
<1>8. FUi'
  BY <1>1, <1>3, <1>4, <1>7 DEF FUi
<1>9. FShown'
  <2>1. FSeed' = FSeed
    BY <1>7 DEF FSeed
  <2>2. "text" \notin moved /\ moved \subseteq {"alpha"} => hsv = F!RgbToHsv(FSeed)
    BY <1>1, <1>4 DEF FShown
  <2> QED BY <1>4, <1>5, <1>7, <2>1, <2>2 DEF FShown, text
<1>10. call' = F!NoCalls'
  BY <1>6 DEF F!NoCalls
<1> QED BY <1>6, <1>8, <1>9, <1>10 DEF FInv

LEMMA FInductive == FInv /\ [F!Next]_vars => FInv'
<1> SUFFICES ASSUME FInv, [F!Next]_vars PROVE FInv'
  OBVIOUS
<1>1. FUi /\ FShown /\ F!NoCalls' = F!NoCalls
  BY DEF FInv, F!NoCalls
<1>2. CASE UNCHANGED vars
  BY <1>1, <1>2 DEF vars, FInv, FUi, FShown, FSeed, LogType
<1>3. CASE F!OpenPopover
  <2> DEFINE c == F!ToHexAndAlpha(ui.value)
             hsv == F!RgbToHsv(c.rgb)
             a == IF c.alpha = None THEN Opaque ELSE c.alpha
  <2>1. F!Changes([ui EXCEPT !.open = TRUE, !.hsv = hsv, !.alpha = a, !.seed = ui.value,
                             !.moved = {}, !.hue = hsv.h])
    BY <1>3 DEF F!OpenPopover
  <2>2. c.rgb \in F!Rgb /\ (c.alpha = None \/ c.alpha \in F!Opacity)
    BY <1>1, FHex DEF FUi
  <2>3. hsv \in F!Hsv /\ a \in F!Opacity /\ hsv.h \in F!Hue
    <3>1. hsv \in F!Hsv
      BY <2>2, FHsvTyped
    <3>2. Opaque \in F!Opacity
      BY ColourAssumption DEF F!Opacity
    <3> QED BY <2>2, <3>1, <3>2 DEF F!Hsv
  <2>4. hsv = F!RgbToHsv(F!ToHexAndAlpha(ui.value).rgb)
    OBVIOUS
  <2> HIDE DEF c, hsv, a
  <2>5. /\ LogType(MaxEdits - 1)' /\ call' = F!NoCalls
        /\ ui' = [ui EXCEPT !.open = TRUE, !.hsv = hsv, !.alpha = a, !.seed = ui.value,
                            !.moved = {}, !.hue = hsv.h]
    BY <2>1, FChanges
  <2>6. ui' = [value |-> ui.value, open |-> TRUE, hsv |-> hsv, alpha |-> a, seed |-> ui.value,
               moved |-> {}, hue |-> hsv.h]
    BY <1>1, <2>5 DEF FUi
  <2>7. FUi'
    BY <1>1, <2>3, <2>6 DEF FUi
  <2>8. FShown'
    BY <2>4, <2>6 DEF FShown, FSeed
  <2> QED BY <1>1, <2>5, <2>7, <2>8 DEF FInv
<1>4. CASE F!Close
  <2>1. /\ LogType(MaxEdits - 1)' /\ call' = F!NoCalls /\ ui' = [ui EXCEPT !.open = FALSE]
    BY <1>4, FChanges DEF F!Close
  <2>2. ui' = [value |-> ui.value, open |-> FALSE, hsv |-> ui.hsv, alpha |-> ui.alpha,
               seed |-> ui.seed, moved |-> ui.moved, hue |-> ui.hue]
    BY <1>1, <2>1 DEF FUi
  <2> QED BY <1>1, <2>1, <2>2 DEF FInv, FUi, FShown
<1>5. ASSUME NEW i \in 0..Steps, NEW j \in 0..Steps,
             F!UpdateFromSvEvent(F!Fraction(i, Steps), F!Fraction(j, Steps))
      PROVE  FInv'
  <2> DEFINE hsv == [ui.hsv EXCEPT !.s = F!Fraction(i, Steps), !.v = F!Fraction(j, Steps)]
  <2>1. ui.open /\ F!Emit("sv", hsv, ui.alpha)
    BY <1>5 DEF F!UpdateFromSvEvent
  <2>2. F!Fraction(i, Steps) \in F!UpTo(1) /\ F!Fraction(j, Steps) \in F!UpTo(1)
    BY ColourAssumption DEF F!Fraction, F!UpTo
  <2>3. hsv \in F!Hsv /\ hsv.h = ui.hsv.h /\ ui.alpha \in F!Opacity
    <3>1. ui.hsv \in F!Hsv /\ ui.alpha \in F!Opacity
      BY <1>1 DEF FUi
    <3> QED BY <2>2, <3>1 DEF F!Hsv
  <2> HIDE DEF hsv
  <2> QED BY <2>1, <2>3, FEmitInv
<1>6. ASSUME NEW i \in 0..6 * Steps, F!ChangeHue(F!Fraction(i, Steps)) PROVE FInv'
  <2> DEFINE hsv == [ui.hsv EXCEPT !.h = F!Fraction(i, Steps)]
  <2>1. ui.open /\ F!Emit("hue", hsv, ui.alpha)
    BY <1>6 DEF F!ChangeHue
  <2>2. F!Fraction(i, Steps) \in F!Hue
    BY ColourAssumption DEF F!Fraction, F!UpTo, F!Hue
  <2>3. hsv \in F!Hsv /\ ui.alpha \in F!Opacity
    <3>1. ui.hsv \in F!Hsv /\ ui.alpha \in F!Opacity
      BY <1>1 DEF FUi
    <3> QED BY <2>2, <3>1 DEF F!Hsv
  <2> HIDE DEF hsv
  <2> QED BY <2>1, <2>3, FEmitInv
<1>7. ASSUME NEW a \in F!Opacity, F!ChangeAlpha(a) PROVE FInv'
  <2>1. ui.open /\ F!Emit("alpha", ui.hsv, a) /\ ui.hsv \in F!Hsv
    BY <1>1, <1>7 DEF F!ChangeAlpha, FUi
  <2> QED BY <2>1, FEmitInv
<1>8. ASSUME NEW text \in {Word, [F!Black EXCEPT !.alpha = 0]}, F!TypeText(text) PROVE FInv'
  <2> DEFINE moved == IF ui.open THEN ui.moved \cup {"text"} ELSE ui.moved
  <2>1. F!Changes([ui EXCEPT !.value = text, !.moved = moved])
    BY <1>8 DEF F!TypeText
  <2>2. text \in F!Text
    <3>1. 0 \in F!Level /\ 0 \in F!Opacity
      BY ColourAssumption DEF F!Level, F!Opacity
    <3>2. <<0, 0, 0>> \in F!Rgb
      BY <3>1 DEF F!Rgb
    <3> QED BY <3>1, <3>2 DEF F!Text, F!Colour, F!Black
  <2>3. moved \in SUBSET {"sv", "hue", "alpha", "text"} /\ (ui.open => "text" \in moved)
    BY <1>1 DEF FUi
  <2> HIDE DEF moved
  <2>4. /\ LogType(MaxEdits - 1)' /\ call' = F!NoCalls
        /\ ui' = [ui EXCEPT !.value = text, !.moved = moved]
    BY <2>1, FChanges
  <2>5. ui' = [value |-> text, open |-> ui.open, hsv |-> ui.hsv, alpha |-> ui.alpha,
               seed |-> ui.seed, moved |-> moved, hue |-> ui.hue]
    BY <1>1, <2>4 DEF FUi
  <2>6. FUi' /\ FShown'
    BY <1>1, <2>2, <2>3, <2>5 DEF FUi, FShown
  <2> QED BY <1>1, <2>4, <2>6 DEF FInv
<1> QED BY <1>2, <1>3, <1>4, <1>5, <1>6, <1>7, <1>8 DEF F!Next

LEMMA FTyped == FInv => F!TypeOK
BY DEF FInv, FUi, F!TypeOK

LEMMA FKept == FInv => F!ColourIsKept
<1> SUFFICES ASSUME FInv, ui.open, "text" \notin ui.moved
             PROVE  /\ ui.moved \subseteq {"alpha"} => F!ToHexAndAlpha(ui.value).rgb = FSeed
                    /\ ui.moved # {} =>
                         ui.value = F!ComposeColor(F!HsvToRgb([ui.hsv EXCEPT !.h = ui.hue]), ui.alpha)
  BY DEF F!ColourIsKept, FSeed
<1>1. FUi /\ FShown
  BY DEF FInv
<1>2. [ui.hsv EXCEPT !.h = ui.hue] = ui.hsv
  BY <1>1 DEF FShown, FUi, F!Hsv
<1>3. ASSUME ui.moved \subseteq {"alpha"} PROVE F!ToHexAndAlpha(ui.value).rgb = FSeed
  <2>1. CASE ui.moved = {}
    BY <1>1, <2>1 DEF FShown, FSeed
  <2>2. CASE ui.moved # {}
    <3>1. FSeed \in F!Rgb /\ ui.alpha \in F!Opacity
      BY <1>1, FHex DEF FUi, FSeed
    <3>2. F!HsvToRgb(ui.hsv) = FSeed
      BY <1>1, <1>3, <3>1, FExact DEF FShown
    <3> QED BY <1>1, <2>2, <3>1, <3>2, FComposed DEF FShown
  <2> QED BY <2>1, <2>2
<1> QED BY <1>1, <1>2, <1>3 DEF FShown

\* The controls of the colour picker show the colour of the text they set, with
\* the hue last chosen, until something is typed (ColorField).
THEOREM ColourCorrect == Spec => [](page = "colour" => FInv)
<1>1. Init => (page = "colour" => FInv)
  BY FInitInv DEF Init
<1>2. (page = "colour" => FInv) /\ [Next]_all => (page = "colour" => FInv)'
  BY FInductive DEF Next, all
<1> QED BY <1>1, <1>2, PTL DEF Spec

\* Until something is typed, the popover keeps what it was not told to change:
\* transparency alone leaves the colour it was opened on, and the hue survives
\* black and grey, which have none (ColorField).
THEOREM ColourKept == Spec => []ColourIsKept
<1>1. (page = "colour" => FInv) => ColourIsKept
  BY FKept DEF ColourIsKept
<1> QED BY <1>1, ColourCorrect, PTL

=============================================================================
