------------------------- MODULE OAuthTokensProofs -------------------------
(***************************************************************************)
(* Theorems about OAuthTokens.                                             *)
(*                                                                         *)
(* Attempts, consents and tokens form a chain: a request that exchanges a  *)
(* code holds an attempt that is used up, a consent belongs to the attempt *)
(* it was given in, and a token or a refresh belongs to the instance that  *)
(* attempt was begun for.  Of a consent's refresh tokens, the one that is  *)
(* on its way into the table is held by one request only.                  *)
(***************************************************************************)
EXTENDS OAuthTokens, TLAPS

Holding == {"refresh", "save", "newkey", "insert"}
OnItsWay == {"save", "newkey", "insert"}

\* What a process has at its place.
Places ==
  \A p \in Procs :
    /\ pc[p] # "idle" => work[p] \in Work
    /\ pc[p] = "exchange" => work[p].state \in States /\ work[p].turn = 1
    /\ pc[p] \in Holding => work[p].grant \in Grants
    /\ pc[p] \in {"newkey", "insert"} => work[p].key \in Keys

\* An attempt that has led to a request or to a consent is used up.
Attempts ==
  /\ \A p \in Procs : pc[p] = "exchange" =>
       /\ pending[work[p].state] = "gone"
       /\ begun[work[p].state] = work[p].id
       /\ \A g \in Grants : from[g] # work[p].state
       /\ \A q \in Procs : pc[q] = "exchange" /\ work[q].state = work[p].state => q = p
  /\ \A g \in Grants : from[g] # NoState => pending[from[g]] = "gone"
  /\ \A g \in Grants : current[g] = 0 <=> from[g] = NoState

\* Token material belongs to the instance its consent was asked for.
Owners ==
  /\ \A i \in Ids : token[i] # NoToken =>
       from[token[i].grant] # NoState /\ begun[from[token[i].grant]] = i
  /\ \A p \in Procs : pc[p] \in Holding =>
       from[work[p].grant] # NoState /\ begun[from[work[p].grant]] = work[p].id

\* No refresh token is newer than the one the provider accepts, and without
\* rotation there is only one.
Known ==
  /\ \A i \in Ids : token[i] # NoToken => token[i].turn <= current[token[i].grant]
  /\ \A p \in Procs : pc[p] \in Holding => work[p].turn <= current[work[p].grant]
  /\ ~Rotates => \A g \in Grants : current[g] <= 1

\* A rotated refresh token on its way is nowhere else ...
SoleHolder ==
  Rotates => \A p \in Procs : pc[p] \in OnItsWay =>
    /\ \A i \in Ids : token[i] # NoToken /\ token[i].grant = work[p].grant
                        => token[i].turn # work[p].turn
    /\ \A q \in Procs : pc[q] \in Holding /\ work[q].grant = work[p].grant
                          /\ work[q].turn = work[p].turn => q = p

\* ... and is the accepted one, unless that was lost.
CarriesCurrent ==
  \A p \in Procs : pc[p] \in OnItsWay =>
    work[p].turn = current[work[p].grant] \/ work[p].grant \in spoiled

IInv ==
  /\ TypeOK /\ Places /\ Attempts /\ Owners /\ TokenHasInstance
  /\ Known /\ SoleHolder /\ CarriesCurrent /\ StoredRefreshCurrent /\ StateUsedOnce
---------------------------------------------------------------------------
LEMMA InitInv == Init => IInv
<1>. SUFFICES ASSUME Init PROVE IInv
  OBVIOUS
<1>1. TypeOK
  BY OAuthAssumption DEF Init, TypeOK, Labels
<1>2. Places /\ Attempts /\ Owners /\ TokenHasInstance
  BY DEF Init, Places, Attempts, Owners, TokenHasInstance, Holding
<1>3. Known /\ SoleHolder /\ CarriesCurrent /\ StoredRefreshCurrent /\ StateUsedOnce
  BY DEF Init, Known, SoleHolder, CarriesCurrent, StoredRefreshCurrent, StateUsedOnce, Holding, OnItsWay
<1>. QED  BY <1>1, <1>2, <1>3 DEF IInv


---------------------------------------------------------------------------
(* What the steps of a process do to its work.                             *)

LEMMA WorkType ==
  ASSUME NEW w \in Work
  PROVE  /\ \A g \in Grants : [w EXCEPT !.grant = g] \in Work
         /\ \A n \in Turns : [w EXCEPT !.turn = n] \in Work
         /\ \A k \in Keys : [w EXCEPT !.key = k] \in Work
  BY DEF Work

\* Work that begins with an attempt or with a stored token.
LEMMA BegunType ==
  /\ \A i \in Ids, s \in States :
       [id |-> i, grant |-> NoGrant, turn |-> 1, key |-> NoKey, state |-> s] \in Work
  /\ \A i \in Ids, t \in Token :
       [id |-> i, grant |-> t.grant, turn |-> t.turn, key |-> NoKey, state |-> NoState] \in Work
  BY OAuthAssumption DEF Work, Token, Turns

LEMMA CallbackEffect ==
  ASSUME TypeOK, NEW b \in Browsers, Callback(b)
  PROVE  /\ pc[b] = "idle"
         /\ \A q \in Procs \ {b} : pc'[q] = pc[q] /\ work'[q] = work[q]
         /\ \A s \in States : pending[s] \in {"unused", "gone"} => pending'[s] = pending[s]
         /\ \/ pc' = pc /\ work' = work
            \/ \E s \in States :
                 /\ pending[s] = "open" /\ pending'[s] = "gone"
                 /\ pc'[b] = "exchange"
                 /\ work'[b].id = begun[s] /\ work'[b].state = s
  BY OAuthAssumption DEF Callback, TypeOK, Goto, Procs

\* The consent is a new one.
LEMMA ExchangeEffect ==
  ASSUME TypeOK, Places, NEW b \in Browsers, Exchange(b)
  PROVE  /\ pc[b] = "exchange" /\ work[b] \in Work /\ work[b].state \in States
         /\ \A q \in Procs \ {b} : pc'[q] = pc[q] /\ work'[q] = work[q]
         /\ \/ pc'[b] = "idle" /\ current' = current /\ from' = from
            \/ \E g \in Grants :
                 /\ current[g] = 0
                 /\ current' = [current EXCEPT ![g] = 1]
                 /\ from' = [from EXCEPT ![g] = work[b].state]
                 /\ pc'[b] = "save"
                 /\ work'[b].grant = g
                 /\ work'[b].id = work[b].id /\ work'[b].turn = work[b].turn
<1>1. pc[b] = "exchange" /\ work[b] \in Work /\ work[b].state \in States
  BY DEF Exchange, Places, Procs
<1>2. \A q \in Procs \ {b} : pc'[q] = pc[q] /\ work'[q] = work[q]
  BY DEF Exchange, TypeOK, Goto, Return
<1>3. CASE Return(b) /\ UNCHANGED provider
  BY <1>1, <1>2, <1>3 DEF Return, Goto, provider, TypeOK, Procs
<1>4. ASSUME NEW g \in Grants, current[g] = 0, current' = [current EXCEPT ![g] = 1],
             from' = [from EXCEPT ![g] = work[b].state],
             work' = [work EXCEPT ![b].grant = g], Goto(b, "save")
      PROVE  /\ pc'[b] = "save" /\ work'[b].grant = g
             /\ work'[b].id = work[b].id /\ work'[b].turn = work[b].turn
  BY <1>1, <1>4 DEF Goto, TypeOK, Procs, Work
<1>. QED
  BY <1>1, <1>2, <1>3, <1>4 DEF Exchange

LEMMA LoadTokenEffect ==
  ASSUME TypeOK, NEW r \in Refreshers, LoadToken(r)
  PROVE  /\ pc[r] = "idle" /\ pc'[r] = "refresh"
         /\ \A q \in Procs \ {r} : pc'[q] = pc[q] /\ work'[q] = work[q]
         /\ \E i \in Ids : /\ token[i] # NoToken
                           /\ work'[r].id = i /\ work'[r].grant = token[i].grant
                           /\ work'[r].turn = token[i].turn
  BY DEF LoadToken, TypeOK, Goto, Procs

\* The provider accepted r's refresh token, and accepts n from now on.
Rotated(r, n) ==
  /\ work[r].turn = current[work[r].grant] /\ n \in Turns
  /\ n = IF Rotates THEN current[work[r].grant] + 1 ELSE current[work[r].grant]
  /\ current' = [current EXCEPT ![work[r].grant] = n]

LEMMA RefreshEffect ==
  ASSUME TypeOK, Places, NEW r \in Refreshers, Refresh(r)
  PROVE  /\ pc[r] = "refresh" /\ work[r] \in Work /\ work[r].grant \in Grants
         /\ \A q \in Procs \ {r} : pc'[q] = pc[q] /\ work'[q] = work[q]
         /\ \/ pc'[r] = "idle" /\ current' = current /\ spoiled' = spoiled
            \/ \E n \in Turns :
                 /\ Rotated(r, n)
                 /\ \/ /\ pc'[r] = "save" /\ spoiled' = spoiled
                       /\ work'[r].grant = work[r].grant
                       /\ work'[r].id = work[r].id /\ work'[r].turn = n
                    \/ pc'[r] = "idle" /\ spoiled' = spoiled \cup {work[r].grant}
<1>1. pc[r] = "refresh" /\ work[r] \in Work /\ work[r].grant \in Grants
  BY DEF Refresh, Places, Procs, Holding
<1>2. \A q \in Procs \ {r} : pc'[q] = pc[q] /\ work'[q] = work[q]
  BY DEF Refresh, TypeOK, Goto, Return
<1>3. CASE Return(r) /\ UNCHANGED <<current, spoiled>>
  BY <1>1, <1>2, <1>3 DEF Return, Goto, TypeOK, Procs
<1>4. ASSUME NEW n \in Turns, Rotated(r, n), work' = [work EXCEPT ![r].turn = n],
             Goto(r, "save"), UNCHANGED spoiled
      PROVE  /\ pc'[r] = "save" /\ work'[r].grant = work[r].grant
             /\ work'[r].id = work[r].id /\ work'[r].turn = n
  BY <1>1, <1>4 DEF Goto, TypeOK, Procs, Work
<1>5. ASSUME NEW n \in Turns, Rotated(r, n), Return(r)
      PROVE  pc'[r] = "idle"
  BY <1>5 DEF Return, Goto, TypeOK, Procs
<1>. QED
  BY <1>1, <1>2, <1>3, <1>4, <1>5 DEF Refresh, Rotated

LEMMA LoadKeyEffect ==
  ASSUME TypeOK, Places, NEW p \in Procs, LoadKey(p)
  PROVE  /\ pc[p] = "save" /\ work[p] \in Work /\ pc'[p] \in {"newkey", "insert"}
         /\ \A q \in Procs \ {p} : pc'[q] = pc[q] /\ work'[q] = work[q]
         /\ work'[p].grant = work[p].grant
         /\ work'[p].id = work[p].id /\ work'[p].turn = work[p].turn
<1>1. pc[p] = "save" /\ work[p] \in Work
  BY DEF LoadKey, Places
<1>2. pc'[p] \in {"newkey", "insert"}
      /\ \A q \in Procs \ {p} : pc'[q] = pc[q] /\ work'[q] = work[q]
  BY DEF LoadKey, TypeOK, Goto
<1>3. \E k \in Keys : work' = [work EXCEPT ![p].key = k]
  BY DEF LoadKey, TypeOK
<1>. QED
  BY <1>1, <1>2, <1>3 DEF TypeOK, Work

LEMMA InsertEffect ==
  ASSUME TypeOK, Places, NEW p \in Procs, Insert(p)
  PROVE  /\ pc[p] = "insert" /\ pc'[p] = "idle" /\ work'[p] = NoToken
         /\ work[p] \in Work /\ work[p].grant \in Grants /\ work[p].key \in Keys
         /\ \A q \in Procs \ {p} : pc'[q] = pc[q] /\ work'[q] = work[q]
         /\ \A i \in Ids \ {work[p].id} : token'[i] = token[i]
         /\ \/ work[p].id \in instances /\ token'[work[p].id] = Stored(p)
            \/ work[p].id \notin instances /\ token' = token
  <1>1. pc[p] = "insert" /\ work[p] \in Work /\ work[p].grant \in Grants /\ work[p].key \in Keys
    BY DEF Insert, Places, Holding
  <1>2. work[p].id \in Ids
    BY <1>1 DEF Work
  <1>. QED
    BY <1>1, <1>2 DEF Insert, Return, Goto, TypeOK

LEMMA StoredType ==
  ASSUME NEW p \in Procs, work[p] \in Work, work[p].grant \in Grants, work[p].key \in Keys
  PROVE  /\ Stored(p) \in Token /\ Stored(p) # NoToken
         /\ Stored(p).grant = work[p].grant /\ Stored(p).turn = work[p].turn
  <1>1. Stored(p) \in Token
    BY DEF Stored, Work, Token
  <1>. QED
    BY <1>1, OAuthAssumption DEF Stored

LEMMA StaleType ==
  ASSUME NEW t \in Token
  PROVE  /\ [t EXCEPT !.stale = TRUE] \in Token /\ [t EXCEPT !.stale = TRUE] # NoToken
         /\ [t EXCEPT !.stale = TRUE].grant = t.grant /\ [t EXCEPT !.stale = TRUE].turn = t.turn
  <1>1. [t EXCEPT !.stale = TRUE] \in Token
    BY DEF Token
  <1>. QED
    BY <1>1, OAuthAssumption DEF Token

---------------------------------------------------------------------------
\* The types of the tables and of the work.
LEMMA TypeStep == ASSUME IInv, [Next]_vars PROVE TypeOK'
<1>. USE DEF IInv, Procs, provider, history, TypeOK, Places, Labels
<1>1. ASSUME NEW i \in Ids, Authorize(i) PROVE TypeOK'
  BY <1>1, OAuthAssumption DEF Authorize, Goto, Return
<1>2. ASSUME NEW i \in Ids, Deauthorize(i) PROVE TypeOK'
  BY <1>2, OAuthAssumption DEF Deauthorize, Goto, Return
<1>3. ASSUME NEW i \in Ids, DeleteInstance(i) PROVE TypeOK'
  BY <1>3, OAuthAssumption DEF DeleteInstance, Goto, Return
<1>4. ASSUME NEW i \in Ids, CreateInstance(i) PROVE TypeOK'
  BY <1>4, OAuthAssumption DEF CreateInstance, Goto, Return
<1>5. ASSUME NEW i \in Ids, TokenExpires(i) PROVE TypeOK'
  <2>1. token[i] \in Token
    BY <1>5 DEF TokenExpires
  <2>. QED
    BY <1>5, <2>1, StaleType DEF TokenExpires
<1>6. ASSUME NEW s \in States, AttemptExpires(s) PROVE TypeOK'
  BY <1>6, OAuthAssumption DEF AttemptExpires, Goto, Return
<1>7. ASSUME NEW b \in Browsers, Callback(b) PROVE TypeOK'
  <2>1. PICK s \in States :
          \/ work' = [work EXCEPT ![b] = [id |-> begun[s], grant |-> NoGrant, turn |-> 1,
                                          key |-> NoKey, state |-> s]]
          \/ work' = work
    BY <1>7 DEF Callback
  <2>2. [id |-> begun[s], grant |-> NoGrant, turn |-> 1, key |-> NoKey, state |-> s] \in Work
    BY BegunType
  <2>3. work' \in [Procs -> Work \cup {NoToken}]
    BY <2>1, <2>2
  <2>. QED
    BY <1>7, <2>3 DEF Callback, Goto
<1>8. ASSUME NEW b \in Browsers, Exchange(b) PROVE TypeOK'
  <2>1. 1 \in Turns
    BY OAuthAssumption DEF Turns
  <2>2. work' \in [Procs -> Work \cup {NoToken}]
    BY <1>8, WorkType DEF Exchange, Return
  <2>. QED
    BY <1>8, <2>1, <2>2 DEF Exchange, Goto, Return
<1>9. ASSUME NEW r \in Refreshers, LoadToken(r) PROVE TypeOK'
  <2>1. work' \in [Procs -> Work \cup {NoToken}]
    BY <1>9, BegunType DEF LoadToken
  <2>. QED
    BY <1>9, <2>1 DEF LoadToken, Goto
<1>10. ASSUME NEW r \in Refreshers, Refresh(r) PROVE TypeOK'
  <2>1. work[r] \in Work /\ work[r].grant \in Grants
    BY <1>10, RefreshEffect
  <2>2. work' \in [Procs -> Work \cup {NoToken}]
    BY <1>10, <2>1, WorkType DEF Refresh, Return
  <2>. QED
    BY <1>10, <2>1, <2>2 DEF Refresh, Goto, Return
<1>11. ASSUME NEW p \in Procs, LoadKey(p) PROVE TypeOK'
  <2>1. work' \in [Procs -> Work \cup {NoToken}]
    BY <1>11, WorkType DEF LoadKey
  <2>. QED
    BY <1>11, <2>1 DEF LoadKey, Goto
<1>12. ASSUME NEW p \in Procs, SetKey(p) PROVE TypeOK'
  BY <1>12, OAuthAssumption DEF SetKey, Goto, Return
<1>13. ASSUME NEW p \in Procs, Insert(p) PROVE TypeOK'
  <2>1. Stored(p) \in Token
    BY <1>13, InsertEffect, StoredType
  <2>2. token' \in [Ids -> Token \cup {NoToken}]
    BY <1>13, <2>1 DEF Insert
  <2>3. authorized' \in [Ids -> Grants \cup {NoGrant}]
    BY <1>13, InsertEffect DEF Insert
  <2>. QED
    BY <1>13, <2>2, <2>3 DEF Insert, Goto, Return
<1>14. CASE Restart
  BY <1>14 DEF Restart
<1>15. CASE UNCHANGED vars
  BY <1>15 DEF vars
<1>. QED
  BY <1>1, <1>2, <1>3, <1>4, <1>5, <1>6, <1>7, <1>8, <1>9, <1>10, <1>11, <1>12, <1>13, <1>14, <1>15 DEF Next, AdminStep

\* What a process has at its place.
LEMMA PlacesStep == ASSUME IInv, [Next]_vars PROVE Places'
<1>. USE DEF IInv, Procs, provider, history, TypeOK, Places, Holding, Work, Token, Turns, Labels
<1>1. ASSUME NEW i \in Ids, Authorize(i) PROVE Places'
  BY <1>1, OAuthAssumption DEF Authorize, Goto, Return
<1>2. ASSUME NEW i \in Ids, Deauthorize(i) PROVE Places'
  BY <1>2, OAuthAssumption DEF Deauthorize, Goto, Return
<1>3. ASSUME NEW i \in Ids, DeleteInstance(i) PROVE Places'
  BY <1>3, OAuthAssumption DEF DeleteInstance, Goto, Return
<1>4. ASSUME NEW i \in Ids, CreateInstance(i) PROVE Places'
  BY <1>4, OAuthAssumption DEF CreateInstance, Goto, Return
<1>5. ASSUME NEW i \in Ids, TokenExpires(i) PROVE Places'
  BY <1>5, OAuthAssumption DEF TokenExpires, Goto, Return
<1>6. ASSUME NEW s \in States, AttemptExpires(s) PROVE Places'
  BY <1>6, OAuthAssumption DEF AttemptExpires, Goto, Return
<1>7. ASSUME NEW b \in Browsers, Callback(b) PROVE Places'
  BY <1>7, OAuthAssumption DEF Callback, Goto, Return
<1>8. ASSUME NEW b \in Browsers, Exchange(b) PROVE Places'
  BY <1>8, OAuthAssumption DEF Exchange, Goto, Return
<1>9. ASSUME NEW r \in Refreshers, LoadToken(r) PROVE Places'
  BY <1>9, OAuthAssumption DEF LoadToken, Goto, Return
<1>10. ASSUME NEW r \in Refreshers, Refresh(r) PROVE Places'
  BY <1>10, OAuthAssumption DEF Refresh, Goto, Return
<1>11. ASSUME NEW p \in Procs, LoadKey(p) PROVE Places'
  BY <1>11, OAuthAssumption DEF LoadKey, Goto, Return
<1>12. ASSUME NEW p \in Procs, SetKey(p) PROVE Places'
  BY <1>12, OAuthAssumption DEF SetKey, Goto, Return
<1>13. ASSUME NEW p \in Procs, Insert(p) PROVE Places'
  BY <1>13, OAuthAssumption DEF Insert, Goto, Return
<1>14. CASE Restart
  BY <1>14 DEF Restart
<1>15. CASE UNCHANGED vars
  BY <1>15 DEF vars
<1>. QED
  BY <1>1, <1>2, <1>3, <1>4, <1>5, <1>6, <1>7, <1>8, <1>9, <1>10, <1>11, <1>12, <1>13, <1>14, <1>15 DEF Next, AdminStep

\* A callback takes its attempt away before anything else.
LEMMA AttemptsStep == ASSUME IInv, [Next]_vars PROVE Attempts'
<1>. USE DEF IInv, Procs, provider, history, TypeOK, Places, Attempts
<1>1. ASSUME NEW i \in Ids, Authorize(i) PROVE Attempts'
  BY <1>1, OAuthAssumption DEF Authorize, Goto, Return
<1>2. ASSUME NEW i \in Ids, Deauthorize(i) PROVE Attempts'
  BY <1>2, OAuthAssumption DEF Deauthorize, Goto, Return
<1>3. ASSUME NEW i \in Ids, DeleteInstance(i) PROVE Attempts'
  BY <1>3, OAuthAssumption DEF DeleteInstance, Goto, Return
<1>4. ASSUME NEW i \in Ids, CreateInstance(i) PROVE Attempts'
  BY <1>4, OAuthAssumption DEF CreateInstance, Goto, Return
<1>5. ASSUME NEW i \in Ids, TokenExpires(i) PROVE Attempts'
  BY <1>5, OAuthAssumption DEF TokenExpires, Goto, Return
<1>6. ASSUME NEW s \in States, AttemptExpires(s) PROVE Attempts'
  BY <1>6, OAuthAssumption DEF AttemptExpires, Goto, Return
<1>7. ASSUME NEW b \in Browsers, Callback(b) PROVE Attempts'
  BY <1>7, OAuthAssumption DEF Callback, Goto, Return
<1>8. ASSUME NEW b \in Browsers, Exchange(b) PROVE Attempts'
  BY <1>8, OAuthAssumption DEF Exchange, Goto, Return
<1>9. ASSUME NEW r \in Refreshers, LoadToken(r) PROVE Attempts'
  BY <1>9, OAuthAssumption DEF LoadToken, Goto, Return
<1>10. ASSUME NEW r \in Refreshers, Refresh(r) PROVE Attempts'
  <2>1. work[r].grant \in Grants /\ current[work[r].grant] # 0
    BY <1>10 DEF Refresh, Owners, Holding
  <2>2. \A g \in Grants : current'[g] = 0 <=> current[g] = 0
    BY <1>10, <2>1, RefreshEffect, OAuthAssumption DEF Turns, Rotated
  <2>3. \A q \in Procs : pc'[q] = "exchange" => pc[q] = "exchange" /\ work'[q] = work[q]
    BY <1>10, RefreshEffect
  <2>. QED
    BY <1>10, <2>2, <2>3 DEF Refresh
<1>11. ASSUME NEW p \in Procs, LoadKey(p) PROVE Attempts'
  BY <1>11, OAuthAssumption DEF LoadKey, Goto, Return
<1>12. ASSUME NEW p \in Procs, SetKey(p) PROVE Attempts'
  BY <1>12, OAuthAssumption DEF SetKey, Goto, Return
<1>13. ASSUME NEW p \in Procs, Insert(p) PROVE Attempts'
  BY <1>13, OAuthAssumption DEF Insert, Goto, Return
<1>14. CASE Restart
  BY <1>14 DEF Restart
<1>15. CASE UNCHANGED vars
  BY <1>15 DEF vars
<1>. QED
  BY <1>1, <1>2, <1>3, <1>4, <1>5, <1>6, <1>7, <1>8, <1>9, <1>10, <1>11, <1>12, <1>13, <1>14, <1>15 DEF Next, AdminStep

\* A token has the instance its consent was asked for.
LEMMA OwnersStep == ASSUME IInv, [Next]_vars PROVE Owners'
<1>. USE DEF IInv, Procs, provider, history, TypeOK, Places, Owners, Holding
<1>1. ASSUME NEW i \in Ids, Authorize(i) PROVE Owners'
  <2>1. PICK s \in States : pending[s] = "unused" /\ begun' = [begun EXCEPT ![s] = i]
    BY <1>1 DEF Authorize
  <2>2. \A g \in Grants : from[g] # NoState => from[g] \in States /\ begun'[from[g]] = begun[from[g]]
    BY <2>1 DEF Attempts
  <2>3. \A j \in Ids : token[j] # NoToken => token[j].grant \in Grants
    BY DEF Token
  <2>. QED
    BY <1>1, <2>2, <2>3 DEF Authorize
<1>2. ASSUME NEW i \in Ids, Deauthorize(i) PROVE Owners'
  BY <1>2, OAuthAssumption DEF Deauthorize, Goto, Return
<1>3. ASSUME NEW i \in Ids, DeleteInstance(i) PROVE Owners'
  BY <1>3, OAuthAssumption DEF DeleteInstance, Goto, Return
<1>4. ASSUME NEW i \in Ids, CreateInstance(i) PROVE Owners'
  BY <1>4, OAuthAssumption DEF CreateInstance, Goto, Return
<1>5. ASSUME NEW i \in Ids, TokenExpires(i) PROVE Owners'
  <2>1. \A j \in Ids : token'[j] # NoToken => token[j] # NoToken /\ token'[j].grant = token[j].grant
    BY <1>5, StaleType DEF TokenExpires
  <2>. QED
    BY <1>5, <2>1 DEF TokenExpires
<1>6. ASSUME NEW s \in States, AttemptExpires(s) PROVE Owners'
  BY <1>6, OAuthAssumption DEF AttemptExpires, Goto, Return
<1>7. ASSUME NEW b \in Browsers, Callback(b) PROVE Owners'
  BY <1>7, OAuthAssumption DEF Callback, Goto, Return
<1>8. ASSUME NEW b \in Browsers, Exchange(b) PROVE Owners'
  <2>1. \A j \in Ids : token[j] # NoToken => token[j].grant \in Grants
    BY DEF Token
  <2>2. \A g \in Grants : from[g] # NoState => from'[g] = from[g]
    BY <1>8, ExchangeEffect DEF Attempts
  <2>3. pc'[b] \in Holding => /\ work'[b].id = work[b].id /\ work'[b].grant \in Grants
                             /\ from'[work'[b].grant] = work[b].state
    BY <1>8, ExchangeEffect
  <2>4. begun[work[b].state] = work[b].id /\ work[b].state # NoState
    BY <1>8, ExchangeEffect, OAuthAssumption DEF Attempts
  <2>5. \A q \in Procs \ {b} : pc'[q] = pc[q] /\ work'[q] = work[q]
    BY <1>8, ExchangeEffect
  <2>6. UNCHANGED <<token, begun>>
    BY <1>8 DEF Exchange
  <2>. QED
    BY <2>1, <2>2, <2>3, <2>4, <2>5, <2>6
<1>9. ASSUME NEW r \in Refreshers, LoadToken(r) PROVE Owners'
  BY <1>9, OAuthAssumption DEF LoadToken, Goto, Return
<1>10. ASSUME NEW r \in Refreshers, Refresh(r) PROVE Owners'
  <2>1. pc'[r] \in Holding => work'[r].grant = work[r].grant /\ work'[r].id = work[r].id
    BY <1>10, RefreshEffect
  <2>2. UNCHANGED <<token, from, begun>>
    BY <1>10 DEF Refresh
  <2>. QED
    BY <1>10, <2>1, <2>2, RefreshEffect
<1>11. ASSUME NEW p \in Procs, LoadKey(p) PROVE Owners'
  <2>1. work'[p].grant = work[p].grant /\ work'[p].id = work[p].id
    BY <1>11, LoadKeyEffect
  <2>2. UNCHANGED <<token, from, begun>>
    BY <1>11 DEF LoadKey
  <2>. QED
    BY <1>11, <2>1, <2>2, LoadKeyEffect
<1>12. ASSUME NEW p \in Procs, SetKey(p) PROVE Owners'
  BY <1>12, OAuthAssumption DEF SetKey, Goto, Return
<1>13. ASSUME NEW p \in Procs, Insert(p) PROVE Owners'
  <2>1. Stored(p).grant = work[p].grant
    BY <1>13, InsertEffect, StoredType
  <2>2. UNCHANGED <<from, begun>>
    BY <1>13 DEF Insert
  <2>. QED
    BY <1>13, <2>1, <2>2, InsertEffect
<1>14. CASE Restart
  BY <1>14 DEF Restart
<1>15. CASE UNCHANGED vars
  BY <1>15 DEF vars
<1>. QED
  BY <1>1, <1>2, <1>3, <1>4, <1>5, <1>6, <1>7, <1>8, <1>9, <1>10, <1>11, <1>12, <1>13, <1>14, <1>15 DEF Next, AdminStep

\* Deleting an instance takes its token along, and none is stored without one.
LEMMA HasInstanceStep == ASSUME IInv, [Next]_vars PROVE TokenHasInstance'
<1>. USE DEF IInv, Procs, provider, history, TypeOK, TokenHasInstance
<1>1. ASSUME NEW i \in Ids, Authorize(i) PROVE TokenHasInstance'
  BY <1>1 DEF Authorize, Goto, Return
<1>2. ASSUME NEW i \in Ids, Deauthorize(i) PROVE TokenHasInstance'
  BY <1>2 DEF Deauthorize, Goto, Return
<1>3. ASSUME NEW i \in Ids, DeleteInstance(i) PROVE TokenHasInstance'
  BY <1>3 DEF DeleteInstance, Goto, Return
<1>4. ASSUME NEW i \in Ids, CreateInstance(i) PROVE TokenHasInstance'
  BY <1>4 DEF CreateInstance, Goto, Return
<1>5. ASSUME NEW i \in Ids, TokenExpires(i) PROVE TokenHasInstance'
  BY <1>5 DEF TokenExpires, Goto, Return
<1>6. ASSUME NEW s \in States, AttemptExpires(s) PROVE TokenHasInstance'
  BY <1>6 DEF AttemptExpires, Goto, Return
<1>7. ASSUME NEW b \in Browsers, Callback(b) PROVE TokenHasInstance'
  BY <1>7 DEF Callback, Goto, Return
<1>8. ASSUME NEW b \in Browsers, Exchange(b) PROVE TokenHasInstance'
  BY <1>8 DEF Exchange, Goto, Return
<1>9. ASSUME NEW r \in Refreshers, LoadToken(r) PROVE TokenHasInstance'
  BY <1>9 DEF LoadToken, Goto, Return
<1>10. ASSUME NEW r \in Refreshers, Refresh(r) PROVE TokenHasInstance'
  BY <1>10 DEF Refresh, Goto, Return
<1>11. ASSUME NEW p \in Procs, LoadKey(p) PROVE TokenHasInstance'
  BY <1>11 DEF LoadKey, Goto, Return
<1>12. ASSUME NEW p \in Procs, SetKey(p) PROVE TokenHasInstance'
  BY <1>12 DEF SetKey, Goto, Return
<1>13. ASSUME NEW p \in Procs, Insert(p) PROVE TokenHasInstance'
  BY <1>13 DEF Insert, Goto, Return
<1>14. CASE Restart
  BY <1>14 DEF Restart
<1>15. CASE UNCHANGED vars
  BY <1>15 DEF vars
<1>. QED
  BY <1>1, <1>2, <1>3, <1>4, <1>5, <1>6, <1>7, <1>8, <1>9, <1>10, <1>11, <1>12, <1>13, <1>14, <1>15 DEF Next, AdminStep

\* An attempt that is exchanged has led to no consent yet.
LEMMA UsedOnceStep == ASSUME IInv, [Next]_vars PROVE StateUsedOnce'
<1>. USE DEF IInv, Procs, provider, history, TypeOK, StateUsedOnce
<1>1. ASSUME NEW i \in Ids, Authorize(i) PROVE StateUsedOnce'
  BY <1>1 DEF Authorize, Goto, Return
<1>2. ASSUME NEW i \in Ids, Deauthorize(i) PROVE StateUsedOnce'
  BY <1>2 DEF Deauthorize, Goto, Return
<1>3. ASSUME NEW i \in Ids, DeleteInstance(i) PROVE StateUsedOnce'
  BY <1>3 DEF DeleteInstance, Goto, Return
<1>4. ASSUME NEW i \in Ids, CreateInstance(i) PROVE StateUsedOnce'
  BY <1>4 DEF CreateInstance, Goto, Return
<1>5. ASSUME NEW i \in Ids, TokenExpires(i) PROVE StateUsedOnce'
  BY <1>5 DEF TokenExpires, Goto, Return
<1>6. ASSUME NEW s \in States, AttemptExpires(s) PROVE StateUsedOnce'
  BY <1>6 DEF AttemptExpires, Goto, Return
<1>7. ASSUME NEW b \in Browsers, Callback(b) PROVE StateUsedOnce'
  BY <1>7 DEF Callback, Goto, Return
<1>8. ASSUME NEW b \in Browsers, Exchange(b) PROVE StateUsedOnce'
  BY <1>8, ExchangeEffect DEF Attempts
<1>9. ASSUME NEW r \in Refreshers, LoadToken(r) PROVE StateUsedOnce'
  BY <1>9 DEF LoadToken, Goto, Return
<1>10. ASSUME NEW r \in Refreshers, Refresh(r) PROVE StateUsedOnce'
  BY <1>10 DEF Refresh, Goto, Return
<1>11. ASSUME NEW p \in Procs, LoadKey(p) PROVE StateUsedOnce'
  BY <1>11 DEF LoadKey, Goto, Return
<1>12. ASSUME NEW p \in Procs, SetKey(p) PROVE StateUsedOnce'
  BY <1>12 DEF SetKey, Goto, Return
<1>13. ASSUME NEW p \in Procs, Insert(p) PROVE StateUsedOnce'
  BY <1>13 DEF Insert, Goto, Return
<1>14. CASE Restart
  BY <1>14 DEF Restart
<1>15. CASE UNCHANGED vars
  BY <1>15 DEF vars
<1>. QED
  BY <1>1, <1>2, <1>3, <1>4, <1>5, <1>6, <1>7, <1>8, <1>9, <1>10, <1>11, <1>12, <1>13, <1>14, <1>15 DEF Next, AdminStep

\* The provider's token only becomes newer.
LEMMA KnownStep == ASSUME IInv, [Next]_vars PROVE Known'
<1>. USE DEF IInv, Procs, provider, history, TypeOK, Known
<1>1. ASSUME NEW i \in Ids, Authorize(i) PROVE Known'
  BY <1>1 DEF Authorize, Goto, Return
<1>2. ASSUME NEW i \in Ids, Deauthorize(i) PROVE Known'
  BY <1>2 DEF Deauthorize, Goto, Return
<1>3. ASSUME NEW i \in Ids, DeleteInstance(i) PROVE Known'
  BY <1>3 DEF DeleteInstance, Goto, Return
<1>4. ASSUME NEW i \in Ids, CreateInstance(i) PROVE Known'
  BY <1>4 DEF CreateInstance, Goto, Return
<1>5. ASSUME NEW i \in Ids, TokenExpires(i) PROVE Known'
  <2>1. \A j \in Ids : token'[j] # NoToken =>
          /\ token[j] # NoToken /\ token'[j].grant = token[j].grant
          /\ token'[j].turn = token[j].turn
    BY <1>5, StaleType DEF TokenExpires
  <2>2. UNCHANGED <<current, pc, work>>
    BY <1>5 DEF TokenExpires
  <2>. QED
    BY <2>1, <2>2
<1>6. ASSUME NEW s \in States, AttemptExpires(s) PROVE Known'
  BY <1>6 DEF AttemptExpires, Goto, Return
<1>7. ASSUME NEW b \in Browsers, Callback(b) PROVE Known'
  <2>1. \A q \in Procs : pc'[q] \in Holding => pc'[q] = pc[q] /\ work'[q] = work[q]
    BY <1>7, CallbackEffect DEF Holding
  <2>2. UNCHANGED <<token, current>>
    BY <1>7 DEF Callback
  <2>. QED
    BY <2>1, <2>2
<1>8. ASSUME NEW b \in Browsers, Exchange(b) PROVE Known'
  <2>1. UNCHANGED token
    BY <1>8 DEF Exchange
  <2>2. CASE pc'[b] = "idle" /\ current' = current
    BY <1>8, <2>1, <2>2, ExchangeEffect DEF Holding
  <2>3. ASSUME NEW g \in Grants, current[g] = 0, current' = [current EXCEPT ![g] = 1],
               pc'[b] = "save", work'[b].grant = g, work'[b].turn = work[b].turn
        PROVE  Known'
    <3>1. \A h \in Grants : current'[h] = IF h = g THEN 1 ELSE current[h]
      BY <2>3
    <3>2. \A j \in Ids : token[j] # NoToken => token[j].grant \in Grants \ {g}
      BY <2>3 DEF Token, Attempts, Owners
    <3>3. \A q \in Procs \ {b} : pc'[q] \in Holding =>
            /\ pc[q] \in Holding /\ work'[q] = work[q]
            /\ work[q].grant \in Grants \ {g}
      BY <1>8, <2>3, ExchangeEffect DEF Places, Attempts, Owners
    <3>4. work'[b].turn <= current'[work'[b].grant]
      BY <1>8, <2>3, <3>1, ExchangeEffect DEF Places
    <3>. QED
      BY <2>1, <3>1, <3>2, <3>3, <3>4
  <2>. QED
    BY <1>8, <2>2, <2>3, ExchangeEffect
<1>9. ASSUME NEW r \in Refreshers, LoadToken(r) PROVE Known'
  <2>1. UNCHANGED <<token, current>>
    BY <1>9 DEF LoadToken
  <2>. QED
    BY <1>9, <2>1, LoadTokenEffect
<1>10. ASSUME NEW r \in Refreshers, Refresh(r) PROVE Known'
  <2>1. UNCHANGED token
    BY <1>10 DEF Refresh
  <2>2. CASE pc'[r] = "idle" /\ current' = current
    BY <1>10, <2>1, <2>2, RefreshEffect DEF Holding
  <2>3. ASSUME NEW n \in Turns, Rotated(r, n),
               pc'[r] = "save" => work'[r].grant = work[r].grant /\ work'[r].turn = n,
               pc'[r] \in {"save", "idle"}
        PROVE  Known'
    <3>1. work[r].grant \in Grants /\ current[work[r].grant] \in Turns \cup {0}
      BY <1>10, RefreshEffect
    <3>2. /\ current[work[r].grant] <= n
          /\ \A h \in Grants : current'[h] = IF h = work[r].grant THEN n ELSE current[h]
          /\ ~Rotates => n = current[work[r].grant]
      BY <2>3, <3>1, OAuthAssumption DEF Rotated, Turns
    <3>3. \A h \in Grants : current[h] <= current'[h] /\ current[h] \in Nat /\ current'[h] \in Nat
      BY <2>3, <3>1, <3>2, OAuthAssumption DEF Turns
    <3>4. \A j \in Ids : token[j] # NoToken => token[j].grant \in Grants /\ token[j].turn \in Nat
      BY OAuthAssumption DEF Token, Turns
    <3>5. \A q \in Procs \ {r} : pc'[q] \in Holding =>
            /\ pc[q] \in Holding /\ work'[q] = work[q]
            /\ work[q].grant \in Grants /\ work[q].turn \in Nat
      BY <1>10, RefreshEffect, OAuthAssumption DEF Places, Holding, Work, Turns
    <3>6. pc'[r] \in Holding => work'[r].turn <= current'[work'[r].grant]
      BY <2>3, <3>1, <3>2, OAuthAssumption DEF Holding, Turns
    <3>. QED
      BY <2>1, <3>1, <3>2, <3>3, <3>4, <3>5, <3>6
  <2>. QED
    BY <1>10, <2>2, <2>3, RefreshEffect
<1>11. ASSUME NEW p \in Procs, LoadKey(p) PROVE Known'
  <2>1. UNCHANGED <<token, current>>
    BY <1>11 DEF LoadKey
  <2>. QED
    BY <1>11, <2>1, LoadKeyEffect DEF Holding
<1>12. ASSUME NEW p \in Procs, SetKey(p) PROVE Known'
  BY <1>12 DEF SetKey, Goto, Holding
<1>13. ASSUME NEW p \in Procs, Insert(p) PROVE Known'
  <2>1. UNCHANGED current
    BY <1>13 DEF Insert
  <2>2. Stored(p).grant = work[p].grant /\ Stored(p).turn = work[p].turn
    BY <1>13, InsertEffect, StoredType
  <2>. QED
    BY <1>13, <2>1, <2>2, InsertEffect DEF Holding
<1>14. CASE Restart
  BY <1>14 DEF Restart, Holding
<1>15. CASE UNCHANGED vars
  BY <1>15 DEF vars
<1>. QED
  BY <1>1, <1>2, <1>3, <1>4, <1>5, <1>6, <1>7, <1>8, <1>9, <1>10, <1>11, <1>12, <1>13, <1>14, <1>15 DEF Next, AdminStep

\* A rotated token is new to everybody, and stored by who has it.
LEMMA SoleHolderStep == ASSUME IInv, [Next]_vars PROVE SoleHolder'
<1>. USE DEF IInv, Procs, provider, history, TypeOK, SoleHolder, OnItsWay, Holding
<1>1. ASSUME NEW i \in Ids, Authorize(i) PROVE SoleHolder'
  BY <1>1 DEF Authorize, Goto, Return
<1>2. ASSUME NEW i \in Ids, Deauthorize(i) PROVE SoleHolder'
  BY <1>2 DEF Deauthorize, Goto, Return
<1>3. ASSUME NEW i \in Ids, DeleteInstance(i) PROVE SoleHolder'
  BY <1>3 DEF DeleteInstance, Goto, Return
<1>4. ASSUME NEW i \in Ids, CreateInstance(i) PROVE SoleHolder'
  BY <1>4 DEF CreateInstance, Goto, Return
<1>5. ASSUME NEW i \in Ids, TokenExpires(i) PROVE SoleHolder'
  <2>1. \A j \in Ids : token'[j] # NoToken =>
          /\ token[j] # NoToken /\ token'[j].grant = token[j].grant
          /\ token'[j].turn = token[j].turn
    BY <1>5, StaleType DEF TokenExpires
  <2>2. UNCHANGED <<pc, work>>
    BY <1>5 DEF TokenExpires
  <2>. QED
    BY <2>1, <2>2
<1>6. ASSUME NEW s \in States, AttemptExpires(s) PROVE SoleHolder'
  BY <1>6 DEF AttemptExpires, Goto, Return
<1>7. ASSUME NEW b \in Browsers, Callback(b) PROVE SoleHolder'
  <2>1. \A q \in Procs : pc'[q] \in Holding => pc'[q] = pc[q] /\ work'[q] = work[q]
    BY <1>7, CallbackEffect
  <2>2. UNCHANGED token
    BY <1>7 DEF Callback
  <2>. QED
    BY <2>1, <2>2
<1>8. ASSUME NEW b \in Browsers, Exchange(b) PROVE SoleHolder'
  <2>1. UNCHANGED token
    BY <1>8 DEF Exchange
  <2>2. CASE pc'[b] = "idle"
    BY <1>8, <2>1, <2>2, ExchangeEffect
  <2>3. ASSUME NEW g \in Grants, current[g] = 0, pc'[b] = "save", work'[b].grant = g
        PROVE  SoleHolder'
    <3>1. \A j \in Ids : token[j] # NoToken => token[j].grant # g
      BY <2>3 DEF Token, Attempts, Owners
    <3>2. \A q \in Procs \ {b} : pc'[q] \in Holding =>
            pc[q] = pc'[q] /\ work'[q] = work[q] /\ work[q].grant # g
      BY <1>8, <2>3, ExchangeEffect DEF Places, Attempts, Owners
    <3>. QED
      BY <2>1, <2>3, <3>1, <3>2
  <2>. QED
    BY <1>8, <2>2, <2>3, ExchangeEffect
<1>9. ASSUME NEW r \in Refreshers, LoadToken(r) PROVE SoleHolder'
  <2>1. UNCHANGED token
    BY <1>9 DEF LoadToken
  <2>. QED
    BY <1>9, <2>1, LoadTokenEffect
<1>10. ASSUME NEW r \in Refreshers, Refresh(r) PROVE SoleHolder'
  <2>1. UNCHANGED token
    BY <1>10 DEF Refresh
  <2>2. CASE pc'[r] = "idle"
    BY <1>10, <2>1, <2>2, RefreshEffect
  <2>3. ASSUME NEW n \in Turns, Rotated(r, n), pc'[r] = "save",
               work'[r].grant = work[r].grant, work'[r].turn = n, Rotates
        PROVE  SoleHolder'
    <3>1. work[r].grant \in Grants /\ current[work[r].grant] \in Nat
          /\ n = current[work[r].grant] + 1
      BY <1>10, <2>3, RefreshEffect, OAuthAssumption DEF Rotated, Turns
    <3>2. \A j \in Ids : token[j] # NoToken /\ token[j].grant = work[r].grant =>
            token[j].turn \in Nat /\ token[j].turn # n
      BY <3>1, OAuthAssumption DEF Token, Turns, Known
    <3>3. \A q \in Procs \ {r} : pc'[q] \in Holding =>
            /\ pc[q] = pc'[q] /\ work'[q] = work[q] /\ work[q].turn \in Nat
            /\ work[q].grant = work[r].grant => work[q].turn # n
      BY <1>10, <3>1, RefreshEffect, OAuthAssumption DEF Places, Work, Turns, Known
    <3>. QED
      BY <2>1, <2>3, <3>1, <3>2, <3>3
  <2>. QED
    BY <1>10, <2>2, <2>3, RefreshEffect
<1>11. ASSUME NEW p \in Procs, LoadKey(p) PROVE SoleHolder'
  <2>1. UNCHANGED token
    BY <1>11 DEF LoadKey
  <2>. QED
    BY <1>11, <2>1, LoadKeyEffect
<1>12. ASSUME NEW p \in Procs, SetKey(p) PROVE SoleHolder'
  BY <1>12 DEF SetKey, Goto, Return
<1>13. ASSUME NEW p \in Procs, Insert(p) PROVE SoleHolder'
  <2>1. Stored(p).grant = work[p].grant /\ Stored(p).turn = work[p].turn
    BY <1>13, InsertEffect, StoredType
  <2>2. \A j \in Ids : token'[j] # NoToken =>
          \/ token[j] = token'[j]
          \/ token'[j].grant = work[p].grant /\ token'[j].turn = work[p].turn
    BY <1>13, <2>1, InsertEffect
  <2>3. \A q \in Procs : pc'[q] \in Holding => q # p /\ pc'[q] = pc[q] /\ work'[q] = work[q]
    BY <1>13, InsertEffect
  <2>4. pc[p] \in OnItsWay /\ pc[p] \in Holding
    BY <1>13, InsertEffect
  <2>. QED
    BY <2>2, <2>3, <2>4
<1>14. CASE Restart
  BY <1>14 DEF Restart
<1>15. CASE UNCHANGED vars
  BY <1>15 DEF vars
<1>. QED
  BY <1>1, <1>2, <1>3, <1>4, <1>5, <1>6, <1>7, <1>8, <1>9, <1>10, <1>11, <1>12, <1>13, <1>14, <1>15 DEF Next, AdminStep

\* Who refreshes with the accepted token is the only one who has it.
LEMMA CarriesCurrentStep == ASSUME IInv, [Next]_vars PROVE CarriesCurrent'
<1>. USE DEF IInv, Procs, provider, history, TypeOK, CarriesCurrent, OnItsWay
<1>1. ASSUME NEW i \in Ids, Authorize(i) PROVE CarriesCurrent'
  BY <1>1 DEF Authorize, Goto, Return
<1>2. ASSUME NEW i \in Ids, Deauthorize(i) PROVE CarriesCurrent'
  BY <1>2 DEF Deauthorize, Goto, Return
<1>3. ASSUME NEW i \in Ids, DeleteInstance(i) PROVE CarriesCurrent'
  BY <1>3 DEF DeleteInstance, Goto, Return
<1>4. ASSUME NEW i \in Ids, CreateInstance(i) PROVE CarriesCurrent'
  BY <1>4 DEF CreateInstance, Goto, Return
<1>5. ASSUME NEW i \in Ids, TokenExpires(i) PROVE CarriesCurrent'
  BY <1>5 DEF TokenExpires, Goto, Return
<1>6. ASSUME NEW s \in States, AttemptExpires(s) PROVE CarriesCurrent'
  BY <1>6 DEF AttemptExpires, Goto, Return
<1>7. ASSUME NEW b \in Browsers, Callback(b) PROVE CarriesCurrent'
  <2>1. \A q \in Procs : pc'[q] \in OnItsWay => pc'[q] = pc[q] /\ work'[q] = work[q]
    BY <1>7, CallbackEffect
  <2>2. UNCHANGED <<current, spoiled>>
    BY <1>7 DEF Callback
  <2>. QED
    BY <2>1, <2>2
<1>8. ASSUME NEW b \in Browsers, Exchange(b) PROVE CarriesCurrent'
  <2>1. UNCHANGED spoiled
    BY <1>8 DEF Exchange
  <2>2. CASE pc'[b] = "idle" /\ current' = current
    BY <1>8, <2>1, <2>2, ExchangeEffect
  <2>3. ASSUME NEW g \in Grants, current[g] = 0, current' = [current EXCEPT ![g] = 1],
               pc'[b] = "save", work'[b].grant = g, work'[b].turn = work[b].turn
        PROVE  CarriesCurrent'
    <3>1. \A q \in Procs \ {b} : pc'[q] \in OnItsWay =>
            /\ pc[q] = pc'[q] /\ work'[q] = work[q]
            /\ work[q].grant \in Grants \ {g}
      BY <1>8, <2>3, ExchangeEffect DEF Places, Attempts, Owners, Holding
    <3>2. work'[b].turn = current'[work'[b].grant]
      BY <1>8, <2>3, ExchangeEffect DEF Places
    <3>. QED
      BY <2>1, <2>3, <3>1, <3>2
  <2>. QED
    BY <1>8, <2>2, <2>3, ExchangeEffect
<1>9. ASSUME NEW r \in Refreshers, LoadToken(r) PROVE CarriesCurrent'
  <2>1. UNCHANGED <<current, spoiled>>
    BY <1>9 DEF LoadToken
  <2>. QED
    BY <1>9, <2>1, LoadTokenEffect
<1>10. ASSUME NEW r \in Refreshers, Refresh(r) PROVE CarriesCurrent'
  <2>1. CASE pc'[r] = "idle" /\ current' = current /\ spoiled' = spoiled
    BY <1>10, <2>1, RefreshEffect
  <2>2. ASSUME NEW n \in Turns, Rotated(r, n), spoiled \subseteq spoiled',
               \/ pc'[r] = "save" /\ work'[r].grant = work[r].grant /\ work'[r].turn = n
               \/ pc'[r] = "idle"
        PROVE  CarriesCurrent'
    <3>1. /\ pc[r] = "refresh" /\ work[r].grant \in Grants
          /\ work[r].turn = current[work[r].grant]
          /\ current' = [current EXCEPT ![work[r].grant] = n]
          /\ ~Rotates => n = current[work[r].grant]
      BY <1>10, <2>2, RefreshEffect DEF Rotated
    <3>2. \A q \in Procs \ {r} : pc'[q] \in OnItsWay =>
            pc[q] = pc'[q] /\ work'[q] = work[q] /\ work[q].grant \in Grants
      BY <1>10, RefreshEffect DEF Places, Holding
    <3>3. \A q \in Procs \ {r} : Rotates /\ pc[q] \in OnItsWay /\ work[q].grant = work[r].grant =>
            work[q].turn # work[r].turn
      BY <3>1 DEF SoleHolder, Holding
    <3>. QED
      BY <2>2, <3>1, <3>2, <3>3
  <2>. QED
    BY <1>10, <2>1, <2>2, RefreshEffect
<1>11. ASSUME NEW p \in Procs, LoadKey(p) PROVE CarriesCurrent'
  <2>1. UNCHANGED <<current, spoiled>>
    BY <1>11 DEF LoadKey
  <2>. QED
    BY <1>11, <2>1, LoadKeyEffect
<1>12. ASSUME NEW p \in Procs, SetKey(p) PROVE CarriesCurrent'
  BY <1>12 DEF SetKey, Goto, Return
<1>13. ASSUME NEW p \in Procs, Insert(p) PROVE CarriesCurrent'
  <2>1. UNCHANGED <<current, spoiled>>
    BY <1>13 DEF Insert
  <2>. QED
    BY <1>13, <2>1, InsertEffect
<1>14. CASE Restart
  BY <1>14 DEF Restart
<1>15. CASE UNCHANGED vars
  BY <1>15 DEF vars
<1>. QED
  BY <1>1, <1>2, <1>3, <1>4, <1>5, <1>6, <1>7, <1>8, <1>9, <1>10, <1>11, <1>12, <1>13, <1>14, <1>15 DEF Next, AdminStep

\* A token that falls behind has its successor on the way, or lost.
LEMMA StoredStep == ASSUME IInv, [Next]_vars PROVE StoredRefreshCurrent'
<1>. USE DEF IInv, Procs, provider, history, TypeOK, StoredRefreshCurrent, Saving
<1>1. ASSUME NEW i \in Ids, Authorize(i) PROVE StoredRefreshCurrent'
  BY <1>1 DEF Authorize, Goto, Return
<1>2. ASSUME NEW i \in Ids, Deauthorize(i) PROVE StoredRefreshCurrent'
  BY <1>2 DEF Deauthorize, Goto, Return
<1>3. ASSUME NEW i \in Ids, DeleteInstance(i) PROVE StoredRefreshCurrent'
  BY <1>3 DEF DeleteInstance, Goto, Return
<1>4. ASSUME NEW i \in Ids, CreateInstance(i) PROVE StoredRefreshCurrent'
  BY <1>4 DEF CreateInstance, Goto, Return
<1>5. ASSUME NEW i \in Ids, TokenExpires(i) PROVE StoredRefreshCurrent'
  <2>1. \A j \in Ids : token'[j] # NoToken =>
          /\ token[j] # NoToken /\ token'[j].grant = token[j].grant
          /\ token'[j].turn = token[j].turn
    BY <1>5, StaleType DEF TokenExpires
  <2>2. UNCHANGED <<pc, work, current, spoiled>>
    BY <1>5 DEF TokenExpires
  <2>. QED
    BY <2>1, <2>2
<1>6. ASSUME NEW s \in States, AttemptExpires(s) PROVE StoredRefreshCurrent'
  BY <1>6 DEF AttemptExpires, Goto, Return
<1>7. ASSUME NEW b \in Browsers, Callback(b) PROVE StoredRefreshCurrent'
  <2>1. \A g : Saving(g) \subseteq Saving(g)'
    BY <1>7, CallbackEffect
  <2>2. UNCHANGED <<token, current, spoiled>>
    BY <1>7 DEF Callback
  <2>. QED
    BY <2>1, <2>2
<1>8. ASSUME NEW b \in Browsers, Exchange(b) PROVE StoredRefreshCurrent'
  <2>1. \A g : Saving(g) \subseteq Saving(g)'
    BY <1>8, ExchangeEffect
  <2>2. \A j \in Ids : token[j] # NoToken => current'[token[j].grant] = current[token[j].grant]
    BY <1>8, ExchangeEffect DEF Token, Attempts, Owners
  <2>3. UNCHANGED <<token, spoiled>>
    BY <1>8 DEF Exchange
  <2>. QED
    BY <2>1, <2>2, <2>3
<1>9. ASSUME NEW r \in Refreshers, LoadToken(r) PROVE StoredRefreshCurrent'
  <2>1. \A g : Saving(g) \subseteq Saving(g)'
    BY <1>9, LoadTokenEffect
  <2>2. UNCHANGED <<token, current, spoiled>>
    BY <1>9 DEF LoadToken
  <2>. QED
    BY <2>1, <2>2
<1>10. ASSUME NEW r \in Refreshers, Refresh(r) PROVE StoredRefreshCurrent'
  <2>1. \A g : Saving(g) \subseteq Saving(g)'
    BY <1>10, RefreshEffect
  <2>2. \A g \in Grants \ {work[r].grant} : current'[g] = current[g]
    BY <1>10, RefreshEffect DEF Rotated
  <2>3. ASSUME NEW g \in Grants, g = work[r].grant
        PROVE  current' = current \/ g \in spoiled' \/ r \in Saving(g)'
    BY <1>10, <2>3, RefreshEffect
  <2>4. token' = token /\ spoiled \subseteq spoiled'
    BY <1>10 DEF Refresh
  <2>5. \A j \in Ids : token[j] # NoToken => token[j].grant \in Grants
    BY DEF Token
  <2>6. ASSUME NEW j \in Ids, NEW g \in Grants, token[j] # NoToken, token[j].grant = g
        PROVE  token[j].turn = current'[g] \/ g \in spoiled' \/ \E p \in Procs : p \in Saving(g)'
    <3>1. token[j].turn = current[g] \/ g \in spoiled \/ \E p \in Procs : p \in Saving(g)
      BY <2>6
    <3>2. CASE current'[g] = current[g]
      BY <2>1, <2>4, <3>1, <3>2
    <3>. QED
      BY <2>2, <2>3, <3>2
  <2>7. ASSUME NEW j \in Ids, token'[j] # NoToken
        PROVE  \/ token'[j].turn = current'[token'[j].grant]
               \/ token'[j].grant \in spoiled'
               \/ Saving(token[j].grant)' # {}
    BY <2>4, <2>5, <2>6, <2>7
  <2>. QED
    BY <2>4, <2>7
<1>11. ASSUME NEW p \in Procs, LoadKey(p) PROVE StoredRefreshCurrent'
  <2>1. \A g : Saving(g) \subseteq Saving(g)'
    BY <1>11, LoadKeyEffect
  <2>2. UNCHANGED <<token, current, spoiled>>
    BY <1>11 DEF LoadKey
  <2>. QED
    BY <2>1, <2>2
<1>12. ASSUME NEW p \in Procs, SetKey(p) PROVE StoredRefreshCurrent'
  BY <1>12 DEF SetKey, Goto, Return
<1>13. ASSUME NEW p \in Procs, Insert(p) PROVE StoredRefreshCurrent'
  <2>1. Stored(p).grant = work[p].grant /\ Stored(p).turn = work[p].turn
    BY <1>13, InsertEffect, StoredType
  <2>2. UNCHANGED <<current, spoiled>>
    BY <1>13 DEF Insert
  <2>3. \A g : g # work[p].grant => Saving(g) \subseteq Saving(g)'
    BY <1>13, InsertEffect
  <2>4. \A j \in Ids \ {work[p].id} : token[j] # NoToken => token[j].grant # work[p].grant
    BY <1>13, InsertEffect DEF Owners, Holding
  <2>5. work[p].turn = current[work[p].grant] \/ work[p].grant \in spoiled
    BY <1>13, InsertEffect DEF CarriesCurrent, OnItsWay
  <2>6. work[p].id \in Ids /\ (work[p].id \notin instances => token[work[p].id] = NoToken)
    BY <1>13, InsertEffect DEF Work, TokenHasInstance
  <2>. HIDE DEF Saving
  <2>. QED
    BY <1>13, <2>1, <2>2, <2>3, <2>4, <2>5, <2>6, InsertEffect
<1>14. CASE Restart
  <2>1. UNCHANGED <<token, current>>
    BY <1>14 DEF Restart
  <2>2. \A g \in Grants : g \in spoiled \/ Saving(g) # {} => g \in spoiled'
    BY <1>14 DEF Restart
  <2>3. \A j \in Ids : token[j] # NoToken => token[j].grant \in Grants
    BY DEF Token
  <2>. HIDE DEF Saving
  <2>. QED
    BY <2>1, <2>2, <2>3
<1>15. CASE UNCHANGED vars
  BY <1>15 DEF vars
<1>. QED
  BY <1>1, <1>2, <1>3, <1>4, <1>5, <1>6, <1>7, <1>8, <1>9, <1>10, <1>11, <1>12, <1>13, <1>14, <1>15 DEF Next, AdminStep

---------------------------------------------------------------------------
(* Theorems.                                                               *)

\* The inductive invariant: who holds an attempt, a consent and a refresh
\* token, and the properties below.
THEOREM IInvCorrect == Spec => []IInv
<1>1. IInv /\ [Next]_vars => IInv'
  BY TypeStep, PlacesStep, AttemptsStep, OwnersStep, HasInstanceStep, KnownStep,
     SoleHolderStep, CarriesCurrentStep, StoredStep, UsedOnceStep DEF IInv
<1>. QED
  BY InitInv, <1>1, PTL DEF Spec

\* Every reachable state is well typed: what is stored in oauth_tokens is a
\* complete token under a key that was made.
THEOREM TypeCorrect == Spec => []TypeOK
  BY IInvCorrect, PTL DEF IInv

\* The stored refresh token is the one the provider accepts, or its successor
\* is on the way or lost, with any number of refreshes and callbacks at once
\* (EnsureFreshToken).
THEOREM StoredCurrent == Spec => []StoredRefreshCurrent
  BY IInvCorrect, PTL DEF IInv

\* No attempt yields two consents (PendingStore.Consume).
THEOREM UsedOnce == Spec => []StateUsedOnce
  BY IInvCorrect, PTL DEF IInv

\* A token stems from a consent begun for its own instance id, which may be one
\* that was given out again (handleOAuthCallback).
THEOREM OwnConsent == Spec => []ConsentReachesItsInstance
<1>1. IInv => ConsentReachesItsInstance
  BY DEF IInv, Owners, ConsentReachesItsInstance
<1>. QED
  BY IInvCorrect, <1>1, PTL

\* No token outlives its instance (oauth_tokens' foreign key).
THEOREM HasInstance == Spec => []TokenHasInstance
  BY IInvCorrect, PTL DEF IInv
=============================================================================
