---------------------------- MODULE OAuthTokens ----------------------------
(***************************************************************************)
(* OAuth2 tokens of data-plugin instances: the authorize/callback/          *)
(* deauthorize handlers (internal/api/oauth_handlers.go), the in-memory     *)
(* PendingStore and EnsureFreshToken (internal/oauth), and the oauth_tokens *)
(* table with its encryption key (internal/db/oauth_tokens.go,              *)
(* oauth_encryption.go).                                                    *)
(*                                                                         *)
(* Refreshers run EnsureFreshToken (fetch loops, Reload, test and discover  *)
(* requests: nothing serialises them); Browsers run the OAuth callback.     *)
(* Every SQL statement is one step, and the provider is called between      *)
(* steps.  The provider (external) answers each consent with a grant whose  *)
(* refresh token it may rotate, refusing all but the latest.                *)
(***************************************************************************)
EXTENDS Naturals

CONSTANTS
  Ids,         \* row ids of OAuth2 plugin instances
  Refreshers,  \* bound: concurrent calls of EnsureFreshToken
  Browsers,    \* bound: concurrent callback requests
  States,      \* bound: CSRF state tokens, one per authorization attempt
  Grants,      \* bound: consents the provider records
  MaxTurn,     \* bound: rotations of one grant's refresh token, plus one
  Rotates,     \* TRUE: the provider rotates refresh tokens
  Keys,        \* random AES keys
  NoKey, NoToken, NoGrant, NoState

Procs == Refreshers \cup Browsers
Turns == 1..MaxTurn

\* A stored (encrypted) token: which consent it stems from, which of its
\* refresh tokens it holds, whether it is expired or about to.
Token == [grant : Grants, turn : Turns, stale : BOOLEAN, key : Keys]

\* What a process works with: the instance it serves, and the token material.
Work == [id : Ids, grant : Grants \cup {NoGrant}, turn : Turns,
         key : Keys \cup {NoKey}, state : States \cup {NoState}]

ASSUME OAuthAssumption ==
  /\ MaxTurn \in Nat \ {0} /\ Rotates \in BOOLEAN
  /\ Refreshers \cap Browsers = {}
  /\ NoKey \notin Keys /\ NoToken \notin Token \cup Work
  /\ NoGrant \notin Grants /\ NoState \notin States

VARIABLES
  instances,  \* ids with a row in data_plugin_instances
  token,      \* oauth_tokens: id -> token, or NoToken
  key,        \* system_settings' oauth_token_encryption_key
  pending,    \* PendingStore: state -> "unused", "open", "expired" or "gone"
  begun,      \* the instance each attempt was begun for
  current,    \* the provider: grant -> the refresh token it accepts (0: none yet)
  from,       \* the provider: the attempt a grant was consented in
  pc, work,   \* the processes
  authorized, \* history: the grant of the last callback saved for an id and
              \* not revoked or deleted since
  spoiled     \* history: grants whose rotated refresh token never came home

provider == <<current, from>>
history  == <<authorized, spoiled>>
vars == <<instances, token, key, pending, begun, provider, pc, work, history>>

Labels == {"idle", "refresh", "exchange", "save", "newkey", "insert"}

TypeOK ==
  /\ instances \subseteq Ids
  /\ token \in [Ids -> Token \cup {NoToken}]
  /\ key \in Keys \cup {NoKey}
  /\ pending \in [States -> {"unused", "open", "expired", "gone"}]
  /\ begun \in [States -> Ids]
  /\ current \in [Grants -> Turns \cup {0}]
  /\ from \in [Grants -> States \cup {NoState}]
  /\ pc \in [Procs -> Labels]
  /\ work \in [Procs -> Work \cup {NoToken}]
  /\ authorized \in [Ids -> Grants \cup {NoGrant}]
  /\ spoiled \subseteq Grants

---------------------------------------------------------------------------
Goto(p, label) == pc' = [pc EXCEPT ![p] = label]

\* The call returns, with a token or with an error.
Return(p) == Goto(p, "idle") /\ work' = [work EXCEPT ![p] = NoToken]

\* The processes holding token material of grant g that is not stored yet.
Saving(g) ==
  {p \in Procs : pc[p] \in {"save", "newkey", "insert"} /\ work[p].grant = g}

\* A fresh database with some instances and nothing authorized.
Init ==
  /\ instances \in SUBSET Ids
  /\ token = [i \in Ids |-> NoToken] /\ key = NoKey
  /\ pending = [s \in States |-> "unused"] /\ begun \in [States -> Ids]
  /\ current = [g \in Grants |-> 0] /\ from = [g \in Grants |-> NoState]
  /\ pc = [p \in Procs |-> "idle"] /\ work = [p \in Procs |-> NoToken]
  /\ authorized = [i \in Ids |-> NoGrant] /\ spoiled = {}

---------------------------------------------------------------------------
(* Authorize and callback.                                                 *)

\* handleOAuthAuthorize -> PendingStore.Begin: expired entries are evicted,
\* and a new random state is remembered for the instance.
Authorize(i) ==
  /\ i \in instances
  /\ \E s \in States :
       /\ pending[s] = "unused"
       /\ pending' = [t \in States |-> IF t = s THEN "open"
                                       ELSE IF pending[t] = "expired" THEN "gone"
                                       ELSE pending[t]]
       /\ begun' = [begun EXCEPT ![s] = i]
  /\ UNCHANGED <<instances, token, key, provider, pc, work, history>>

\* pendingTTL passes.
AttemptExpires(s) ==
  /\ pending[s] = "open"
  /\ pending' = [pending EXCEPT ![s] = "expired"]
  /\ UNCHANGED <<instances, token, key, begun, provider, pc, work, history>>

\* Fault: the state is looked up but not removed.
CallbackNoRemove(b) ==
  /\ pc[b] = "idle"
  /\ \E s \in States :
       /\ pending[s] \in {"open", "expired"}
       /\ UNCHANGED pending
       /\ \/ /\ pending[s] = "open" /\ begun[s] \in instances
             /\ work' = [work EXCEPT ![b] = [id |-> begun[s], grant |-> NoGrant,
                                             turn |-> 1, key |-> NoKey, state |-> s]]
             /\ Goto(b, "exchange")
          \/ UNCHANGED <<pc, work>>
  /\ UNCHANGED <<instances, token, key, begun, provider, history>>

\* Fault: the callback takes the instance from its own URL, not from the state.
CallbackAnyInstance(b) ==
  /\ pc[b] = "idle"
  /\ \E s \in States, i \in instances :
       /\ pending[s] \in {"open", "expired"}
       /\ pending' = [pending EXCEPT ![s] = "gone"]
       /\ \/ /\ pending[s] = "open"
             /\ work' = [work EXCEPT ![b] = [id |-> i, grant |-> NoGrant,
                                             turn |-> 1, key |-> NoKey, state |-> s]]
             /\ Goto(b, "exchange")
          \/ UNCHANGED <<pc, work>>
  /\ UNCHANGED <<instances, token, key, begun, provider, history>>

\* handleOAuthCallback: Consume removes the state whatever comes next; an
\* expired attempt, a missing code, an instance that has gone or a config
\* without client_id ends the request.
Callback(b) ==
  /\ pc[b] = "idle"
  /\ \E s \in States :
       /\ pending[s] \in {"open", "expired"}
       /\ pending' = [pending EXCEPT ![s] = "gone"]
       /\ \/ /\ pending[s] = "open" /\ begun[s] \in instances
             /\ work' = [work EXCEPT ![b] = [id |-> begun[s], grant |-> NoGrant,
                                             turn |-> 1, key |-> NoKey, state |-> s]]
             /\ Goto(b, "exchange")
          \/ UNCHANGED <<pc, work>>
  /\ UNCHANGED <<instances, token, key, begun, provider, history>>

\* Exchange: the provider trades the code for a new grant, or the call fails.
Exchange(b) ==
  /\ pc[b] = "exchange"
  /\ \/ /\ \E g \in Grants :
             /\ current[g] = 0
             /\ current' = [current EXCEPT ![g] = 1]
             /\ from' = [from EXCEPT ![g] = work[b].state]
             /\ work' = [work EXCEPT ![b].grant = g]
        /\ Goto(b, "save")
     \/ Return(b) /\ UNCHANGED provider
  /\ UNCHANGED <<instances, token, key, pending, begun, history>>

---------------------------------------------------------------------------
(* EnsureFreshToken.                                                       *)

\* GetOAuthToken: only a token about to expire, and readable with the stored
\* key, leads further; otherwise the call returns and nothing changes.
\* (A provider that issues no refresh token ends here as well.)
LoadToken(r) ==
  /\ pc[r] = "idle"
  /\ \E i \in Ids :
       /\ token[i] # NoToken /\ token[i].stale /\ token[i].key = key
       /\ work' = [work EXCEPT ![r] = [id |-> i, grant |-> token[i].grant,
                     turn |-> token[i].turn, key |-> NoKey, state |-> NoState]]
  /\ Goto(r, "refresh")
  /\ UNCHANGED <<instances, token, key, pending, begun, provider, history>>

\* Fault: the old refresh token is kept although a new one came back.
RefreshKeepsOld(r) ==
  /\ pc[r] = "refresh"
  /\ LET g == work[r].grant
         n == IF Rotates THEN current[g] + 1 ELSE current[g]
     IN \/ /\ work[r].turn = current[g] /\ n \in Turns
           /\ current' = [current EXCEPT ![g] = n]
           /\ Goto(r, "save") /\ UNCHANGED <<work, spoiled>>
        \/ Return(r) /\ UNCHANGED <<current, spoiled>>
  /\ UNCHANGED <<instances, token, key, pending, begun, from, authorized>>

\* Refresh: the provider accepts only the grant's current refresh token and
\* may rotate it (no new token in the answer: the old one is kept); or it
\* refuses, or cannot be reached; or the answer is lost on its way, or to the
\* cancellation of the caller's context by a Reload.
Refresh(r) ==
  /\ pc[r] = "refresh"
  /\ LET g == work[r].grant
         n == IF Rotates THEN current[g] + 1 ELSE current[g]
     IN \/ /\ work[r].turn = current[g] /\ n \in Turns
           /\ current' = [current EXCEPT ![g] = n]
           /\ \/ /\ work' = [work EXCEPT ![r].turn = n]
                 /\ Goto(r, "save") /\ UNCHANGED spoiled
              \/ Return(r) /\ spoiled' = spoiled \cup {g}
        \/ Return(r) /\ UNCHANGED <<current, spoiled>>
  /\ UNCHANGED <<instances, token, key, pending, begun, from, authorized>>

---------------------------------------------------------------------------
(* UpsertOAuthToken, by either kind of process.                            *)

\* Fault: a missing setting is taken for an empty key.
LoadKeyEmpty(p) ==
  /\ pc[p] = "save"
  /\ work' = [work EXCEPT ![p].key = key]
  /\ Goto(p, "insert")
  /\ UNCHANGED <<instances, token, key, pending, begun, provider, history>>

\* loadOrCreateOAuthEncryptionKey reads the setting; without one it makes a
\* random key ...
LoadKey(p) ==
  /\ pc[p] = "save"
  /\ IF key # NoKey
     THEN work' = [work EXCEPT ![p].key = key] /\ Goto(p, "insert")
     ELSE /\ \E k \in Keys :
               /\ \A q \in Procs : work[q] # NoToken => work[q].key # k
               /\ work' = [work EXCEPT ![p].key = k]
          /\ Goto(p, "newkey")
  /\ UNCHANGED <<instances, token, key, pending, begun, provider, history>>

\* ... and writes it over whatever is there by then.
SetKey(p) ==
  /\ pc[p] = "newkey"
  /\ key' = work[p].key
  /\ Goto(p, "insert")
  /\ UNCHANGED <<instances, token, pending, begun, provider, work, history>>

Stored(p) == [grant |-> work[p].grant, turn |-> work[p].turn,
              stale |-> FALSE, key |-> work[p].key]

\* Fault: oauth_tokens without its foreign key.
InsertNoForeignKey(p) ==
  /\ pc[p] = "insert"
  /\ token' = [token EXCEPT ![work[p].id] = Stored(p)]
  /\ authorized' = IF p \in Browsers
                   THEN [authorized EXCEPT ![work[p].id] = work[p].grant]
                   ELSE authorized
  /\ Return(p)
  /\ UNCHANGED <<instances, key, pending, begun, provider, spoiled>>

\* The upsert replaces whatever row is there; the foreign key refuses it when
\* the instance has gone.
Insert(p) ==
  /\ pc[p] = "insert"
  /\ IF work[p].id \in instances
     THEN /\ token' = [token EXCEPT ![work[p].id] = Stored(p)]
          /\ authorized' = IF p \in Browsers
                           THEN [authorized EXCEPT ![work[p].id] = work[p].grant]
                           ELSE authorized
     ELSE UNCHANGED <<token, authorized>>
  /\ Return(p)
  /\ UNCHANGED <<instances, key, pending, begun, provider, spoiled>>

---------------------------------------------------------------------------
(* Admin requests, time, and restarts.                                     *)

\* handleDeauthorizePluginInstance.
Deauthorize(i) ==
  /\ token' = [token EXCEPT ![i] = NoToken]
  /\ authorized' = [authorized EXCEPT ![i] = NoGrant]
  /\ UNCHANGED <<instances, key, pending, begun, provider, pc, work, spoiled>>

\* DeletePluginInstance; oauth_tokens cascades.
DeleteInstance(i) ==
  /\ i \in instances
  /\ instances' = instances \ {i}
  /\ token' = [token EXCEPT ![i] = NoToken]
  /\ authorized' = [authorized EXCEPT ![i] = NoGrant]
  /\ UNCHANGED <<key, pending, begun, provider, pc, work, spoiled>>

\* CreatePluginInstance: the id may be one a deleted instance had.
CreateInstance(i) ==
  /\ i \notin instances
  /\ instances' = instances \cup {i}
  /\ UNCHANGED <<token, key, pending, begun, provider, pc, work, history>>

\* expires_at minus expiryLeeway passes.
TokenExpires(i) ==
  /\ token[i] # NoToken /\ ~token[i].stale
  /\ token' = [token EXCEPT ![i].stale = TRUE]
  /\ UNCHANGED <<instances, key, pending, begun, provider, pc, work, history>>

\* The server restarts: calls in flight and the PendingStore are gone, the
\* database stays, and what the provider rotated meanwhile is lost.
Restart ==
  /\ pc' = [p \in Procs |-> "idle"]
  /\ work' = [p \in Procs |-> NoToken]
  /\ pending' = [s \in States |-> IF pending[s] = "unused" THEN "unused" ELSE "gone"]
  /\ spoiled' = spoiled \cup {g \in Grants : Saving(g) # {}}
  /\ UNCHANGED <<instances, token, key, begun, provider, authorized>>

---------------------------------------------------------------------------
AdminStep(i) ==
  Authorize(i) \/ Deauthorize(i) \/ DeleteInstance(i) \/ CreateInstance(i)

Next ==
  \/ \E i \in Ids : AdminStep(i) \/ TokenExpires(i)
  \/ \E s \in States : AttemptExpires(s)
  \/ \E b \in Browsers : Callback(b) \/ Exchange(b)
  \/ \E r \in Refreshers : LoadToken(r) \/ Refresh(r)
  \/ \E p \in Procs : LoadKey(p) \/ SetKey(p) \/ Insert(p)
  \/ Restart

Spec == Init /\ [][Next]_vars

---------------------------------------------------------------------------
(* Properties.                                                             *)

\* However many refreshes, re-authorizations and deletions overlap, the stored
\* refresh token is the one the provider accepts, so the instance never needs
\* a new consent: unless its rotated token is still on its way into the table,
\* or was lost with an answer or a restart (EnsureFreshToken).
StoredRefreshCurrent ==
  \A i \in Ids : token[i] # NoToken =>
    LET g == token[i].grant
    IN token[i].turn = current[g] \/ g \in spoiled \/ Saving(g) # {}

\* "Single-use: a state can't be replayed once consumed": no attempt yields
\* two grants, in whatever order callbacks arrive (PendingStore.Consume).
StateUsedOnce ==
  \A g, h \in Grants : from[g] # NoState /\ from[g] = from[h] => g = h

\* The token of an instance stems from a consent begun for that instance's id:
\* concurrent attempts are not mixed up (handleOAuthCallback).
ConsentReachesItsInstance ==
  \A i \in Ids : token[i] # NoToken => begun[from[token[i].grant]] = i

\* No token outlives its instance, although a refresh or a callback may be
\* about to store one when it is deleted (oauth_tokens' foreign key).
TokenHasInstance == \A i \in Ids : token[i] # NoToken => i \in instances

\* The admin's last word counts: a stored token stems from the last completed
\* authorization, and after a de-authorize there is none until the next
\* ("an admin can revoke and re-authorize").
StoredIsAuthorized ==
  \A i \in Ids : token[i] # NoToken => token[i].grant = authorized[i]
=============================================================================
