------------------------------ MODULE Accounts ------------------------------
(***************************************************************************)
(* Admin accounts: first-run setup, creating and deleting users, TOTP       *)
(* enrollment with backup codes, and password reset (internal/api:          *)
(* admin_handlers, user_handlers, mfa_handlers, password_reset_handlers;    *)
(* internal/db: users, totp, password_reset).                               *)
(*                                                                         *)
(* A request is a process that runs its handler's SQL statements one at a   *)
(* time; a transaction is one step, because the pool has one connection.    *)
(* Requests of one account overlap: two browser tabs, a retry, a reset link *)
(* opened twice.  Sessions are not tracked: a request may come for any id,  *)
(* also one that has been deleted or given out again.                       *)
(***************************************************************************)
EXTENDS Naturals, FiniteSets

CONSTANTS
  MaxUser,    \* bound: user ids are 1..MaxUser
  Requests,   \* bound: requests in flight at once
  Secrets,    \* random TOTP secrets; bounds how often one is generated
  MaxBatch,   \* bound: batches of backup codes
  BatchSize,  \* backup codes in a batch
  Links,      \* bound: password-reset tokens
  NoUser, NoSecret, NoCode, NoJob

Ids   == 1..MaxUser
Codes == (1..MaxBatch) \X (1..BatchSize)
User  == [secret : Secrets \cup {NoSecret}, enabled : BOOLEAN]

\* What a request has been given: the account, the backup code it was sent,
\* whether it must disable TOTP.
Job == [id : Ids, code : Codes \cup {NoCode}, disable : BOOLEAN]

Link == [id : Ids, state : {"open", "expired", "used", "gone"}, redeemed : 0..2]
Fresh == [id |-> 1, state |-> "gone", redeemed |-> 0]

ASSUME AccountsAssumption ==
  /\ MaxUser \in Nat \ {0} /\ MaxBatch \in Nat /\ BatchSize \in Nat
  /\ NoUser \notin User /\ NoSecret \notin Secrets
  /\ NoCode \notin Codes /\ NoJob \notin Job

VARIABLES
  user,     \* users: id -> row, or NoUser
  codes,    \* totp_backup_codes: id -> the unused ones
  batches,  \* batches generated so far
  link,     \* password_reset_tokens, and how often each was redeemed (history)
  sent,     \* the links mailed so far
  pc, job,  \* the requests
  spent     \* history: how often each backup code was redeemed

vars == <<user, codes, batches, link, sent, pc, job, spent>>

Labels == {"idle", "setup", "enroll", "confirm", "codes", "disable", "redeem",
           "password"}

---------------------------------------------------------------------------
Exists(i) == user[i] # NoUser

\* INTEGER PRIMARY KEY without AUTOINCREMENT: one past the largest id in use.
NewId == CHOOSE n \in 1..(MaxUser + 1) :
           /\ n > 1 => user[n - 1] # NoUser
           /\ \A i \in Ids : i >= n => user[i] = NoUser

Insert == /\ NewId \in Ids
          /\ user' = [user EXCEPT ![NewId] = [secret |-> NoSecret, enabled |-> FALSE]]

\* A request begins its next statement with what it knows, or is answered.
Begin(q, label, j) == pc' = [pc EXCEPT ![q] = label] /\ job' = [job EXCEPT ![q] = j]
Answer(q) == Begin(q, "idle", NoJob)

For(i) == [id |-> i, code |-> NoCode, disable |-> FALSE]

UnusedSecret(s) == \A i \in Ids : Exists(i) => user[i].secret # s

\* An empty database, before first-run setup.
Init ==
  /\ user = [i \in Ids |-> NoUser] /\ codes = [i \in Ids |-> {}] /\ batches = 0
  /\ link = [t \in Links |-> Fresh] /\ sent = {}
  /\ pc = [q \in Requests |-> "idle"] /\ job = [q \in Requests |-> NoJob]
  /\ spent = [c \in Codes |-> 0]

---------------------------------------------------------------------------
(* Accounts.                                                               *)

\* handleSetup counts the users ...
SetupCount(q) ==
  /\ pc[q] = "idle"
  /\ \A i \in Ids : ~Exists(i)
  /\ Begin(q, "setup", NoJob)
  /\ UNCHANGED <<user, codes, batches, link, sent, spent>>

\* ... and inserts one (unless its username is taken by then).
SetupInsert(q) ==
  /\ pc[q] = "setup"
  /\ \/ Insert
     \/ UNCHANGED user /\ \E i \in Ids : Exists(i)
  /\ Answer(q)
  /\ UNCHANGED <<codes, batches, link, sent, spent>>

\* CreateUser, asked for by an admin.
CreateUser ==
  /\ \E i \in Ids : Exists(i)
  /\ Insert
  /\ UNCHANGED <<codes, batches, link, sent, pc, job, spent>>

\* Deleting an account takes its backup codes and reset links along.
Cascade(i) ==
  /\ user' = [user EXCEPT ![i] = NoUser]
  /\ codes' = [codes EXCEPT ![i] = {}]
  /\ link' = [t \in Links |-> IF link[t].id = i THEN [link[t] EXCEPT !.state = "gone"]
                              ELSE link[t]]

\* Fault: the remaining accounts are not counted after the delete.
DeleteUserUncounted(i) ==
  /\ Exists(i)
  /\ Cascade(i)
  /\ UNCHANGED <<batches, sent, pc, job, spent>>

\* DeleteUser: delete, count what is left, roll back when that is nothing.
DeleteUser(i) ==
  /\ Exists(i)
  /\ \E k \in Ids \ {i} : Exists(k)
  /\ Cascade(i)
  /\ UNCHANGED <<batches, sent, pc, job, spent>>

---------------------------------------------------------------------------
(* Two-factor authentication.                                              *)

\* handleEnrollTOTP refuses an account that has TOTP enabled ...
EnrollRead(q) ==
  /\ pc[q] = "idle"
  /\ \E i \in Ids : Exists(i) /\ ~user[i].enabled /\ Begin(q, "enroll", For(i))
  /\ UNCHANGED <<user, codes, batches, link, sent, spent>>

\* ... and StartTOTPEnrollment stages a new secret, switching TOTP off.
EnrollStage(q) ==
  /\ pc[q] = "enroll"
  /\ LET i == job[q].id
     IN IF Exists(i)
        THEN \E s \in Secrets :
               /\ UnusedSecret(s)
               /\ user' = [user EXCEPT ![i] = [secret |-> s, enabled |-> FALSE]]
        ELSE UNCHANGED user
  /\ Answer(q)
  /\ UNCHANGED <<codes, batches, link, sent, spent>>

\* handleConfirmTOTP reads the staged secret and sees a valid code for it.
\* (An invalid code, and no secret, end the request.)
ConfirmRead(q) ==
  /\ pc[q] = "idle"
  /\ \E i \in Ids :
       /\ Exists(i) /\ user[i].secret # NoSecret
       /\ Begin(q, "confirm", For(i))
  /\ UNCHANGED <<user, codes, batches, link, sent, spent>>

\* Fault: UPDATE users SET totp_enabled = 1 without "totp_secret IS NOT NULL".
ConfirmFlipAlways(q) ==
  /\ pc[q] = "confirm"
  /\ LET i == job[q].id
     IN IF Exists(i)
        THEN /\ user' = [user EXCEPT ![i].enabled = TRUE]
             /\ Begin(q, "codes", For(i))
        ELSE UNCHANGED user /\ Answer(q)
  /\ UNCHANGED <<codes, batches, link, sent, spent>>

\* ConfirmTOTPEnrollment flips totp_enabled where some secret is staged.
ConfirmFlip(q) ==
  /\ pc[q] = "confirm"
  /\ LET i == job[q].id
     IN IF Exists(i) /\ user[i].secret # NoSecret
        THEN /\ user' = [user EXCEPT ![i].enabled = TRUE]
             /\ Begin(q, "codes", For(i))
        ELSE UNCHANGED user /\ Answer(q)
  /\ UNCHANGED <<codes, batches, link, sent, spent>>

\* handleRegenerateBackupCodes: the password matches and TOTP is enabled.
RegenerateRead(q) ==
  /\ pc[q] = "idle"
  /\ \E i \in Ids : Exists(i) /\ user[i].enabled /\ Begin(q, "codes", For(i))
  /\ UNCHANGED <<user, codes, batches, link, sent, spent>>

\* Fault: the old backup codes are not cleared.
GenerateCodesAdds(q) ==
  /\ pc[q] = "codes" /\ batches < MaxBatch
  /\ LET i == job[q].id
     IN IF Exists(i)
        THEN /\ batches' = batches + 1
             /\ codes' = [codes EXCEPT ![i] = @ \cup {batches'} \X (1..BatchSize)]
        ELSE UNCHANGED <<batches, codes>>
  /\ Answer(q)
  /\ UNCHANGED <<user, link, sent, spent>>

\* Fault: the foreign key is not enforced.
GenerateCodesOrphan(q) ==
  /\ pc[q] = "codes" /\ batches < MaxBatch
  /\ batches' = batches + 1
  /\ codes' = [codes EXCEPT ![job[q].id] = {batches'} \X (1..BatchSize)]
  /\ Answer(q)
  /\ UNCHANGED <<user, link, sent, spent>>

\* GenerateBackupCodes replaces the batch, in one transaction; the foreign key
\* refuses codes for an account that has gone.
GenerateCodes(q) ==
  /\ pc[q] = "codes" /\ batches < MaxBatch
  /\ LET i == job[q].id
     IN IF Exists(i)
        THEN /\ batches' = batches + 1
             /\ codes' = [codes EXCEPT ![i] = {batches'} \X (1..BatchSize)]
        ELSE UNCHANGED <<batches, codes>>
  /\ Answer(q)
  /\ UNCHANGED <<user, link, sent, spent>>

\* handleDisableTOTP: the password matches ...
DisableRead(q) ==
  /\ pc[q] = "idle"
  /\ \E i \in Ids : Exists(i) /\ Begin(q, "disable", For(i))
  /\ UNCHANGED <<user, codes, batches, link, sent, spent>>

\* ... and DisableTOTP clears secret, flag and codes in one transaction.
Disable(q) ==
  /\ pc[q] = "disable"
  /\ LET i == job[q].id
     IN /\ user' = IF Exists(i)
                   THEN [user EXCEPT ![i] = [secret |-> NoSecret, enabled |-> FALSE]]
                   ELSE user
        /\ codes' = [codes EXCEPT ![i] = {}]
  /\ Answer(q)
  /\ UNCHANGED <<batches, link, sent, spent>>

\* handleMFAVerify reads the secret; the code sent is no current TOTP code, so
\* it is tried as a backup code.  (A TOTP code leads to a session at once.)
VerifyRead(q) ==
  /\ pc[q] = "idle"
  /\ \E i \in Ids, c \in Codes :
       /\ Exists(i) /\ user[i].secret # NoSecret
       /\ c[1] <= batches
       /\ Begin(q, "redeem", [For(i) EXCEPT !.code = c])
  /\ UNCHANGED <<user, codes, batches, link, sent, spent>>

\* Fault: a redeemed code is not marked used.
RedeemUnmarked(q) ==
  /\ pc[q] = "redeem"
  /\ LET c == job[q].code
     IN /\ UNCHANGED codes
        /\ spent' = IF c \in codes[job[q].id] /\ spent[c] < 2
                    THEN [spent EXCEPT ![c] = @ + 1] ELSE spent
  /\ Answer(q)
  /\ UNCHANGED <<user, batches, link, sent>>

\* ConsumeBackupCode: one UPDATE finds the unused code and marks it used.
Redeem(q) ==
  /\ pc[q] = "redeem"
  /\ LET i == job[q].id
         c == job[q].code
     IN /\ codes' = [codes EXCEPT ![i] = @ \ {c}]
        /\ spent' = IF c \in codes[i] /\ spent[c] < 2
                    THEN [spent EXCEPT ![c] = @ + 1] ELSE spent
  /\ Answer(q)
  /\ UNCHANGED <<user, batches, link, sent>>

---------------------------------------------------------------------------
(* Password reset.                                                         *)

\* handleForgotPassword stores a token and mails the link (a mail that fails
\* leaves the token unsent, and unusable).
ForgotPassword(i) ==
  /\ Exists(i)
  /\ \E t \in Links \ sent :
       /\ sent' = sent \cup {t}
       /\ link' = [link EXCEPT ![t] = [id |-> i, state |-> "open", redeemed |-> 0]]
  /\ UNCHANGED <<user, codes, batches, pc, job, spent>>

LinkExpires(t) ==
  /\ link[t].state = "open"
  /\ link' = [link EXCEPT ![t].state = "expired"]
  /\ UNCHANGED <<user, codes, batches, sent, pc, job, spent>>

\* Fault: a used link is only remembered as used when it has expired.
ResetRedeemUnmarked(q) ==
  /\ pc[q] = "idle"
  /\ \E t \in Links, mfa \in BOOLEAN :
       /\ link[t].state = "open" /\ link[t].redeemed < 2
       /\ link' = [link EXCEPT ![t].redeemed = @ + 1]
       /\ Begin(q, "password", [For(link[t].id) EXCEPT !.disable = mfa])
  /\ UNCHANGED <<user, codes, batches, sent, spent>>

\* handleResetPassword: ConsumePasswordResetToken marks an open link used.
ResetRedeem(q) ==
  /\ pc[q] = "idle"
  /\ \E t \in Links, mfa \in BOOLEAN :
       /\ link[t].state = "open" /\ link[t].redeemed < 2
       /\ link' = [link EXCEPT ![t].state = "used", ![t].redeemed = @ + 1]
       /\ Begin(q, "password", [For(link[t].id) EXCEPT !.disable = mfa])
  /\ UNCHANGED <<user, codes, batches, sent, spent>>

\* SetUserPasswordHash finds the account, and TOTP is disabled if asked for.
ResetPassword(q) ==
  /\ pc[q] = "password"
  /\ IF Exists(job[q].id) /\ job[q].disable
     THEN Begin(q, "disable", job[q])
     ELSE Answer(q)
  /\ UNCHANGED <<user, codes, batches, link, sent, spent>>

\* The server restarts: requests in flight end where they are.
Restart ==
  /\ pc' = [q \in Requests |-> "idle"] /\ job' = [q \in Requests |-> NoJob]
  /\ UNCHANGED <<user, codes, batches, link, sent, spent>>

---------------------------------------------------------------------------
AccountStep(q) == SetupCount(q) \/ SetupInsert(q)

TotpStep(q) ==
  \/ EnrollRead(q) \/ EnrollStage(q) \/ ConfirmRead(q) \/ ConfirmFlip(q)
  \/ RegenerateRead(q) \/ GenerateCodes(q) \/ DisableRead(q) \/ Disable(q)
  \/ VerifyRead(q) \/ Redeem(q)

ResetStep(q) == ResetRedeem(q) \/ ResetPassword(q)

Next ==
  \/ \E q \in Requests : AccountStep(q) \/ TotpStep(q) \/ ResetStep(q)
  \/ CreateUser
  \/ \E i \in Ids : DeleteUser(i) \/ ForgotPassword(i)
  \/ \E t \in Links : LinkExpires(t)
  \/ Restart

Spec == Init /\ [][Next]_vars

---------------------------------------------------------------------------
(* Properties.                                                             *)

\* Rows have their columns' types, and no backup code outlives its account
\* (ON DELETE CASCADE), so none is inherited with a reused id.
TypeOK ==
  /\ user \in [Ids -> User \cup {NoUser}]
  /\ codes \in [Ids -> SUBSET Codes]
  /\ batches \in 0..MaxBatch
  /\ link \in [Links -> Link]
  /\ sent \subseteq Links
  /\ pc \in [Requests -> Labels]
  /\ job \in [Requests -> Job \cup {NoJob}]
  /\ spent \in [Codes -> 0..2]
  /\ \A i \in Ids : ~Exists(i) => codes[i] = {}

\* A login that is asked for a second factor has a secret to check it against,
\* whatever enrollments, confirmations, disables and resets overlap: otherwise
\* no code could ever be accepted (ConfirmTOTPEnrollment, DisableTOTP).
EnabledHasSecret ==
  \A i \in Ids : Exists(i) /\ user[i].enabled => user[i].secret # NoSecret

\* A backup code is redeemed once at most, by however many requests at once
\* ("marking it used so it can never be redeemed again").
CodeRedeemedOnce == \A c \in Codes : spent[c] <= 1

\* Regenerating invalidates the old set: an account's unused codes are all of
\* one batch, also when two requests generate at once (GenerateBackupCodes).
OneBatch ==
  \A i \in Ids : \A c, d \in codes[i] : c[1] = d[1]

\* A reset link changes a password once at most ("a token can never be
\* validated twice, even by two concurrent requests racing each other").
LinkRedeemedOnce == \A t \in Links : link[t].redeemed <= 1

\* Once somebody has an account, somebody keeps one: there is no way back in
\* otherwise (DeleteUser).
SomeAdminStays ==
  [][(\E i \in Ids : Exists(i)) => (\E i \in Ids : Exists(i)')]_vars
=============================================================================
