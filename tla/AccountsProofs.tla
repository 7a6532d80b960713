--------------------------- MODULE AccountsProofs ---------------------------
(***************************************************************************)
(* Theorems about Accounts.                                                *)
(*                                                                         *)
(* A backup code is of one batch, and a batch of one account: so a code    *)
(* that is still unused was never redeemed, and redeeming it takes it away *)
(* for good.  The same holds of a reset link and its state.                *)
(***************************************************************************)
EXTENDS Accounts, TLAPS

\* A request that is past its first statement has an account to work on.
Jobs ==
  \A q \in Requests :
    pc[q] \in {"enroll", "confirm", "codes", "disable", "redeem", "password"}
      => job[q] \in Job

\* Unused codes were never redeemed; a code that was redeemed exists; no code
\* belongs to two accounts.
Unused ==
  /\ \A i \in Ids : \A c \in codes[i] : c[1] <= batches /\ spent[c] = 0
  /\ \A c \in Codes : spent[c] > 0 => c[1] <= batches
  /\ \A i, j \in Ids : \A c \in codes[i] : c \in codes[j] => i = j

\* An open link was never redeemed.
OpenLinks == \A t \in Links : link[t].state = "open" => link[t].redeemed = 0

IInv ==
  /\ TypeOK /\ Jobs /\ Unused /\ OpenLinks
  /\ EnabledHasSecret /\ CodeRedeemedOnce /\ OneBatch /\ LinkRedeemedOnce
---------------------------------------------------------------------------
LEMMA InitInv == Init => IInv
<1>. SUFFICES ASSUME Init PROVE IInv
  OBVIOUS
<1>. USE AccountsAssumption
<1>1. TypeOK
  BY DEF Init, TypeOK, Labels, Link, Fresh, Ids, Exists
<1>2. Jobs /\ Unused /\ OpenLinks
  BY DEF Init, Jobs, Unused, OpenLinks, Fresh
<1>3. EnabledHasSecret /\ CodeRedeemedOnce /\ OneBatch /\ LinkRedeemedOnce
  BY DEF Init, EnabledHasSecret, CodeRedeemedOnce, OneBatch, LinkRedeemedOnce, Exists, Fresh
<1>. QED
  BY <1>1, <1>2, <1>3 DEF IInv

\* The codes of a batch carry its number.
LEMMA BatchType ==
  ASSUME NEW n \in 1..MaxBatch
  PROVE  /\ {n} \X (1..BatchSize) \subseteq Codes
         /\ \A c \in {n} \X (1..BatchSize) : c[1] = n
  BY DEF Codes

\* The jobs a request can be given.
LEMMA JobType ==
  ASSUME NEW i \in Ids
  PROVE  /\ For(i) \in Job
         /\ \A c \in Codes : [For(i) EXCEPT !.code = c] \in Job
         /\ \A b \in BOOLEAN : [For(i) EXCEPT !.disable = b] \in Job
  BY DEF For, Job

LEMMA UserType ==
  /\ [secret |-> NoSecret, enabled |-> FALSE] \in User
  /\ \A s \in Secrets : [secret |-> s, enabled |-> FALSE] \in User
  /\ \A u \in User : [u EXCEPT !.enabled = TRUE] \in User
  /\ NoUser \notin User
  BY AccountsAssumption DEF User

\* What a new batch, a disable, a redeemed code or a deleted account leaves.
LEMMA GenerateEffect ==
  ASSUME TypeOK, Jobs, NEW q \in Requests, GenerateCodes(q)
  PROVE  /\ UNCHANGED <<user, link, spent>>
         /\ \/ UNCHANGED <<batches, codes>>
            \/ /\ batches' = batches + 1 /\ batches' \in 1..MaxBatch
               /\ job[q].id \in Ids /\ Exists(job[q].id)
               /\ codes' = [codes EXCEPT ![job[q].id] = {batches'} \X (1..BatchSize)]
<1>1. job[q].id \in Ids
  BY DEF GenerateCodes, Jobs, Job
<1>2. batches < MaxBatch => batches + 1 \in 1..MaxBatch
  BY AccountsAssumption DEF TypeOK
<1>. QED
  BY <1>1, <1>2 DEF GenerateCodes

LEMMA RedeemEffect ==
  ASSUME TypeOK, Jobs, NEW q \in Requests, Redeem(q)
  PROVE  /\ UNCHANGED <<user, batches, link>>
         /\ job[q].id \in Ids
         /\ codes' = [codes EXCEPT ![job[q].id] = @ \ {job[q].code}]
         /\ \/ spent' = spent
            \/ /\ job[q].code \in codes[job[q].id]
               /\ spent[job[q].code] < 2
               /\ spent' = [spent EXCEPT ![job[q].code] = @ + 1]
         /\ \A c \in Codes : spent'[c] = spent[c]
                             \/ (c = job[q].code /\ job[q].code \in codes[job[q].id])
<1>1. job[q].id \in Ids
  BY DEF Redeem, Jobs, Job
<1>2. /\ UNCHANGED <<user, batches, link>>
      /\ codes' = [codes EXCEPT ![job[q].id] = @ \ {job[q].code}]
      /\ \/ spent' = spent
         \/ /\ job[q].code \in codes[job[q].id]
            /\ spent[job[q].code] < 2
            /\ spent' = [spent EXCEPT ![job[q].code] = @ + 1]
  BY DEF Redeem
<1>3. \A c \in Codes : spent'[c] = spent[c]
                         \/ (c = job[q].code /\ job[q].code \in codes[job[q].id])
  BY <1>2 DEF TypeOK
<1>. QED
  BY <1>1, <1>2, <1>3

LEMMA EnrollEffect ==
  ASSUME TypeOK, Jobs, NEW q \in Requests, EnrollStage(q)
  PROVE  /\ job[q].id \in Ids
         /\ \/ user' = user
            \/ \E u \in User : /\ u.enabled = FALSE
                               /\ user' = [user EXCEPT ![job[q].id] = u]
<1>1. job[q].id \in Ids
  BY DEF EnrollStage, Jobs, Job
<1>2. ASSUME NEW s \in Secrets, user' = [user EXCEPT ![job[q].id] = [secret |-> s, enabled |-> FALSE]]
      PROVE  \E u \in User : /\ u.enabled = FALSE
                             /\ user' = [user EXCEPT ![job[q].id] = u]
  <2>. DEFINE u == [secret |-> s, enabled |-> FALSE]
  <2>1. u \in User /\ u.enabled = FALSE
    BY DEF User
  <2>. QED
    BY <1>2, <2>1
<1>3. user' = user \/ \E s \in Secrets :
        user' = [user EXCEPT ![job[q].id] = [secret |-> s, enabled |-> FALSE]]
  BY DEF EnrollStage
<1>. QED
  BY <1>1, <1>2, <1>3

\* What becomes of the link.
LEMMA ResetEffect ==
  ASSUME TypeOK, NEW q \in Requests, ResetRedeem(q)
  PROVE  /\ UNCHANGED <<user, codes, batches, sent, spent>>
         /\ \E t \in Links, j \in Job :
              /\ link[t].state = "open"
              /\ Begin(q, "password", j)
              /\ link' \in [Links -> Link]
              /\ link'[t].state = "used" /\ link'[t].redeemed = link[t].redeemed + 1
              /\ \A u \in Links \ {t} : link'[u] = link[u]
<1>1. PICK t \in Links, mfa \in BOOLEAN :
        /\ link[t].state = "open" /\ link[t].redeemed < 2
        /\ link' = [link EXCEPT ![t].state = "used", ![t].redeemed = @ + 1]
        /\ Begin(q, "password", [For(link[t].id) EXCEPT !.disable = mfa])
  BY DEF ResetRedeem
<1>2. link[t] \in Link
  BY DEF TypeOK
<1>3. [For(link[t].id) EXCEPT !.disable = mfa] \in Job
  BY <1>2, JobType DEF Link
<1>. DEFINE used == [id |-> link[t].id, state |-> "used", redeemed |-> link[t].redeemed + 1]
<1>4. used \in Link
  BY <1>1, <1>2 DEF Link
<1>5. link' = [link EXCEPT ![t] = used]
  BY <1>1, <1>2 DEF TypeOK, Link
<1>6. link'[t].state = "used" /\ link'[t].redeemed = link[t].redeemed + 1
  BY <1>5 DEF TypeOK
<1>7. link' \in [Links -> Link] /\ \A u \in Links \ {t} : link'[u] = link[u]
  <2>. HIDE DEF used
  <2>. QED
    BY <1>4, <1>5 DEF TypeOK
<1>8. UNCHANGED <<user, codes, batches, sent, spent>>
  BY DEF ResetRedeem
<1>. QED
  BY <1>1, <1>3, <1>6, <1>7, <1>8

---------------------------------------------------------------------------
LEMMA TypeStep == ASSUME IInv, [Next]_vars PROVE TypeOK'
<1>. USE AccountsAssumption DEF IInv, TypeOK, Begin, Answer, Exists
<1>1. ASSUME NEW q \in Requests, SetupCount(q) PROVE TypeOK'
  BY <1>1, JobType, UserType DEF SetupCount, Labels
<1>2. ASSUME NEW q \in Requests, SetupInsert(q) PROVE TypeOK'
  BY <1>2, JobType, UserType DEF SetupInsert, Labels, Insert
<1>3. ASSUME NEW q \in Requests, EnrollRead(q) PROVE TypeOK'
  BY <1>3, JobType, UserType DEF EnrollRead, Labels
<1>4. ASSUME NEW q \in Requests, EnrollStage(q) PROVE TypeOK'
  <2>1. UNCHANGED <<codes, batches, link, sent, spent>> /\ Answer(q)
    BY <1>4 DEF EnrollStage
  <2>2. user' \in [Ids -> User \cup {NoUser}] /\ \A i \in Ids : user[i] # NoUser => user'[i] # NoUser
    BY <1>4, EnrollEffect, UserType
  <2>. QED
    BY <2>1, <2>2 DEF Labels
<1>5. ASSUME NEW q \in Requests, ConfirmRead(q) PROVE TypeOK'
  BY <1>5, JobType, UserType DEF ConfirmRead, Labels
<1>6. ASSUME NEW q \in Requests, ConfirmFlip(q) PROVE TypeOK'
  <2>1. job[q].id \in Ids
    BY <1>6 DEF ConfirmFlip, Jobs, Job
  <2>. QED
    BY <1>6, <2>1, UserType, JobType DEF ConfirmFlip, Labels
<1>7. ASSUME NEW q \in Requests, RegenerateRead(q) PROVE TypeOK'
  BY <1>7, JobType, UserType DEF RegenerateRead, Labels
<1>8. ASSUME NEW q \in Requests, GenerateCodes(q) PROVE TypeOK'
  <2>1. /\ pc' \in [Requests -> Labels] /\ job' \in [Requests -> Job \cup {NoJob}]
        /\ sent' = sent
    BY <1>8 DEF GenerateCodes, Labels
  <2>. QED
    BY <1>8, <2>1, GenerateEffect, BatchType
<1>9. ASSUME NEW q \in Requests, DisableRead(q) PROVE TypeOK'
  BY <1>9, JobType, UserType DEF DisableRead, Labels
<1>10. ASSUME NEW q \in Requests, Disable(q) PROVE TypeOK'
  <2>1. job[q].id \in Ids
    BY <1>10 DEF Disable, Jobs, Job
  <2>. QED
    BY <1>10, <2>1, UserType DEF Disable, Labels
<1>11. ASSUME NEW q \in Requests, VerifyRead(q) PROVE TypeOK'
  BY <1>11, JobType, UserType DEF VerifyRead, Labels
<1>12. ASSUME NEW q \in Requests, Redeem(q) PROVE TypeOK'
  <2>1. /\ pc' \in [Requests -> Labels] /\ job' \in [Requests -> Job \cup {NoJob}]
        /\ sent' = sent
    BY <1>12 DEF Redeem, Labels
  <2>2. codes' \in [Ids -> SUBSET Codes] /\ \A i \in Ids : codes'[i] \subseteq codes[i]
    BY <1>12, RedeemEffect
  <2>3. spent' \in [Codes -> 0..2]
    BY <1>12, RedeemEffect
  <2>. QED
    BY <1>12, <2>1, <2>2, <2>3, RedeemEffect
<1>13. ASSUME NEW q \in Requests, ResetRedeem(q) PROVE TypeOK'
  BY <1>13, ResetEffect DEF Labels
<1>14. ASSUME NEW q \in Requests, ResetPassword(q) PROVE TypeOK'
  BY <1>14 DEF ResetPassword, Jobs, Labels
<1>15. CASE CreateUser
  BY <1>15, JobType, UserType DEF CreateUser, Labels, Insert
<1>16. ASSUME NEW i \in Ids, DeleteUser(i) PROVE TypeOK'
  BY <1>16 DEF DeleteUser, Cascade, Link
<1>17. ASSUME NEW i \in Ids, ForgotPassword(i) PROVE TypeOK'
  BY <1>17 DEF ForgotPassword, Link
<1>18. ASSUME NEW t \in Links, LinkExpires(t) PROVE TypeOK'
  BY <1>18 DEF LinkExpires, Link
<1>19. CASE Restart
  BY <1>19 DEF Restart, Labels
<1>20. CASE UNCHANGED vars
  BY <1>20 DEF vars
<1>. QED
  BY <1>1, <1>2, <1>3, <1>4, <1>5, <1>6, <1>7, <1>8, <1>9, <1>10,
     <1>11, <1>12, <1>13, <1>14, <1>15, <1>16, <1>17, <1>18, <1>19, <1>20
  DEF Next, AccountStep, TotpStep, ResetStep

LEMMA JobsStep == ASSUME IInv, [Next]_vars PROVE Jobs'
<1>. USE DEF IInv, TypeOK, Jobs, Begin, Answer
<1>1. ASSUME NEW q \in Requests, SetupCount(q) PROVE Jobs'
  BY <1>1, JobType DEF SetupCount
<1>2. ASSUME NEW q \in Requests, SetupInsert(q) PROVE Jobs'
  BY <1>2, JobType DEF SetupInsert
<1>3. ASSUME NEW q \in Requests, EnrollRead(q) PROVE Jobs'
  BY <1>3, JobType DEF EnrollRead
<1>4. ASSUME NEW q \in Requests, EnrollStage(q) PROVE Jobs'
  BY <1>4, JobType DEF EnrollStage
<1>5. ASSUME NEW q \in Requests, ConfirmRead(q) PROVE Jobs'
  BY <1>5, JobType DEF ConfirmRead
<1>6. ASSUME NEW q \in Requests, ConfirmFlip(q) PROVE Jobs'
  <2>1. job[q].id \in Ids
    BY <1>6 DEF ConfirmFlip, Job
  <2>. QED
    BY <1>6, <2>1, JobType DEF ConfirmFlip
<1>7. ASSUME NEW q \in Requests, RegenerateRead(q) PROVE Jobs'
  BY <1>7, JobType DEF RegenerateRead
<1>8. ASSUME NEW q \in Requests, GenerateCodes(q) PROVE Jobs'
  BY <1>8, JobType DEF GenerateCodes
<1>9. ASSUME NEW q \in Requests, DisableRead(q) PROVE Jobs'
  BY <1>9, JobType DEF DisableRead
<1>10. ASSUME NEW q \in Requests, Disable(q) PROVE Jobs'
  BY <1>10, JobType DEF Disable
<1>11. ASSUME NEW q \in Requests, VerifyRead(q) PROVE Jobs'
  BY <1>11, JobType DEF VerifyRead
<1>12. ASSUME NEW q \in Requests, Redeem(q) PROVE Jobs'
  BY <1>12, JobType DEF Redeem
<1>13. ASSUME NEW q \in Requests, ResetRedeem(q) PROVE Jobs'
  <2>1. \A t \in Links : link[t].id \in Ids
    BY DEF Link
  <2>. QED
    BY <1>13, <2>1, JobType DEF ResetRedeem
<1>14. ASSUME NEW q \in Requests, ResetPassword(q) PROVE Jobs'
  BY <1>14, JobType DEF ResetPassword
<1>15. CASE CreateUser
  BY <1>15 DEF CreateUser
<1>16. ASSUME NEW i \in Ids, DeleteUser(i) PROVE Jobs'
  BY <1>16 DEF DeleteUser
<1>17. ASSUME NEW i \in Ids, ForgotPassword(i) PROVE Jobs'
  BY <1>17 DEF ForgotPassword
<1>18. ASSUME NEW t \in Links, LinkExpires(t) PROVE Jobs'
  BY <1>18 DEF LinkExpires
<1>19. CASE Restart
  BY <1>19 DEF Restart
<1>20. CASE UNCHANGED vars
  BY <1>20 DEF vars
<1>. QED
  BY <1>1, <1>2, <1>3, <1>4, <1>5, <1>6, <1>7, <1>8, <1>9, <1>10,
     <1>11, <1>12, <1>13, <1>14, <1>15, <1>16, <1>17, <1>18, <1>19, <1>20
  DEF Next, AccountStep, TotpStep, ResetStep

\* An unused code was never redeemed.
LEMMA UnusedStep == ASSUME IInv, [Next]_vars PROVE Unused'
<1>. USE AccountsAssumption DEF IInv, TypeOK, Unused
<1>1. ASSUME NEW q \in Requests, SetupCount(q) PROVE Unused'
  BY <1>1 DEF SetupCount
<1>2. ASSUME NEW q \in Requests, SetupInsert(q) PROVE Unused'
  BY <1>2 DEF SetupInsert
<1>3. ASSUME NEW q \in Requests, EnrollRead(q) PROVE Unused'
  BY <1>3 DEF EnrollRead
<1>4. ASSUME NEW q \in Requests, EnrollStage(q) PROVE Unused'
  BY <1>4 DEF EnrollStage
<1>5. ASSUME NEW q \in Requests, ConfirmRead(q) PROVE Unused'
  BY <1>5 DEF ConfirmRead
<1>6. ASSUME NEW q \in Requests, ConfirmFlip(q) PROVE Unused'
  BY <1>6 DEF ConfirmFlip
<1>7. ASSUME NEW q \in Requests, RegenerateRead(q) PROVE Unused'
  BY <1>7 DEF RegenerateRead
<1>8. ASSUME NEW q \in Requests, GenerateCodes(q) PROVE Unused'
  <2>1. CASE UNCHANGED <<batches, codes>>
    BY <1>8, <2>1, GenerateEffect
  <2>2. ASSUME batches' = batches + 1, batches' \in 1..MaxBatch, job[q].id \in Ids,
               codes' = [codes EXCEPT ![job[q].id] = {batches'} \X (1..BatchSize)],
               spent' = spent
        PROVE  Unused'
    <3>1. \A c \in codes'[job[q].id] : c \in Codes /\ c[1] = batches + 1
      BY <2>2, BatchType
    <3>2. \A c \in Codes : c[1] = batches + 1 => spent[c] = 0
      BY DEF Codes
    <3>3. \A i \in Ids \ {job[q].id} : codes'[i] = codes[i]
      BY <2>2
    <3>4. \A i \in Ids : \A c \in codes[i] : c[1] # batches + 1 /\ c[1] <= batches + 1
      BY DEF Codes
    <3>5. \A i \in Ids : \A c \in codes'[i] : c[1] <= batches' /\ spent'[c] = 0
      BY <2>2, <3>1, <3>2, <3>3, <3>4
    <3>6. \A c \in Codes : spent'[c] > 0 => c[1] <= batches'
      BY <2>2 DEF Codes
    <3>7. \A i, j \in Ids : \A c \in codes'[i] : c \in codes'[j] => i = j
      BY <3>1, <3>3, <3>4
    <3>. QED
      BY <3>5, <3>6, <3>7
  <2>. QED
    BY <1>8, <2>1, <2>2, GenerateEffect
<1>9. ASSUME NEW q \in Requests, DisableRead(q) PROVE Unused'
  BY <1>9 DEF DisableRead
<1>10. ASSUME NEW q \in Requests, Disable(q) PROVE Unused'
  BY <1>10 DEF Disable
<1>11. ASSUME NEW q \in Requests, VerifyRead(q) PROVE Unused'
  BY <1>11 DEF VerifyRead
<1>12. ASSUME NEW q \in Requests, Redeem(q) PROVE Unused'
  <2>1. \A i \in Ids : codes'[i] \subseteq codes[i]
    BY <1>12, RedeemEffect
  <2>2. job[q].code \in codes[job[q].id] =>
          \A i \in Ids : job[q].code \notin codes'[i]
    BY <1>12, RedeemEffect
  <2>3. batches' = batches
    BY <1>12, RedeemEffect
  <2>5. job[q].id \in Ids
    BY <1>12, RedeemEffect
  <2>4. \A c \in Codes : spent'[c] = spent[c]
                          \/ (c = job[q].code /\ job[q].code \in codes[job[q].id])
    BY <1>12, RedeemEffect
  <2>. QED
    BY <2>1, <2>2, <2>3, <2>4, <2>5
<1>13. ASSUME NEW q \in Requests, ResetRedeem(q) PROVE Unused'
  BY <1>13 DEF ResetRedeem
<1>14. ASSUME NEW q \in Requests, ResetPassword(q) PROVE Unused'
  BY <1>14 DEF ResetPassword
<1>15. CASE CreateUser
  BY <1>15 DEF CreateUser
<1>16. ASSUME NEW i \in Ids, DeleteUser(i) PROVE Unused'
  BY <1>16 DEF DeleteUser, Cascade
<1>17. ASSUME NEW i \in Ids, ForgotPassword(i) PROVE Unused'
  BY <1>17 DEF ForgotPassword
<1>18. ASSUME NEW t \in Links, LinkExpires(t) PROVE Unused'
  BY <1>18 DEF LinkExpires
<1>19. CASE Restart
  BY <1>19 DEF Restart
<1>20. CASE UNCHANGED vars
  BY <1>20 DEF vars
<1>. QED
  BY <1>1, <1>2, <1>3, <1>4, <1>5, <1>6, <1>7, <1>8, <1>9, <1>10,
     <1>11, <1>12, <1>13, <1>14, <1>15, <1>16, <1>17, <1>18, <1>19, <1>20
  DEF Next, AccountStep, TotpStep, ResetStep

LEMMA LinksStep == ASSUME IInv, [Next]_vars PROVE OpenLinks' /\ LinkRedeemedOnce'
<1>. USE DEF IInv, TypeOK, OpenLinks, LinkRedeemedOnce, Link
<1>1. ASSUME NEW q \in Requests, SetupCount(q) PROVE OpenLinks' /\ LinkRedeemedOnce'
  BY <1>1 DEF SetupCount
<1>2. ASSUME NEW q \in Requests, SetupInsert(q) PROVE OpenLinks' /\ LinkRedeemedOnce'
  BY <1>2 DEF SetupInsert
<1>3. ASSUME NEW q \in Requests, EnrollRead(q) PROVE OpenLinks' /\ LinkRedeemedOnce'
  BY <1>3 DEF EnrollRead
<1>4. ASSUME NEW q \in Requests, EnrollStage(q) PROVE OpenLinks' /\ LinkRedeemedOnce'
  BY <1>4 DEF EnrollStage
<1>5. ASSUME NEW q \in Requests, ConfirmRead(q) PROVE OpenLinks' /\ LinkRedeemedOnce'
  BY <1>5 DEF ConfirmRead
<1>6. ASSUME NEW q \in Requests, ConfirmFlip(q) PROVE OpenLinks' /\ LinkRedeemedOnce'
  BY <1>6 DEF ConfirmFlip
<1>7. ASSUME NEW q \in Requests, RegenerateRead(q) PROVE OpenLinks' /\ LinkRedeemedOnce'
  BY <1>7 DEF RegenerateRead
<1>8. ASSUME NEW q \in Requests, GenerateCodes(q) PROVE OpenLinks' /\ LinkRedeemedOnce'
  BY <1>8 DEF GenerateCodes
<1>9. ASSUME NEW q \in Requests, DisableRead(q) PROVE OpenLinks' /\ LinkRedeemedOnce'
  BY <1>9 DEF DisableRead
<1>10. ASSUME NEW q \in Requests, Disable(q) PROVE OpenLinks' /\ LinkRedeemedOnce'
  BY <1>10 DEF Disable
<1>11. ASSUME NEW q \in Requests, VerifyRead(q) PROVE OpenLinks' /\ LinkRedeemedOnce'
  BY <1>11 DEF VerifyRead
<1>12. ASSUME NEW q \in Requests, Redeem(q) PROVE OpenLinks' /\ LinkRedeemedOnce'
  BY <1>12 DEF Redeem
<1>13. ASSUME NEW q \in Requests, ResetRedeem(q) PROVE OpenLinks' /\ LinkRedeemedOnce'
  <2>1. PICK t \in Links :
          /\ link[t].state = "open"
          /\ link'[t].state = "used" /\ link'[t].redeemed = link[t].redeemed + 1
          /\ \A u \in Links \ {t} : link'[u] = link[u]
    BY <1>13, ResetEffect
  <2>2. link[t].redeemed = 0
    BY <2>1
  <2>. QED
    BY <2>1, <2>2
<1>14. ASSUME NEW q \in Requests, ResetPassword(q) PROVE OpenLinks' /\ LinkRedeemedOnce'
  BY <1>14 DEF ResetPassword
<1>15. CASE CreateUser
  BY <1>15 DEF CreateUser
<1>16. ASSUME NEW i \in Ids, DeleteUser(i) PROVE OpenLinks' /\ LinkRedeemedOnce'
  BY <1>16 DEF DeleteUser, Cascade
<1>17. ASSUME NEW i \in Ids, ForgotPassword(i) PROVE OpenLinks' /\ LinkRedeemedOnce'
  BY <1>17 DEF ForgotPassword
<1>18. ASSUME NEW t \in Links, LinkExpires(t) PROVE OpenLinks' /\ LinkRedeemedOnce'
  BY <1>18 DEF LinkExpires
<1>19. CASE Restart
  BY <1>19 DEF Restart
<1>20. CASE UNCHANGED vars
  BY <1>20 DEF vars
<1>. QED
  BY <1>1, <1>2, <1>3, <1>4, <1>5, <1>6, <1>7, <1>8, <1>9, <1>10,
     <1>11, <1>12, <1>13, <1>14, <1>15, <1>16, <1>17, <1>18, <1>19, <1>20
  DEF Next, AccountStep, TotpStep, ResetStep

LEMMA SecretStep == ASSUME IInv, [Next]_vars PROVE EnabledHasSecret'
<1>. USE AccountsAssumption DEF IInv, TypeOK, EnabledHasSecret, Exists
<1>1. ASSUME NEW q \in Requests, SetupCount(q) PROVE EnabledHasSecret'
  BY <1>1 DEF SetupCount
<1>2. ASSUME NEW q \in Requests, SetupInsert(q) PROVE EnabledHasSecret'
  BY <1>2 DEF SetupInsert, Insert
<1>3. ASSUME NEW q \in Requests, EnrollRead(q) PROVE EnabledHasSecret'
  BY <1>3 DEF EnrollRead
<1>4. ASSUME NEW q \in Requests, EnrollStage(q) PROVE EnabledHasSecret'
  BY <1>4, EnrollEffect, UserType
<1>5. ASSUME NEW q \in Requests, ConfirmRead(q) PROVE EnabledHasSecret'
  BY <1>5 DEF ConfirmRead
<1>6. ASSUME NEW q \in Requests, ConfirmFlip(q) PROVE EnabledHasSecret'
  BY <1>6 DEF ConfirmFlip, User
<1>7. ASSUME NEW q \in Requests, RegenerateRead(q) PROVE EnabledHasSecret'
  BY <1>7 DEF RegenerateRead
<1>8. ASSUME NEW q \in Requests, GenerateCodes(q) PROVE EnabledHasSecret'
  BY <1>8 DEF GenerateCodes
<1>9. ASSUME NEW q \in Requests, DisableRead(q) PROVE EnabledHasSecret'
  BY <1>9 DEF DisableRead
<1>10. ASSUME NEW q \in Requests, Disable(q) PROVE EnabledHasSecret'
  BY <1>10 DEF Disable, User
<1>11. ASSUME NEW q \in Requests, VerifyRead(q) PROVE EnabledHasSecret'
  BY <1>11 DEF VerifyRead
<1>12. ASSUME NEW q \in Requests, Redeem(q) PROVE EnabledHasSecret'
  BY <1>12 DEF Redeem
<1>13. ASSUME NEW q \in Requests, ResetRedeem(q) PROVE EnabledHasSecret'
  BY <1>13 DEF ResetRedeem
<1>14. ASSUME NEW q \in Requests, ResetPassword(q) PROVE EnabledHasSecret'
  BY <1>14 DEF ResetPassword
<1>15. CASE CreateUser
  BY <1>15 DEF CreateUser, Insert
<1>16. ASSUME NEW i \in Ids, DeleteUser(i) PROVE EnabledHasSecret'
  BY <1>16 DEF DeleteUser, Cascade
<1>17. ASSUME NEW i \in Ids, ForgotPassword(i) PROVE EnabledHasSecret'
  BY <1>17 DEF ForgotPassword
<1>18. ASSUME NEW t \in Links, LinkExpires(t) PROVE EnabledHasSecret'
  BY <1>18 DEF LinkExpires
<1>19. CASE Restart
  BY <1>19 DEF Restart
<1>20. CASE UNCHANGED vars
  BY <1>20 DEF vars
<1>. QED
  BY <1>1, <1>2, <1>3, <1>4, <1>5, <1>6, <1>7, <1>8, <1>9, <1>10,
     <1>11, <1>12, <1>13, <1>14, <1>15, <1>16, <1>17, <1>18, <1>19, <1>20
  DEF Next, AccountStep, TotpStep, ResetStep

\* A batch replaces the one before it.
LEMMA OneBatchStep == ASSUME IInv, [Next]_vars PROVE OneBatch'
<1>. USE DEF IInv, TypeOK, OneBatch
<1>1. ASSUME NEW q \in Requests, SetupCount(q) PROVE OneBatch'
  BY <1>1 DEF SetupCount
<1>2. ASSUME NEW q \in Requests, SetupInsert(q) PROVE OneBatch'
  BY <1>2 DEF SetupInsert
<1>3. ASSUME NEW q \in Requests, EnrollRead(q) PROVE OneBatch'
  BY <1>3 DEF EnrollRead
<1>4. ASSUME NEW q \in Requests, EnrollStage(q) PROVE OneBatch'
  BY <1>4 DEF EnrollStage
<1>5. ASSUME NEW q \in Requests, ConfirmRead(q) PROVE OneBatch'
  BY <1>5 DEF ConfirmRead
<1>6. ASSUME NEW q \in Requests, ConfirmFlip(q) PROVE OneBatch'
  BY <1>6 DEF ConfirmFlip
<1>7. ASSUME NEW q \in Requests, RegenerateRead(q) PROVE OneBatch'
  BY <1>7 DEF RegenerateRead
<1>8. ASSUME NEW q \in Requests, GenerateCodes(q) PROVE OneBatch'
  BY <1>8, GenerateEffect, BatchType
<1>9. ASSUME NEW q \in Requests, DisableRead(q) PROVE OneBatch'
  BY <1>9 DEF DisableRead
<1>10. ASSUME NEW q \in Requests, Disable(q) PROVE OneBatch'
  BY <1>10 DEF Disable
<1>11. ASSUME NEW q \in Requests, VerifyRead(q) PROVE OneBatch'
  BY <1>11 DEF VerifyRead
<1>12. ASSUME NEW q \in Requests, Redeem(q) PROVE OneBatch'
  BY <1>12, RedeemEffect
<1>13. ASSUME NEW q \in Requests, ResetRedeem(q) PROVE OneBatch'
  BY <1>13 DEF ResetRedeem
<1>14. ASSUME NEW q \in Requests, ResetPassword(q) PROVE OneBatch'
  BY <1>14 DEF ResetPassword
<1>15. CASE CreateUser
  BY <1>15 DEF CreateUser
<1>16. ASSUME NEW i \in Ids, DeleteUser(i) PROVE OneBatch'
  BY <1>16 DEF DeleteUser, Cascade
<1>17. ASSUME NEW i \in Ids, ForgotPassword(i) PROVE OneBatch'
  BY <1>17 DEF ForgotPassword
<1>18. ASSUME NEW t \in Links, LinkExpires(t) PROVE OneBatch'
  BY <1>18 DEF LinkExpires
<1>19. CASE Restart
  BY <1>19 DEF Restart
<1>20. CASE UNCHANGED vars
  BY <1>20 DEF vars
<1>. QED
  BY <1>1, <1>2, <1>3, <1>4, <1>5, <1>6, <1>7, <1>8, <1>9, <1>10,
     <1>11, <1>12, <1>13, <1>14, <1>15, <1>16, <1>17, <1>18, <1>19, <1>20
  DEF Next, AccountStep, TotpStep, ResetStep

\* A code is taken out of the table when it is redeemed.
LEMMA RedeemedOnceStep == ASSUME IInv, [Next]_vars PROVE CodeRedeemedOnce'
<1>. USE DEF IInv, TypeOK, CodeRedeemedOnce
<1>1. ASSUME NEW q \in Requests, Redeem(q) PROVE CodeRedeemedOnce'
  <2>1. \A c \in codes[job[q].id] : spent[c] = 0
    BY <1>1, RedeemEffect DEF Unused
  <2>. QED
    BY <1>1, <2>1, RedeemEffect
<1>2. ASSUME ~\E q \in Requests : Redeem(q) PROVE UNCHANGED spent
  BY <1>2 DEF Next, AccountStep, TotpStep, ResetStep, SetupCount, SetupInsert, EnrollRead,
     EnrollStage, ConfirmRead, ConfirmFlip, RegenerateRead, GenerateCodes, DisableRead,
     Disable, VerifyRead, ResetRedeem, ResetPassword, CreateUser, DeleteUser,
     ForgotPassword, LinkExpires, Restart, vars
<1>. QED
  BY <1>1, <1>2

\* DeleteUser leaves somebody.
LEMMA AdminStep ==
  ASSUME IInv, [Next]_vars, \E k \in Ids : Exists(k)
  PROVE  \E k \in Ids : Exists(k)'
<1>. USE AccountsAssumption DEF IInv, TypeOK, Exists
<1>1. ASSUME NEW q \in Requests, SetupCount(q) PROVE \E k \in Ids : Exists(k)'
  BY <1>1 DEF SetupCount
<1>2. ASSUME NEW q \in Requests, SetupInsert(q) PROVE \E k \in Ids : Exists(k)'
  BY <1>2, UserType DEF SetupInsert, Insert
<1>3. ASSUME NEW q \in Requests, EnrollRead(q) PROVE \E k \in Ids : Exists(k)'
  BY <1>3 DEF EnrollRead
<1>4. ASSUME NEW q \in Requests, EnrollStage(q) PROVE \E k \in Ids : Exists(k)'
  <2>1. user' = user \/ \E u \in User : user' = [user EXCEPT ![job[q].id] = u]
    BY <1>4, EnrollEffect
  <2>2. PICK k \in Ids : user[k] # NoUser
    OBVIOUS
  <2>3. user'[k] # NoUser
    BY <2>1, <2>2, UserType
  <2>. QED
    BY <2>3
<1>5. ASSUME NEW q \in Requests, ConfirmRead(q) PROVE \E k \in Ids : Exists(k)'
  BY <1>5 DEF ConfirmRead
<1>6. ASSUME NEW q \in Requests, ConfirmFlip(q) PROVE \E k \in Ids : Exists(k)'
  BY <1>6, UserType DEF ConfirmFlip
<1>7. ASSUME NEW q \in Requests, RegenerateRead(q) PROVE \E k \in Ids : Exists(k)'
  BY <1>7 DEF RegenerateRead
<1>8. ASSUME NEW q \in Requests, GenerateCodes(q) PROVE \E k \in Ids : Exists(k)'
  BY <1>8 DEF GenerateCodes
<1>9. ASSUME NEW q \in Requests, DisableRead(q) PROVE \E k \in Ids : Exists(k)'
  BY <1>9 DEF DisableRead
<1>10. ASSUME NEW q \in Requests, Disable(q) PROVE \E k \in Ids : Exists(k)'
  BY <1>10, UserType DEF Disable
<1>11. ASSUME NEW q \in Requests, VerifyRead(q) PROVE \E k \in Ids : Exists(k)'
  BY <1>11 DEF VerifyRead
<1>12. ASSUME NEW q \in Requests, Redeem(q) PROVE \E k \in Ids : Exists(k)'
  BY <1>12 DEF Redeem
<1>13. ASSUME NEW q \in Requests, ResetRedeem(q) PROVE \E k \in Ids : Exists(k)'
  BY <1>13 DEF ResetRedeem
<1>14. ASSUME NEW q \in Requests, ResetPassword(q) PROVE \E k \in Ids : Exists(k)'
  BY <1>14 DEF ResetPassword
<1>15. CASE CreateUser
  BY <1>15, UserType DEF CreateUser, Insert
<1>16. ASSUME NEW i \in Ids, DeleteUser(i) PROVE \E k \in Ids : Exists(k)'
  BY <1>16 DEF DeleteUser, Cascade
<1>17. ASSUME NEW i \in Ids, ForgotPassword(i) PROVE \E k \in Ids : Exists(k)'
  BY <1>17 DEF ForgotPassword
<1>18. ASSUME NEW t \in Links, LinkExpires(t) PROVE \E k \in Ids : Exists(k)'
  BY <1>18 DEF LinkExpires
<1>19. CASE Restart
  BY <1>19 DEF Restart
<1>20. CASE UNCHANGED vars
  BY <1>20 DEF vars
<1>. QED
  BY <1>1, <1>2, <1>3, <1>4, <1>5, <1>6, <1>7, <1>8, <1>9, <1>10,
     <1>11, <1>12, <1>13, <1>14, <1>15, <1>16, <1>17, <1>18, <1>19, <1>20
  DEF Next, AccountStep, TotpStep, ResetStep

---------------------------------------------------------------------------
(* Theorems.                                                               *)

\* The inductive invariant: what requests have been given, which codes and
\* links are unused, and the properties below.
THEOREM IInvCorrect == Spec => []IInv
<1>1. IInv /\ [Next]_vars => IInv'
  BY TypeStep, JobsStep, UnusedStep, LinksStep, SecretStep, OneBatchStep,
     RedeemedOnceStep DEF IInv
<1>. QED
  BY InitInv, <1>1, PTL DEF Spec

\* Every reachable state is well typed, and no backup code outlives its
\* account (ON DELETE CASCADE).
THEOREM TypeCorrect == Spec => []TypeOK
  BY IInvCorrect, PTL DEF IInv

\* A backup code is redeemed once at most, by any number of requests at once
\* (ConsumeBackupCode).
THEOREM CodeOnce == Spec => []CodeRedeemedOnce
  BY IInvCorrect, PTL DEF IInv

\* A reset link changes a password once at most (ConsumePasswordResetToken).
THEOREM LinkOnce == Spec => []LinkRedeemedOnce
  BY IInvCorrect, PTL DEF IInv

\* An account that must show a second factor has a secret
\* (ConfirmTOTPEnrollment, DisableTOTP).
THEOREM HasSecret == Spec => []EnabledHasSecret
  BY IInvCorrect, PTL DEF IInv

\* An account's unused codes are of one batch (GenerateBackupCodes).
THEOREM SingleBatch == Spec => []OneBatch
  BY IInvCorrect, PTL DEF IInv

\* Somebody who can log in is left, whatever is deleted (DeleteUser).
THEOREM AdminStays == Spec => SomeAdminStays
<1>1. IInv /\ [Next]_vars =>
        [(\E i \in Ids : Exists(i)) => (\E i \in Ids : Exists(i)')]_vars
  BY AdminStep
<1>. QED
  BY IInvCorrect, <1>1, PTL DEF Spec, SomeAdminStays
=============================================================================
