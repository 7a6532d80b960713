--------------------------- MODULE PairingProofs ---------------------------
(***************************************************************************)
(* Theorems about Pairing.                                                 *)
(*                                                                         *)
(* A poll somebody still waits for is one for the code the page shows, and *)
(* an answer names only a display that code was approved for.  Of a row's  *)
(* notification, the handler that inserted the row and has not answered    *)
(* yet holds the right to send it.                                         *)
(***************************************************************************)
EXTENDS Pairing, FiniteSetTheorems, TLAPS

\* What a call carries.
CallsCarry ==
  \A x \in Calls : calls[x] # Idle =>
    /\ calls[x].fresh => calls[x].kind # "poll"
    /\ calls[x].at = "sent" => ~calls[x].fresh
    /\ calls[x].slug # NoDisplay => calls[x].slug \in assigned[calls[x].code]

\* Who waits for a poll.
PollsAwaited ==
  \A x \in Calls : calls[x] # Idle /\ calls[x].kind = "poll" /\ calls[x].live
    => page = "register" /\ calls[x].code = clientId

\* An approved client's display was assigned to it.
ApprovedAssigned ==
  \A c \in Codes : row[c] # NoRow /\ row[c].status = "approved" /\ row[c].display # NoDisplay
    => row[c].display \in assigned[c]

\* A row that is gone may come back.
RoomForBirth == \A c \in Codes : row[c] = NoRow => births[c] < MaxBirths

\* The handlers that inserted code c's row and have not announced it yet.
Announcing(c) ==
  {x \in Calls : calls[x] # Idle /\ calls[x].at = "handled" /\ calls[x].fresh
                   /\ calls[x].code = c}

RightToAnnounce ==
  \A c \in Codes : announced[c] + Cardinality(Announcing(c)) <= births[c]

IInv ==
  /\ TypeOK /\ CallsCarry /\ PollsAwaited /\ ApprovedAssigned /\ RoomForBirth
  /\ RightToAnnounce /\ CookieMatchesPage /\ ShowsOwnDisplay
---------------------------------------------------------------------------
LEMMA AnnouncingFinite ==
  ASSUME NEW c
  PROVE  /\ IsFiniteSet(Announcing(c)) /\ Cardinality(Announcing(c)) \in Nat
         /\ IsFiniteSet(Announcing(c)') /\ Cardinality(Announcing(c)') \in Nat
<1>1. Announcing(c) \subseteq Calls /\ Announcing(c)' \subseteq Calls
  BY DEF Announcing
<1>2. IsFiniteSet(Announcing(c)) /\ IsFiniteSet(Announcing(c)')
  BY <1>1, PairingAssumption, FS_Subset
<1>. QED
  BY <1>2, FS_CardinalityType

LEMMA InitInv == Init => IInv
<1>. SUFFICES ASSUME Init PROVE IInv
  OBVIOUS
<1>. USE PairingAssumption
<1>1. TypeOK
  BY DEF Init, TypeOK
<1>2. CallsCarry /\ PollsAwaited /\ ApprovedAssigned /\ RoomForBirth
  BY DEF Init, CallsCarry, PollsAwaited, ApprovedAssigned, RoomForBirth
<1>3. RightToAnnounce
  <2>1. \A c \in Codes : Announcing(c) = {}
    BY DEF Init, Announcing
  <2>2. \A c \in Codes : Cardinality(Announcing(c)) = 0
    BY <2>1, FS_EmptySet
  <2>3. \A c \in Codes : announced[c] = 0 /\ births[c] = 0
    BY DEF Init
  <2>. QED
    BY <2>2, <2>3 DEF RightToAnnounce
<1>4. CookieMatchesPage /\ ShowsOwnDisplay
  BY DEF Init, CookieMatchesPage, ShowsOwnDisplay
<1>. QED
  BY <1>1, <1>2, <1>3, <1>4 DEF IInv

---------------------------------------------------------------------------
(* What the steps do to the calls.                                         *)

\* Call y stays what it is, and nobody begins to wait for it.
Kept(y) ==
  /\ calls'[y] = Idle <=> calls[y] = Idle
  /\ calls[y] # Idle =>
       /\ calls'[y].kind = calls[y].kind /\ calls'[y].code = calls[y].code
       /\ calls'[y].at = calls[y].at /\ calls'[y].fresh = calls[y].fresh
       /\ calls'[y].slug = calls[y].slug
       /\ calls'[y].live => calls[y].live

LEMMA AbandonedEffect ==
  ASSUME NEW cs \in [Calls -> Call \cup {Idle}], NEW kinds
  PROVE  /\ Abandoned(cs, kinds) \in [Calls -> Call \cup {Idle}]
         /\ \A y \in Calls :
              /\ Abandoned(cs, kinds)[y] = Idle <=> cs[y] = Idle
              /\ cs[y] # Idle =>
                   LET a == Abandoned(cs, kinds)[y]
                   IN /\ a.kind = cs[y].kind /\ a.code = cs[y].code /\ a.at = cs[y].at
                      /\ a.fresh = cs[y].fresh /\ a.slug = cs[y].slug
                      /\ a.live => cs[y].live /\ cs[y].kind \notin kinds
<1>1. ASSUME NEW y \in Calls, cs[y] # Idle
      PROVE  /\ [cs[y] EXCEPT !.live = FALSE] \in Call
             /\ LET a == [cs[y] EXCEPT !.live = FALSE]
                IN /\ a.kind = cs[y].kind /\ a.code = cs[y].code /\ a.at = cs[y].at
                   /\ a.fresh = cs[y].fresh /\ a.slug = cs[y].slug /\ ~a.live
  BY <1>1 DEF Call
<1>2. \A y \in Calls : Abandoned(cs, kinds)[y] =
        IF cs[y] # Idle /\ cs[y].kind \in kinds THEN [cs[y] EXCEPT !.live = FALSE] ELSE cs[y]
  BY DEF Abandoned
<1>3. Abandoned(cs, kinds) \in [Calls -> Call \cup {Idle}]
  BY <1>1 DEF Abandoned
<1>4. ASSUME NEW y \in Calls, cs[y] # Idle
      PROVE  LET a == Abandoned(cs, kinds)[y]
             IN /\ a # Idle
                /\ a.kind = cs[y].kind /\ a.code = cs[y].code /\ a.at = cs[y].at
                /\ a.fresh = cs[y].fresh /\ a.slug = cs[y].slug
                /\ a.live => cs[y].live /\ cs[y].kind \notin kinds
  <2>1. cs[y] \in Call /\ Idle \notin Call
    BY <1>4, PairingAssumption
  <2>2. CASE cs[y].kind \in kinds
    <3>1. Abandoned(cs, kinds)[y] = [cs[y] EXCEPT !.live = FALSE]
      BY <1>2, <1>4, <2>2
    <3>. QED
      BY <1>1, <1>4, <2>1, <3>1
  <2>3. CASE cs[y].kind \notin kinds
    BY <1>2, <1>4, <2>1, <2>3
  <2>. QED
    BY <2>2, <2>3
<1>. QED
  BY <1>2, <1>3, <1>4

LEMMA SentEffect ==
  ASSUME NEW cs \in [Calls -> Call \cup {Idle}], NEW x \in Calls,
         NEW kind \in {"register", "submit", "poll"}, NEW c \in Codes
  PROVE  /\ Sent(cs, x, kind, c) \in [Calls -> Call \cup {Idle}]
         /\ Sent(cs, x, kind, c)[x] # Idle
         /\ Sent(cs, x, kind, c)[x].kind = kind /\ Sent(cs, x, kind, c)[x].code = c
         /\ Sent(cs, x, kind, c)[x].at = "sent" /\ ~Sent(cs, x, kind, c)[x].fresh
         /\ Sent(cs, x, kind, c)[x].slug = NoDisplay
         /\ \A y \in Calls \ {x} : Sent(cs, x, kind, c)[y] = cs[y]
<1>. DEFINE new == [kind |-> kind, code |-> c, at |-> "sent", live |-> TRUE,
                    fresh |-> FALSE, slug |-> NoDisplay]
<1>0. new \in Call
  BY DEF Call
<1>1. new \in Call /\ new # Idle
  <2>. HIDE DEF new
  <2>. QED
    BY <1>0, PairingAssumption
<1>2. Sent(cs, x, kind, c) = [cs EXCEPT ![x] = new]
  BY DEF Sent
<1>3. Sent(cs, x, kind, c) \in [Calls -> Call \cup {Idle}] /\ Sent(cs, x, kind, c)[x] = new
  BY <1>1, <1>2
<1>. QED
  BY <1>1, <1>2, <1>3

LEMMA CallSlot ==
  ASSUME NEW cs \in [Calls -> Call \cup {Idle}], NEW x \in Calls
  PROVE  /\ [cs EXCEPT ![x] = Idle] \in [Calls -> Call \cup {Idle}]
         /\ [cs EXCEPT ![x] = Idle][x] = Idle
         /\ \A y \in Calls \ {x} : [cs EXCEPT ![x] = Idle][y] = cs[y]
  OBVIOUS

\* A call that begins, and the polls and registrations a new page gives up.
LEMMA VisitEffect ==
  ASSUME TypeOK, Visit
  PROVE  /\ calls' \in [Calls -> Call \cup {Idle}]
         /\ \A y \in Calls : calls'[y] # Idle /\ calls'[y].kind = "poll" => ~calls'[y].live
         /\ \A y \in Calls :
              \/ Kept(y)
              \/ calls[y] = Idle /\ calls'[y] # Idle /\ calls'[y].kind = "register"
                   /\ calls'[y].at = "sent" /\ ~calls'[y].fresh /\ calls'[y].slug = NoDisplay
<1>. DEFINE dead == Abandoned(calls, AnyCall)
<1>1. calls \in [Calls -> Call \cup {Idle}] /\ cookie \in Codes \cup {NoCode}
  BY DEF TypeOK
<1>2. /\ dead \in [Calls -> Call \cup {Idle}]
      /\ \A y \in Calls : dead[y] = Idle <=> calls[y] = Idle
      /\ \A y \in Calls : calls[y] # Idle =>
           /\ dead[y].kind = calls[y].kind /\ dead[y].code = calls[y].code
           /\ dead[y].at = calls[y].at /\ dead[y].fresh = calls[y].fresh
           /\ dead[y].slug = calls[y].slug
           /\ dead[y].live => calls[y].live /\ calls[y].kind \notin AnyCall
  BY <1>1, AbandonedEffect
<1>. HIDE DEF dead
<1>3. CASE calls' = dead
  BY <1>2, <1>3 DEF Kept, AnyCall
<1>4. ASSUME NEW x \in Calls, ~InFlight(x), cookie \in Codes,
             calls' = Sent(dead, x, "register", cookie)
      PROVE  /\ calls' \in [Calls -> Call \cup {Idle}]
             /\ calls[x] = Idle /\ calls'[x] # Idle /\ calls'[x].kind = "register"
             /\ calls'[x].at = "sent" /\ ~calls'[x].fresh /\ calls'[x].slug = NoDisplay
             /\ \A y \in Calls \ {x} : calls'[y] = dead[y]
  BY <1>2, <1>4, SentEffect DEF InFlight
<1>5. ASSUME NEW x \in Calls, ~InFlight(x), cookie \in Codes,
             calls' = Sent(dead, x, "register", cookie)
      PROVE  /\ calls' \in [Calls -> Call \cup {Idle}]
             /\ \A y \in Calls : calls'[y] # Idle /\ calls'[y].kind = "poll" => ~calls'[y].live
             /\ \A y \in Calls :
                  \/ Kept(y)
                  \/ calls[y] = Idle /\ calls'[y] # Idle /\ calls'[y].kind = "register"
                       /\ calls'[y].at = "sent" /\ ~calls'[y].fresh /\ calls'[y].slug = NoDisplay
  <2>1. \A y \in Calls \ {x} : Kept(y)
    BY <1>2, <1>4, <1>5 DEF Kept
  <2>. QED
    BY <1>2, <1>4, <1>5, <2>1 DEF AnyCall
<1>. QED
  BY <1>1, <1>3, <1>5 DEF Visit, dead

LEMMA SubmitEffect ==
  ASSUME TypeOK, Submit
  PROVE  /\ calls' \in [Calls -> Call \cup {Idle}]
         /\ \A y \in Calls :
              \/ Kept(y)
              \/ calls[y] = Idle /\ calls'[y] # Idle /\ calls'[y].kind = "submit"
                   /\ calls'[y].at = "sent" /\ ~calls'[y].fresh /\ calls'[y].slug = NoDisplay
<1>1. PICK x \in Calls, c \in Codes : ~InFlight(x) /\ calls' = Sent(calls, x, "submit", c)
  BY DEF Submit
<1>2. calls \in [Calls -> Call \cup {Idle}] /\ calls[x] = Idle
  BY <1>1 DEF TypeOK, InFlight
<1>3. /\ calls' \in [Calls -> Call \cup {Idle}]
      /\ calls'[x] # Idle /\ calls'[x].kind = "submit"
      /\ calls'[x].at = "sent" /\ ~calls'[x].fresh /\ calls'[x].slug = NoDisplay
      /\ \A y \in Calls \ {x} : calls'[y] = calls[y]
  BY <1>1, <1>2, SentEffect
<1>. QED
  BY <1>2, <1>3 DEF Kept

LEMMA PollEffect ==
  ASSUME TypeOK, Poll
  PROVE  /\ calls' \in [Calls -> Call \cup {Idle}] /\ page = "register"
         /\ \A y \in Calls :
              \/ Kept(y)
              \/ calls[y] = Idle /\ calls'[y] # Idle /\ calls'[y].code = clientId
                   /\ calls'[y].at = "sent" /\ ~calls'[y].fresh /\ calls'[y].slug = NoDisplay
<1>1. clientId \in Codes
  BY DEF Poll, TypeOK
<1>2. PICK x \in Calls : ~InFlight(x) /\ calls' = Sent(calls, x, "poll", clientId)
  BY DEF Poll
<1>3. calls \in [Calls -> Call \cup {Idle}] /\ calls[x] = Idle /\ page = "register"
  BY <1>2 DEF TypeOK, InFlight, Poll
<1>4. /\ calls' \in [Calls -> Call \cup {Idle}]
      /\ calls'[x] # Idle /\ calls'[x].code = clientId
      /\ calls'[x].at = "sent" /\ ~calls'[x].fresh /\ calls'[x].slug = NoDisplay
      /\ \A y \in Calls \ {x} : calls'[y] = calls[y]
  BY <1>1, <1>2, <1>3, SentEffect
<1>. QED
  BY <1>3, <1>4 DEF Kept

LEMMA ForgetEffect ==
  ASSUME TypeOK, Forget
  PROVE  /\ calls' \in [Calls -> Call \cup {Idle}]
         /\ \A y \in Calls : Kept(y)
         /\ \A y \in Calls : calls'[y] # Idle /\ calls'[y].kind = "poll" => ~calls'[y].live
<1>1. calls' = Abandoned(calls, PollCall) /\ calls \in [Calls -> Call \cup {Idle}]
  BY DEF Forget, TypeOK
<1>. QED
  BY <1>1, AbandonedEffect DEF Kept, PollCall

\* An answer is taken: the slot is free, and where the page changes its mind
\* nobody waits for a poll any more.
Taken(x) ==
  /\ calls' \in [Calls -> Call \cup {Idle}]
  /\ calls[x] # Idle /\ calls[x].at # "handled" /\ calls'[x] = Idle
  /\ \A y \in Calls \ {x} : Kept(y)
  /\ \/ page' = page /\ clientId' = clientId
     \/ \A y \in Calls : calls'[y] # Idle /\ calls'[y].kind = "poll" => ~calls'[y].live

LEMMA TakenByCases ==
  ASSUME TypeOK, NEW x \in Calls, calls[x] # Idle, calls[x].at # "handled",
         \/ calls' = Abandoned([calls EXCEPT ![x] = Idle], PollCall)
         \/ calls' = [calls EXCEPT ![x] = Idle] /\ page' = page /\ clientId' = clientId
  PROVE  Taken(x)
<1>. DEFINE rest == [calls EXCEPT ![x] = Idle]
<1>1. /\ rest \in [Calls -> Call \cup {Idle}] /\ rest[x] = Idle
      /\ \A y \in Calls \ {x} : rest[y] = calls[y]
  BY CallSlot DEF TypeOK
<1>. HIDE DEF rest
<1>2. CASE calls' = rest /\ page' = page /\ clientId' = clientId
  BY <1>1, <1>2 DEF Taken, Kept
<1>3. CASE calls' = Abandoned(rest, PollCall)
  BY <1>1, <1>3, AbandonedEffect DEF Taken, Kept, PollCall
<1>. QED
  BY <1>2, <1>3 DEF rest

LEMMA TakenSteps ==
  ASSUME TypeOK, NEW x \in Calls,
         Registered(x) \/ PollMissing(x) \/ PollConfig(x) \/ Ignored(x) \/ Lose(x)
  PROVE  Taken(x) /\ UNCHANGED <<row, displays, history>>
<1>1. ASSUME Registered(x) PROVE Taken(x)
  <2>1. calls[x] # Idle /\ calls[x].at = "ok" /\ page' = page
    BY <1>1 DEF Registered, InFlight
  <2>2. \/ calls' = Abandoned([calls EXCEPT ![x] = Idle], PollCall)
        \/ calls' = [calls EXCEPT ![x] = Idle] /\ clientId' = clientId
    BY <1>1 DEF Registered
  <2>. QED
    BY <2>1, <2>2, TakenByCases
<1>2. ASSUME PollMissing(x) PROVE Taken(x)
  BY <1>2, TakenByCases DEF PollMissing, InFlight
<1>3. ASSUME PollConfig(x) PROVE Taken(x)
  <2>1. calls[x] # Idle /\ calls[x].at = "ok" /\ clientId' = clientId
    BY <1>3 DEF PollConfig, InFlight
  <2>2. \/ calls' = Abandoned([calls EXCEPT ![x] = Idle], PollCall)
        \/ calls' = [calls EXCEPT ![x] = Idle] /\ page' = page
    BY <1>3 DEF PollConfig
  <2>. QED
    BY <2>1, <2>2, TakenByCases
<1>4. ASSUME Ignored(x) PROVE Taken(x)
  BY <1>4, TakenByCases DEF Ignored, InFlight, browser
<1>5. ASSUME Lose(x) PROVE Taken(x)
  BY <1>5, TakenByCases DEF Lose, InFlight, browser
<1>6. UNCHANGED <<row, displays, history>>
  BY DEF Registered, PollMissing, PollConfig, Ignored, Lose
<1>. QED
  BY <1>1, <1>2, <1>3, <1>4, <1>5, <1>6

\* A handler's step on call x: only its progress changes, and what it found.
Advanced(x) ==
  /\ calls' \in [Calls -> Call \cup {Idle}]
  /\ calls[x] # Idle /\ calls'[x] # Idle
  /\ calls'[x].kind = calls[x].kind /\ calls'[x].code = calls[x].code
  /\ calls'[x].live = calls[x].live /\ calls'[x].at # "sent"
  /\ \A y \in Calls \ {x} : calls'[y] = calls[y]

LEMMA Update ==
  ASSUME TypeOK, NEW x \in Calls, NEW new \in Call, calls[x] # Idle,
         calls' = [calls EXCEPT ![x] = new], new.at # "sent",
         new.kind = calls[x].kind, new.code = calls[x].code, new.live = calls[x].live
  PROVE  Advanced(x) /\ calls'[x] = new
<1>1. calls \in [Calls -> Call \cup {Idle}]
  BY DEF TypeOK
<1>2. calls' \in [Calls -> Call \cup {Idle}]
  BY <1>1, Zenon
<1>3. calls'[x] = new /\ \A y \in Calls \ {x} : calls'[y] = calls[y]
  BY <1>1, Zenon
<1>. QED
  BY <1>2, <1>3, PairingAssumption DEF Advanced

LEMMA RegisterInsertEffect ==
  ASSUME TypeOK, NEW x \in Calls, RegisterInsert(x)
  PROVE  /\ Advanced(x) /\ calls[x].at = "sent" /\ calls[x].kind # "poll"
         /\ calls'[x].at = "handled" /\ calls'[x].slug = calls[x].slug
         /\ calls'[x].fresh <=> row[calls[x].code] = NoRow
<1>. DEFINE isNew == row[calls[x].code] = NoRow
            new == [calls[x] EXCEPT !.at = "handled", !.fresh = isNew]
<1>1. /\ calls[x] # Idle /\ calls[x] \in Call /\ calls[x].at = "sent" /\ calls[x].kind # "poll"
      /\ calls' = [calls EXCEPT ![x].at = "handled", ![x].fresh = isNew]
  BY DEF RegisterInsert, InFlight, TypeOK
<1>2. isNew \in BOOLEAN
  OBVIOUS
<1>. HIDE DEF isNew
<1>3. /\ new \in Call /\ new.kind = calls[x].kind /\ new.code = calls[x].code
      /\ new.live = calls[x].live /\ new.slug = calls[x].slug
      /\ new.at = "handled" /\ new.fresh = isNew
  BY <1>1, <1>2 DEF Call
<1>4. calls' = [calls EXCEPT ![x] = new]
  BY <1>1 DEF TypeOK
<1>. HIDE DEF new
<1>5. Advanced(x) /\ calls'[x] = new
  BY <1>1, <1>3, <1>4, Update
<1>. QED
  BY <1>1, <1>3, <1>5 DEF isNew

LEMMA RegisterAnswerEffect ==
  ASSUME TypeOK, NEW x \in Calls, RegisterAnswer(x)
  PROVE  /\ Advanced(x) /\ calls[x].at = "handled" /\ calls[x].kind # "poll"
         /\ calls'[x].at \in {"ok", "failed"} /\ calls'[x].slug = calls[x].slug
         /\ calls'[x].fresh = calls[x].fresh
         /\ \/ announced' = announced
            \/ /\ calls[x].fresh
               /\ announced' = [announced EXCEPT ![calls[x].code] = @ + 1]
<1>1. calls[x] # Idle /\ calls[x] \in Call /\ calls[x].at = "handled" /\ calls[x].kind # "poll"
  BY DEF RegisterAnswer, InFlight, TypeOK
<1>2. PICK at \in {"ok", "failed"} : calls' = [calls EXCEPT ![x].at = at]
  BY DEF RegisterAnswer, Advance
<1>. DEFINE new == [calls[x] EXCEPT !.at = at]
<1>3. /\ new \in Call /\ new.kind = calls[x].kind /\ new.code = calls[x].code
      /\ new.live = calls[x].live /\ new.slug = calls[x].slug
      /\ new.at = at /\ new.fresh = calls[x].fresh
  BY <1>1 DEF Call
<1>4. calls' = [calls EXCEPT ![x] = new]
  BY <1>2 DEF TypeOK
<1>. HIDE DEF new
<1>5. Advanced(x) /\ calls'[x] = new
  BY <1>1, <1>3, <1>4, Update
<1>6. \/ announced' = announced
      \/ /\ calls[x].fresh
         /\ announced' = [announced EXCEPT ![calls[x].code] = @ + 1]
  BY DEF RegisterAnswer
<1>. QED
  BY <1>1, <1>3, <1>5, <1>6

\* A display a poll brings back is that of an approved row.
LEMMA ConfigReadEffect ==
  ASSUME TypeOK, NEW x \in Calls, ConfigRead(x)
  PROVE  /\ Advanced(x) /\ calls[x].at = "sent" /\ calls'[x].fresh = calls[x].fresh
         /\ \/ calls'[x].slug = calls[x].slug
            \/ calls'[x].slug = NoDisplay
            \/ /\ row[calls[x].code] # NoRow /\ row[calls[x].code].status = "approved"
               /\ calls'[x].slug = row[calls[x].code].display
<1>1. calls[x] # Idle /\ calls[x] \in Call /\ calls[x].at = "sent" /\ calls[x].code \in Codes
  BY DEF ConfigRead, InFlight, TypeOK, Call
<1>2. CASE row[calls[x].code] = NoRow
  <2>. DEFINE new == [calls[x] EXCEPT !.at = "missing"]
  <2>1. /\ new \in Call /\ new.kind = calls[x].kind /\ new.code = calls[x].code
        /\ new.live = calls[x].live /\ new.slug = calls[x].slug
        /\ new.at = "missing" /\ new.fresh = calls[x].fresh
    BY <1>1 DEF Call
  <2>2. calls' = [calls EXCEPT ![x] = new]
    BY <1>2 DEF TypeOK, ConfigRead, Advance
  <2>. HIDE DEF new
  <2>3. Advanced(x) /\ calls'[x] = new
    BY <1>1, <2>1, <2>2, Update
  <2>. QED
    BY <1>1, <2>1, <2>3
<1>3. CASE row[calls[x].code] # NoRow
  <2>. DEFINE s == IF row[calls[x].code].status = "approved" THEN row[calls[x].code].display
                   ELSE NoDisplay
              new == [calls[x] EXCEPT !.at = "handled", !.slug = s]
  <2>1. s \in Displays \cup {NoDisplay}
    BY <1>1, <1>3 DEF TypeOK, Row
  <2>2. calls' = [calls EXCEPT ![x].at = "handled", ![x].slug = s]
    BY <1>3 DEF ConfigRead
  <2>3. \/ s = NoDisplay
        \/ row[calls[x].code].status = "approved" /\ s = row[calls[x].code].display
    OBVIOUS
  <2>. HIDE DEF s
  <2>4. /\ new \in Call /\ new.kind = calls[x].kind /\ new.code = calls[x].code
        /\ new.live = calls[x].live /\ new.slug = s
        /\ new.at = "handled" /\ new.fresh = calls[x].fresh
    BY <1>1, <2>1 DEF Call
  <2>5. calls' = [calls EXCEPT ![x] = new]
    BY <2>2 DEF TypeOK
  <2>. HIDE DEF new
  <2>6. Advanced(x) /\ calls'[x] = new
    BY <1>1, <2>4, <2>5, Update
  <2>. QED
    BY <1>1, <1>3, <2>3, <2>4, <2>6
<1>. QED
  BY <1>2, <1>3

LEMMA ConfigAnswerEffect ==
  ASSUME TypeOK, NEW x \in Calls, ConfigAnswer(x)
  PROVE  /\ Advanced(x) /\ calls[x].kind = "poll" /\ calls'[x].at = "ok"
         /\ calls'[x].fresh = calls[x].fresh
         /\ calls'[x].slug \in {calls[x].slug, NoDisplay}
<1>. DEFINE s == IF calls[x].slug \in displays THEN calls[x].slug ELSE NoDisplay
            new == [calls[x] EXCEPT !.at = "ok", !.slug = s]
<1>1. calls[x] # Idle /\ calls[x] \in Call /\ calls[x].kind = "poll"
  BY DEF ConfigAnswer, InFlight, TypeOK
<1>2. s \in Displays \cup {NoDisplay} /\ s \in {calls[x].slug, NoDisplay}
  BY <1>1 DEF Call
<1>3. calls' = [calls EXCEPT ![x].at = "ok", ![x].slug = s]
  BY DEF ConfigAnswer
<1>. HIDE DEF s
<1>4. /\ new \in Call /\ new.kind = calls[x].kind /\ new.code = calls[x].code
      /\ new.live = calls[x].live /\ new.slug = s
      /\ new.at = "ok" /\ new.fresh = calls[x].fresh
  BY <1>1, <1>2 DEF Call
<1>5. calls' = [calls EXCEPT ![x] = new]
  BY <1>3 DEF TypeOK
<1>. HIDE DEF new
<1>6. Advanced(x) /\ calls'[x] = new
  BY <1>1, <1>4, <1>5, Update
<1>. QED
  BY <1>1, <1>2, <1>4, <1>6

---------------------------------------------------------------------------
(* Every step keeps the invariant.                                         *)

LEMMA TypeStep == ASSUME IInv, [Next]_vars PROVE TypeOK'
<1>. USE PairingAssumption DEF IInv, TypeOK
<1>1. CASE Visit
  <2>1. calls' \in [Calls -> Call \cup {Idle}]
    BY <1>1, VisitEffect DEF Advanced
  <2>. HIDE DEF Call
  <2>. QED
    BY <1>1, <2>1 DEF Visit, browser, history
<1>2. CASE Submit
  <2>1. calls' \in [Calls -> Call \cup {Idle}]
    BY <1>2, SubmitEffect DEF Advanced
  <2>. HIDE DEF Call
  <2>. QED
    BY <1>2, <2>1 DEF Submit, browser, history
<1>3. CASE Poll
  <2>1. calls' \in [Calls -> Call \cup {Idle}]
    BY <1>3, PollEffect DEF Advanced
  <2>. HIDE DEF Call
  <2>. QED
    BY <1>3, <2>1 DEF Poll, browser, history
<1>4. CASE Forget
  <2>1. calls' \in [Calls -> Call \cup {Idle}]
    BY <1>4, ForgetEffect DEF Advanced
  <2>. HIDE DEF Call
  <2>. QED
    BY <1>4, <2>1 DEF Forget, browser, history
<1>5. ASSUME NEW x \in Calls, Registered(x) PROVE TypeOK'
  <2>1. calls' \in [Calls -> Call \cup {Idle}] /\ UNCHANGED <<row, displays, history>>
    BY <1>5, TakenSteps DEF Taken
  <2>2. calls[x] # Idle => calls[x].code \in Codes /\ calls[x].slug \in Displays \cup {NoDisplay}
    BY DEF Call
  <2>. QED
    BY <1>5, <2>1, <2>2 DEF Registered, InFlight, browser, history
<1>6. ASSUME NEW x \in Calls, PollMissing(x) PROVE TypeOK'
  <2>1. calls' \in [Calls -> Call \cup {Idle}] /\ UNCHANGED <<row, displays, history>>
    BY <1>6, TakenSteps DEF Taken
  <2>2. calls[x] # Idle => calls[x].code \in Codes /\ calls[x].slug \in Displays \cup {NoDisplay}
    BY DEF Call
  <2>. QED
    BY <1>6, <2>1, <2>2 DEF PollMissing, InFlight, browser, history
<1>7. ASSUME NEW x \in Calls, PollConfig(x) PROVE TypeOK'
  <2>1. calls' \in [Calls -> Call \cup {Idle}] /\ UNCHANGED <<row, displays, history>>
    BY <1>7, TakenSteps DEF Taken
  <2>2. calls[x] # Idle => calls[x].code \in Codes /\ calls[x].slug \in Displays \cup {NoDisplay}
    BY DEF Call
  <2>. QED
    BY <1>7, <2>1, <2>2 DEF PollConfig, InFlight, browser, history
<1>8. ASSUME NEW x \in Calls, Ignored(x) PROVE TypeOK'
  <2>1. calls' \in [Calls -> Call \cup {Idle}] /\ UNCHANGED <<row, displays, history>>
    BY <1>8, TakenSteps DEF Taken
  <2>2. calls[x] # Idle => calls[x].code \in Codes /\ calls[x].slug \in Displays \cup {NoDisplay}
    BY DEF Call
  <2>. QED
    BY <1>8, <2>1, <2>2 DEF Ignored, InFlight, browser, history
<1>9. ASSUME NEW x \in Calls, RegisterInsert(x) PROVE TypeOK'
  <2>1. calls' \in [Calls -> Call \cup {Idle}] /\ calls[x].code \in Codes
    BY <1>9, RegisterInsertEffect DEF Advanced, Call
  <2>2. [status |-> "pending", display |-> NoDisplay] \in Row
    BY DEF Row, Statuses
  <2>3. row[calls[x].code] = NoRow => births[calls[x].code] + 1 \in 0..MaxBirths
    BY <2>1 DEF RoomForBirth
  <2>4. births' \in [Codes -> 0..MaxBirths]
    BY <1>9, <2>1, <2>3 DEF RegisterInsert
  <2>5. row' \in [Codes -> Row \cup {NoRow}]
    BY <1>9, <2>1, <2>2 DEF RegisterInsert
  <2>6. \A c \in Codes : row'[c] # NoRow => row'[c].display \in displays \cup {NoDisplay}
    BY <1>9, <2>1 DEF RegisterInsert
  <2>7. UNCHANGED <<displays, browser, announced, assigned>>
    BY <1>9 DEF RegisterInsert
  <2>. QED
    BY <2>1, <2>4, <2>5, <2>6, <2>7 DEF browser
<1>10. ASSUME NEW x \in Calls, RegisterAnswer(x) PROVE TypeOK'
  <2>1. calls' \in [Calls -> Call \cup {Idle}] /\ calls[x].code \in Codes
    BY <1>10, RegisterAnswerEffect DEF Advanced, Call
  <2>2. announced' \in [Codes -> Nat]
    BY <1>10, <2>1, RegisterAnswerEffect
  <2>3. UNCHANGED <<row, displays, browser, births, assigned>>
    BY <1>10 DEF RegisterAnswer
  <2>. QED
    BY <2>1, <2>2, <2>3 DEF browser
<1>11. ASSUME NEW x \in Calls, ConfigRead(x) PROVE TypeOK'
  <2>1. calls' \in [Calls -> Call \cup {Idle}]
    BY <1>11, ConfigReadEffect DEF Advanced
  <2>. HIDE DEF Call
  <2>. QED
    BY <1>11, <2>1 DEF ConfigRead, browser, history
<1>12. ASSUME NEW x \in Calls, ConfigAnswer(x) PROVE TypeOK'
  <2>1. calls' \in [Calls -> Call \cup {Idle}]
    BY <1>12, ConfigAnswerEffect DEF Advanced
  <2>. HIDE DEF Call
  <2>. QED
    BY <1>12, <2>1 DEF ConfigAnswer, browser, history
<1>13. ASSUME NEW x \in Calls, Lose(x) PROVE TypeOK'
  <2>1. calls' \in [Calls -> Call \cup {Idle}] /\ UNCHANGED <<row, displays, history>>
    BY <1>13, TakenSteps DEF Taken
  <2>2. calls[x] # Idle => calls[x].code \in Codes /\ calls[x].slug \in Displays \cup {NoDisplay}
    BY DEF Call
  <2>. QED
    BY <1>13, <2>1, <2>2 DEF Lose, InFlight, browser, history
<1>14. ASSUME NEW c \in Codes, NEW status \in Statuses, NEW d \in Displays \cup {NoDisplay},
             Decide(c, status, d) PROVE TypeOK'
  <2>1. [status |-> status, display |-> d] \in Row
    BY DEF Row
  <2>. QED
    BY <1>14, <2>1 DEF Decide, browser
<1>15. ASSUME NEW c \in Codes, DeleteClient(c) PROVE TypeOK'
  BY <1>15 DEF DeleteClient, browser, history
<1>16. ASSUME NEW d \in Displays, DeleteDisplay(d) PROVE TypeOK'
  BY <1>16 DEF DeleteDisplay, browser, history
<1>17. CASE UNCHANGED vars
  BY <1>17 DEF vars, browser, history
<1>. QED
  BY <1>1, <1>2, <1>3, <1>4, <1>5, <1>6, <1>7, <1>8, <1>9, <1>10,
     <1>11, <1>12, <1>13, <1>14, <1>15, <1>16, <1>17
  DEF Next, BrowserStep, ServerStep, AdminStep, ApproveClient, UpdateClient, Statuses

LEMMA CarryStep == ASSUME IInv, [Next]_vars PROVE CallsCarry'
<1>. USE DEF IInv, CallsCarry
<1>1. CASE Visit
  <2>1. UNCHANGED assigned
    BY <1>1 DEF Visit, history
  <2>. QED
    BY <1>1, <2>1, VisitEffect DEF Kept
<1>2. CASE Submit
  <2>1. UNCHANGED assigned
    BY <1>2 DEF Submit, history
  <2>. QED
    BY <1>2, <2>1, SubmitEffect DEF Kept
<1>3. CASE Poll
  <2>1. UNCHANGED assigned
    BY <1>3 DEF Poll, history
  <2>. QED
    BY <1>3, <2>1, PollEffect DEF Kept
<1>4. CASE Forget
  <2>1. UNCHANGED assigned
    BY <1>4 DEF Forget, history
  <2>. QED
    BY <1>4, <2>1, ForgetEffect DEF Kept
<1>5. ASSUME NEW x \in Calls, Registered(x) PROVE CallsCarry'
  <2>1. UNCHANGED assigned
    BY <1>5, TakenSteps DEF history
  <2>. QED
    BY <1>5, <2>1, TakenSteps DEF Taken, Kept
<1>6. ASSUME NEW x \in Calls, PollMissing(x) PROVE CallsCarry'
  <2>1. UNCHANGED assigned
    BY <1>6, TakenSteps DEF history
  <2>. QED
    BY <1>6, <2>1, TakenSteps DEF Taken, Kept
<1>7. ASSUME NEW x \in Calls, PollConfig(x) PROVE CallsCarry'
  <2>1. UNCHANGED assigned
    BY <1>7, TakenSteps DEF history
  <2>. QED
    BY <1>7, <2>1, TakenSteps DEF Taken, Kept
<1>8. ASSUME NEW x \in Calls, Ignored(x) PROVE CallsCarry'
  <2>1. UNCHANGED assigned
    BY <1>8, TakenSteps DEF history
  <2>. QED
    BY <1>8, <2>1, TakenSteps DEF Taken, Kept
<1>9. ASSUME NEW x \in Calls, RegisterInsert(x) PROVE CallsCarry'
  <2>1. UNCHANGED assigned
    BY <1>9 DEF RegisterInsert, history
  <2>2. calls[x].code \in Codes
    BY <1>9, RegisterInsertEffect DEF Advanced, TypeOK, Call
  <2>. QED
    BY <1>9, <2>1, <2>2, RegisterInsertEffect DEF Advanced
<1>10. ASSUME NEW x \in Calls, RegisterAnswer(x) PROVE CallsCarry'
  <2>1. UNCHANGED assigned
    BY <1>10 DEF RegisterAnswer, history
  <2>2. calls[x].code \in Codes
    BY <1>10, RegisterAnswerEffect DEF Advanced, TypeOK, Call
  <2>. QED
    BY <1>10, <2>1, <2>2, RegisterAnswerEffect DEF Advanced
<1>11. ASSUME NEW x \in Calls, ConfigRead(x) PROVE CallsCarry'
  <2>1. UNCHANGED assigned
    BY <1>11 DEF ConfigRead, history
  <2>2. calls[x].code \in Codes
    BY <1>11, ConfigReadEffect DEF Advanced, TypeOK, Call
  <2>. QED
    BY <1>11, <2>1, <2>2, ConfigReadEffect DEF Advanced, ApprovedAssigned
<1>12. ASSUME NEW x \in Calls, ConfigAnswer(x) PROVE CallsCarry'
  <2>1. UNCHANGED assigned
    BY <1>12 DEF ConfigAnswer, history
  <2>2. calls[x].code \in Codes
    BY <1>12, ConfigAnswerEffect DEF Advanced, TypeOK, Call
  <2>. QED
    BY <1>12, <2>1, <2>2, ConfigAnswerEffect DEF Advanced
<1>13. ASSUME NEW x \in Calls, Lose(x) PROVE CallsCarry'
  <2>1. UNCHANGED assigned
    BY <1>13, TakenSteps DEF history
  <2>. QED
    BY <1>13, <2>1, TakenSteps DEF Taken, Kept
<1>14. ASSUME NEW c \in Codes, NEW status \in Statuses, NEW d \in Displays \cup {NoDisplay},
             Decide(c, status, d) PROVE CallsCarry'
  <2>1. UNCHANGED calls /\ \A k \in Codes : assigned[k] \subseteq assigned'[k]
    BY <1>14 DEF Decide, TypeOK
  <2>2. \A y \in Calls : calls[y] # Idle => calls[y].code \in Codes
    BY DEF TypeOK, Call
  <2>. QED
    BY <2>1, <2>2
<1>15. ASSUME NEW c \in Codes, DeleteClient(c) PROVE CallsCarry'
  BY <1>15 DEF DeleteClient, history
<1>16. ASSUME NEW d \in Displays, DeleteDisplay(d) PROVE CallsCarry'
  BY <1>16 DEF DeleteDisplay, history
<1>17. CASE UNCHANGED vars
  BY <1>17 DEF vars, history
<1>. QED
  BY <1>1, <1>2, <1>3, <1>4, <1>5, <1>6, <1>7, <1>8, <1>9, <1>10,
     <1>11, <1>12, <1>13, <1>14, <1>15, <1>16, <1>17
  DEF Next, BrowserStep, ServerStep, AdminStep, ApproveClient, UpdateClient, Statuses

LEMMA AwaitedStep == ASSUME IInv, [Next]_vars PROVE PollsAwaited'
<1>. USE DEF IInv, PollsAwaited
<1>1. CASE Visit
  BY <1>1, VisitEffect
<1>2. CASE Submit
  <2>1. UNCHANGED <<page, clientId>>
    BY <1>2 DEF Submit, browser
  <2>. QED
    BY <1>2, <2>1, SubmitEffect DEF Kept
<1>3. CASE Poll
  <2>1. UNCHANGED <<page, clientId>>
    BY <1>3 DEF Poll, browser
  <2>. QED
    BY <1>3, <2>1, PollEffect DEF Kept
<1>4. CASE Forget
  BY <1>4, ForgetEffect
<1>5. ASSUME NEW x \in Calls, Registered(x) PROVE PollsAwaited'
  BY <1>5, TakenSteps DEF Taken, Kept
<1>6. ASSUME NEW x \in Calls, PollMissing(x) PROVE PollsAwaited'
  BY <1>6, TakenSteps DEF Taken, Kept
<1>7. ASSUME NEW x \in Calls, PollConfig(x) PROVE PollsAwaited'
  BY <1>7, TakenSteps DEF Taken, Kept
<1>8. ASSUME NEW x \in Calls, Ignored(x) PROVE PollsAwaited'
  BY <1>8, TakenSteps DEF Taken, Kept
<1>9. ASSUME NEW x \in Calls, RegisterInsert(x) PROVE PollsAwaited'
  <2>1. UNCHANGED <<page, clientId>>
    BY <1>9 DEF RegisterInsert, browser
  <2>. QED
    BY <1>9, <2>1, RegisterInsertEffect DEF Advanced
<1>10. ASSUME NEW x \in Calls, RegisterAnswer(x) PROVE PollsAwaited'
  <2>1. UNCHANGED <<page, clientId>>
    BY <1>10 DEF RegisterAnswer, browser
  <2>. QED
    BY <1>10, <2>1, RegisterAnswerEffect DEF Advanced
<1>11. ASSUME NEW x \in Calls, ConfigRead(x) PROVE PollsAwaited'
  <2>1. UNCHANGED <<page, clientId>>
    BY <1>11 DEF ConfigRead, browser
  <2>. QED
    BY <1>11, <2>1, ConfigReadEffect DEF Advanced
<1>12. ASSUME NEW x \in Calls, ConfigAnswer(x) PROVE PollsAwaited'
  <2>1. UNCHANGED <<page, clientId>>
    BY <1>12 DEF ConfigAnswer, browser
  <2>. QED
    BY <1>12, <2>1, ConfigAnswerEffect DEF Advanced
<1>13. ASSUME NEW x \in Calls, Lose(x) PROVE PollsAwaited'
  BY <1>13, TakenSteps DEF Taken, Kept
<1>14. ASSUME NEW c \in Codes, NEW status \in Statuses, NEW d \in Displays \cup {NoDisplay},
             Decide(c, status, d) PROVE PollsAwaited'
  BY <1>14 DEF Decide, browser
<1>15. ASSUME NEW c \in Codes, DeleteClient(c) PROVE PollsAwaited'
  BY <1>15 DEF DeleteClient, browser
<1>16. ASSUME NEW d \in Displays, DeleteDisplay(d) PROVE PollsAwaited'
  BY <1>16 DEF DeleteDisplay, browser
<1>17. CASE UNCHANGED vars
  BY <1>17 DEF vars, browser
<1>. QED
  BY <1>1, <1>2, <1>3, <1>4, <1>5, <1>6, <1>7, <1>8, <1>9, <1>10,
     <1>11, <1>12, <1>13, <1>14, <1>15, <1>16, <1>17
  DEF Next, BrowserStep, ServerStep, AdminStep, ApproveClient, UpdateClient, Statuses

\* What no request of the browser undoes: decisions, and a row that is there.
LEMMA RowsStep == ASSUME IInv, [Next]_vars PROVE ApprovedAssigned' /\ RoomForBirth'
<1>. USE PairingAssumption DEF IInv, ApprovedAssigned, RoomForBirth, TypeOK
<1>1. CASE Visit
  BY <1>1 DEF Visit, history
<1>2. CASE Submit
  BY <1>2 DEF Submit, history
<1>3. CASE Poll
  BY <1>3 DEF Poll, history
<1>4. CASE Forget
  BY <1>4 DEF Forget, history
<1>5. ASSUME NEW x \in Calls, Registered(x) PROVE ApprovedAssigned' /\ RoomForBirth'
  BY <1>5, TakenSteps DEF history
<1>6. ASSUME NEW x \in Calls, PollMissing(x) PROVE ApprovedAssigned' /\ RoomForBirth'
  BY <1>6, TakenSteps DEF history
<1>7. ASSUME NEW x \in Calls, PollConfig(x) PROVE ApprovedAssigned' /\ RoomForBirth'
  BY <1>7, TakenSteps DEF history
<1>8. ASSUME NEW x \in Calls, Ignored(x) PROVE ApprovedAssigned' /\ RoomForBirth'
  BY <1>8, TakenSteps DEF history
<1>9. ASSUME NEW x \in Calls, RegisterInsert(x) PROVE ApprovedAssigned' /\ RoomForBirth'
  <2>1. \A c \in Codes : row[c] = NoRow \/ row'[c] = row[c]
    BY <1>9 DEF RegisterInsert
  <2>2. \A c \in Codes : row[c] = NoRow /\ row'[c] # NoRow => row'[c].status = "pending"
    BY <1>9 DEF RegisterInsert
  <2>3. \A c \in Codes : row'[c] = NoRow => births'[c] = births[c]
    <3>1. [status |-> "pending", display |-> NoDisplay] # NoRow
      BY DEF Row, Statuses
    <3>. QED
      BY <1>9, <3>1 DEF RegisterInsert
  <2>4. UNCHANGED assigned
    BY <1>9 DEF RegisterInsert
  <2>. QED
    BY <2>1, <2>2, <2>3, <2>4
<1>10. ASSUME NEW x \in Calls, RegisterAnswer(x) PROVE ApprovedAssigned' /\ RoomForBirth'
  BY <1>10 DEF RegisterAnswer, history
<1>11. ASSUME NEW x \in Calls, ConfigRead(x) PROVE ApprovedAssigned' /\ RoomForBirth'
  BY <1>11 DEF ConfigRead, history
<1>12. ASSUME NEW x \in Calls, ConfigAnswer(x) PROVE ApprovedAssigned' /\ RoomForBirth'
  BY <1>12 DEF ConfigAnswer, history
<1>13. ASSUME NEW x \in Calls, Lose(x) PROVE ApprovedAssigned' /\ RoomForBirth'
  BY <1>13, TakenSteps DEF history
<1>14. ASSUME NEW c \in Codes, NEW status \in Statuses, NEW d \in Displays \cup {NoDisplay},
             Decide(c, status, d) PROVE ApprovedAssigned' /\ RoomForBirth'
  <2>1. [status |-> status, display |-> d] # NoRow
    BY DEF Row
  <2>2. row'[c] = [status |-> status, display |-> d] /\ \A k \in Codes \ {c} : row'[k] = row[k]
    BY <1>14 DEF Decide
  <2>3. /\ \A k \in Codes : assigned[k] \subseteq assigned'[k]
        /\ status = "approved" /\ d # NoDisplay => d \in assigned'[c]
    BY <1>14 DEF Decide
  <2>4. UNCHANGED births /\ row[c] # NoRow
    BY <1>14 DEF Decide
  <2>. QED
    BY <2>1, <2>2, <2>3, <2>4
<1>15. ASSUME NEW c \in Codes, DeleteClient(c) PROVE ApprovedAssigned' /\ RoomForBirth'
  BY <1>15 DEF DeleteClient, history
<1>16. ASSUME NEW d \in Displays, DeleteDisplay(d) PROVE ApprovedAssigned' /\ RoomForBirth'
  BY <1>16 DEF DeleteDisplay, history
<1>17. CASE UNCHANGED vars
  BY <1>17 DEF vars, history
<1>. QED
  BY <1>1, <1>2, <1>3, <1>4, <1>5, <1>6, <1>7, <1>8, <1>9, <1>10,
     <1>11, <1>12, <1>13, <1>14, <1>15, <1>16, <1>17
  DEF Next, BrowserStep, ServerStep, AdminStep, ApproveClient, UpdateClient, Statuses

\* Steps that leave the announcing handlers alone.
LEMMA SameAnnouncing ==
  ASSUME RightToAnnounce, UNCHANGED <<births, announced>>,
         \A c \in Codes : Announcing(c)' = Announcing(c)
  PROVE  RightToAnnounce'
  BY DEF RightToAnnounce

\* An insert gives the right to announce, and an announcement uses it up.
LEMMA AnnounceStep == ASSUME IInv, [Next]_vars PROVE RightToAnnounce'
<1>. USE DEF IInv
<1>1. CASE Visit
  <2>1. \A c \in Codes : Announcing(c)' = Announcing(c)
    BY <1>1, VisitEffect DEF Announcing, Kept
  <2>2. UNCHANGED <<births, announced>>
    BY <1>1 DEF Visit, history
  <2>. QED
    BY <2>1, <2>2, SameAnnouncing
<1>2. CASE Submit
  <2>1. \A c \in Codes : Announcing(c)' = Announcing(c)
    BY <1>2, SubmitEffect DEF Announcing, Kept
  <2>2. UNCHANGED <<births, announced>>
    BY <1>2 DEF Submit, history
  <2>. QED
    BY <2>1, <2>2, SameAnnouncing
<1>3. CASE Poll
  <2>1. \A c \in Codes : Announcing(c)' = Announcing(c)
    BY <1>3, PollEffect DEF Announcing, Kept
  <2>2. UNCHANGED <<births, announced>>
    BY <1>3 DEF Poll, history
  <2>. QED
    BY <2>1, <2>2, SameAnnouncing
<1>4. CASE Forget
  <2>1. \A c \in Codes : Announcing(c)' = Announcing(c)
    BY <1>4, ForgetEffect DEF Announcing, Kept
  <2>2. UNCHANGED <<births, announced>>
    BY <1>4 DEF Forget, history
  <2>. QED
    BY <2>1, <2>2, SameAnnouncing
<1>5. ASSUME NEW x \in Calls, Registered(x) PROVE RightToAnnounce'
  <2>1. \A c \in Codes : Announcing(c)' = Announcing(c)
    BY <1>5, TakenSteps DEF Announcing, Kept, Taken
  <2>2. UNCHANGED <<births, announced>>
    BY <1>5, TakenSteps DEF history
  <2>. QED
    BY <2>1, <2>2, SameAnnouncing
<1>6. ASSUME NEW x \in Calls, PollMissing(x) PROVE RightToAnnounce'
  <2>1. \A c \in Codes : Announcing(c)' = Announcing(c)
    BY <1>6, TakenSteps DEF Announcing, Kept, Taken
  <2>2. UNCHANGED <<births, announced>>
    BY <1>6, TakenSteps DEF history
  <2>. QED
    BY <2>1, <2>2, SameAnnouncing
<1>7. ASSUME NEW x \in Calls, PollConfig(x) PROVE RightToAnnounce'
  <2>1. \A c \in Codes : Announcing(c)' = Announcing(c)
    BY <1>7, TakenSteps DEF Announcing, Kept, Taken
  <2>2. UNCHANGED <<births, announced>>
    BY <1>7, TakenSteps DEF history
  <2>. QED
    BY <2>1, <2>2, SameAnnouncing
<1>8. ASSUME NEW x \in Calls, Ignored(x) PROVE RightToAnnounce'
  <2>1. \A c \in Codes : Announcing(c)' = Announcing(c)
    BY <1>8, TakenSteps DEF Announcing, Kept, Taken
  <2>2. UNCHANGED <<births, announced>>
    BY <1>8, TakenSteps DEF history
  <2>. QED
    BY <2>1, <2>2, SameAnnouncing
<1>9. ASSUME NEW x \in Calls, RegisterInsert(x) PROVE RightToAnnounce'
  <2>. DEFINE k == calls[x].code
  <2>1. k \in Codes /\ Advanced(x)
    BY <1>9, RegisterInsertEffect DEF Advanced, TypeOK, Call
  <2>2. \A c \in Codes \ {k} : Announcing(c)' = Announcing(c)
    BY <1>9, RegisterInsertEffect DEF Announcing, Advanced
  <2>3. UNCHANGED announced /\ \A c \in Codes \ {k} : births'[c] = births[c]
    BY <1>9 DEF RegisterInsert, TypeOK
  <2>4. x \notin Announcing(k)
    BY <1>9, RegisterInsertEffect DEF Announcing
  <2>5. CASE row[k] = NoRow
    <3>1. \A y \in Calls : y \in {z \in Calls : calls'[z] # Idle /\ calls'[z].at = "handled"
                                      /\ calls'[z].fresh /\ calls'[z].code = k}
                            <=> y \in Announcing(k) \cup {x}
      BY <1>9, <2>5, RegisterInsertEffect DEF Announcing, Advanced
    <3>2. \A c \in Codes : c = k => Announcing(c)' = Announcing(k) \cup {x}
      BY <3>1 DEF Announcing
    <3>3. \A c \in Codes : c = k => Cardinality(Announcing(c)') = Cardinality(Announcing(k)) + 1
      BY <2>4, <3>2, AnnouncingFinite, FS_AddElement
    <3>4. births'[k] = births[k] + 1
      BY <1>9, <2>1, <2>5 DEF RegisterInsert, TypeOK
    <3>5. \A c \in Codes : Cardinality(Announcing(c)) \in Nat /\ Cardinality(Announcing(c)') \in Nat
      BY AnnouncingFinite
    <3>6. announced \in [Codes -> Nat] /\ births \in [Codes -> 0..MaxBirths] /\ MaxBirths \in Nat
      BY PairingAssumption DEF TypeOK
    <3>7. \A c \in Codes : announced'[c] + Cardinality(Announcing(c)') <= births'[c]
      <4>. HIDE DEF k
      <4>. QED
        BY <2>1, <2>2, <2>3, <3>3, <3>4, <3>5, <3>6 DEF RightToAnnounce
    <3>. QED
      BY <3>7 DEF RightToAnnounce
  <2>6. CASE row[k] # NoRow
    <3>1. \A c \in Codes : Announcing(c)' = Announcing(c)
      BY <1>9, <2>6, RegisterInsertEffect DEF Announcing, Advanced
    <3>2. UNCHANGED births
      BY <1>9, <2>6 DEF RegisterInsert
    <3>. QED
      BY <2>3, <3>1, <3>2, SameAnnouncing
  <2>. QED
    BY <2>5, <2>6
<1>10. ASSUME NEW x \in Calls, RegisterAnswer(x) PROVE RightToAnnounce'
  <2>. DEFINE k == calls[x].code
  <2>1. k \in Codes /\ Advanced(x)
    BY <1>10, RegisterAnswerEffect DEF Advanced, TypeOK, Call
  <2>2. \A c \in Codes \ {k} : Announcing(c)' = Announcing(c)
    BY <1>10, RegisterAnswerEffect DEF Announcing, Advanced
  <2>3. UNCHANGED births /\ \A c \in Codes \ {k} : announced'[c] = announced[c]
    <3>1. UNCHANGED births
      BY <1>10 DEF RegisterAnswer
    <3>. QED
      BY <1>10, <3>1, RegisterAnswerEffect DEF TypeOK
  <2>4. \A c \in Codes : c = k => Announcing(c)' = Announcing(k) \ {x}
    BY <1>10, RegisterAnswerEffect DEF Announcing, Advanced
  <2>5. \A c \in Codes : Cardinality(Announcing(c)) \in Nat /\ Cardinality(Announcing(c)') \in Nat
    BY AnnouncingFinite
  <2>6. announced \in [Codes -> Nat] /\ births \in [Codes -> 0..MaxBirths] /\ MaxBirths \in Nat
    BY PairingAssumption DEF TypeOK
  <2>7. CASE calls[x].fresh
    <3>1. x \in Announcing(k)
      BY <1>10, <2>7, RegisterAnswerEffect DEF Announcing, Advanced
    <3>2. \A c \in Codes : c = k => Cardinality(Announcing(c)') = Cardinality(Announcing(k)) - 1
      BY <2>4, <3>1, AnnouncingFinite, FS_RemoveElement
    <3>3. announced'[k] \in {announced[k], announced[k] + 1}
      BY <1>10, <2>1, <2>6, RegisterAnswerEffect
    <3>4. \A c \in Codes : announced'[c] + Cardinality(Announcing(c)') <= births'[c]
      <4>. HIDE DEF k
      <4>. QED
        BY <2>1, <2>2, <2>3, <2>5, <2>6, <3>2, <3>3 DEF RightToAnnounce
    <3>. QED
      BY <3>4 DEF RightToAnnounce
  <2>8. CASE ~calls[x].fresh
    <3>1. \A c \in Codes : Announcing(c)' = Announcing(c)
      BY <1>10, <2>8, RegisterAnswerEffect DEF Announcing, Advanced
    <3>2. UNCHANGED announced
      BY <1>10, <2>8, RegisterAnswerEffect
    <3>. QED
      BY <2>3, <3>1, <3>2, SameAnnouncing
  <2>. QED
    BY <2>7, <2>8
<1>11. ASSUME NEW x \in Calls, ConfigRead(x) PROVE RightToAnnounce'
  <2>1. \A c \in Codes : Announcing(c)' = Announcing(c)
    <3>1. ~calls[x].fresh /\ ~calls'[x].fresh
      BY <1>11, ConfigReadEffect DEF Advanced, CallsCarry
    <3>. QED
      BY <1>11, <3>1, ConfigReadEffect DEF Announcing, Advanced
  <2>2. UNCHANGED <<births, announced>>
    BY <1>11 DEF ConfigRead, history
  <2>. QED
    BY <2>1, <2>2, SameAnnouncing
<1>12. ASSUME NEW x \in Calls, ConfigAnswer(x) PROVE RightToAnnounce'
  <2>1. \A c \in Codes : Announcing(c)' = Announcing(c)
    <3>1. ~calls[x].fresh /\ ~calls'[x].fresh
      BY <1>12, ConfigAnswerEffect DEF Advanced, CallsCarry
    <3>. QED
      BY <1>12, <3>1, ConfigAnswerEffect DEF Announcing, Advanced
  <2>2. UNCHANGED <<births, announced>>
    BY <1>12 DEF ConfigAnswer, history
  <2>. QED
    BY <2>1, <2>2, SameAnnouncing
<1>13. ASSUME NEW x \in Calls, Lose(x) PROVE RightToAnnounce'
  <2>1. \A c \in Codes : Announcing(c)' = Announcing(c)
    BY <1>13, TakenSteps DEF Announcing, Kept, Taken
  <2>2. UNCHANGED <<births, announced>>
    BY <1>13, TakenSteps DEF history
  <2>. QED
    BY <2>1, <2>2, SameAnnouncing
<1>14. ASSUME NEW c \in Codes, NEW status \in Statuses, NEW d \in Displays \cup {NoDisplay},
             Decide(c, status, d) PROVE RightToAnnounce'
  BY <1>14, SameAnnouncing DEF Decide, history, Announcing
<1>15. ASSUME NEW c \in Codes, DeleteClient(c) PROVE RightToAnnounce'
  BY <1>15, SameAnnouncing DEF DeleteClient, history, Announcing
<1>16. ASSUME NEW d \in Displays, DeleteDisplay(d) PROVE RightToAnnounce'
  BY <1>16, SameAnnouncing DEF DeleteDisplay, history, Announcing
<1>17. CASE UNCHANGED vars
  BY <1>17, SameAnnouncing DEF vars, history, Announcing
<1>. QED
  BY <1>1, <1>2, <1>3, <1>4, <1>5, <1>6, <1>7, <1>8, <1>9, <1>10,
     <1>11, <1>12, <1>13, <1>14, <1>15, <1>16, <1>17
  DEF Next, BrowserStep, ServerStep, AdminStep, ApproveClient, UpdateClient, Statuses

LEMMA PageStep == ASSUME IInv, [Next]_vars PROVE CookieMatchesPage' /\ ShowsOwnDisplay'
<1>. USE DEF IInv, TypeOK, CookieMatchesPage, ShowsOwnDisplay
<1>1. CASE Visit
  BY <1>1 DEF Visit, browser, history
<1>2. CASE Submit
  BY <1>2 DEF Submit, browser, history
<1>3. CASE Poll
  BY <1>3 DEF Poll, browser, history
<1>4. CASE Forget
  BY <1>4 DEF Forget, browser, history
<1>5. ASSUME NEW x \in Calls, Registered(x) PROVE CookieMatchesPage' /\ ShowsOwnDisplay'
  BY <1>5 DEF Registered, browser, history
<1>6. ASSUME NEW x \in Calls, PollMissing(x) PROVE CookieMatchesPage' /\ ShowsOwnDisplay'
  <2>1. page = "register"
    BY <1>6 DEF PollMissing, InFlight, PollsAwaited
  <2>. QED
    BY <1>6, <2>1 DEF PollMissing, history
<1>7. ASSUME NEW x \in Calls, PollConfig(x) PROVE CookieMatchesPage' /\ ShowsOwnDisplay'
  <2>1. page = "register" /\ calls[x].code = clientId /\ calls[x] # Idle
    BY <1>7 DEF PollConfig, InFlight, PollsAwaited
  <2>2. calls[x].slug # NoDisplay => calls[x].slug \in assigned[clientId]
    BY <2>1 DEF CallsCarry
  <2>3. clientId \in Codes
    BY <2>1 DEF Call
  <2>4. UNCHANGED <<clientId, cookie, assigned>>
    BY <1>7 DEF PollConfig, history
  <2>. QED
    BY <1>7, <2>1, <2>2, <2>3, <2>4, PairingAssumption DEF PollConfig
<1>8. ASSUME NEW x \in Calls, Ignored(x) PROVE CookieMatchesPage' /\ ShowsOwnDisplay'
  BY <1>8 DEF Ignored, browser, history
<1>9. ASSUME NEW x \in Calls, RegisterInsert(x) PROVE CookieMatchesPage' /\ ShowsOwnDisplay'
  BY <1>9 DEF RegisterInsert, browser, history
<1>10. ASSUME NEW x \in Calls, RegisterAnswer(x) PROVE CookieMatchesPage' /\ ShowsOwnDisplay'
  BY <1>10 DEF RegisterAnswer, browser, history
<1>11. ASSUME NEW x \in Calls, ConfigRead(x) PROVE CookieMatchesPage' /\ ShowsOwnDisplay'
  BY <1>11 DEF ConfigRead, browser, history
<1>12. ASSUME NEW x \in Calls, ConfigAnswer(x) PROVE CookieMatchesPage' /\ ShowsOwnDisplay'
  BY <1>12 DEF ConfigAnswer, browser, history
<1>13. ASSUME NEW x \in Calls, Lose(x) PROVE CookieMatchesPage' /\ ShowsOwnDisplay'
  BY <1>13 DEF Lose, browser, history
<1>14. ASSUME NEW c \in Codes, NEW status \in Statuses, NEW d \in Displays \cup {NoDisplay},
             Decide(c, status, d) PROVE CookieMatchesPage' /\ ShowsOwnDisplay'
  BY <1>14, PairingAssumption DEF Decide, browser
<1>15. ASSUME NEW c \in Codes, DeleteClient(c) PROVE CookieMatchesPage' /\ ShowsOwnDisplay'
  BY <1>15 DEF DeleteClient, browser, history
<1>16. ASSUME NEW d \in Displays, DeleteDisplay(d) PROVE CookieMatchesPage' /\ ShowsOwnDisplay'
  BY <1>16 DEF DeleteDisplay, browser, history
<1>17. CASE UNCHANGED vars
  BY <1>17 DEF vars, browser, history
<1>. QED
  BY <1>1, <1>2, <1>3, <1>4, <1>5, <1>6, <1>7, <1>8, <1>9, <1>10,
     <1>11, <1>12, <1>13, <1>14, <1>15, <1>16, <1>17
  DEF Next, BrowserStep, ServerStep, AdminStep, ApproveClient, UpdateClient, Statuses

---------------------------------------------------------------------------
(* Theorems.                                                               *)

\* The inductive invariant: what calls carry, who waits for them, and the
\* properties below.
THEOREM IInvCorrect == Spec => []IInv
<1>1. IInv /\ [Next]_vars => IInv'
  BY TypeStep, CarryStep, AwaitedStep, RowsStep, AnnounceStep, PageStep DEF IInv
<1>. QED
  BY InitInv, <1>1, PTL DEF Spec

\* Every reachable state is well typed, and a client's display exists.
THEOREM TypeCorrect == Spec => []TypeOK
  BY IInvCorrect, PTL DEF IInv

\* A reload finds the pairing the page was waiting with (RegisterPage).
THEOREM CookieMatches == Spec => []CookieMatchesPage
  BY IInvCorrect, PTL DEF IInv

\* The browser only shows a display its own pairing was approved for
\* (RegisterPage's poll effect, handleClientConfig).
THEOREM OwnDisplay == Spec => []ShowsOwnDisplay
  BY IInvCorrect, PTL DEF IInv

\* At most one notification per row, for any number of calls in flight
\* (handleRegisterClient).
THEOREM Announced == Spec => []AnnouncedOnce
<1>1. IInv => AnnouncedOnce
  <2>. SUFFICES ASSUME IInv, NEW c \in Codes PROVE announced[c] <= births[c]
    BY DEF AnnouncedOnce
  <2>1. announced[c] \in Nat /\ births[c] \in 0..MaxBirths /\ MaxBirths \in Nat
    BY PairingAssumption DEF IInv, TypeOK
  <2>2. Cardinality(Announcing(c)) \in Nat
    BY AnnouncingFinite
  <2>. QED
    BY <2>1, <2>2 DEF IInv, RightToAnnounce
<1>. QED
  BY IInvCorrect, <1>1, PTL

\* Nothing the browser sends changes a client an admin can already see
\* (RegisterClient's ON CONFLICT).
THEOREM Idempotent == Spec => RegisteringIsIdempotent
<1>1. IInv /\ [Next]_vars =>
        [calls' # calls => \A c \in Codes : row[c] # NoRow => row'[c] = row[c]]_vars
  <2>. SUFFICES ASSUME IInv, Next, calls' # calls, NEW c \in Codes, row[c] # NoRow
                PROVE  row'[c] = row[c]
    OBVIOUS
  <2>1. CASE Visit \/ Submit \/ Poll \/ Forget
    BY <2>1 DEF Visit, Submit, Poll, Forget
  <2>2. ASSUME NEW x \in Calls, BrowserStep(x) \/ Lose(x) PROVE row'[c] = row[c]
    BY <2>2, TakenSteps DEF IInv, BrowserStep
  <2>3. ASSUME NEW x \in Calls, RegisterInsert(x) PROVE row'[c] = row[c]
    BY <2>3 DEF RegisterInsert, IInv, TypeOK
  <2>4. ASSUME NEW x \in Calls, RegisterAnswer(x) \/ ConfigRead(x) \/ ConfigAnswer(x)
        PROVE  row'[c] = row[c]
    BY <2>4 DEF RegisterAnswer, ConfigRead, ConfigAnswer
  <2>5. CASE AdminStep
    BY <2>5 DEF AdminStep, UpdateClient, ApproveClient, Decide, DeleteClient, DeleteDisplay
  <2>. QED
    BY <2>1, <2>2, <2>3, <2>4, <2>5 DEF Next, ServerStep
<1>. QED
  BY IInvCorrect, <1>1, PTL DEF Spec, RegisteringIsIdempotent
=============================================================================
