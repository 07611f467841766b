-------------------------------- MODULE Otp --------------------------------
(***************************************************************************)
(* One-time codes of SAuth: RequestOTP and VerifyOTP of                    *)
(* internal/auth/otp.go over the table otp_codes, for the destinations of  *)
(* one project.  As in Sessions, a request is a pc, and what its           *)
(* transaction wrote and did not commit is read off the pc and the field   *)
(* burning.  A code is guessed right or wrong; whether it was delivered    *)
(* does not change what the server stores, so SendOTP is left out.         *)
(***************************************************************************)
EXTENDS FiniteSets, Naturals

CONSTANTS
    Destination,     \* normalized addresses and phone numbers
    Code,            \* primary keys that otp_codes may draw
    Request,         \* request slots served concurrently
    NoRow, NoCode, NoDestination,
    otpMaxAttempts,
    Faults           \* may statements, commits and connections fail?

Purpose == {"login", "signup"}

OtpRow == [destination : Destination, purpose : Purpose, attempts : Nat,
           consumed : BOOLEAN, expired : BOOLEAN, recent : BOOLEAN]

ASSUME MaxAttemptsPositive == otpMaxAttempts \in Nat \ {0}
ASSUME FaultsAreOptional == Faults \in BOOLEAN
ASSUME RequestsAreFinite == IsFiniteSet(Request)
ASSUME NoRowIsNoRow == NoRow \notin OtpRow
ASSUME NoCodeIsNoCode == NoCode \notin Code

VARIABLES
    otp_codes,   \* the committed rows; recent: the resend window is open
    users,       \* accounts of the project, each with its destination
    banned,      \* destinations whose account is banned
    verified,    \* destinations whose account is marked verified
    redeemed,    \* history: how often each code opened a session
    alone,       \* history: codes whose request met no other of their group
    guessed,     \* history: how many wrong guesses met the hash of each code
    lost,        \* history: how many of them the row never counted
    req          \* the request each slot serves

vars == <<otp_codes, users, banned, verified, redeemed, alone, guessed, lost, req>>

-----------------------------------------------------------------------------
\* Tables.

Exists(c) == otp_codes[c] # NoRow

Active(c) == Exists(c) /\ ~ otp_codes[c].consumed

\* The rows of one destination and purpose.
Group(d, p) ==
    {c \in Code : /\ Exists(c)
                  /\ otp_codes[c].destination = d
                  /\ otp_codes[c].purpose = p}

HasAccount(d) == \E u \in users : u.destination = d

\* A code that a verification turned into an account, or Elsewhere: an account
\* that Signup or Google sign-in made.
Elsewhere == NoCode

UserRow == [destination : Destination, origin : Code \union {Elsewhere}]

-----------------------------------------------------------------------------
\* Requests.

Verdict == {"ok", "sent", "throttled", "invalid", "expired", "too_many",
            "banned", "exists", "email_taken", "error"}

Waiting == {"snapshot", "invalidate", "increment", "burn_invalid",
            "burn_too_many", "consume", "resolve", "insert", "commit"}

Slot(label) ==
    [pc |-> label, destination |-> NoDestination, purpose |-> "login",
     code |-> NoCode, todo |-> {}, burning |-> {}, met |-> FALSE, late |-> FALSE]

RequestState ==
    [pc : {"idle"} \union Waiting, destination : Destination \union {NoDestination},
     purpose : Purpose, code : Code \union {NoCode},
     todo : SUBSET Code, burning : SUBSET Code, met : BOOLEAN, late : BOOLEAN]

At(r, label) == req[r].pc = label

Idle(r) == At(r, "idle")

\* The client gets the verdict; the server keeps nothing of it.
Answer(r, verdict) ==
    verdict \in Verdict /\ req' = [req EXCEPT ![r] = Slot("idle")]

Goto(r, label) == req' = [req EXCEPT ![r].pc = label]

\* Code requests of one group that are under way.
Requesting(d, p) ==
    {q \in Request : /\ req[q].pc \in {"snapshot", "invalidate"}
                     /\ req[q].destination = d
                     /\ req[q].purpose = p}

\* Bound of the instance: a code is requested only if an unused key is left.
CodesLeft ==
    Cardinality({q \in Request : req[q].pc \in {"snapshot", "invalidate"}})
        < Cardinality({c \in Code : ~ Exists(c)})

\* ConsumeOTP of a verification and InvalidateActiveOTPs of a request lock the
\* rows they wrote until their transaction ends.
HoldsCode(q, c) ==
    \/ req[q].pc \in {"resolve", "insert", "commit"} /\ req[q].code = c
    \/ c \in req[q].burning

Locked(r, c) == \E q \in Request \ {r} : HoldsCode(q, c)

\* A verification has inserted this account and not committed yet.
Inserts(q, d) ==
    At(q, "commit") /\ req[q].purpose = "signup" /\ req[q].destination = d

-----------------------------------------------------------------------------
Init ==
    /\ otp_codes = [c \in Code |-> NoRow]
    /\ users = {}
    /\ banned = {}
    /\ verified = {}
    /\ redeemed = [c \in Code |-> 0]
    /\ alone = {}
    /\ guessed = [c \in Code |-> 0]
    /\ lost = [c \in Code |-> 0]
    /\ req = [r \in Request |-> Slot("idle")]

-----------------------------------------------------------------------------
\* RequestOTP.

\* Seeded bug: nobody asks when the last code was sent.
Unthrottled(d, p) == FALSE

\* The newest row of the group is younger than otpResendWindow.
Throttled(d, p) == \E c \in Group(d, p) : otp_codes[c].recent

\* The throttle; the account lookup after it only decides about the delivery.
RequestOTP(r, d, p) ==
    /\ Idle(r)
    /\ CodesLeft
    /\ \/ Throttled(d, p) /\ Answer(r, "throttled")
       \/ /\ ~ Throttled(d, p)
          /\ req' = [q \in Request |->
                CASE q = r -> [Slot("snapshot") EXCEPT !.destination = d, !.purpose = p,
                                                       !.met = Requesting(d, p) # {}]
                  [] q \in Requesting(d, p) -> [req[q] EXCEPT !.met = TRUE]
                  [] OTHER -> req[q]]
    /\ UNCHANGED <<otp_codes, users, banned, verified, redeemed, alone, guessed, lost>>

\* Seeded bug: the earlier codes are left as they are.
NothingToBurn(d, p) == {}

\* Seeded bug: the rows are found by the destination alone.
ToBurnAnyPurpose(d, p) ==
    {c \in Code : Active(c) /\ otp_codes[c].destination = d}

\* The rows that InvalidateActiveOTPs finds when it starts.
ToBurn(d, p) == {c \in Group(d, p) : Active(c)}

InvalidateSnapshot(r) ==
    /\ At(r, "snapshot")
    /\ req' = [req EXCEPT
          ![r].pc = "invalidate",
          ![r].todo = ToBurn(req[r].destination, req[r].purpose)]
    /\ UNCHANGED <<otp_codes, users, banned, verified, redeemed, alone, guessed, lost>>

\* The statement reaches row c; if it had to wait, consumed_at IS NULL is judged
\* again on the row it then finds.
InvalidateRow(r, c) ==
    /\ At(r, "invalidate")
    /\ c \in req[r].todo
    /\ ~ Locked(r, c)
    /\ req' = [req EXCEPT
          ![r].todo = @ \ {c},
          ![r].burning = IF Active(c) THEN @ \union {c} ELSE @]
    /\ UNCHANGED <<otp_codes, users, banned, verified, redeemed, alone, guessed, lost>>

\* Seeded bug: the row has a purpose that VerifyOTP does not know.
NewRowForReset(r) ==
    [destination |-> req[r].destination, purpose |-> "reset_password",
     attempts |-> 0, consumed |-> FALSE, expired |-> FALSE, recent |-> TRUE]

NewRow(r) ==
    [destination |-> req[r].destination, purpose |-> req[r].purpose,
     attempts |-> 0, consumed |-> FALSE, expired |-> FALSE, recent |-> TRUE]

\* Insert and commit; the answer is the same whether or not the code is sent.
CreateOTP(r, c) ==
    /\ At(r, "invalidate")
    /\ req[r].todo = {}
    /\ ~ Exists(c)
    /\ otp_codes' = [k \in Code |->
          CASE k = c                -> NewRow(r)
            [] k \in req[r].burning -> [otp_codes[k] EXCEPT !.consumed = TRUE]
            [] OTHER                -> otp_codes[k]]
    /\ alone' = IF req[r].met THEN alone ELSE alone \union {c}
    /\ Answer(r, "sent")
    /\ UNCHANGED <<users, banned, verified, redeemed, guessed, lost>>

-----------------------------------------------------------------------------
\* VerifyOTP: what the row says when it is read decides the way.

\* Seeded bug: the attempts of the row are not looked at.
StillGuessableAlways(row) == TRUE

StillGuessable(row) == row.attempts < otpMaxAttempts

\* Seeded bug: a consumed code is read like any other.
ReadAnyway(row) == FALSE

Spent(row) == row.consumed

\* late and guessed are histories: that the code had opened a session before, and
\* that a wrong guess met its hash.
VerifyOTP(r, c, codeMatches) ==
    LET row == otp_codes[c]
        guessable == ~ Spent(row) /\ ~ row.expired /\ StillGuessable(row)
        begin(label) ==
            req' = [req EXCEPT ![r] =
              [Slot(label) EXCEPT !.code = c, !.destination = row.destination,
                                  !.purpose = row.purpose, !.late = redeemed[c] > 0]]
    IN  /\ Idle(r)
        /\ Exists(c)
        /\ CASE Spent(row)             -> Answer(r, "invalid")
             [] ~ Spent(row) /\ row.expired -> Answer(r, "expired")
             [] ~ Spent(row) /\ ~ row.expired /\ ~ StillGuessable(row)
                                       -> begin("burn_too_many")
             [] guessable              -> begin(IF codeMatches THEN "consume" ELSE "increment")
        /\ guessed' = [guessed EXCEPT ![c] =
              IF guessable /\ ~ codeMatches THEN @ + 1 ELSE @]
        /\ UNCHANGED <<otp_codes, users, banned, verified, redeemed, alone, lost>>

\* Seeded bug: the last guess that is let in does not end the code.
NeverExhausted(n) == FALSE

Exhausted(n) == n >= otpMaxAttempts

IncrementOTPAttempts(r) ==
    LET n == otp_codes[req[r].code].attempts + 1
    IN  /\ At(r, "increment")
        /\ ~ Locked(r, req[r].code)
        /\ otp_codes' = [otp_codes EXCEPT ![req[r].code].attempts = n]
        /\ IF Exhausted(n) THEN Goto(r, "burn_invalid") ELSE Answer(r, "invalid")
        /\ UNCHANGED <<users, banned, verified, redeemed, alone, guessed, lost>>

\* ConsumeOTP on its own, after too many wrong guesses.
BurnOTP(r) ==
    /\ req[r].pc \in {"burn_invalid", "burn_too_many"}
    /\ ~ Locked(r, req[r].code)
    /\ otp_codes' = [otp_codes EXCEPT ![req[r].code].consumed = TRUE]
    /\ Answer(r, IF At(r, "burn_invalid") THEN "invalid" ELSE "too_many")
    /\ UNCHANGED <<users, banned, verified, redeemed, alone, guessed, lost>>

\* ConsumeOTP in the transaction: it asks for the id and nothing else.
ConsumeOTP(r) ==
    /\ At(r, "consume")
    /\ ~ Locked(r, req[r].code)
    /\ Goto(r, "resolve")
    /\ UNCHANGED <<otp_codes, users, banned, verified, redeemed, alone, guessed, lost>>

ResolveLogin(r) ==
    /\ At(r, "resolve")
    /\ req[r].purpose = "login"
    /\ \/ ~ HasAccount(req[r].destination) /\ Answer(r, "invalid")
       \/ /\ HasAccount(req[r].destination)
          /\ IF req[r].destination \in banned
               THEN Answer(r, "banned") ELSE Goto(r, "commit")
    /\ UNCHANGED <<otp_codes, users, banned, verified, redeemed, alone, guessed, lost>>

\* Seeded bug: a signup code also signs into an account that exists.
ResolveSignupOrLogin(r) ==
    /\ At(r, "resolve")
    /\ req[r].purpose = "signup"
    /\ IF HasAccount(req[r].destination) THEN Goto(r, "commit") ELSE Goto(r, "insert")
    /\ UNCHANGED <<otp_codes, users, banned, verified, redeemed, alone, guessed, lost>>

ResolveSignup(r) ==
    /\ At(r, "resolve")
    /\ req[r].purpose = "signup"
    /\ IF HasAccount(req[r].destination) THEN Answer(r, "exists") ELSE Goto(r, "insert")
    /\ UNCHANGED <<otp_codes, users, banned, verified, redeemed, alone, guessed, lost>>

\* CreateUser waits for an insert of the same destination and fails on a committed
\* one; mapCreateUserErr knows the constraint of addresses, not that of numbers.
CreateUser(r) ==
    /\ At(r, "insert")
    /\ \A q \in Request \ {r} : ~ Inserts(q, req[r].destination)
    /\ IF HasAccount(req[r].destination)
         THEN \E verdict \in {"email_taken", "error"} : Answer(r, verdict)
         ELSE Goto(r, "commit")
    /\ UNCHANGED <<otp_codes, users, banned, verified, redeemed, alone, guessed, lost>>

\* Seeded bug: the code is consumed in another transaction that rolls back.
UnconsumedAfter(row) == row

ConsumedAfter(row) == [row EXCEPT !.consumed = TRUE]

\* markVerified, the session and the commit.
VerifyCommit(r) ==
    LET d == req[r].destination
    IN  /\ At(r, "commit")
        /\ otp_codes' = [otp_codes EXCEPT ![req[r].code] = ConsumedAfter(@)]
        /\ users' = IF req[r].purpose = "signup"
                      THEN users \union {[destination |-> d, origin |-> req[r].code]}
                      ELSE users
        /\ verified' = verified \union {d}
        /\ redeemed' = [redeemed EXCEPT ![req[r].code] = @ + 1]
        /\ Answer(r, "ok")
        /\ UNCHANGED <<banned, alone, guessed, lost>>

-----------------------------------------------------------------------------
\* What goes wrong, and what happens around the requests.

\* Errors of IncrementOTPAttempts and of ConsumeOTP on its own are dropped.
VerdictOnError(r) ==
    CASE req[r].pc \in {"increment", "burn_invalid"} -> "invalid"
      [] At(r, "burn_too_many") -> "too_many"
      [] OTHER -> "error"

\* The count of a guess gets lost with the statement that was to make it.
LoseCount(r) ==
    lost' = IF At(r, "increment") THEN [lost EXCEPT ![req[r].code] = @ + 1] ELSE lost

Fail(r) ==
    /\ Faults
    /\ req[r].pc \in Waiting
    /\ Answer(r, VerdictOnError(r))
    /\ LoseCount(r)
    /\ UNCHANGED <<otp_codes, users, banned, verified, redeemed, alone, guessed>>

\* The rows that r waits for at its next statement.
AwaitedRows(r) ==
    CASE req[r].pc \in {"increment", "burn_invalid", "burn_too_many", "consume"}
                              -> {req[r].code}
      [] At(r, "invalidate")  -> req[r].todo
      [] OTHER                -> {}

\* Each request of D waits for another one of D.
WaitForEachOther(D) ==
    /\ D # {}
    /\ \A r \in D :
          \/ /\ \A c \in AwaitedRows(r) : Locked(r, c)
             /\ \E c \in AwaitedRows(r), q \in D \ {r} : HoldsCode(q, c)
          \/ /\ At(r, "insert")
             /\ \E q \in D \ {r} : Inserts(q, req[r].destination)

\* A cycle, and no one else.
Deadlock(D) ==
    /\ WaitForEachOther(D)
    /\ \A E \in SUBSET D : WaitForEachOther(E) => E = D

\* Seeded bug: a code request that was ended is begun again, as often as it takes.
DeadlockVictimRetried(r) ==
    /\ \E D \in SUBSET Request : r \in D /\ Deadlock(D)
    /\ req' = [req EXCEPT ![r].pc = "snapshot", ![r].todo = {}, ![r].burning = {}]
    /\ UNCHANGED <<otp_codes, users, banned, verified, redeemed, alone, guessed, lost>>

\* PostgreSQL finds the cycle and ends the transaction of one of its members.
DeadlockVictim(r) ==
    /\ \E D \in SUBSET Request : r \in D /\ Deadlock(D)
    /\ Answer(r, VerdictOnError(r))
    /\ LoseCount(r)
    /\ UNCHANGED <<otp_codes, users, banned, verified, redeemed, alone, guessed>>

\* expires_at passes: otpTTL is longer than otpResendWindow.
Expire(c) ==
    /\ Exists(c) /\ ~ otp_codes[c].expired /\ ~ otp_codes[c].recent
    /\ otp_codes' = [otp_codes EXCEPT ![c].expired = TRUE]
    /\ UNCHANGED <<users, banned, verified, redeemed, alone, guessed, lost, req>>

\* otpResendWindow passes.
ResendWindowEnds(c) ==
    /\ Exists(c) /\ otp_codes[c].recent
    /\ otp_codes' = [otp_codes EXCEPT ![c].recent = FALSE]
    /\ UNCHANGED <<users, banned, verified, redeemed, alone, guessed, lost, req>>

\* Signup or Google sign-in makes an account of this destination, the latter a
\* verified one; it waits for an insert under way like any other.
RegisterElsewhere(d, vouched) ==
    /\ ~ HasAccount(d)
    /\ \A q \in Request : ~ Inserts(q, d)
    /\ users' = users \union {[destination |-> d, origin |-> Elsewhere]}
    /\ verified' = IF vouched THEN verified \union {d} ELSE verified
    /\ UNCHANGED <<otp_codes, banned, redeemed, alone, guessed, lost, req>>

SetUserBanned(d, flag) ==
    /\ HasAccount(d)
    /\ banned' = IF flag THEN banned \union {d} ELSE banned \ {d}
    /\ UNCHANGED <<otp_codes, users, verified, redeemed, alone, guessed, lost, req>>

-----------------------------------------------------------------------------
Arrive(r) ==
    \/ \E d \in Destination, p \in Purpose : RequestOTP(r, d, p)
    \/ \E c \in Code, codeMatches \in BOOLEAN : VerifyOTP(r, c, codeMatches)

Proceed(r) ==
    \/ InvalidateSnapshot(r)
    \/ \E c \in Code : InvalidateRow(r, c) \/ CreateOTP(r, c)
    \/ IncrementOTPAttempts(r)
    \/ BurnOTP(r)
    \/ ConsumeOTP(r)
    \/ ResolveLogin(r)
    \/ ResolveSignup(r)
    \/ CreateUser(r)
    \/ VerifyCommit(r)
    \/ DeadlockVictim(r)

Environment ==
    \/ \E r \in Request : Fail(r)
    \/ \E c \in Code : Expire(c) \/ ResendWindowEnds(c)
    \/ \E d \in Destination, flag \in BOOLEAN :
          RegisterElsewhere(d, flag) \/ SetUserBanned(d, flag)

Next == (\E r \in Request : Arrive(r) \/ Proceed(r)) \/ Environment

Spec == Init /\ [][Next]_vars

\* The goroutine of a request runs, and a row lock that is free again and again
\* is granted.
FairSpec == Spec /\ \A r \in Request : SF_vars(Proceed(r))

-----------------------------------------------------------------------------
TypeOK ==
    /\ otp_codes \in [Code -> OtpRow \union {NoRow}]
    /\ users \in SUBSET UserRow
    /\ banned \in SUBSET Destination
    /\ verified \in SUBSET Destination
    /\ redeemed \in [Code -> Nat]
    /\ alone \in SUBSET Code
    /\ guessed \in [Code -> Nat]
    /\ lost \in [Code -> Nat]
    /\ req \in [Request -> RequestState]

-----------------------------------------------------------------------------
\* Properties.

\* The brute-force guard under concurrency: wrong guesses that met the hash of a
\* code are at most the limit, one more for every other slot that read the row
\* before the last of them was counted, and one more for every count that was lost,
\* because VerifyOTP drops the error of IncrementOTPAttempts and the guess has been
\* judged all the same.
GuessesBounded ==
    \A c \in Code : Exists(c) =>
        guessed[c] < otpMaxAttempts + Cardinality(Request) + lost[c]

\* A code that opened a session is consumed, whichever transactions on its row
\* roll back before or after.
RedeemedIsConsumed ==
    \A c \in Code : redeemed[c] > 0 => Exists(c) /\ otp_codes[c].consumed

\* A signup code makes at most one session, however many verifications of it
\* overlap: the second finds the account that the first one made.
SignupCodeOnce ==
    \A c \in Code :
        Exists(c) /\ otp_codes[c].purpose = "signup" => redeemed[c] <= 1

\* "Only the most recent code can ever verify": a destination and purpose have
\* at most one code that is not consumed.
OneActiveCode ==
    \A c, k \in Code :
        /\ Active(c) /\ Active(k)
        /\ otp_codes[c].destination = otp_codes[k].destination
        /\ otp_codes[c].purpose = otp_codes[k].purpose
        => c = k

\* What holds of it when requests overlap: a code whose request met no other is
\* the only one of its group, whatever verifications do to the rows meanwhile.
LoneRequestLeavesOneCode ==
    \A c \in alone : Active(c) =>
        \A k \in Group(otp_codes[c].destination, otp_codes[c].purpose) \ {c} :
            ~ Active(k)

\* The resend throttle: a second code within the window is one whose request met
\* another one, before the first row was there to be seen.
ResendsAreApart ==
    \A c \in alone : otp_codes[c].recent =>
        \A k \in Group(otp_codes[c].destination, otp_codes[c].purpose) \ {c} :
            ~ otp_codes[k].recent

\* A code opens one session, and another one only to a verification that had read
\* the row before the first was there, at most one per slot: none to one that
\* arrives later, though ConsumeOTP asks for the id alone and a rollback makes the
\* row usable again.
OneTimeUnlessOverlapping ==
    [][\A r \in Request : VerifyCommit(r) =>
          ~ req[r].late /\ redeemed[req[r].code] < Cardinality(Request)]_vars

\* The deadlocks are of code requests of one destination and purpose, which lock
\* its active codes in different orders: this takes two active codes, and no
\* verification is ever the victim, although a code request and a verification
\* may each wait for the other's row.
DeadlocksAreOfRequests ==
    \A D \in SUBSET Request : Deadlock(D) =>
        \E d \in Destination, p \in Purpose :
            /\ D \subseteq Requesting(d, p)
            /\ \E c, k \in Group(d, p) : c # k /\ Active(c) /\ Active(k)

\* A code that met its limit is consumed, or the guess that reached it is about
\* to consume it: without faults nothing keeps that request from it, no deadlock
\* either.
ExhaustedIsBurning ==
    \A c \in Code :
        Exists(c) /\ otp_codes[c].attempts >= otpMaxAttempts =>
            \/ otp_codes[c].consumed
            \/ \E r \in Request : At(r, "burn_invalid") /\ req[r].code = c

\* Liveness of the guard: a code that met its limit is consumed in the end,
\* although that is a statement of its own after the count.
ExhaustedIsBurned ==
    \A c \in Code :
        (Exists(c) /\ otp_codes[c].attempts >= otpMaxAttempts)
            ~> (Exists(c) /\ otp_codes[c].consumed)

\* Liveness: every request is answered, whatever row locks it meets.
Progress ==
    \A r \in Request : req[r].pc \in Waiting ~> Idle(r)
=============================================================================
