----------------------------- MODULE OtpProofs -----------------------------
(***************************************************************************)
(* Theorems about Otp for every number of destinations, codes and request  *)
(* slots, and every limit of guesses.                                      *)
(***************************************************************************)
EXTENDS Otp, FiniteSetTheorems, TLAPS

-----------------------------------------------------------------------------
\* The inductive invariant.

Asking == {"snapshot", "invalidate"}

Redeemers == {"consume", "resolve", "insert", "commit"}

Verifying == {"increment", "burn_invalid", "burn_too_many"} \union Redeemers

\* A code request finds nothing recent but what a request that it met has left,
\* and has on its list, or locked, every active code but such ones.
Cleared(x) ==
    \A k \in Group(x.destination, x.purpose) : k \in alone \/ ~ x.met =>
        /\ ~ otp_codes[k].recent
        /\ Active(k) /\ x.pc = "invalidate" => k \in x.todo \union x.burning

\* What a request remembers agrees with the tables.
Sound(x) ==
    /\ \A k \in x.todo \union x.burning :
          x.pc = "invalidate" /\ k \in Group(x.destination, x.purpose)
    /\ x.pc \in Asking => x.destination \in Destination /\ Cleared(x)
    /\ x.pc \in Verifying =>
         /\ x.code \in Code /\ Exists(x.code)
         /\ x.destination = otp_codes[x.code].destination
         /\ x.purpose = otp_codes[x.code].purpose
    /\ x.pc = "commit" /\ x.purpose = "signup" => ~ HasAccount(x.destination)

\* Two code requests of one group know that they met; two signups of one
\* destination are not both past their insert.
Apart(x, y) ==
    /\ x.pc \in Asking /\ y.pc \in Asking
         /\ x.destination = y.destination /\ x.purpose = y.purpose => x.met /\ y.met
    /\ ~ (/\ x.pc = "commit" /\ x.purpose = "signup"
          /\ y.pc = "commit" /\ y.purpose = "signup"
          /\ x.destination = y.destination)

RequestsSound == \A r \in Request : Sound(req[r])

RequestsApart == \A r, q \in Request : r # q => Apart(req[r], req[q])

\* The histories agree with the tables: a signup code is redeemed by making the
\* account of its destination.
HistorySound ==
    /\ \A c \in alone : Exists(c)
    /\ \A c \in Code :
         Exists(c) /\ otp_codes[c].purpose = "signup" /\ redeemed[c] > 0
             => HasAccount(otp_codes[c].destination)

Guessing(c) == {r \in Request : At(r, "increment") /\ req[r].code = c}

Redeeming(c) == {r \in Request : req[r].pc \in Redeemers /\ req[r].code = c}

\* Every guess that was let in has been counted or is about to be, and every
\* verification that read the code unconsumed has redeemed it or may.
Budgets ==
    \A c \in Code :
        /\ Exists(c) => otp_codes[c].attempts + Cardinality(Guessing(c))
                            < otpMaxAttempts + Cardinality(Request)
        /\ redeemed[c] + Cardinality(Redeeming(c)) <= Cardinality(Request)

\* The types that the other conjuncts rest on; the counts of guesses stand aside.
Tables ==
    /\ otp_codes \in [Code -> OtpRow \union {NoRow}]
    /\ users \in SUBSET UserRow
    /\ banned \in SUBSET Destination
    /\ verified \in SUBSET Destination
    /\ redeemed \in [Code -> Nat]
    /\ alone \in SUBSET Code
    /\ req \in [Request -> RequestState]

Inv ==
    /\ Tables
    /\ RequestsSound
    /\ RequestsApart
    /\ HistorySound
    /\ Budgets
    /\ RedeemedIsConsumed
    /\ SignupCodeOnce
    /\ LoneRequestLeavesOneCode
    /\ ResendsAreApart

-----------------------------------------------------------------------------
\* Types.

LEMMA SlotTyped ==
    /\ Slot("idle") \in RequestState
    /\ Slot("snapshot") \in RequestState
    /\ \A label \in Waiting : Slot(label) \in RequestState
  BY DEF Slot, RequestState, Purpose, Waiting

LEMMA RequestTyped ==
    ASSUME Tables, NEW r \in Request
    PROVE  /\ req[r] \in RequestState
           /\ req[r].pc \in {"idle"} \union Waiting
           /\ req[r].destination \in Destination \union {NoDestination}
           /\ req[r].purpose \in Purpose
           /\ req[r].code \in Code \union {NoCode}
           /\ req[r].todo \in SUBSET Code
           /\ req[r].burning \in SUBSET Code
           /\ req[r].met \in BOOLEAN
  <1>1. req[r] \in RequestState
    BY DEF Tables
  <1>2. QED
    BY <1>1 DEF RequestState

LEMMA RowTyped ==
    ASSUME Tables, NEW c \in Code, Exists(c)
    PROVE  /\ otp_codes[c] \in OtpRow
           /\ otp_codes[c].destination \in Destination
           /\ otp_codes[c].purpose \in Purpose
           /\ otp_codes[c].attempts \in Nat
           /\ otp_codes[c].consumed \in BOOLEAN
           /\ otp_codes[c].expired \in BOOLEAN
           /\ otp_codes[c].recent \in BOOLEAN
  <1>1. otp_codes[c] \in OtpRow
    BY DEF Tables, Exists
  <1>2. QED
    BY <1>1 DEF OtpRow

\* An idle slot remembers nothing.
LEMMA IdleSound ==
    /\ Sound(Slot("idle"))
    /\ \A x : Apart(Slot("idle"), x) /\ Apart(x, Slot("idle"))
  BY DEF Sound, Apart, Slot, Asking, Verifying, Redeemers

-----------------------------------------------------------------------------
\* The two counts.

LEMMA CountsAreFinite ==
    ASSUME NEW c
    PROVE  /\ IsFiniteSet(Guessing(c)) /\ IsFiniteSet(Redeeming(c))
           /\ Cardinality(Guessing(c)) \in Nat /\ Cardinality(Redeeming(c)) \in Nat
           /\ Cardinality(Request) \in Nat
           /\ Cardinality(Guessing(c)) <= Cardinality(Request)
           /\ Cardinality(Redeeming(c)) <= Cardinality(Request)
  <1>1. Guessing(c) \subseteq Request /\ Redeeming(c) \subseteq Request
    BY DEF Guessing, Redeeming
  <1>2. QED
    BY <1>1, RequestsAreFinite, FS_Subset, FS_CardinalityType

\* A set of slots that changes in one of them.
LEMMA OneSlotMore ==
    ASSUME NEW S, NEW T, NEW r, IsFiniteSet(S), T \subseteq S \union {r}
    PROVE  /\ IsFiniteSet(T)
           /\ Cardinality(T) \in Nat /\ Cardinality(S) \in Nat
           /\ T \subseteq S => Cardinality(T) <= Cardinality(S)
           /\ r \in S /\ r \notin T => Cardinality(T) + 1 <= Cardinality(S)
  <1>1. IsFiniteSet(S \union {r})
    BY FS_AddElement
  <1>2. IsFiniteSet(T)
    BY <1>1, FS_Subset
  <1>3. Cardinality(T) \in Nat /\ Cardinality(S) \in Nat
    BY <1>2, FS_CardinalityType
  <1>4. T \subseteq S => Cardinality(T) <= Cardinality(S)
    BY FS_Subset
  <1>5. ASSUME r \in S, r \notin T
        PROVE  Cardinality(T) + 1 <= Cardinality(S)
    <2>1. IsFiniteSet(S \ {r}) /\ Cardinality(S \ {r}) = Cardinality(S) - 1
      BY <1>5, FS_RemoveElement
    <2>2. T \subseteq S \ {r}
      BY <1>5
    <2>3. Cardinality(T) <= Cardinality(S \ {r})
      BY <2>1, <2>2, FS_Subset
    <2>4. QED
      BY <1>3, <2>1, <2>3
  <1>6. QED
    BY <1>2, <1>3, <1>4, <1>5

-----------------------------------------------------------------------------
\* The initial states.

LEMMA InitInv == Init => Inv
  <1> SUFFICES ASSUME Init PROVE Inv
    OBVIOUS
  <1>1. Tables
    BY SlotTyped DEF Init, Tables
  <1>2. \A c \in Code : ~ Exists(c) /\ redeemed[c] = 0
    BY DEF Init, Exists
  <1>3. RequestsSound /\ RequestsApart
    BY IdleSound DEF Init, RequestsSound, RequestsApart
  <1>4. HistorySound /\ RedeemedIsConsumed /\ SignupCodeOnce
    BY <1>2 DEF Init, HistorySound, RedeemedIsConsumed, SignupCodeOnce
  <1>5. LoneRequestLeavesOneCode /\ ResendsAreApart
    BY DEF Init, LoneRequestLeavesOneCode, ResendsAreApart
  <1>6. Budgets
    BY <1>2, CountsAreFinite DEF Budgets
  <1>7. QED
    BY <1>1, <1>3, <1>4, <1>5, <1>6 DEF Inv

-----------------------------------------------------------------------------
\* Rows that stay, or only grow older.

Aged ==
    \A k \in Code :
        /\ Exists(k)' <=> Exists(k)
        /\ Exists(k) =>
             /\ otp_codes'[k].destination = otp_codes[k].destination
             /\ otp_codes'[k].purpose = otp_codes[k].purpose
             /\ otp_codes'[k].recent => otp_codes[k].recent
             /\ otp_codes[k].consumed => otp_codes'[k].consumed

LEMMA RowsStay == otp_codes' = otp_codes => Aged
  BY DEF Aged, Exists

\* One row gets older.
LEMMA RowAges ==
    ASSUME Tables, NEW c \in Code, Exists(c), NEW row \in OtpRow,
           row.destination = otp_codes[c].destination,
           row.purpose = otp_codes[c].purpose,
           row.recent => otp_codes[c].recent,
           otp_codes[c].consumed => row.consumed,
           otp_codes' = [otp_codes EXCEPT ![c] = row]
    PROVE  Aged /\ otp_codes' \in [Code -> OtpRow \union {NoRow}]
  <1>1. otp_codes \in [Code -> OtpRow \union {NoRow}]
    BY DEF Tables
  <1>2. \A k \in Code : otp_codes'[k] = IF k = c THEN row ELSE otp_codes[k]
    BY <1>1
  <1>3. row # NoRow
    BY NoRowIsNoRow
  <1>4. Aged
    BY <1>2, <1>3 DEF Aged, Exists
  <1>5. QED
    BY <1>1, <1>4

LEMMA GroupsStay ==
    ASSUME Aged, NEW d, NEW p
    PROVE  Group(d, p)' = Group(d, p)
  BY DEF Aged, Group, Exists

\* What a request remembers stays true of rows that grow older.
LEMMA AgedSound ==
    ASSUME Tables, Aged, alone' = alone, NEW x \in RequestState, Sound(x),
           x.pc = "commit" /\ x.purpose = "signup" => ~ HasAccount(x.destination)'
    PROVE  Sound(x)'
  <1>1. \A k \in x.todo \union x.burning :
          x.pc = "invalidate" /\ k \in Group(x.destination, x.purpose)'
    BY GroupsStay DEF Sound
  <1>2. x.pc \in Asking => Cleared(x)'
    <2> SUFFICES ASSUME x.pc \in Asking, NEW k \in Group(x.destination, x.purpose)',
                        k \in alone \/ ~ x.met
                 PROVE  /\ ~ otp_codes'[k].recent
                        /\ Active(k)' /\ x.pc = "invalidate"
                              => k \in x.todo \union x.burning
      BY DEF Cleared
    <2>1. k \in Group(x.destination, x.purpose) /\ k \in Code /\ Exists(k)
      BY GroupsStay DEF Group
    <2>2. Active(k)' => Active(k)
      BY <2>1 DEF Aged, Active
    <2>3. otp_codes'[k].recent => otp_codes[k].recent
      BY <2>1 DEF Aged
    <2>4. Cleared(x)
      BY DEF Sound
    <2>5. QED
      BY <2>1, <2>2, <2>3, <2>4 DEF Cleared
  <1>3. x.pc \in Verifying =>
         /\ x.code \in Code /\ Exists(x.code)'
         /\ x.destination = otp_codes'[x.code].destination
         /\ x.purpose = otp_codes'[x.code].purpose
    BY DEF Sound, Aged
  <1>4. QED
    BY <1>1, <1>2, <1>3 DEF Sound

\* So do the promises about codes whose request met no other.
LEMMA AgedAlone ==
    ASSUME Tables, Aged, alone' = alone, HistorySound,
           LoneRequestLeavesOneCode, ResendsAreApart
    PROVE  /\ \A c \in alone : Exists(c)'
           /\ LoneRequestLeavesOneCode' /\ ResendsAreApart'
  <1>1. \A c \in alone : c \in Code /\ Exists(c)
    BY DEF Tables, HistorySound
  <1>2. \A k \in Code : Active(k)' => Active(k)
    BY DEF Active, Aged
  <1>3. \A c \in alone : otp_codes'[c].destination = otp_codes[c].destination
                      /\ otp_codes'[c].purpose = otp_codes[c].purpose
    BY <1>1 DEF Aged
  <1>4. \A c \in alone : Exists(c)'
    BY <1>1 DEF Aged
  <1>5. LoneRequestLeavesOneCode'
    BY <1>1, <1>2, <1>3 DEF LoneRequestLeavesOneCode, Group, Aged
  <1>6. ResendsAreApart'
    BY <1>1, <1>3 DEF ResendsAreApart, Group, Aged
  <1>7. QED
    BY <1>4, <1>5, <1>6

\* And all histories, if no code is redeemed.
LEMMA AgedHistory ==
    ASSUME Tables, Aged, users \subseteq users',
           alone' = alone, redeemed' = redeemed,
           HistorySound, RedeemedIsConsumed, SignupCodeOnce,
           LoneRequestLeavesOneCode, ResendsAreApart
    PROVE  /\ HistorySound' /\ RedeemedIsConsumed' /\ SignupCodeOnce'
           /\ LoneRequestLeavesOneCode' /\ ResendsAreApart'
  <1>1. \A d : HasAccount(d) => HasAccount(d)'
    BY DEF HasAccount
  <1>2. HistorySound'
    BY <1>1, AgedAlone DEF HistorySound, Aged
  <1>3. RedeemedIsConsumed' /\ SignupCodeOnce'
    BY DEF RedeemedIsConsumed, SignupCodeOnce, Aged
  <1>4. QED
    BY <1>2, <1>3, AgedAlone

-----------------------------------------------------------------------------
\* One slot changes.

LEMMA SlotChanges ==
    ASSUME Tables, NEW r \in Request, NEW x, req' = [req EXCEPT ![r] = x]
    PROVE  \A q \in Request : req'[q] = IF q = r THEN x ELSE req[q]
  BY DEF Tables

\* A guess that is let in meets a count below the limit; one that is counted is
\* no longer under way.
LEMMA GuessesStayBounded ==
    ASSUME Inv, NEW r \in Request, NEW x, req' = [req EXCEPT ![r] = x],
           NEW c \in Code, Exists(c), NEW n \in Nat,
           \/ /\ n = otp_codes[c].attempts
              /\ x.pc = "increment" /\ x.code = c =>
                    r \in Guessing(c) \/ otp_codes[c].attempts < otpMaxAttempts
           \/ /\ n = otp_codes[c].attempts + 1
              /\ r \in Guessing(c)
              /\ ~ (x.pc = "increment" /\ x.code = c)
    PROVE  n + Cardinality(Guessing(c)') < otpMaxAttempts + Cardinality(Request)
  <1> DEFINE S == Guessing(c)
             T == Guessing(c)'
  <1>1. \A q \in Request : req'[q] = IF q = r THEN x ELSE req[q]
    BY SlotChanges DEF Inv
  <1>2. T \subseteq Request /\ T \subseteq S \union {r}
    BY <1>1 DEF Guessing, At
  <1>3. r \in T <=> x.pc = "increment" /\ x.code = c
    BY <1>1 DEF Guessing, At
  <1>4. /\ IsFiniteSet(S) /\ Cardinality(S) \in Nat /\ Cardinality(Request) \in Nat
    BY CountsAreFinite
  <1>5. Cardinality(T) \in Nat /\ Cardinality(T) <= Cardinality(Request)
    BY <1>2, RequestsAreFinite, FS_Subset, FS_CardinalityType
  <1>6. /\ otp_codes[c].attempts \in Nat
        /\ otp_codes[c].attempts + Cardinality(S) < otpMaxAttempts + Cardinality(Request)
    BY RowTyped DEF Inv, Budgets
  <1>7. /\ T \subseteq S => Cardinality(T) <= Cardinality(S)
        /\ r \in S /\ r \notin T => Cardinality(T) + 1 <= Cardinality(S)
    BY <1>2, <1>4, OneSlotMore
  <1>8. otpMaxAttempts \in Nat
    BY MaxAttemptsPositive
  <1> SUFFICES n + Cardinality(T) < otpMaxAttempts + Cardinality(Request)
    OBVIOUS
  <1> HIDE DEF S, T
  <1>9. CASE r \in S \/ r \notin T
    <2>1. T \subseteq S
      BY <1>2, <1>9
    <2>2. CASE n = otp_codes[c].attempts
      BY <1>4, <1>5, <1>6, <1>7, <1>8, <2>1, <2>2
    <2>3. CASE n = otp_codes[c].attempts + 1 /\ r \in S /\ r \notin T
      BY <1>4, <1>5, <1>6, <1>7, <1>8, <2>3
    <2>4. QED
      BY <1>3, <2>2, <2>3 DEF S
  <1>10. CASE r \notin S /\ r \in T
    <2>1. n = otp_codes[c].attempts /\ otp_codes[c].attempts < otpMaxAttempts
      BY <1>3, <1>10 DEF S
    <2>2. QED
      BY <1>4, <1>5, <1>6, <1>8, <2>1
  <1>11. QED
    BY <1>9, <1>10

\* A verification that finds the code unconsumed is the first one of those that
\* may redeem it; one that redeemed it is no longer under way.
LEMMA RedemptionsStayBounded ==
    ASSUME Inv, NEW r \in Request, NEW x, req' = [req EXCEPT ![r] = x],
           NEW c \in Code, NEW n \in Nat,
           \/ /\ n = redeemed[c]
              /\ x.pc \in Redeemers /\ x.code = c =>
                    r \in Redeeming(c) \/ redeemed[c] = 0
           \/ /\ n = redeemed[c] + 1
              /\ r \in Redeeming(c)
              /\ ~ (x.pc \in Redeemers /\ x.code = c)
    PROVE  n + Cardinality(Redeeming(c)') <= Cardinality(Request)
  <1> DEFINE S == Redeeming(c)
             T == Redeeming(c)'
  <1>1. \A q \in Request : req'[q] = IF q = r THEN x ELSE req[q]
    BY SlotChanges DEF Inv
  <1>2. T \subseteq Request /\ T \subseteq S \union {r}
    BY <1>1 DEF Redeeming
  <1>3. r \in T <=> x.pc \in Redeemers /\ x.code = c
    BY <1>1 DEF Redeeming
  <1>4. /\ IsFiniteSet(S) /\ Cardinality(S) \in Nat /\ Cardinality(Request) \in Nat
    BY CountsAreFinite
  <1>5. Cardinality(T) \in Nat /\ Cardinality(T) <= Cardinality(Request)
    BY <1>2, RequestsAreFinite, FS_Subset, FS_CardinalityType
  <1>6. /\ redeemed[c] \in Nat
        /\ redeemed[c] + Cardinality(S) <= Cardinality(Request)
    BY DEF Inv, Tables, Budgets
  <1>7. /\ T \subseteq S => Cardinality(T) <= Cardinality(S)
        /\ r \in S /\ r \notin T => Cardinality(T) + 1 <= Cardinality(S)
    BY <1>2, <1>4, OneSlotMore
  <1> SUFFICES n + Cardinality(T) <= Cardinality(Request)
    OBVIOUS
  <1> HIDE DEF S, T
  <1>8. CASE r \in S \/ r \notin T
    <2>1. T \subseteq S
      BY <1>2, <1>8
    <2>2. CASE n = redeemed[c]
      BY <1>4, <1>5, <1>6, <1>7, <2>1, <2>2
    <2>3. CASE n = redeemed[c] + 1 /\ r \in S /\ r \notin T
      BY <1>4, <1>5, <1>6, <1>7, <2>3
    <2>4. QED
      BY <1>3, <2>2, <2>3 DEF S
  <1>9. CASE r \notin S /\ r \in T
    <2>1. n = redeemed[c] /\ redeemed[c] = 0
      BY <1>3, <1>9 DEF S
    <2>2. QED
      BY <1>4, <1>5, <2>1
  <1>10. QED
    BY <1>8, <1>9

\* A step that changes one slot, and rows that grow older, keeps the invariant
\* if what the slot remembers is sound and apart from the rest.
LEMMA LocalStep ==
    ASSUME Inv, NEW r \in Request, NEW x \in RequestState,
           req' = [req EXCEPT ![r] = x],
           UNCHANGED <<users, banned, verified, redeemed, alone>>,
           Aged, otp_codes' \in [Code -> OtpRow \union {NoRow}],
           Sound(x),
           \A q \in Request \ {r} : Apart(x, req[q]) /\ Apart(req[q], x),
           \A c \in Code : Exists(c) =>
              \/ /\ otp_codes'[c].attempts = otp_codes[c].attempts
                 /\ x.pc = "increment" /\ x.code = c =>
                       r \in Guessing(c) \/ otp_codes[c].attempts < otpMaxAttempts
              \/ /\ otp_codes'[c].attempts = otp_codes[c].attempts + 1
                 /\ r \in Guessing(c)
                 /\ ~ (x.pc = "increment" /\ x.code = c),
           \A c \in Code : x.pc \in Redeemers /\ x.code = c =>
              r \in Redeeming(c) \/ redeemed[c] = 0
    PROVE  Inv'
  <1>1. \A q \in Request : req'[q] = IF q = r THEN x ELSE req[q]
    BY DEF Inv, Tables
  <1>2. Tables'
    BY <1>1 DEF Inv, Tables
  <1>3. \A d : HasAccount(d)' = HasAccount(d)
    BY DEF HasAccount
  <1>4. RequestsSound'
    <2>1. Sound(x)'
      BY <1>3, AgedSound DEF Inv, Sound
    <2>2. ASSUME NEW q \in Request
          PROVE  Sound(req[q])'
      <3>1. PICK y \in RequestState : y = req[q]
        BY DEF Inv, Tables
      <3>2. Sound(y)
        BY <3>1 DEF Inv, RequestsSound
      <3>3. Sound(y)'
        BY <1>3, <3>2, AgedSound DEF Inv, Sound
      <3>4. CASE q = r
        BY <1>1, <2>1, <3>4 DEF Sound, Cleared
      <3>5. CASE q # r
        <4>1. req'[q] = y
          BY <1>1, <3>1, <3>5
        <4>2. QED
          BY <3>3, <4>1 DEF Sound, Cleared
      <3>6. QED
        BY <3>4, <3>5
    <2>3. QED
      BY <2>2 DEF RequestsSound
  <1>5. RequestsApart'
    BY <1>1 DEF Inv, RequestsApart, Apart
  <1>6. /\ HistorySound' /\ RedeemedIsConsumed' /\ SignupCodeOnce'
        /\ LoneRequestLeavesOneCode' /\ ResendsAreApart'
    BY AgedHistory DEF Inv
  <1>7. Budgets'
    <2> SUFFICES ASSUME NEW c \in Code
                 PROVE  /\ Exists(c)' => otp_codes'[c].attempts + Cardinality(Guessing(c)')
                                             < otpMaxAttempts + Cardinality(Request)
                        /\ redeemed'[c] + Cardinality(Redeeming(c)') <= Cardinality(Request)
      BY DEF Budgets
    <2>1. ASSUME Exists(c)'
          PROVE  otp_codes'[c].attempts + Cardinality(Guessing(c)')
                     < otpMaxAttempts + Cardinality(Request)
      <3>1. Exists(c)
        BY <2>1 DEF Aged
      <3>2. PICK n \in Nat : n = otp_codes'[c].attempts
        BY <3>1, RowTyped DEF Inv
      <3>3. QED
        BY <3>1, <3>2, GuessesStayBounded
    <2>2. redeemed'[c] + Cardinality(Redeeming(c)') <= Cardinality(Request)
      <3>1. PICK n \in Nat : n = redeemed[c]
        BY DEF Inv, Tables
      <3>2. QED
        BY <3>1, RedemptionsStayBounded
    <2>3. QED
      BY <2>1, <2>2
  <1>8. QED
    BY <1>2, <1>4, <1>5, <1>6, <1>7 DEF Inv

\* A step that leaves the tables alone.
LEMMA QuietStep ==
    ASSUME Inv, NEW r \in Request, NEW x \in RequestState,
           req' = [req EXCEPT ![r] = x],
           UNCHANGED <<otp_codes, users, banned, verified, redeemed, alone>>,
           Sound(x),
           \A q \in Request \ {r} : Apart(x, req[q]) /\ Apart(req[q], x),
           x.pc = "increment" => otp_codes[x.code].attempts < otpMaxAttempts,
           x.pc \in Redeemers =>
              (req[r].pc \in Redeemers /\ req[r].code = x.code) \/ redeemed[x.code] = 0
    PROVE  Inv'
  <1>1. Aged
    BY RowsStay
  <1>2. otp_codes' \in [Code -> OtpRow \union {NoRow}]
    BY DEF Inv, Tables
  <1>3. \A c \in Code : Exists(c) =>
              /\ otp_codes'[c].attempts = otp_codes[c].attempts
              /\ x.pc = "increment" /\ x.code = c =>
                    r \in Guessing(c) \/ otp_codes[c].attempts < otpMaxAttempts
    OBVIOUS
  <1>4. \A c \in Code : x.pc \in Redeemers /\ x.code = c =>
              r \in Redeeming(c) \/ redeemed[c] = 0
    BY DEF Redeeming
  <1>5. QED
    BY <1>1, <1>2, <1>3, <1>4, LocalStep

LEMMA AnswerKeeps ==
    ASSUME Inv, NEW r \in Request, req' = [req EXCEPT ![r] = Slot("idle")],
           UNCHANGED <<otp_codes, users, banned, verified, redeemed, alone>>
    PROVE  Inv'
  <1>1. Slot("idle").pc = "idle"
    BY DEF Slot
  <1>2. Slot("idle").pc \notin Redeemers
    BY <1>1 DEF Redeemers
  <1>3. QED
    BY <1>1, <1>2, SlotTyped, IdleSound, QuietStep

-----------------------------------------------------------------------------
\* Code requests.

LEMMA SnapshotKeeps ==
    ASSUME Inv, NEW r \in Request, InvalidateSnapshot(r)
    PROVE  Inv'
  <1>1. PICK x : x = [req[r] EXCEPT !.pc = "invalidate",
                        !.todo = ToBurn(req[r].destination, req[r].purpose)]
    OBVIOUS
  <1>2. /\ req[r] \in RequestState /\ req[r].pc = "snapshot" /\ Sound(req[r])
        /\ req[r] \in [pc : {"idle"} \union Waiting,
                       destination : Destination \union {NoDestination},
                       purpose : Purpose, code : Code \union {NoCode},
                       todo : SUBSET Code, burning : SUBSET Code, met : BOOLEAN,
                       late : BOOLEAN]
    BY RequestTyped DEF Inv, RequestsSound, InvalidateSnapshot, At, RequestState
  <1>3. ToBurn(req[r].destination, req[r].purpose) \in SUBSET Code
    BY DEF ToBurn, Group
  <1>4. /\ x \in RequestState
        /\ x.pc = "invalidate"
        /\ x.todo = ToBurn(x.destination, x.purpose)
        /\ x.destination = req[r].destination /\ x.purpose = req[r].purpose
        /\ x.burning = req[r].burning /\ x.met = req[r].met
    BY <1>1, <1>2, <1>3 DEF RequestState, Waiting
  <1>5. req' = [req EXCEPT ![r] = x]
    BY <1>1 DEF InvalidateSnapshot
  <1>6. Sound(x)
    BY <1>2, <1>4 DEF Sound, Cleared, ToBurn, Asking, Verifying, Redeemers
  <1>7. \A q \in Request \ {r} : Apart(x, req[q]) /\ Apart(req[q], x)
    BY <1>2, <1>4 DEF Inv, RequestsApart, Apart, Asking
  <1>8. UNCHANGED <<otp_codes, users, banned, verified, redeemed, alone>>
    BY DEF InvalidateSnapshot
  <1>9. x.pc \notin Redeemers
    BY <1>4 DEF Redeemers
  <1>10. QED
    BY <1>4, <1>5, <1>6, <1>7, <1>8, <1>9, QuietStep

LEMMA InvalidateKeeps ==
    ASSUME Inv, NEW r \in Request, NEW c \in Code, InvalidateRow(r, c)
    PROVE  Inv'
  <1>1. PICK x : x = [req[r] EXCEPT !.todo = @ \ {c},
                        !.burning = IF Active(c) THEN @ \union {c} ELSE @]
    OBVIOUS
  <1>2. /\ req[r] \in RequestState /\ req[r].pc = "invalidate" /\ Sound(req[r])
        /\ c \in req[r].todo
        /\ req[r] \in [pc : {"idle"} \union Waiting,
                       destination : Destination \union {NoDestination},
                       purpose : Purpose, code : Code \union {NoCode},
                       todo : SUBSET Code, burning : SUBSET Code, met : BOOLEAN,
                       late : BOOLEAN]
    BY RequestTyped DEF Inv, RequestsSound, InvalidateRow, At, RequestState
  <1>3. /\ x \in RequestState
        /\ x.pc = "invalidate"
        /\ x.todo = req[r].todo \ {c}
        /\ x.burning = IF Active(c) THEN req[r].burning \union {c} ELSE req[r].burning
        /\ x.destination = req[r].destination /\ x.purpose = req[r].purpose
        /\ x.met = req[r].met
    BY <1>1, <1>2 DEF RequestState
  <1>4. req' = [req EXCEPT ![r] = x]
    BY <1>1 DEF InvalidateRow
  <1>5. Sound(x)
    <2>1. x.todo \union x.burning \subseteq req[r].todo \union req[r].burning
      BY <1>2, <1>3
    <2>2. \A k : Active(k) /\ k \in req[r].todo \union req[r].burning
                   => k \in x.todo \union x.burning
      BY <1>3
    <2>3. Cleared(x)
      BY <1>2, <1>3, <2>2 DEF Sound, Cleared, Asking
    <2>4. QED
      BY <1>2, <1>3, <2>1, <2>3 DEF Sound, Asking, Verifying, Redeemers
  <1>6. \A q \in Request \ {r} : Apart(x, req[q]) /\ Apart(req[q], x)
    BY <1>2, <1>3 DEF Inv, RequestsApart, Apart, Asking
  <1>7. UNCHANGED <<otp_codes, users, banned, verified, redeemed, alone>>
    BY DEF InvalidateRow
  <1>8. x.pc \notin Redeemers
    BY <1>3 DEF Redeemers
  <1>9. QED
    BY <1>3, <1>4, <1>5, <1>6, <1>7, <1>8, QuietStep

\* A request that learns of another one remembers nothing that is wrong.
LEMMA MeetingIsSound ==
    ASSUME NEW x \in RequestState, Sound(x), NEW y,
           y = [x EXCEPT !.met = TRUE]
    PROVE  y \in RequestState /\ Sound(y)
  <1>1. x \in [pc : {"idle"} \union Waiting,
               destination : Destination \union {NoDestination},
               purpose : Purpose, code : Code \union {NoCode},
               todo : SUBSET Code, burning : SUBSET Code, met : BOOLEAN,
                       late : BOOLEAN]
    BY DEF RequestState
  <1>2. /\ y \in RequestState
        /\ y.pc = x.pc /\ y.destination = x.destination /\ y.purpose = x.purpose
        /\ y.code = x.code /\ y.todo = x.todo /\ y.burning = x.burning /\ y.met = TRUE
    BY <1>1 DEF RequestState
  <1>3. x.pc \in Asking => Cleared(y)
    BY <1>2 DEF Sound, Cleared
  <1>4. QED
    BY <1>2, <1>3 DEF Sound

LEMMA RequestKeeps ==
    ASSUME Inv, NEW r \in Request, NEW d \in Destination, NEW p \in Purpose,
           RequestOTP(r, d, p)
    PROVE  Inv'
  <1>1. CASE Throttled(d, p)
    BY <1>1, AnswerKeeps DEF RequestOTP, Answer
  <1>2. CASE ~ Throttled(d, p)
    <2> DEFINE x == [Slot("snapshot") EXCEPT !.destination = d, !.purpose = p,
                                             !.met = Requesting(d, p) # {}]
               y(q) == [req[q] EXCEPT !.met = TRUE]
    <2>1. /\ x \in RequestState
          /\ x.pc = "snapshot" /\ x.destination = d /\ x.purpose = p
          /\ x.todo = {} /\ x.burning = {} /\ x.met = (Requesting(d, p) # {})
      BY DEF Slot, RequestState, Waiting
    <2>2. \A q \in Request :
            req'[q] = IF q = r THEN x ELSE IF q \in Requesting(d, p) THEN y(q) ELSE req[q]
      <3>1. r \notin Requesting(d, p)
        BY DEF RequestOTP, Idle, At, Requesting
      <3>2. req' = [q \in Request |->
                CASE q = r -> x
                  [] q \in Requesting(d, p) -> y(q)
                  [] OTHER -> req[q]]
        BY <1>2 DEF RequestOTP
      <3> HIDE DEF x, y
      <3>3. QED
        BY <3>1, <3>2
    <2>3. ASSUME NEW q \in Request
          PROVE  /\ req[q] \in RequestState
                 /\ y(q) \in RequestState
                 /\ y(q).pc = req[q].pc /\ y(q).destination = req[q].destination
                 /\ y(q).purpose = req[q].purpose /\ y(q).code = req[q].code
                 /\ y(q).met = TRUE
      BY RequestTyped DEF Inv, RequestState
    <2>4. \A q \in Request : Sound(y(q))
      <3> SUFFICES ASSUME NEW q \in Request PROVE Sound(y(q))
        OBVIOUS
      <3>1. Sound(req[q]) /\ req[q] \in RequestState
        BY <2>3 DEF Inv, RequestsSound
      <3>2. QED
        BY <3>1, MeetingIsSound
    <2>5. Sound(x)
      <3>1. \A k \in Group(d, p) : ~ otp_codes[k].recent
        BY <1>2 DEF Throttled
      <3>2. QED
        BY <2>1, <3>1 DEF Sound, Cleared, Asking, Verifying, Redeemers
    <2>6. /\ req' \in [Request -> RequestState]
          /\ \A q \in Request : Sound(req'[q])
      <3>1. \A q \in Request : Sound(req[q])
        BY DEF Inv, RequestsSound
      <3>2. req' = [q \in Request |-> req'[q]]
        BY <1>2 DEF RequestOTP
      <3>3. \A q \in Request : req'[q] \in RequestState
        BY <2>1, <2>2, <2>3
      <3>4. \A q \in Request : Sound(req'[q])
        <4> SUFFICES ASSUME NEW q \in Request PROVE Sound(req'[q])
          OBVIOUS
        <4>1. req'[q] = x \/ req'[q] = y(q) \/ req'[q] = req[q]
          BY <2>2
        <4> HIDE DEF x, y
        <4>2. QED
          BY <2>4, <2>5, <3>1, <4>1
      <3>5. QED
        BY <3>2, <3>3, <3>4
    <2>7. UNCHANGED <<otp_codes, users, banned, verified, redeemed, alone>>
      BY DEF RequestOTP
    <2>8. Tables'
      BY <2>6, <2>7 DEF Inv, Tables
    <2>9. RequestsSound'
      <3> SUFFICES ASSUME NEW q \in Request PROVE Sound(req[q])'
        BY DEF RequestsSound
      <3>1. PICK z \in RequestState : z = req'[q]
        BY <2>6
      <3>2. Sound(z)
        BY <2>6, <3>1
      <3>3. Sound(z)'
        BY <2>7, <3>2 DEF Sound, Cleared, Group, Active, Exists, HasAccount
      <3>4. QED
        BY <3>1, <3>3 DEF Sound, Cleared
    <2>10. RequestsApart'
      <3> SUFFICES ASSUME NEW q \in Request, NEW z \in Request, q # z
                   PROVE  Apart(req'[q], req'[z])
        BY DEF RequestsApart, Apart
      <3>1. Apart(req[q], req[z])
        BY DEF Inv, RequestsApart
      <3>2. \A s \in Request \ {r} :
              /\ req'[s].pc = req[s].pc /\ req'[s].destination = req[s].destination
              /\ req'[s].purpose = req[s].purpose
              /\ req[s].met \/ s \in Requesting(d, p) => req'[s].met
        BY <2>2, <2>3
      <3>3. /\ req'[r].pc = "snapshot" /\ req'[r].destination = d /\ req'[r].purpose = p
            /\ req'[r].met = (Requesting(d, p) # {})
        BY <2>1, <2>2
      <3> HIDE DEF x, y
      <3>4. \A s \in Request \ {r} :
              req[s].pc \in Asking /\ req[s].destination = d /\ req[s].purpose = p
                => s \in Requesting(d, p)
        BY DEF Requesting, Asking
      <3>5. ~ (req'[r].pc = "commit")
        BY <3>3
      <3>6. CASE q # r /\ z # r
        BY <3>1, <3>2, <3>6 DEF Apart
      <3>7. CASE q = r
        <4>1. req'[z].pc \in Asking /\ req'[z].destination = d /\ req'[z].purpose = p
                => z \in Requesting(d, p)
          BY <3>2, <3>4, <3>7
        <4>2. z \in Requesting(d, p) => req'[q].met /\ req'[z].met
          BY <3>2, <3>3, <3>7
        <4>3. QED
          BY <3>3, <3>5, <3>7, <4>1, <4>2 DEF Apart
      <3>8. CASE z = r
        <4>1. req'[q].pc \in Asking /\ req'[q].destination = d /\ req'[q].purpose = p
                => q \in Requesting(d, p)
          BY <3>2, <3>4, <3>8
        <4>2. q \in Requesting(d, p) => req'[q].met /\ req'[z].met
          BY <3>2, <3>3, <3>8
        <4>3. QED
          BY <3>3, <3>5, <3>8, <4>1, <4>2 DEF Apart
      <3>9. QED
        BY <3>6, <3>7, <3>8
    <2>11. \A c \in Code : Guessing(c)' \subseteq Guessing(c)
                        /\ Redeeming(c)' \subseteq Redeeming(c)
      BY <2>1, <2>2, <2>3 DEF Guessing, Redeeming, Redeemers, At
    <2>12. Budgets'
      <3> SUFFICES ASSUME NEW c \in Code
                   PROVE  /\ Exists(c) => otp_codes[c].attempts + Cardinality(Guessing(c)')
                                              < otpMaxAttempts + Cardinality(Request)
                          /\ redeemed[c] + Cardinality(Redeeming(c)') <= Cardinality(Request)
        BY <2>7 DEF Budgets, Exists
      <3>1. /\ Cardinality(Guessing(c)') \in Nat /\ Cardinality(Redeeming(c)') \in Nat
            /\ Cardinality(Guessing(c)') <= Cardinality(Guessing(c))
            /\ Cardinality(Redeeming(c)') <= Cardinality(Redeeming(c))
        BY <2>11, CountsAreFinite, FS_Subset, FS_CardinalityType
      <3>2. /\ redeemed[c] \in Nat
            /\ Cardinality(Guessing(c)) \in Nat /\ Cardinality(Redeeming(c)) \in Nat
            /\ Cardinality(Request) \in Nat
            /\ redeemed[c] + Cardinality(Redeeming(c)) <= Cardinality(Request)
            /\ Exists(c) =>
                 /\ otp_codes[c].attempts \in Nat
                 /\ otp_codes[c].attempts + Cardinality(Guessing(c))
                        < otpMaxAttempts + Cardinality(Request)
        BY CountsAreFinite, RowTyped DEF Inv, Tables, Budgets
      <3>3. otpMaxAttempts \in Nat
        BY MaxAttemptsPositive
      <3>4. QED
        BY <3>1, <3>2, <3>3
    <2>13. /\ HistorySound' /\ RedeemedIsConsumed' /\ SignupCodeOnce'
           /\ LoneRequestLeavesOneCode' /\ ResendsAreApart'
      BY <2>7, RowsStay, AgedHistory DEF Inv
    <2>14. QED
      BY <2>8, <2>9, <2>10, <2>12, <2>13 DEF Inv
  <1>3. QED
    BY <1>1, <1>2

\* The new row is the only recent one of its group, and the only active one, but
\* for what requests that met have left.
LEMMA CreateKeeps ==
    ASSUME Inv, NEW r \in Request, NEW c \in Code, CreateOTP(r, c)
    PROVE  Inv'
  <1> DEFINE old == req[r]
             row == NewRow(r)
  <1>1. /\ old \in RequestState /\ old.pc = "invalidate" /\ Sound(old)
        /\ old.todo = {}
        /\ old.purpose \in Purpose /\ old.burning \in SUBSET Code /\ old.met \in BOOLEAN
        /\ old.destination \in Destination
        /\ \A k \in old.burning : Exists(k)
        /\ Cleared(old)
    BY RequestTyped DEF Inv, RequestsSound, CreateOTP, At, Sound, Asking, Group
  <1>2. ~ Exists(c) /\ c \notin old.burning /\ c \notin alone /\ redeemed[c] = 0
    <2>1. ~ Exists(c)
      BY DEF CreateOTP
    <2>2. redeemed[c] \in Nat /\ ~ (redeemed[c] > 0)
      BY <2>1 DEF Inv, Tables, RedeemedIsConsumed
    <2>3. QED
      BY <1>1, <2>1, <2>2 DEF Inv, HistorySound
  <1>3. /\ row \in OtpRow /\ row # NoRow
        /\ row.destination = old.destination /\ row.purpose = old.purpose
        /\ row.attempts = 0 /\ row.consumed = FALSE /\ row.recent = TRUE
    <2>1. row = [destination |-> old.destination, purpose |-> old.purpose,
                 attempts |-> 0, consumed |-> FALSE, expired |-> FALSE, recent |-> TRUE]
      BY DEF NewRow
    <2>2. old.destination \in Destination /\ old.purpose \in Purpose
      BY <1>1
    <2> HIDE DEF old, row
    <2>3. row \in OtpRow
      BY <2>1, <2>2 DEF OtpRow
    <2>4. QED
      BY <2>1, <2>3, NoRowIsNoRow
  <1>4. \A k \in Code : otp_codes'[k] =
          IF k = c THEN row
          ELSE IF k \in old.burning THEN [otp_codes[k] EXCEPT !.consumed = TRUE]
          ELSE otp_codes[k]
    BY <1>2 DEF CreateOTP
  <1>5. ASSUME NEW k \in Code, k # c
        PROVE  /\ Exists(k)' <=> Exists(k)
               /\ Exists(k) =>
                    /\ otp_codes'[k] \in OtpRow
                    /\ otp_codes'[k].destination = otp_codes[k].destination
                    /\ otp_codes'[k].purpose = otp_codes[k].purpose
                    /\ otp_codes'[k].recent = otp_codes[k].recent
                    /\ otp_codes'[k].attempts = otp_codes[k].attempts
                    /\ otp_codes[k].consumed => otp_codes'[k].consumed
                    /\ k \in old.burning => otp_codes'[k].consumed
    <2>1. CASE Exists(k)
      <3>1. otp_codes[k] \in OtpRow
        BY <2>1, RowTyped DEF Inv
      <3>2. CASE k \in old.burning
        <4>1. otp_codes'[k] = [otp_codes[k] EXCEPT !.consumed = TRUE]
          BY <1>4, <1>5, <3>2
        <4>2. QED
          BY <2>1, <3>1, <4>1, NoRowIsNoRow DEF Exists, OtpRow
      <3>3. CASE k \notin old.burning
        BY <1>4, <1>5, <2>1, <3>1, <3>3 DEF Exists
      <3>4. QED
        BY <3>2, <3>3
    <2>2. CASE ~ Exists(k)
      BY <1>1, <1>4, <1>5, <2>2 DEF Exists
    <2>3. QED
      BY <2>1, <2>2
  <1>6. Exists(c)' /\ otp_codes'[c] = row
    BY <1>3, <1>4 DEF Exists
  <1>7. \A q \in Request : req'[q] = IF q = r THEN Slot("idle") ELSE req[q]
    BY DEF CreateOTP, Answer, Inv, Tables
  <1>8. /\ UNCHANGED <<users, banned, verified, redeemed>>
        /\ alone' = IF old.met THEN alone ELSE alone \union {c}
    BY DEF CreateOTP
  <1>9. Tables'
    <2>1. otp_codes' \in [Code -> OtpRow \union {NoRow}]
      <3>1. otp_codes' = [k \in Code |-> otp_codes'[k]]
        BY DEF CreateOTP
      <3>2. \A k \in Code : otp_codes'[k] \in OtpRow \union {NoRow}
        BY <1>3, <1>5, <1>6 DEF Exists
      <3>3. QED
        BY <3>1, <3>2
    <2>2. req' \in [Request -> RequestState]
      BY SlotTyped DEF CreateOTP, Answer, Inv, Tables
    <2>3. alone' \in SUBSET Code
      BY <1>8 DEF Inv, Tables
    <2>4. QED
      BY <1>8, <2>1, <2>2, <2>3 DEF Inv, Tables
  <1> HIDE DEF row
  <1>10. \A d : HasAccount(d)' = HasAccount(d)
    BY <1>8 DEF HasAccount
  <1>11. ASSUME NEW d, NEW p, NEW k \in Group(d, p)', k # c
         PROVE  /\ k \in Code /\ k \in Group(d, p) /\ Exists(k)
                /\ Active(k)' => Active(k) /\ k \notin old.burning
                /\ otp_codes'[k].recent = otp_codes[k].recent
                /\ k \in alone' <=> k \in alone
    <2>1. k \in Code /\ Exists(k)'
      BY <1>11 DEF Group
    <2>2. Exists(k)
      BY <1>5, <1>11, <2>1
    <2>3. QED
      BY <1>5, <1>8, <1>11, <2>1, <2>2 DEF Group, Active
  <1>12. RequestsSound'
    <2>1. Sound(Slot("idle"))'
      BY DEF Sound, Slot, Asking, Verifying, Redeemers
    <2>2. ASSUME NEW q \in Request, q # r
          PROVE  Sound(req[q])'
      <3>1. PICK y \in RequestState : y = req[q]
        BY DEF Inv, Tables
      <3>2. Sound(y) /\ Apart(y, old)
        BY <2>2, <3>1 DEF Inv, RequestsSound, RequestsApart
      <3>3. \A k \in y.todo \union y.burning :
              y.pc = "invalidate" /\ k \in Group(y.destination, y.purpose)'
        BY <1>2, <1>5, <3>2 DEF Sound, Group
      <3>4. y.pc \in Asking => Cleared(y)'
        <4> SUFFICES ASSUME y.pc \in Asking,
                            NEW k \in Group(y.destination, y.purpose)',
                            k \in alone' \/ ~ y.met
                     PROVE  /\ ~ otp_codes'[k].recent
                            /\ Active(k)' /\ y.pc = "invalidate"
                                  => k \in y.todo \union y.burning
          BY DEF Cleared
        <4>1. Cleared(y)
          BY <3>2 DEF Sound
        <4>2. CASE k # c
          BY <1>11, <4>1, <4>2 DEF Cleared
        <4>3. CASE k = c
          <5>1. y.destination = old.destination /\ y.purpose = old.purpose
            BY <1>3, <1>6, <4>3 DEF Group
          <5>2. y.met /\ old.met
            BY <1>1, <3>2, <5>1 DEF Apart, Asking
          <5>3. QED
            BY <1>2, <1>8, <4>3, <5>2
        <4>4. QED
          BY <4>2, <4>3
      <3>5. y.pc \in Verifying =>
              /\ y.code \in Code /\ Exists(y.code)'
              /\ y.destination = otp_codes'[y.code].destination
              /\ y.purpose = otp_codes'[y.code].purpose
        BY <1>2, <1>5, <3>2 DEF Sound
      <3>6. Sound(y)'
        BY <1>10, <3>2, <3>3, <3>4, <3>5 DEF Sound
      <3>7. req'[q] = y
        BY <1>7, <2>2, <3>1
      <3>8. QED
        BY <3>6, <3>7 DEF Sound, Cleared
    <2>3. ASSUME NEW q \in Request
          PROVE  Sound(req[q])'
      <3>1. CASE q = r
        <4>1. req'[q] = Slot("idle")
          BY <1>7, <3>1
        <4>2. QED
          BY <2>1, <4>1 DEF Sound, Cleared
      <3>2. QED
        BY <2>2, <3>1
    <2>4. QED
      BY <2>3 DEF RequestsSound
  <1>13. RequestsApart'
    BY <1>7, IdleSound DEF Inv, RequestsApart, Apart
  <1>14. HistorySound' /\ RedeemedIsConsumed' /\ SignupCodeOnce'
    <2>1. HistorySound'
      <3>1. alone' \subseteq Code /\ alone \subseteq Code
        BY <1>9 DEF Inv, Tables
      <3>2. \A k \in alone' : Exists(k)'
        BY <1>5, <1>6, <1>8, <3>1 DEF Inv, HistorySound
      <3>3. \A k \in Code :
              Exists(k)' /\ otp_codes'[k].purpose = "signup" /\ redeemed[k] > 0
                => HasAccount(otp_codes'[k].destination)
        BY <1>2, <1>5 DEF Inv, HistorySound
      <3>4. QED
        BY <1>8, <1>10, <3>2, <3>3 DEF HistorySound
    <2>2. RedeemedIsConsumed' /\ SignupCodeOnce'
      BY <1>2, <1>5, <1>8 DEF Inv, RedeemedIsConsumed, SignupCodeOnce
    <2>3. QED
      BY <2>1, <2>2
  <1>15. ASSUME NEW a \in alone',
                NEW k \in Group(otp_codes[a].destination, otp_codes[a].purpose)' \ {a}
         PROVE  ~ (Active(a)' /\ Active(k)')
                /\ ~ (otp_codes'[a].recent /\ otp_codes'[k].recent)
    <2>1. a \in Code /\ k \in Code
      BY <1>9, <1>15 DEF Tables, Group
    <2>2. CASE a # c /\ k # c
      <3>1. a \in alone /\ Exists(a)
        BY <1>8, <2>2 DEF Inv, HistorySound
      <3>2. k \in Group(otp_codes[a].destination, otp_codes[a].purpose) /\ Exists(k)
        BY <1>5, <1>15, <2>1, <2>2, <3>1 DEF Group
      <3>3. /\ Active(a)' => Active(a)
            /\ Active(k)' => Active(k)
            /\ otp_codes'[a].recent = otp_codes[a].recent
            /\ otp_codes'[k].recent = otp_codes[k].recent
        BY <1>5, <2>1, <2>2, <3>1, <3>2 DEF Active
      <3>4. QED
        BY <1>15, <3>1, <3>2, <3>3 DEF Inv, LoneRequestLeavesOneCode, ResendsAreApart
    <2>3. CASE a # c /\ k = c
      <3>1. a \in alone /\ Exists(a)
        BY <1>8, <2>3 DEF Inv, HistorySound
      <3>2. a \in Group(old.destination, old.purpose)
        BY <1>3, <1>5, <1>6, <1>15, <2>1, <2>3, <3>1 DEF Group
      <3>3. ~ otp_codes[a].recent /\ (Active(a) => a \in old.burning)
        BY <1>1, <3>1, <3>2 DEF Cleared
      <3>4. ~ otp_codes'[a].recent /\ ~ Active(a)'
        BY <1>5, <2>1, <2>3, <3>1, <3>3 DEF Active
      <3>5. QED
        BY <3>4
    <2>4. CASE a = c /\ k # c
      <3>1. ~ old.met
        BY <1>2, <1>8, <2>4
      <3>2. k \in Group(old.destination, old.purpose) /\ Exists(k)
        BY <1>3, <1>5, <1>6, <1>15, <2>1, <2>4 DEF Group
      <3>3. ~ otp_codes[k].recent /\ (Active(k) => k \in old.burning)
        BY <1>1, <3>1, <3>2 DEF Cleared
      <3>4. ~ otp_codes'[k].recent /\ ~ Active(k)'
        BY <1>5, <2>1, <2>4, <3>2, <3>3 DEF Active
      <3>5. QED
        BY <3>4
    <2>5. QED
      BY <1>15, <2>2, <2>3, <2>4
  <1>16. LoneRequestLeavesOneCode' /\ ResendsAreApart'
    BY <1>15 DEF LoneRequestLeavesOneCode, ResendsAreApart
  <1>17. Budgets'
    <2> SUFFICES ASSUME NEW k \in Code
                 PROVE  /\ Exists(k)' => otp_codes'[k].attempts + Cardinality(Guessing(k)')
                                             < otpMaxAttempts + Cardinality(Request)
                        /\ redeemed[k] + Cardinality(Redeeming(k)') <= Cardinality(Request)
      BY <1>8 DEF Budgets
    <2>1. Guessing(k)' \subseteq Guessing(k) /\ Redeeming(k)' \subseteq Redeeming(k)
      BY <1>7 DEF Guessing, Redeeming, Redeemers, At, Slot
    <2>2. /\ Cardinality(Guessing(k)') \in Nat /\ Cardinality(Redeeming(k)') \in Nat
          /\ Cardinality(Guessing(k)') <= Cardinality(Guessing(k))
          /\ Cardinality(Redeeming(k)') <= Cardinality(Redeeming(k))
          /\ Cardinality(Guessing(k)) \in Nat /\ Cardinality(Redeeming(k)) \in Nat
          /\ Cardinality(Guessing(k)) <= Cardinality(Request)
          /\ Cardinality(Request) \in Nat
      BY <2>1, CountsAreFinite, FS_Subset, FS_CardinalityType
    <2>3. redeemed[k] \in Nat /\ redeemed[k] + Cardinality(Redeeming(k)) <= Cardinality(Request)
      BY DEF Inv, Tables, Budgets
    <2>4. otpMaxAttempts \in Nat /\ otpMaxAttempts > 0
      BY MaxAttemptsPositive
    <2>5. CASE k = c
      <3>1. otp_codes'[k].attempts = 0
        BY <1>3, <1>6, <2>5
      <3>2. QED
        BY <2>2, <2>3, <2>4, <3>1
    <2>6. CASE k # c
      <3>1. Exists(k)' =>
              /\ otp_codes'[k].attempts = otp_codes[k].attempts
              /\ otp_codes[k].attempts \in Nat
              /\ otp_codes[k].attempts + Cardinality(Guessing(k))
                     < otpMaxAttempts + Cardinality(Request)
        BY <1>5, <2>6, RowTyped DEF Inv, Budgets
      <3>2. QED
        BY <2>2, <2>3, <2>4, <3>1
    <2>7. QED
      BY <2>5, <2>6
  <1>18. QED
    BY <1>9, <1>12, <1>13, <1>14, <1>16, <1>17 DEF Inv

-----------------------------------------------------------------------------
\* Verifications.

LEMMA VerifyKeeps ==
    ASSUME Inv, NEW r \in Request, NEW c \in Code, NEW codeMatches \in BOOLEAN,
           VerifyOTP(r, c, codeMatches)
    PROVE  Inv'
  <1> DEFINE begin(label) == [Slot(label) EXCEPT !.code = c,
                                !.destination = otp_codes[c].destination,
                                !.purpose = otp_codes[c].purpose,
                                !.late = redeemed[c] > 0]
  <1>1. /\ Exists(c)
        /\ otp_codes[c].destination \in Destination /\ otp_codes[c].purpose \in Purpose
        /\ otp_codes[c].consumed \in BOOLEAN /\ otp_codes[c].expired \in BOOLEAN
        /\ otp_codes[c].attempts \in Nat
    BY RowTyped DEF VerifyOTP, Inv
  <1>2. UNCHANGED <<otp_codes, users, banned, verified, redeemed, alone>>
    BY DEF VerifyOTP
  <1>3. \/ req' = [req EXCEPT ![r] = Slot("idle")]
        \/ req' = [req EXCEPT ![r] = begin("burn_too_many")]
        \/ /\ ~ otp_codes[c].consumed /\ otp_codes[c].attempts < otpMaxAttempts
           /\ \/ req' = [req EXCEPT ![r] = begin("consume")]
              \/ req' = [req EXCEPT ![r] = begin("increment")]
    BY <1>1 DEF VerifyOTP, Answer, Spent, StillGuessable
  <1>4. ~ otp_codes[c].consumed => redeemed[c] = 0
    BY DEF Inv, Tables, RedeemedIsConsumed
  <1>5. ASSUME NEW label \in {"burn_too_many", "consume", "increment"}
        PROVE  /\ begin(label) \in RequestState
               /\ begin(label).pc = label /\ begin(label).code = c
               /\ Sound(begin(label))
               /\ \A y : Apart(begin(label), y) /\ Apart(y, begin(label))
    <2> DEFINE late == redeemed[c] > 0
    <2>b. late \in BOOLEAN
      OBVIOUS
    <2>e. begin(label) = [Slot(label) EXCEPT !.code = c,
                            !.destination = otp_codes[c].destination,
                            !.purpose = otp_codes[c].purpose, !.late = late]
      OBVIOUS
    <2> HIDE DEF begin, late
    <2>1. /\ begin(label) \in RequestState
          /\ begin(label).pc = label /\ begin(label).code = c
          /\ begin(label).destination = otp_codes[c].destination
          /\ begin(label).purpose = otp_codes[c].purpose
          /\ begin(label).todo = {} /\ begin(label).burning = {}
      BY <1>1, <2>b, <2>e DEF Slot, RequestState, Waiting, Purpose
    <2>2. QED
      BY <1>1, <2>1 DEF Sound, Apart, Asking, Verifying, Redeemers
  <1>6. CASE req' = [req EXCEPT ![r] = Slot("idle")]
    BY <1>2, <1>6, AnswerKeeps
  <1>7. CASE req' = [req EXCEPT ![r] = begin("burn_too_many")]
    <2>1. PICK x : x = begin("burn_too_many")
      OBVIOUS
    <2>2. /\ x \in RequestState /\ x.pc = "burn_too_many" /\ Sound(x)
          /\ \A y : Apart(x, y) /\ Apart(y, x)
      BY <1>5, <2>1
    <2>3. x.pc \notin Redeemers
      BY <2>2 DEF Redeemers
    <2>4. req' = [req EXCEPT ![r] = x]
      BY <1>7, <2>1
    <2>5. QED
      BY <1>2, <2>2, <2>3, <2>4, QuietStep
  <1>8. CASE /\ req' = [req EXCEPT ![r] = begin("consume")]
             /\ ~ otp_codes[c].consumed
    <2>1. PICK x : x = begin("consume")
      OBVIOUS
    <2>2. /\ x \in RequestState /\ x.pc = "consume" /\ x.code = c /\ Sound(x)
          /\ \A y : Apart(x, y) /\ Apart(y, x)
      BY <1>5, <2>1
    <2>3. req' = [req EXCEPT ![r] = x]
      BY <1>8, <2>1
    <2>4. redeemed[x.code] = 0
      BY <1>4, <1>8, <2>2
    <2>5. QED
      BY <1>2, <2>2, <2>3, <2>4, QuietStep
  <1>9. CASE /\ req' = [req EXCEPT ![r] = begin("increment")]
             /\ otp_codes[c].attempts < otpMaxAttempts
    <2>1. PICK x : x = begin("increment")
      OBVIOUS
    <2>2. /\ x \in RequestState /\ x.pc = "increment" /\ x.code = c /\ Sound(x)
          /\ \A y : Apart(x, y) /\ Apart(y, x)
      BY <1>5, <2>1
    <2>3. req' = [req EXCEPT ![r] = x]
      BY <1>9, <2>1
    <2>4. x.pc \notin Redeemers
      BY <2>2 DEF Redeemers
    <2>5. QED
      BY <1>2, <1>9, <2>2, <2>3, <2>4, QuietStep
  <1>10. QED
    BY <1>3, <1>6, <1>7, <1>8, <1>9

\* The next statement of a verification that wrote nothing yet.
LEMMA GotoKeeps ==
    ASSUME Inv, NEW r \in Request, req[r].pc \in {"consume", "resolve", "insert"},
           NEW label \in {"resolve", "insert", "commit"},
           label = "commit" /\ req[r].purpose = "signup" =>
              /\ ~ HasAccount(req[r].destination)
              /\ \A q \in Request \ {r} : ~ Inserts(q, req[r].destination),
           req' = [req EXCEPT ![r].pc = label],
           UNCHANGED <<otp_codes, users, banned, verified, redeemed, alone>>
    PROVE  Inv'
  <1>1. PICK x : x = [req[r] EXCEPT !.pc = label]
    OBVIOUS
  <1>2. /\ Sound(req[r])
        /\ req[r] \in [pc : {"idle"} \union Waiting,
                       destination : Destination \union {NoDestination},
                       purpose : Purpose, code : Code \union {NoCode},
                       todo : SUBSET Code, burning : SUBSET Code, met : BOOLEAN,
                       late : BOOLEAN]
    BY RequestTyped DEF Inv, RequestsSound, RequestState
  <1>3. /\ x \in RequestState
        /\ x.pc = label /\ x.code = req[r].code
        /\ x.todo = req[r].todo /\ x.burning = req[r].burning
        /\ x.destination = req[r].destination /\ x.purpose = req[r].purpose
    BY <1>1, <1>2 DEF RequestState, Waiting
  <1>4. req' = [req EXCEPT ![r] = x]
    BY <1>1
  <1>5. Sound(x)
    BY <1>2, <1>3 DEF Sound, Asking, Verifying, Redeemers
  <1>6. \A q \in Request \ {r} : Apart(x, req[q]) /\ Apart(req[q], x)
    BY <1>3 DEF Apart, Asking, Inserts, At
  <1>7. x.pc # "increment" /\ req[r].pc \in Redeemers
    BY <1>3 DEF Redeemers
  <1>8. QED
    BY <1>3, <1>4, <1>5, <1>6, <1>7, QuietStep

LEMMA ResolutionKeeps ==
    ASSUME Inv, NEW r \in Request,
           ConsumeOTP(r) \/ ResolveLogin(r) \/ ResolveSignup(r) \/ CreateUser(r)
    PROVE  Inv'
  <1>1. CASE ConsumeOTP(r)
    BY <1>1, GotoKeeps DEF ConsumeOTP, Goto, At
  <1>2. CASE ResolveLogin(r)
    <2>1. CASE \E verdict : Answer(r, verdict)
      BY <1>2, <2>1, AnswerKeeps DEF ResolveLogin, Answer
    <2>2. CASE Goto(r, "commit")
      BY <1>2, <2>2, GotoKeeps DEF ResolveLogin, Goto, At
    <2>3. QED
      BY <1>2, <2>1, <2>2 DEF ResolveLogin
  <1>3. CASE ResolveSignup(r)
    <2>1. CASE \E verdict : Answer(r, verdict)
      BY <1>3, <2>1, AnswerKeeps DEF ResolveSignup, Answer
    <2>2. CASE Goto(r, "insert")
      BY <1>3, <2>2, GotoKeeps DEF ResolveSignup, Goto, At
    <2>3. QED
      BY <1>3, <2>1, <2>2 DEF ResolveSignup
  <1>4. CASE CreateUser(r)
    <2>1. CASE \E verdict : Answer(r, verdict)
      BY <1>4, <2>1, AnswerKeeps DEF CreateUser, Answer
    <2>2. CASE Goto(r, "commit") /\ ~ HasAccount(req[r].destination)
      BY <1>4, <2>2, GotoKeeps DEF CreateUser, Goto, At
    <2>3. QED
      BY <1>4, <2>1, <2>2 DEF CreateUser
  <1>5. QED
    BY <1>1, <1>2, <1>3, <1>4

\* A wrong guess is counted while its code is under guessing by this request.
LEMMA IncrementKeeps ==
    ASSUME Inv, NEW r \in Request, IncrementOTPAttempts(r)
    PROVE  Inv'
  <1>1. PICK c : c = req[r].code
    OBVIOUS
  <1>2. /\ req[r].pc = "increment" /\ Sound(req[r]) /\ c \in Code /\ Exists(c)
        /\ req[r].destination = otp_codes[c].destination
        /\ req[r].purpose = otp_codes[c].purpose
        /\ r \in Guessing(c)
        /\ req[r] \in [pc : {"idle"} \union Waiting,
                       destination : Destination \union {NoDestination},
                       purpose : Purpose, code : Code \union {NoCode},
                       todo : SUBSET Code, burning : SUBSET Code, met : BOOLEAN,
                       late : BOOLEAN]
    BY <1>1, RequestTyped
       DEF Inv, RequestsSound, IncrementOTPAttempts, At, Sound, Verifying, Guessing,
           RequestState
  <1>3. PICK row : row = [otp_codes[c] EXCEPT !.attempts = otp_codes[c].attempts + 1]
    OBVIOUS
  <1>4. /\ row \in OtpRow
        /\ row.attempts = otp_codes[c].attempts + 1
        /\ row.destination = otp_codes[c].destination
        /\ row.purpose = otp_codes[c].purpose
        /\ row.recent = otp_codes[c].recent /\ row.consumed = otp_codes[c].consumed
    BY <1>2, <1>3, RowTyped DEF Inv, OtpRow
  <1>5. otp_codes' = [otp_codes EXCEPT ![c] = row]
    BY <1>1, <1>3 DEF IncrementOTPAttempts
  <1>6. Aged /\ otp_codes' \in [Code -> OtpRow \union {NoRow}]
    BY <1>2, <1>4, <1>5, RowAges DEF Inv
  <1>7. \A k \in Code : otp_codes'[k] = IF k = c THEN row ELSE otp_codes[k]
    BY <1>5 DEF Inv, Tables
  <1>8. UNCHANGED <<users, banned, verified, redeemed, alone>>
    BY DEF IncrementOTPAttempts
  <1>9. PICK x \in {Slot("idle"), [req[r] EXCEPT !.pc = "burn_invalid"]} :
          req' = [req EXCEPT ![r] = x]
    BY DEF IncrementOTPAttempts, Goto, Answer
  <1>10. /\ x \in RequestState /\ x.pc \in {"idle", "burn_invalid"} /\ Sound(x)
         /\ \A y : Apart(x, y) /\ Apart(y, x)
    <2>1. CASE x = Slot("idle")
      BY <2>1, SlotTyped, IdleSound DEF Slot
    <2>2. CASE x = [req[r] EXCEPT !.pc = "burn_invalid"]
      <3>1. /\ x \in RequestState
            /\ x.pc = "burn_invalid" /\ x.code = c
            /\ x.todo = req[r].todo /\ x.burning = req[r].burning
            /\ x.destination = req[r].destination /\ x.purpose = req[r].purpose
        BY <1>1, <1>2, <2>2 DEF RequestState, Waiting
      <3>2. Sound(x)
        BY <1>2, <3>1 DEF Sound, Asking, Verifying, Redeemers
      <3>3. QED
        BY <3>1, <3>2 DEF Apart, Asking
    <2>3. QED
      BY <1>9, <2>1, <2>2
  <1>11. \A k \in Code : Exists(k) =>
           \/ /\ otp_codes'[k].attempts = otp_codes[k].attempts
              /\ x.pc # "increment"
           \/ /\ otp_codes'[k].attempts = otp_codes[k].attempts + 1
              /\ r \in Guessing(k)
              /\ x.pc # "increment"
    BY <1>2, <1>4, <1>7, <1>10
  <1>12. x.pc \notin Redeemers
    BY <1>10 DEF Redeemers
  <1>13. QED
    BY <1>6, <1>8, <1>9, <1>10, <1>11, <1>12, LocalStep

LEMMA BurnKeeps ==
    ASSUME Inv, NEW r \in Request, BurnOTP(r)
    PROVE  Inv'
  <1>1. PICK c : c = req[r].code
    OBVIOUS
  <1>2. c \in Code /\ Exists(c)
    BY <1>1 DEF Inv, RequestsSound, BurnOTP, Sound, Verifying
  <1>3. PICK row : row = [otp_codes[c] EXCEPT !.consumed = TRUE]
    OBVIOUS
  <1>4. /\ row \in OtpRow
        /\ row.attempts = otp_codes[c].attempts
        /\ row.destination = otp_codes[c].destination
        /\ row.purpose = otp_codes[c].purpose
        /\ row.recent = otp_codes[c].recent /\ row.consumed
    BY <1>2, <1>3, RowTyped DEF Inv, OtpRow
  <1>5. otp_codes' = [otp_codes EXCEPT ![c] = row]
    BY <1>1, <1>3 DEF BurnOTP
  <1>6. Aged /\ otp_codes' \in [Code -> OtpRow \union {NoRow}]
    BY <1>2, <1>4, <1>5, RowAges DEF Inv
  <1>7. \A k \in Code : otp_codes'[k].attempts = otp_codes[k].attempts
    BY <1>4, <1>5 DEF Inv, Tables
  <1>8. UNCHANGED <<users, banned, verified, redeemed, alone>>
    BY DEF BurnOTP
  <1>9. req' = [req EXCEPT ![r] = Slot("idle")]
    BY DEF BurnOTP, Answer
  <1>10. /\ Slot("idle") \in RequestState /\ Sound(Slot("idle"))
         /\ \A y : Apart(Slot("idle"), y) /\ Apart(y, Slot("idle"))
         /\ Slot("idle").pc # "increment" /\ Slot("idle").pc \notin Redeemers
    BY SlotTyped, IdleSound DEF Slot, Redeemers
  <1>11. QED
    BY <1>6, <1>7, <1>8, <1>9, <1>10, LocalStep

\* A commit redeems the code.  One for a signup makes the account, which nobody
\* else is about to make, and which no earlier verification of the code has made.
LEMMA CommitKeeps ==
    ASSUME Inv, NEW r \in Request, VerifyCommit(r)
    PROVE  Inv'
  <1>1. PICK c, d : c = req[r].code /\ d = req[r].destination
    OBVIOUS
  <1>2. /\ req[r].pc = "commit" /\ c \in Code /\ Exists(c)
        /\ d = otp_codes[c].destination /\ d \in Destination
        /\ req[r].purpose = otp_codes[c].purpose
        /\ r \in Redeeming(c)
        /\ req[r].purpose = "signup" => ~ HasAccount(d)
    <2>1. req[r].pc = "commit" /\ Sound(req[r])
      BY DEF Inv, RequestsSound, VerifyCommit, At
    <2>2. QED
      BY <1>1, <2>1, RowTyped DEF Inv, Sound, Verifying, Redeemers, Redeeming
  <1>3. PICK row : row = [otp_codes[c] EXCEPT !.consumed = TRUE]
    OBVIOUS
  <1>4. /\ row \in OtpRow
        /\ row.attempts = otp_codes[c].attempts
        /\ row.destination = otp_codes[c].destination
        /\ row.purpose = otp_codes[c].purpose
        /\ row.recent = otp_codes[c].recent /\ row.consumed
    BY <1>2, <1>3, RowTyped DEF Inv, OtpRow
  <1>5. otp_codes' = [otp_codes EXCEPT ![c] = row]
    BY <1>1, <1>3 DEF VerifyCommit, ConsumedAfter
  <1>6. Aged /\ otp_codes' \in [Code -> OtpRow \union {NoRow}]
    BY <1>2, <1>4, <1>5, RowAges DEF Inv
  <1>7. \A k \in Code : /\ otp_codes'[k].attempts = otp_codes[k].attempts
                        /\ k = c => otp_codes'[k].consumed
    BY <1>4, <1>5 DEF Inv, Tables
  <1>8. /\ users' = IF req[r].purpose = "signup"
                      THEN users \union {[destination |-> d, origin |-> c]} ELSE users
        /\ verified' = verified \union {d}
        /\ redeemed' = [redeemed EXCEPT ![c] = redeemed[c] + 1]
        /\ UNCHANGED <<banned, alone>>
        /\ req' = [req EXCEPT ![r] = Slot("idle")]
    BY <1>1 DEF VerifyCommit, Answer
  <1>9. \A k \in Code : /\ redeemed[k] \in Nat
                        /\ redeemed'[k] = IF k = c THEN redeemed[k] + 1 ELSE redeemed[k]
    BY <1>8 DEF Inv, Tables
  <1>10. \A q \in Request : req'[q] = IF q = r THEN Slot("idle") ELSE req[q]
    BY <1>8 DEF Inv, Tables
  <1>11. /\ \A e : HasAccount(e) => HasAccount(e)'
         /\ req[r].purpose = "signup" => HasAccount(d)'
         /\ \A e : HasAccount(e)' => HasAccount(e) \/ (req[r].purpose = "signup" /\ e = d)
    <2>1. CASE req[r].purpose = "signup"
      <3>1. PICK u : u = [destination |-> d, origin |-> c]
        OBVIOUS
      <3>2. users' = users \union {u} /\ u.destination = d
        BY <1>8, <2>1, <3>1
      <3>3. QED
        BY <2>1, <3>2 DEF HasAccount
    <2>2. CASE req[r].purpose # "signup"
      <3>1. users' = users
        BY <1>8, <2>2
      <3>2. QED
        BY <2>2, <3>1 DEF HasAccount
    <2>3. QED
      BY <2>1, <2>2
  <1>12. Tables'
    <2>1. req' \in [Request -> RequestState]
      BY <1>8, SlotTyped DEF Inv, Tables
    <2>2. redeemed' \in [Code -> Nat]
      BY <1>2, <1>8, <1>9 DEF Inv, Tables
    <2>3. [destination |-> d, origin |-> c] \in UserRow
      BY <1>2 DEF UserRow
    <2>4. users' \in SUBSET UserRow
      BY <1>8, <2>3 DEF Inv, Tables
    <2>5. QED
      BY <1>2, <1>6, <1>8, <2>1, <2>2, <2>4 DEF Inv, Tables
  <1>13. RequestsSound'
    <2>1. Sound(Slot("idle"))'
      BY DEF Sound, Slot, Asking, Verifying, Redeemers
    <2>2. ASSUME NEW q \in Request, q # r
          PROVE  Sound(req[q])'
      <3>1. PICK y \in RequestState : y = req[q]
        BY DEF Inv, Tables
      <3>2. Sound(y) /\ Apart(req[r], y)
        BY <2>2, <3>1 DEF Inv, RequestsSound, RequestsApart
      <3>3. y.pc = "commit" /\ y.purpose = "signup" => ~ HasAccount(y.destination)'
        BY <1>1, <1>2, <1>11, <3>2 DEF Sound, Apart
      <3>4. Sound(y)'
        BY <1>6, <1>8, <3>2, <3>3, AgedSound DEF Inv
      <3>5. req'[q] = y
        BY <1>10, <2>2, <3>1
      <3>6. QED
        BY <3>4, <3>5 DEF Sound, Cleared
    <2>3. ASSUME NEW q \in Request
          PROVE  Sound(req[q])'
      <3>1. CASE q = r
        <4>1. req'[q] = Slot("idle")
          BY <1>10, <3>1
        <4>2. QED
          BY <2>1, <4>1 DEF Sound, Cleared
      <3>2. QED
        BY <2>2, <3>1
    <2>4. QED
      BY <2>3 DEF RequestsSound
  <1>14. RequestsApart'
    BY <1>10, IdleSound DEF Inv, RequestsApart, Apart
  <1>15. /\ \A a \in alone : Exists(a)'
         /\ LoneRequestLeavesOneCode' /\ ResendsAreApart'
    BY <1>6, <1>8, AgedAlone DEF Inv
  <1>16. HistorySound'
    <2>1. ASSUME NEW k \in Code,
                 Exists(k)', otp_codes'[k].purpose = "signup", redeemed'[k] > 0
          PROVE  HasAccount(otp_codes[k].destination)'
      <3>1. PICK e : e = otp_codes[k].destination
        OBVIOUS
      <3>2. Exists(k) /\ otp_codes[k].purpose = "signup" /\ otp_codes'[k].destination = e
        BY <1>6, <2>1, <3>1 DEF Aged
      <3>3. CASE k = c
        BY <1>2, <1>11, <3>1, <3>2, <3>3 DEF HasAccount
      <3>4. CASE k # c
        <4>1. HasAccount(e)
          BY <1>9, <2>1, <3>1, <3>2, <3>4 DEF Inv, HistorySound
        <4>2. HasAccount(e)'
          BY <1>11, <4>1
        <4>3. QED
          BY <3>2, <4>2 DEF HasAccount
      <3>5. QED
        BY <3>3, <3>4
    <2>2. \A a \in alone' : Exists(a)'
      BY <1>8, <1>15
    <2>3. QED
      BY <2>1, <2>2 DEF HistorySound
  <1>17. RedeemedIsConsumed'
    BY <1>2, <1>6, <1>7, <1>9 DEF Inv, RedeemedIsConsumed, Aged
  <1>18. SignupCodeOnce'
    <2>1. otp_codes[c].purpose = "signup" => redeemed[c] = 0
      BY <1>2, <1>9 DEF Inv, HistorySound
    <2>2. QED
      BY <1>6, <1>9, <2>1 DEF Inv, SignupCodeOnce, Aged
  <1>19. Budgets'
    <2>1. Slot("idle").pc # "increment" /\ Slot("idle").pc \notin Redeemers
      BY DEF Slot, Redeemers
    <2> SUFFICES ASSUME NEW k \in Code
                 PROVE  /\ Exists(k)' => otp_codes'[k].attempts + Cardinality(Guessing(k)')
                                             < otpMaxAttempts + Cardinality(Request)
                        /\ redeemed'[k] + Cardinality(Redeeming(k)') <= Cardinality(Request)
      BY DEF Budgets
    <2>2. ASSUME Exists(k)'
          PROVE  otp_codes'[k].attempts + Cardinality(Guessing(k)')
                     < otpMaxAttempts + Cardinality(Request)
      <3>1. Exists(k)
        BY <1>6, <2>2 DEF Aged
      <3>2. PICK n \in Nat : n = otp_codes[k].attempts
        BY <3>1, RowTyped DEF Inv
      <3>3. n = otp_codes'[k].attempts
        BY <1>7, <3>2
      <3>4. n + Cardinality(Guessing(k)') < otpMaxAttempts + Cardinality(Request)
        BY <1>8, <2>1, <3>1, <3>2, GuessesStayBounded
      <3>5. QED
        BY <3>3, <3>4
    <2>3. redeemed'[k] + Cardinality(Redeeming(k)') <= Cardinality(Request)
      <3>1. PICK n \in Nat : n = redeemed'[k]
        BY <1>9
      <3>2. \/ n = redeemed[k]
            \/ n = redeemed[k] + 1 /\ r \in Redeeming(k)
        BY <1>2, <1>9, <3>1
      <3>3. n + Cardinality(Redeeming(k)') <= Cardinality(Request)
        BY <1>8, <2>1, <3>2, RedemptionsStayBounded
      <3>4. QED
        BY <3>1, <3>3
    <2>4. QED
      BY <2>2, <2>3
  <1>20. QED
    BY <1>12, <1>13, <1>14, <1>15, <1>16, <1>17, <1>18, <1>19 DEF Inv

-----------------------------------------------------------------------------
\* What happens around the requests.

\* A step that leaves every slot as it is, and lets rows grow older.
LEMMA AroundKeeps ==
    ASSUME Inv, Tables', Aged, UNCHANGED <<redeemed, alone, req>>,
           \A k \in Code : Exists(k) => otp_codes'[k].attempts = otp_codes[k].attempts,
           users \subseteq users',
           \A r \in Request : req[r].pc = "commit" /\ req[r].purpose = "signup"
                                => ~ HasAccount(req[r].destination)'
    PROVE  Inv'
  <1>1. RequestsSound'
    <2> SUFFICES ASSUME NEW q \in Request PROVE Sound(req[q])'
      BY DEF RequestsSound
    <2>1. PICK y \in RequestState : y = req[q]
      BY DEF Inv, Tables
    <2>2. y.pc = "commit" /\ y.purpose = "signup" => ~ HasAccount(y.destination)'
      BY <2>1 DEF HasAccount
    <2>3. Sound(y)'
      BY <2>1, <2>2, AgedSound DEF Inv, RequestsSound
    <2>4. QED
      BY <2>1, <2>3 DEF Sound, Cleared
  <1>2. RequestsApart'
    BY DEF Inv, RequestsApart, Apart
  <1>3. /\ HistorySound' /\ RedeemedIsConsumed' /\ SignupCodeOnce'
        /\ LoneRequestLeavesOneCode' /\ ResendsAreApart'
    BY AgedHistory DEF Inv
  <1>4. Budgets'
    <2>1. \A k : Guessing(k)' = Guessing(k) /\ Redeeming(k)' = Redeeming(k)
      BY DEF Guessing, Redeeming, At
    <2>2. QED
      BY <2>1 DEF Inv, Budgets, Aged
  <1>5. QED
    BY <1>1, <1>2, <1>3, <1>4 DEF Inv

LEMMA UsersStay ==
    ASSUME Inv, UNCHANGED users
    PROVE  /\ users \subseteq users'
           /\ UNCHANGED req =>
                \A r \in Request : req[r].pc = "commit" /\ req[r].purpose = "signup"
                   => ~ HasAccount(req[r].destination)'
  BY DEF Inv, RequestsSound, Sound, HasAccount

LEMMA TimePasses ==
    ASSUME Inv, NEW c \in Code, Expire(c) \/ ResendWindowEnds(c)
    PROVE  Inv'
  <1>1. PICK row \in {[otp_codes[c] EXCEPT !.expired = TRUE],
                      [otp_codes[c] EXCEPT !.recent = FALSE]} :
          otp_codes' = [otp_codes EXCEPT ![c] = row]
    BY DEF Expire, ResendWindowEnds
  <1>2. Exists(c) /\ UNCHANGED <<users, banned, verified, redeemed, alone, req>>
    BY DEF Expire, ResendWindowEnds
  <1>3. /\ row \in OtpRow
        /\ row.attempts = otp_codes[c].attempts
        /\ row.destination = otp_codes[c].destination
        /\ row.purpose = otp_codes[c].purpose
        /\ row.recent => otp_codes[c].recent
        /\ row.consumed = otp_codes[c].consumed
    BY <1>1, <1>2, RowTyped DEF Inv, OtpRow
  <1>4. Aged /\ otp_codes' \in [Code -> OtpRow \union {NoRow}]
    BY <1>1, <1>2, <1>3, RowAges DEF Inv
  <1>5. Tables'
    BY <1>2, <1>4 DEF Inv, Tables
  <1>6. \A k \in Code : otp_codes'[k].attempts = otp_codes[k].attempts
    BY <1>1, <1>3 DEF Inv, Tables
  <1>7. QED
    BY <1>2, <1>4, <1>5, <1>6, UsersStay, AroundKeeps

LEMMA EnvironmentKeeps ==
    ASSUME Inv, Environment
    PROVE  Inv'
  <1>1. CASE \E r \in Request : Fail(r)
    BY <1>1, AnswerKeeps DEF Fail, Answer
  <1>2. CASE \E c \in Code : Expire(c) \/ ResendWindowEnds(c)
    BY <1>2, TimePasses
  <1>3. ASSUME NEW d \in Destination, NEW flag \in BOOLEAN, RegisterElsewhere(d, flag)
        PROVE  Inv'
    <2>1. /\ users' = users \union {[destination |-> d, origin |-> Elsewhere]}
          /\ verified' = IF flag THEN verified \union {d} ELSE verified
          /\ UNCHANGED <<otp_codes, banned, redeemed, alone, req>>
          /\ \A q \in Request : ~ (/\ req[q].pc = "commit" /\ req[q].purpose = "signup"
                                   /\ req[q].destination = d)
      BY <1>3 DEF RegisterElsewhere, Inserts, At
    <2>2. [destination |-> d, origin |-> Elsewhere] \in UserRow
      BY DEF UserRow
    <2>3. Tables'
      BY <2>1, <2>2 DEF Inv, Tables
    <2>4. \A q \in Request : req[q].pc = "commit" /\ req[q].purpose = "signup"
                               => ~ HasAccount(req[q].destination)'
      BY <2>1 DEF Inv, RequestsSound, Sound, HasAccount
    <2>5. QED
      BY <2>1, <2>3, <2>4, RowsStay, AroundKeeps
  <1>4. ASSUME NEW d \in Destination, NEW flag \in BOOLEAN, SetUserBanned(d, flag)
        PROVE  Inv'
    <2>1. Tables' /\ UNCHANGED <<otp_codes, users, redeemed, alone, req>>
      BY <1>4 DEF SetUserBanned, Inv, Tables
    <2>2. QED
      BY <2>1, RowsStay, UsersStay, AroundKeeps
  <1>5. QED
    BY <1>1, <1>2, <1>3, <1>4 DEF Environment

LEMMA StutterKeeps == Inv /\ UNCHANGED vars => Inv'
  <1> SUFFICES ASSUME Inv, UNCHANGED vars PROVE Inv'
    OBVIOUS
  <1>1. Tables' /\ UNCHANGED <<otp_codes, users, redeemed, alone, req>>
    BY DEF Inv, Tables, vars
  <1>2. QED
    BY <1>1, RowsStay, UsersStay, AroundKeeps

LEMMA StepKeeps == Inv /\ [Next]_vars => Inv'
  <1> SUFFICES ASSUME Inv, [Next]_vars PROVE Inv'
    OBVIOUS
  <1>1. ASSUME NEW r \in Request, Arrive(r) PROVE Inv'
    BY <1>1, RequestKeeps, VerifyKeeps DEF Arrive
  <1>2. ASSUME NEW r \in Request, Proceed(r) PROVE Inv'
    BY <1>2, SnapshotKeeps, InvalidateKeeps, CreateKeeps, IncrementKeeps, BurnKeeps,
       ResolutionKeeps, CommitKeeps, AnswerKeeps DEF Proceed, DeadlockVictim, Answer
  <1>3. QED
    BY <1>1, <1>2, EnvironmentKeeps, StutterKeeps DEF Next

\* The invariant holds in every reachable state, whatever the numbers of
\* destinations, codes and requests and the limit of guesses.
THEOREM Invariance == Spec => []Inv
  BY InitInv, StepKeeps, PTL DEF Spec

-----------------------------------------------------------------------------
\* The properties that TLC checks on a small instance.

\* A code that opened a session is consumed.
THEOREM RedeemedAreConsumed == Spec => []RedeemedIsConsumed
  BY Invariance, PTL DEF Inv

\* A signup code opens one session at most.
THEOREM SignupCodesOnce == Spec => []SignupCodeOnce
  BY Invariance, PTL DEF Inv

\* A code whose request met no other is the only active one of its group.
THEOREM LoneRequestsLeaveOneCode == Spec => []LoneRequestLeavesOneCode
  BY Invariance, PTL DEF Inv

\* Two codes within the resend window are of requests that met.
THEOREM ResendsStayApart == Spec => []ResendsAreApart
  BY Invariance, PTL DEF Inv

-----------------------------------------------------------------------------
\* Row locks.

\* The row locks of different requests are on different rows.
LocksExclude ==
    \A q, r \in Request, c \in Code :
        q # r /\ HoldsCode(q, c) => ~ HoldsCode(r, c)

\* What a code request has locked stays active until it commits, and is not on
\* its list any more.
BurningSound ==
    \A r \in Request : \A c \in req[r].burning :
        Active(c) /\ c \notin req[r].todo

LockInv == Inv /\ LocksExclude /\ BurningSound

\* The fields of a slot that say what it holds and waits for.
Stays(r) ==
    /\ req'[r].pc = req[r].pc
    /\ req'[r].code = req[r].code
    /\ req'[r].todo = req[r].todo
    /\ req'[r].burning = req[r].burning
    /\ req'[r].late = req[r].late

\* An arrival or an answer: nothing is locked.
HoldsNothing(r) ==
    /\ req'[r].pc \in {"idle", "snapshot", "increment", "burn_too_many", "consume"}
    /\ req'[r].todo = {}
    /\ req'[r].burning = {}

LEMMA OthersStay ==
    ASSUME Tables, NEW q \in Request,
           Arrive(q) \/ Proceed(q) \/ Fail(q), NEW r \in Request \ {q}
    PROVE  Stays(r)
  <1>1. ASSUME NEW x, req' = [req EXCEPT ![q] = x]
        PROVE  Stays(r)
    BY <1>1 DEF Tables, Stays
  <1>2. ASSUME NEW d \in Destination, NEW p \in Purpose, RequestOTP(q, d, p)
        PROVE  Stays(r)
    <2>1. CASE Answer(q, "throttled")
      BY <1>1, <2>1 DEF Answer
    <2>2. ASSUME NEW x, req' = [z \in Request |->
                CASE z = q -> x
                  [] z \in Requesting(d, p) -> [req[z] EXCEPT !.met = TRUE]
                  [] OTHER -> req[z]]
          PROVE  Stays(r)
      <3>1. req'[r] = IF r \in Requesting(d, p) THEN [req[r] EXCEPT !.met = TRUE]
                                                ELSE req[r]
        BY <2>2
      <3>2. req[r] \in RequestState
        BY RequestTyped
      <3>3. QED
        BY <3>1, <3>2 DEF Stays, RequestState
    <2>3. QED
      BY <1>2, <2>1, <2>2 DEF RequestOTP
  <1>3. ASSUME NEW c \in Code, NEW codeMatches \in BOOLEAN, VerifyOTP(q, c, codeMatches)
        PROVE  Stays(r)
    BY <1>1, <1>3 DEF VerifyOTP, Answer
  <1>4. CASE Arrive(q)
    BY <1>2, <1>3, <1>4 DEF Arrive
  <1>5. CASE Proceed(q) \/ Fail(q)
    BY <1>1, <1>5 DEF Proceed, Fail, InvalidateSnapshot, InvalidateRow, CreateOTP,
       IncrementOTPAttempts, BurnOTP, ConsumeOTP, ResolveLogin, ResolveSignup,
       CreateUser, VerifyCommit, DeadlockVictim, Answer, Goto
  <1>6. QED
    BY <1>4, <1>5

LEMMA ArriveHoldsNothing ==
    ASSUME Tables, NEW r \in Request, Arrive(r)
    PROVE  HoldsNothing(r) /\ UNCHANGED otp_codes
  <1>1. ASSUME NEW x, req' = [req EXCEPT ![r] = x]
        PROVE  req'[r] = x
    BY <1>1 DEF Tables
  <1>2. Slot("idle").pc = "idle" /\ Slot("idle").todo = {} /\ Slot("idle").burning = {}
    BY DEF Slot
  <1>3. ASSUME NEW d \in Destination, NEW p \in Purpose, RequestOTP(r, d, p)
        PROVE  HoldsNothing(r)
    <2> DEFINE begin == [Slot("snapshot") EXCEPT !.destination = d, !.purpose = p,
                                                 !.met = Requesting(d, p) # {}]
    <2>1. CASE Answer(r, "throttled")
      BY <1>1, <1>2, <2>1 DEF Answer, HoldsNothing
    <2>2. CASE ~ Answer(r, "throttled")
      <3>1. begin.pc = "snapshot" /\ begin.todo = {} /\ begin.burning = {}
        BY DEF Slot
      <3>2. req' = [q \in Request |->
                CASE q = r -> begin
                  [] q \in Requesting(d, p) -> [req[q] EXCEPT !.met = TRUE]
                  [] OTHER -> req[q]]
        BY <1>3, <2>2 DEF RequestOTP
      <3>3. r \notin Requesting(d, p)
        BY <1>3 DEF RequestOTP, Idle, At, Requesting
      <3> HIDE DEF begin
      <3>4. req'[r] = begin
        BY <3>2, <3>3
      <3>5. QED
        BY <3>1, <3>4 DEF HoldsNothing
    <2>3. QED
      BY <2>1, <2>2
  <1>4. ASSUME NEW c \in Code, NEW codeMatches \in BOOLEAN, VerifyOTP(r, c, codeMatches)
        PROVE  HoldsNothing(r)
    <2> DEFINE begin(label) == [Slot(label) EXCEPT !.code = c,
                                  !.destination = otp_codes[c].destination,
                                  !.purpose = otp_codes[c].purpose,
                                  !.late = redeemed[c] > 0]
    <2>1. \A label : /\ begin(label).pc = label
                     /\ begin(label).todo = {} /\ begin(label).burning = {}
      BY DEF Slot
    <2>2. \/ req'[r] = Slot("idle")
          \/ \E label \in {"burn_too_many", "consume", "increment"} :
                req'[r] = begin(label)
      BY <1>1, <1>4 DEF VerifyOTP, Answer
    <2> HIDE DEF begin
    <2>3. QED
      BY <1>2, <2>1, <2>2 DEF HoldsNothing
  <1>5. QED
    BY <1>3, <1>4 DEF Arrive, RequestOTP, VerifyOTP

\* How a slot comes to hold what it holds.
LEMMA SlotMoves ==
    ASSUME Tables, [Next]_vars, NEW r \in Request
    PROVE  \/ Stays(r)
           \/ HoldsNothing(r)
           \/ /\ At(r, "snapshot")
              /\ req'[r].pc = "invalidate"
              /\ req'[r].burning = req[r].burning
           \/ \E c \in Code :
                /\ InvalidateRow(r, c)
                /\ req'[r].pc = "invalidate"
                /\ req'[r].todo = req[r].todo \ {c}
                /\ req'[r].burning =
                      IF Active(c) THEN req[r].burning \union {c} ELSE req[r].burning
           \/ /\ req'[r].code = req[r].code
              /\ req'[r].todo = req[r].todo /\ req'[r].burning = req[r].burning
              /\ \/ ConsumeOTP(r)
                 \/ At(r, "increment") /\ req'[r].pc = "burn_invalid"
                 \/ req[r].pc \in {"resolve", "insert"}
  <1>t. req[r] \in RequestState
    BY RequestTyped
  <1>1. ASSUME NEW q \in Request, q # r, Arrive(q) \/ Proceed(q) \/ Fail(q)
        PROVE  Stays(r)
    BY <1>1, OthersStay
  <1>2. CASE UNCHANGED req
    BY <1>2 DEF Stays
  <1>3. CASE Arrive(r)
    BY <1>3, ArriveHoldsNothing
  <1>4. ASSUME NEW verdict, Answer(r, verdict)
        PROVE  HoldsNothing(r)
    BY <1>4 DEF Answer, Tables, Slot, HoldsNothing
  <1>5. ASSUME NEW label, Goto(r, label)
        PROVE  /\ req'[r].pc = label /\ req'[r].code = req[r].code
               /\ req'[r].todo = req[r].todo /\ req'[r].burning = req[r].burning
    BY <1>t, <1>5 DEF Goto, Tables, RequestState
  <1>6. ASSUME InvalidateSnapshot(r)
        PROVE  /\ At(r, "snapshot")
               /\ req'[r].pc = "invalidate"
               /\ req'[r].burning = req[r].burning
    BY <1>t, <1>6 DEF InvalidateSnapshot, Tables, RequestState
  <1>7. ASSUME NEW c \in Code, InvalidateRow(r, c)
        PROVE  /\ req'[r].pc = "invalidate"
               /\ req'[r].todo = req[r].todo \ {c}
               /\ req'[r].burning =
                     IF Active(c) THEN req[r].burning \union {c} ELSE req[r].burning
    BY <1>t, <1>7 DEF InvalidateRow, Tables, RequestState, At
  <1>8. CASE IncrementOTPAttempts(r)
    BY <1>4, <1>5, <1>8 DEF IncrementOTPAttempts
  <1>9. CASE ConsumeOTP(r)
    BY <1>5, <1>9 DEF ConsumeOTP
  <1>10. CASE ResolveLogin(r) \/ ResolveSignup(r) \/ CreateUser(r)
    BY <1>4, <1>5, <1>10 DEF ResolveLogin, ResolveSignup, CreateUser, At
  <1>11. CASE \/ BurnOTP(r) \/ VerifyCommit(r) \/ DeadlockVictim(r) \/ Fail(r)
              \/ \E c \in Code : CreateOTP(r, c)
    BY <1>4, <1>11 DEF BurnOTP, VerifyCommit, DeadlockVictim, Fail, CreateOTP
  <1>12. CASE Proceed(r) \/ Fail(r)
    BY <1>6, <1>7, <1>8, <1>9, <1>10, <1>11, <1>12 DEF Proceed
  <1>13. CASE ~ \E q \in Request : Arrive(q) \/ Proceed(q) \/ Fail(q)
    BY <1>2, <1>13 DEF Next, Environment, Expire, ResendWindowEnds, RegisterElsewhere,
       SetUserBanned, vars
  <1>14. QED
    BY <1>1, <1>3, <1>12, <1>13

\* A lock that was not there is granted to one request, on a free row.
LEMMA LockAppears ==
    ASSUME Inv, [Next]_vars, NEW r \in Request, NEW c \in Code, HoldsCode(r, c)'
    PROVE  \/ HoldsCode(r, c)
           \/ /\ ~ Locked(r, c)
              /\ \A q \in Request \ {r} : req'[q] = req[q]
              /\ c \in req'[r].burning => Active(c) /\ UNCHANGED otp_codes
  <1>i. Tables
    BY DEF Inv
  <1>h. \/ req'[r].pc \in {"resolve", "insert", "commit"} /\ req'[r].code = c
        \/ c \in req'[r].burning
    BY DEF HoldsCode
  <1>1. CASE Stays(r)
    BY <1>h, <1>1 DEF Stays, HoldsCode
  <1>2. CASE HoldsNothing(r)
    BY <1>h, <1>2 DEF HoldsNothing
  <1>3. CASE req'[r].pc = "invalidate" /\ req'[r].burning = req[r].burning
    BY <1>h, <1>3 DEF HoldsCode
  <1>4. ASSUME NEW k \in Code, InvalidateRow(r, k),
               req'[r].pc = "invalidate",
               req'[r].burning =
                  IF Active(k) THEN req[r].burning \union {k} ELSE req[r].burning
        PROVE  \/ HoldsCode(r, c)
               \/ /\ ~ Locked(r, c)
                  /\ \A q \in Request \ {r} : req'[q] = req[q]
                  /\ Active(c) /\ UNCHANGED otp_codes
    <2>1. c \in req[r].burning \/ (c = k /\ Active(k))
      BY <1>h, <1>4
    <2>2. \A q \in Request \ {r} : req'[q] = req[q]
      BY <1>i, <1>4 DEF InvalidateRow, Tables
    <2>3. QED
      BY <1>4, <2>1, <2>2 DEF InvalidateRow, HoldsCode
  <1>5. ASSUME req'[r].code = req[r].code, req'[r].burning = req[r].burning,
               ConsumeOTP(r)
        PROVE  \/ HoldsCode(r, c)
               \/ /\ ~ Locked(r, c)
                  /\ \A q \in Request \ {r} : req'[q] = req[q]
                  /\ UNCHANGED otp_codes
                  /\ c \notin req'[r].burning
    <2>1. \A q \in Request \ {r} : req'[q] = req[q]
      BY <1>i, <1>5 DEF ConsumeOTP, Goto, Tables
    <2>2. QED
      BY <1>h, <1>5, <2>1 DEF ConsumeOTP, HoldsCode
  <1>6. CASE /\ req'[r].code = req[r].code /\ req'[r].burning = req[r].burning
             /\ \/ At(r, "increment") /\ req'[r].pc = "burn_invalid"
                \/ req[r].pc \in {"resolve", "insert"}
    BY <1>h, <1>6 DEF HoldsCode
  <1>7. QED
    BY <1>i, <1>1, <1>2, <1>3, <1>4, <1>5, <1>6, SlotMoves

LEMMA LocksNext ==
    ASSUME Inv, LocksExclude, [Next]_vars
    PROVE  LocksExclude'
  <1> SUFFICES ASSUME NEW q \in Request, NEW r \in Request, NEW c \in Code, q # r,
                      HoldsCode(q, c)', HoldsCode(r, c)'
               PROVE  FALSE
    BY DEF LocksExclude
  <1>1. ASSUME NEW x \in Request, NEW y \in Request, x # y,
               ~ Locked(x, c), \A z \in Request \ {x} : req'[z] = req[z],
               HoldsCode(y, c)'
        PROVE  FALSE
    <2>1. HoldsCode(y, c)
      BY <1>1 DEF HoldsCode
    <2>2. QED
      BY <1>1, <2>1 DEF Locked
  <1>2. QED
    BY <1>1, LockAppears DEF LocksExclude

\* A row that somebody else locked is consumed by nobody.
LEMMA LockedRowStays ==
    ASSUME LockInv, [Next]_vars, NEW r \in Request, NEW c \in req[r].burning,
           req'[r].pc = "invalidate"
    PROVE  Active(c)'
  <1>i. Inv /\ Tables /\ c \in Code /\ Active(c) /\ HoldsCode(r, c) /\ At(r, "invalidate")
    BY RequestTyped DEF LockInv, Inv, BurningSound, HoldsCode, RequestsSound, Sound, At
  <1>1. ASSUME NEW q \in Request, Proceed(q), otp_codes' # otp_codes
        PROVE  Active(c)'
    <2>1. ASSUME q = r PROVE FALSE
      <3>1. \E k \in Code : CreateOTP(r, k)
        BY <1>i, <1>1, <2>1 DEF Proceed, InvalidateSnapshot, InvalidateRow,
           IncrementOTPAttempts, BurnOTP, ConsumeOTP, ResolveLogin, ResolveSignup,
           CreateUser, VerifyCommit, DeadlockVictim, At
      <3>2. req'[r] = Slot("idle")
        BY <1>i, <3>1 DEF CreateOTP, Answer, Tables
      <3>3. QED
        BY <3>2 DEF Slot
    <2>2. ~ HoldsCode(q, c) /\ Locked(q, c)
      BY <1>i, <2>1 DEF LockInv, LocksExclude, Locked
    <2>3. ASSUME NEW k \in Code, CreateOTP(q, k)
          PROVE  Active(c)'
      <3>1. c # k
        BY <1>i, <2>3 DEF CreateOTP, Active
      <3>2. c \notin req[q].burning
        BY <2>2 DEF HoldsCode
      <3>3. otp_codes'[c] = otp_codes[c]
        BY <1>i, <2>3, <3>1, <3>2 DEF CreateOTP
      <3>4. QED
        BY <1>i, <3>3 DEF Active, Exists
    <2>4. CASE IncrementOTPAttempts(q) \/ BurnOTP(q)
      <3>1. req[q].code # c
        BY <2>2, <2>4 DEF IncrementOTPAttempts, BurnOTP
      <3>2. otp_codes'[c] = otp_codes[c]
        BY <1>i, <2>4, <3>1 DEF IncrementOTPAttempts, BurnOTP, Tables
      <3>3. QED
        BY <1>i, <3>2 DEF Active, Exists
    <2>5. CASE VerifyCommit(q)
      <3>1. req[q].code # c
        BY <2>2, <2>5 DEF VerifyCommit, HoldsCode, At
      <3>2. otp_codes'[c] = otp_codes[c]
        BY <1>i, <2>5, <3>1 DEF VerifyCommit, Tables
      <3>3. QED
        BY <1>i, <3>2 DEF Active, Exists
    <2>6. QED
      BY <1>1, <2>3, <2>4, <2>5 DEF Proceed, InvalidateSnapshot, InvalidateRow,
         ConsumeOTP, ResolveLogin, ResolveSignup, CreateUser, DeadlockVictim
  <1>2. ASSUME NEW k \in Code, Expire(k) \/ ResendWindowEnds(k)
        PROVE  Active(c)'
    <2>1. otp_codes[c] \in OtpRow
      BY <1>i, RowTyped DEF Active
    <2>2. \/ otp_codes'[c] = otp_codes[c]
          \/ otp_codes'[c] = [otp_codes[c] EXCEPT !.expired = TRUE]
          \/ otp_codes'[c] = [otp_codes[c] EXCEPT !.recent = FALSE]
      BY <1>i, <1>2 DEF Expire, ResendWindowEnds, Tables
    <2>3. otp_codes'[c] \in OtpRow /\ otp_codes'[c].consumed = otp_codes[c].consumed
      BY <2>1, <2>2 DEF OtpRow
    <2>4. QED
      BY <1>i, <2>3, NoRowIsNoRow DEF Active, Exists
  <1>3. CASE UNCHANGED otp_codes
    BY <1>i, <1>3 DEF Active, Exists
  <1>4. QED
    BY <1>1, <1>2, <1>3 DEF Next, Environment, Arrive, RequestOTP, VerifyOTP, Fail,
       RegisterElsewhere, SetUserBanned, vars

LEMMA BurningNext ==
    ASSUME LockInv, [Next]_vars
    PROVE  BurningSound'
  <1>i. Inv /\ Tables
    BY DEF LockInv, Inv
  <1> SUFFICES ASSUME NEW r \in Request, NEW c \in req'[r].burning
               PROVE  Active(c)' /\ c \notin req'[r].todo
    BY DEF BurningSound
  <1>1. ASSUME c \in req[r].burning, req'[r].pc = "invalidate"
        PROVE  Active(c)'
    BY <1>1, LockedRowStays
  <1>2. c \in req[r].burning => c \notin req[r].todo /\ At(r, "invalidate")
    BY <1>i DEF LockInv, BurningSound, Inv, RequestsSound, Sound, At
  <1>3. CASE Stays(r)
    BY <1>1, <1>2, <1>3 DEF Stays, At
  <1>4. CASE HoldsNothing(r)
    BY <1>4 DEF HoldsNothing
  <1>5. CASE At(r, "snapshot") /\ req'[r].burning = req[r].burning
    BY <1>2, <1>5 DEF At
  <1>6. ASSUME NEW k \in Code, InvalidateRow(r, k),
               req'[r].pc = "invalidate",
               req'[r].todo = req[r].todo \ {k},
               req'[r].burning =
                  IF Active(k) THEN req[r].burning \union {k} ELSE req[r].burning
        PROVE  Active(c)' /\ c \notin req'[r].todo
    <2>1. CASE c \in req[r].burning
      BY <1>1, <1>2, <1>6, <2>1
    <2>2. CASE c = k /\ Active(k)
      BY <1>6, <2>2 DEF InvalidateRow, Active, Exists
    <2>3. QED
      BY <1>6, <2>1, <2>2
  <1>7. CASE /\ req'[r].burning = req[r].burning
             /\ \/ ConsumeOTP(r)
                \/ At(r, "increment")
                \/ req[r].pc \in {"resolve", "insert"}
    BY <1>2, <1>7 DEF ConsumeOTP, At
  <1>8. QED
    BY <1>i, <1>3, <1>4, <1>5, <1>6, <1>7, SlotMoves

LEMMA LockInit == Init => LockInv
  <1>1. Init => LocksExclude /\ BurningSound
    BY DEF Init, LocksExclude, BurningSound, HoldsCode, Slot
  <1>2. QED
    BY <1>1, InitInv DEF LockInv

LEMMA LockNext == LockInv /\ [Next]_vars => LockInv'
  BY StepKeeps, LocksNext, BurningNext DEF LockInv

THEOREM LockInvariance == Spec => []LockInv
  BY LockInit, LockNext, PTL DEF Spec

-----------------------------------------------------------------------------
\* Deadlocks.

\* The requests of a cycle wait for rows, and those that hold one of them are code
\* requests: a verification waits for nothing more once it has locked its row.
LEMMA CycleOfRows ==
    ASSUME LockInv, NEW D \in SUBSET Request, WaitForEachOther(D), NEW r \in D
    PROVE  /\ req[r].pc \in {"increment", "burn_invalid", "burn_too_many", "consume",
                             "invalidate"}
           /\ \A c \in AwaitedRows(r) : Locked(r, c)
           /\ \E c \in AwaitedRows(r), q \in D \ {r} :
                 c \in req[q].burning /\ At(q, "invalidate")
  <1>1. ASSUME NEW q \in D
        PROVE  req[q].pc \notin {"commit", "resolve", "idle", "snapshot"}
    BY DEF WaitForEachOther, AwaitedRows, At
  <1>2. ASSUME NEW q \in D
        PROVE  /\ ~ At(q, "insert")
               /\ \A c \in AwaitedRows(q) : Locked(q, c)
               /\ \E c \in AwaitedRows(q), z \in D \ {q} : HoldsCode(z, c)
    BY <1>1 DEF WaitForEachOther, Inserts, AwaitedRows, At
  <1>3. ASSUME NEW q \in D, NEW c, HoldsCode(q, c)
        PROVE  c \in req[q].burning /\ At(q, "invalidate")
    BY <1>1, <1>2, <1>3 DEF HoldsCode, LockInv, Inv, RequestsSound, Sound, At
  <1>4. req[r].pc \in {"idle"} \union Waiting
    BY RequestTyped DEF LockInv, Inv
  <1>5. QED
    BY <1>1, <1>2, <1>3, <1>4 DEF Waiting, At

\* Code requests of one group are a cycle of their own.
LEMMA CyclesAreOfOneGroup ==
    ASSUME LockInv, NEW D \in SUBSET Request, Deadlock(D)
    PROVE  \E d \in Destination, p \in Purpose :
              \A r \in D : /\ At(r, "invalidate")
                           /\ req[r].destination = d /\ req[r].purpose = p
  <1>1. WaitForEachOther(D)
    BY DEF Deadlock
  <1>2. PICK q0 \in D : At(q0, "invalidate")
    <2>1. PICK r \in D : TRUE
      BY <1>1 DEF WaitForEachOther
    <2>2. QED
      BY <1>1, <2>1, CycleOfRows
  <1> DEFINE d == req[q0].destination
             p == req[q0].purpose
             E == {q \in D : /\ At(q, "invalidate")
                             /\ req[q].destination = d /\ req[q].purpose = p}
  <1>3. d \in Destination /\ p \in Purpose
    BY <1>2, RequestTyped DEF LockInv, Inv, RequestsSound, Sound, Asking, At
  <1>4. ASSUME NEW r \in E
        PROVE  /\ \A c \in AwaitedRows(r) : Locked(r, c)
               /\ \E c \in AwaitedRows(r), q \in E \ {r} : HoldsCode(q, c)
    <2>1. PICK c \in AwaitedRows(r), q \in D \ {r} :
             c \in req[q].burning /\ At(q, "invalidate")
      BY <1>1, CycleOfRows
    <2>2. c \in req[r].todo
      BY <2>1 DEF AwaitedRows, At
    <2>3. /\ c \in Group(req[r].destination, req[r].purpose)
          /\ c \in Group(req[q].destination, req[q].purpose)
      BY <2>1, <2>2 DEF LockInv, Inv, RequestsSound, Sound
    <2>4. q \in E \ {r}
      BY <2>1, <2>3 DEF Group
    <2>5. \A k \in AwaitedRows(r) : Locked(r, k)
      BY <1>1, CycleOfRows
    <2>6. QED
      BY <2>1, <2>4, <2>5 DEF HoldsCode
  <1>5. E \in SUBSET D /\ E # {}
    BY <1>2
  <1>6. WaitForEachOther(E)
    BY <1>4, <1>5 DEF WaitForEachOther
  <1>7. E = D
    BY <1>5, <1>6 DEF Deadlock
  <1>8. QED
    BY <1>3, <1>7

\* Of two that wait for each other, neither waits for what it has locked itself.
LEMMA TwoActiveCodes ==
    ASSUME LockInv, NEW D \in SUBSET Request, Deadlock(D),
           NEW d \in Destination, NEW p \in Purpose,
           \A r \in D : /\ At(r, "invalidate")
                        /\ req[r].destination = d /\ req[r].purpose = p
    PROVE  \E c, k \in Group(d, p) : c # k /\ Active(c) /\ Active(k)
  <1>1. WaitForEachOther(D)
    BY DEF Deadlock
  <1>2. ASSUME NEW r \in D
        PROVE  \E c \in req[r].todo, q \in D \ {r} : c \in req[q].burning
    <2>1. PICK c \in AwaitedRows(r), q \in D \ {r} : c \in req[q].burning
      BY <1>1, CycleOfRows
    <2>2. At(r, "invalidate")
      OBVIOUS
    <2>3. QED
      BY <2>1, <2>2 DEF AwaitedRows, At
  <1>3. ASSUME NEW q \in D, NEW c \in req[q].burning
        PROVE  Active(c) /\ c \notin req[q].todo /\ c \in Group(d, p)
    BY DEF LockInv, BurningSound, Inv, RequestsSound, Sound
  <1>4. PICK r \in D : TRUE
    BY <1>1 DEF WaitForEachOther
  <1>5. PICK q \in D : \E c \in req[q].burning : TRUE
    BY <1>2, <1>4
  <1>6. PICK c \in req[q].burning : TRUE
    BY <1>5
  <1>7. PICK k \in req[q].todo, z \in D : k \in req[z].burning
    BY <1>2
  <1>8. QED
    BY <1>3, <1>6, <1>7

\* Deadlocks are of code requests of one destination and purpose that has two
\* active codes; the victim is one of them and never a verification.
THEOREM DeadlocksOfRequests == Spec => []DeadlocksAreOfRequests
  <1>1. LockInv => DeadlocksAreOfRequests
    <2> SUFFICES ASSUME LockInv, NEW D \in SUBSET Request, Deadlock(D)
                 PROVE  \E d \in Destination, p \in Purpose :
                           /\ D \subseteq Requesting(d, p)
                           /\ \E c, k \in Group(d, p) : c # k /\ Active(c) /\ Active(k)
      BY DEF DeadlocksAreOfRequests
    <2>1. PICK d \in Destination, p \in Purpose :
             \A r \in D : /\ At(r, "invalidate")
                          /\ req[r].destination = d /\ req[r].purpose = p
      BY CyclesAreOfOneGroup
    <2>2. D \subseteq Requesting(d, p)
      BY <2>1 DEF Requesting, At
    <2>3. \E c, k \in Group(d, p) : c # k /\ Active(c) /\ Active(k)
      BY <2>1, TwoActiveCodes
    <2>4. QED
      BY <2>2, <2>3
  <1>2. QED
    BY <1>1, LockInvariance, PTL

-----------------------------------------------------------------------------
\* The end of a code that met its limit.

\* A row that nobody guesses at keeps its count, and stays consumed if it was.
LEMMA CountsGrowByGuesses ==
    ASSUME Inv, [Next]_vars, NEW c \in Code, Exists(c)',
           \A r \in Request : IncrementOTPAttempts(r) => req[r].code # c
    PROVE  \/ ~ Exists(c) /\ otp_codes'[c].attempts = 0
           \/ /\ Exists(c)
              /\ otp_codes'[c].attempts = otp_codes[c].attempts
              /\ otp_codes[c].consumed => otp_codes'[c].consumed
  <1>i. Tables
    BY DEF Inv
  <1>1. ASSUME Exists(c)
        PROVE  otp_codes[c] \in OtpRow
    BY <1>i, <1>1, RowTyped
  <1>2. CASE UNCHANGED otp_codes
    BY <1>2 DEF Exists
  <1>3. ASSUME NEW k \in Code, Expire(k) \/ ResendWindowEnds(k)
        PROVE  /\ Exists(c)
               /\ otp_codes'[c].attempts = otp_codes[c].attempts
               /\ otp_codes[c].consumed => otp_codes'[c].consumed
    <2>1. CASE k = c
      <3>1. Exists(c)
        BY <1>3, <2>1 DEF Expire, ResendWindowEnds
      <3>2. \/ otp_codes'[c] = [otp_codes[c] EXCEPT !.expired = TRUE]
            \/ otp_codes'[c] = [otp_codes[c] EXCEPT !.recent = FALSE]
        BY <1>i, <1>3, <2>1 DEF Expire, ResendWindowEnds, Tables
      <3>3. QED
        BY <1>1, <3>1, <3>2 DEF OtpRow
    <2>2. CASE k # c
      <3>1. otp_codes'[c] = otp_codes[c]
        BY <1>i, <1>3, <2>2 DEF Expire, ResendWindowEnds, Tables
      <3>2. QED
        BY <3>1 DEF Exists
    <2>3. QED
      BY <2>1, <2>2
  <1>4. ASSUME NEW r \in Request, NEW k \in Code, CreateOTP(r, k)
        PROVE  \/ ~ Exists(c) /\ otp_codes'[c].attempts = 0
               \/ /\ Exists(c)
                  /\ otp_codes'[c].attempts = otp_codes[c].attempts
                  /\ otp_codes[c].consumed => otp_codes'[c].consumed
    <2>1. CASE c = k
      <3>1. k \notin req[r].burning
        BY <1>4 DEF CreateOTP, Inv, RequestsSound, Sound, Group
      <3>2. otp_codes'[c] = NewRow(r)
        BY <1>4, <2>1, <3>1 DEF CreateOTP
      <3>3. QED
        BY <1>4, <2>1, <3>2 DEF NewRow, CreateOTP
    <2>2. CASE c # k /\ c \in req[r].burning
      <3>1. Exists(c)
        BY <1>4, <2>2 DEF Inv, RequestsSound, Sound, Group
      <3>2. otp_codes'[c] = [otp_codes[c] EXCEPT !.consumed = TRUE]
        BY <1>4, <2>2 DEF CreateOTP
      <3>3. QED
        BY <1>1, <3>1, <3>2 DEF OtpRow
    <2>3. CASE c # k /\ c \notin req[r].burning
      <3>1. otp_codes'[c] = otp_codes[c]
        BY <1>4, <2>3 DEF CreateOTP
      <3>2. QED
        BY <3>1 DEF Exists
    <2>4. QED
      BY <2>1, <2>2, <2>3
  <1>5. ASSUME NEW r \in Request, BurnOTP(r) \/ VerifyCommit(r) \/ IncrementOTPAttempts(r)
        PROVE  /\ Exists(c)
               /\ otp_codes'[c].attempts = otp_codes[c].attempts
               /\ otp_codes[c].consumed => otp_codes'[c].consumed
    <2>1. CASE req[r].code = c
      <3>1. Exists(c)
        BY <1>5, <2>1 DEF BurnOTP, VerifyCommit, IncrementOTPAttempts, At, Inv,
           RequestsSound, Sound, Verifying, Redeemers
      <3>2. otp_codes'[c] = [otp_codes[c] EXCEPT !.consumed = TRUE]
        BY <1>i, <1>5, <2>1 DEF BurnOTP, VerifyCommit, ConsumedAfter, Tables
      <3>3. QED
        BY <1>1, <3>1, <3>2 DEF OtpRow
    <2>2. CASE req[r].code # c
      <3>1. otp_codes'[c] = otp_codes[c]
        BY <1>i, <1>5, <2>2 DEF BurnOTP, VerifyCommit, IncrementOTPAttempts, Tables
      <3>2. QED
        BY <3>1 DEF Exists
    <2>3. QED
      BY <2>1, <2>2
  <1>6. QED
    BY <1>2, <1>3, <1>4, <1>5 DEF Next, Environment, Arrive, Proceed, RequestOTP,
       VerifyOTP, InvalidateSnapshot, InvalidateRow, ConsumeOTP, ResolveLogin,
       ResolveSignup, CreateUser, DeadlockVictim, Fail, RegisterElsewhere,
       SetUserBanned, vars

\* The request that is about to consume a code does so, if its statement does not
\* fail: nothing else ends it.
LEMMA BurnerBurns ==
    ASSUME LockInv, [Next]_vars, ~ Faults, NEW r \in Request, At(r, "burn_invalid")
    PROVE  \/ req'[r].pc = "burn_invalid" /\ req'[r].code = req[r].code
           \/ otp_codes'[req[r].code].consumed
  <1>i. Inv /\ Tables
    BY DEF LockInv, Inv
  <1>c. req[r].code \in Code /\ otp_codes[req[r].code] \in OtpRow
    BY <1>i, RowTyped DEF Inv, RequestsSound, Sound, Verifying, At
  <1>1. ASSUME NEW q \in Request \ {r}, Arrive(q) \/ Proceed(q) \/ Fail(q)
        PROVE  Stays(r)
    BY <1>i, <1>1, OthersStay
  <1>2. CASE Stays(r) \/ UNCHANGED req
    BY <1>2 DEF Stays, At
  <1>3. CASE BurnOTP(r)
    <2>1. otp_codes' = [otp_codes EXCEPT ![req[r].code].consumed = TRUE]
      BY <1>3 DEF BurnOTP
    <2>2. otp_codes'[req[r].code] = [otp_codes[req[r].code] EXCEPT !.consumed = TRUE]
      BY <1>i, <1>c, <2>1 DEF Tables
    <2>3. QED
      BY <1>c, <2>2 DEF OtpRow
  <1>4. ~ Arrive(r) /\ ~ Fail(r)
    BY DEF Arrive, RequestOTP, VerifyOTP, Idle, Fail, At
  <1>5. ~ DeadlockVictim(r)
    BY CyclesAreOfOneGroup DEF DeadlockVictim, At
  <1>6. Proceed(r) => BurnOTP(r)
    BY <1>5 DEF Proceed, InvalidateSnapshot, InvalidateRow, CreateOTP,
       IncrementOTPAttempts, ConsumeOTP, ResolveLogin, ResolveSignup, CreateUser,
       VerifyCommit, At
  <1>7. QED
    BY <1>1, <1>2, <1>3, <1>4, <1>6 DEF Next, Environment, Expire, ResendWindowEnds,
       RegisterElsewhere, SetUserBanned, vars

LEMMA ExhaustedNext ==
    ASSUME ~ Faults, LockInv, ExhaustedIsBurning, [Next]_vars
    PROVE  ExhaustedIsBurning'
  <1>i. Inv /\ Tables
    BY DEF LockInv, Inv
  <1> SUFFICES ASSUME NEW c \in Code, Exists(c)', otp_codes'[c].attempts >= otpMaxAttempts
               PROVE  \/ otp_codes'[c].consumed
                      \/ \E r \in Request : req'[r].pc = "burn_invalid" /\ req'[r].code = c
    BY DEF ExhaustedIsBurning, At
  <1>1. ASSUME NEW r \in Request, IncrementOTPAttempts(r), req[r].code = c
        PROVE  req'[r].pc = "burn_invalid" /\ req'[r].code = c
    <2>1. Exists(c) /\ otp_codes[c] \in OtpRow
      BY <1>i, <1>1, RowTyped DEF IncrementOTPAttempts, Inv, RequestsSound, Sound,
         Verifying, At
    <2>2. otp_codes'[c] = [otp_codes[c] EXCEPT !.attempts = otp_codes[c].attempts + 1]
      BY <1>i, <1>1 DEF IncrementOTPAttempts, Tables
    <2>3. otp_codes'[c].attempts = otp_codes[c].attempts + 1
      BY <2>1, <2>2 DEF OtpRow
    <2>4. Goto(r, "burn_invalid")
      BY <1>1, <2>3 DEF IncrementOTPAttempts, Exhausted
    <2>5. req[r] \in RequestState
      BY <1>i, RequestTyped
    <2>6. req'[r] = [req[r] EXCEPT !.pc = "burn_invalid"]
      BY <1>i, <2>4 DEF Goto, Tables
    <2>7. QED
      BY <1>1, <2>5, <2>6 DEF RequestState
  <1>2. CASE \A r \in Request : IncrementOTPAttempts(r) => req[r].code # c
    <2>1. otp_codes'[c].attempts # 0
      BY MaxAttemptsPositive
    <2>2. /\ Exists(c)
          /\ otp_codes'[c].attempts = otp_codes[c].attempts
          /\ otp_codes[c].consumed => otp_codes'[c].consumed
      BY <1>i, <1>2, <2>1, CountsGrowByGuesses
    <2>3. \/ otp_codes[c].consumed
          \/ \E r \in Request : At(r, "burn_invalid") /\ req[r].code = c
      BY <2>2 DEF ExhaustedIsBurning
    <2>4. QED
      BY <2>2, <2>3, BurnerBurns
  <1>3. QED
    BY <1>1, <1>2

\* Where statements do not fail, a code that met its limit is consumed or about to
\* be: the safety half of what ExhaustedIsBurned asks for.
THEOREM ExhaustedAreBurning ==
    ASSUME ~ Faults
    PROVE  Spec => []ExhaustedIsBurning
  <1>1. Init => ExhaustedIsBurning
    BY DEF Init, ExhaustedIsBurning, Exists
  <1>2. LockInv /\ ExhaustedIsBurning /\ [Next]_vars => ExhaustedIsBurning'
    BY ExhaustedNext
  <1>3. QED
    BY <1>1, <1>2, LockInvariance, PTL DEF Spec

-----------------------------------------------------------------------------
\* Where the guesses are.

\* The guesses that the row of a code has counted.
Counted(c) == IF Exists(c) THEN otp_codes[c].attempts ELSE 0

\* Every wrong guess that was let in has been counted, is about to be, or its count
\* was lost.
GuessCounts ==
    /\ guessed \in [Code -> Nat]
    /\ lost \in [Code -> Nat]
    /\ \A c \in Code : guessed[c] = Counted(c) + Cardinality(Guessing(c)) + lost[c]

LEMMA CountedTyped ==
    ASSUME Tables, NEW c \in Code
    PROVE  Counted(c) \in Nat
  BY RowTyped DEF Counted

\* Rows are not deleted.
LEMMA RowsRemain ==
    ASSUME Inv, [Next]_vars, NEW c \in Code, Exists(c)
    PROVE  Exists(c)'
  <1>i. Tables /\ otp_codes[c] \in OtpRow /\ otp_codes[c].attempts \in Nat
    BY RowTyped DEF Inv
  <1>1. /\ [otp_codes[c] EXCEPT !.consumed = TRUE] \in OtpRow
        /\ [otp_codes[c] EXCEPT !.expired = TRUE] \in OtpRow
        /\ [otp_codes[c] EXCEPT !.recent = FALSE] \in OtpRow
        /\ [otp_codes[c] EXCEPT !.attempts = otp_codes[c].attempts + 1] \in OtpRow
    <2>1. /\ [otp_codes[c] EXCEPT !.consumed = TRUE] \in OtpRow
          /\ [otp_codes[c] EXCEPT !.expired = TRUE] \in OtpRow
          /\ [otp_codes[c] EXCEPT !.recent = FALSE] \in OtpRow
      BY <1>i, Zenon DEF OtpRow
    <2>2. otp_codes[c].attempts + 1 \in Nat
      BY <1>i
    <2>3. [otp_codes[c] EXCEPT !.attempts = otp_codes[c].attempts + 1] \in OtpRow
      BY <1>i, <2>2, Zenon DEF OtpRow
    <2>4. QED
      BY <2>1, <2>3
  <1>2. SUFFICES \/ otp_codes'[c] = otp_codes[c]
                 \/ otp_codes'[c] = [otp_codes[c] EXCEPT !.consumed = TRUE]
                 \/ otp_codes'[c] = [otp_codes[c] EXCEPT !.expired = TRUE]
                 \/ otp_codes'[c] = [otp_codes[c] EXCEPT !.recent = FALSE]
                 \/ otp_codes'[c] =
                      [otp_codes[c] EXCEPT !.attempts = otp_codes[c].attempts + 1]
    BY <1>i, <1>1, NoRowIsNoRow DEF Exists
  <1>3. CASE UNCHANGED otp_codes
    BY <1>3
  <1>4. ASSUME NEW k \in Code, Expire(k) \/ ResendWindowEnds(k)
        PROVE  \/ otp_codes'[c] = otp_codes[c]
               \/ otp_codes'[c] = [otp_codes[c] EXCEPT !.expired = TRUE]
               \/ otp_codes'[c] = [otp_codes[c] EXCEPT !.recent = FALSE]
    BY <1>i, <1>4 DEF Expire, ResendWindowEnds, Tables
  <1>5. ASSUME NEW r \in Request, NEW k \in Code, CreateOTP(r, k)
        PROVE  \/ otp_codes'[c] = otp_codes[c]
               \/ otp_codes'[c] = [otp_codes[c] EXCEPT !.consumed = TRUE]
    <2>1. c # k
      BY <1>5 DEF CreateOTP
    <2>2. CASE c \in req[r].burning
      BY <1>5, <2>1, <2>2 DEF CreateOTP
    <2>3. CASE c \notin req[r].burning
      BY <1>5, <2>1, <2>3 DEF CreateOTP
    <2>4. QED
      BY <2>2, <2>3
  <1>6. ASSUME NEW r \in Request, BurnOTP(r) \/ VerifyCommit(r)
        PROVE  \/ otp_codes'[c] = otp_codes[c]
               \/ otp_codes'[c] = [otp_codes[c] EXCEPT !.consumed = TRUE]
    BY <1>i, <1>6 DEF BurnOTP, VerifyCommit, ConsumedAfter, Tables
  <1>7. ASSUME NEW r \in Request, IncrementOTPAttempts(r)
        PROVE  \/ otp_codes'[c] = otp_codes[c]
               \/ otp_codes'[c] =
                    [otp_codes[c] EXCEPT !.attempts = otp_codes[c].attempts + 1]
    BY <1>i, <1>7 DEF IncrementOTPAttempts, Tables
  <1>8. QED
    BY <1>3, <1>4, <1>5, <1>6, <1>7 DEF Next, Environment, Arrive, Proceed, RequestOTP,
       VerifyOTP, InvalidateSnapshot, InvalidateRow, ConsumeOTP, ResolveLogin,
       ResolveSignup, CreateUser, DeadlockVictim, Fail, RegisterElsewhere,
       SetUserBanned, vars

LEMMA CountedStays ==
    ASSUME Inv, [Next]_vars, NEW c \in Code,
           \A r \in Request : IncrementOTPAttempts(r) => req[r].code # c
    PROVE  Counted(c)' = Counted(c)
  <1>1. CASE Exists(c)'
    BY <1>1, CountsGrowByGuesses DEF Counted
  <1>2. CASE ~ Exists(c)'
    BY <1>2, RowsRemain DEF Counted
  <1>3. QED
    BY <1>1, <1>2

\* Who guesses at a code after a step that changes one slot.
LEMMA GuessersChange ==
    ASSUME Tables, NEW r \in Request, NEW x, req' = [req EXCEPT ![r] = x], NEW c
    PROVE  /\ x.pc = "increment" /\ x.code = c => Guessing(c)' = Guessing(c) \union {r}
           /\ ~ (x.pc = "increment" /\ x.code = c) => Guessing(c)' = Guessing(c) \ {r}
  <1>1. \A q \in Request : req'[q] = IF q = r THEN x ELSE req[q]
    BY SlotChanges
  <1>2. QED
    BY <1>1 DEF Guessing, At

\* A guess is let in.
LEMMA GuessIsLetIn ==
    ASSUME Inv, GuessCounts, [Next]_vars, NEW r \in Request, NEW k \in Code,
           NEW codeMatches \in BOOLEAN, VerifyOTP(r, k, codeMatches), NEW c \in Code
    PROVE  guessed'[c] = Counted(c)' + Cardinality(Guessing(c)') + lost'[c]
  <1> DEFINE begin(label) == [Slot(label) EXCEPT !.code = k,
                                !.destination = otp_codes[k].destination,
                                !.purpose = otp_codes[k].purpose,
                                !.late = redeemed[k] > 0]
  <1> DEFINE letIn == /\ ~ Spent(otp_codes[k]) /\ ~ otp_codes[k].expired
                      /\ StillGuessable(otp_codes[k]) /\ ~ codeMatches
  <1>i. Tables
    BY DEF Inv
  <1>1. \A label : begin(label).pc = label /\ begin(label).code = k
    BY DEF Slot
  <1>2. Slot("idle").pc = "idle"
    BY DEF Slot
  <1>3. /\ letIn => req' = [req EXCEPT ![r] = begin("increment")]
        /\ ~ letIn => \/ req' = [req EXCEPT ![r] = Slot("idle")]
                      \/ req' = [req EXCEPT ![r] = begin("burn_too_many")]
                      \/ req' = [req EXCEPT ![r] = begin("consume")]
    BY DEF VerifyOTP, Answer
  <1>4. guessed'[c] = IF c = k /\ letIn THEN guessed[c] + 1 ELSE guessed[c]
    BY DEF VerifyOTP, GuessCounts
  <1>5. lost' = lost /\ Counted(c)' = Counted(c)
    BY DEF VerifyOTP, Counted, Exists
  <1>6. r \notin Guessing(c)
    BY DEF VerifyOTP, Idle, At, Guessing
  <1> HIDE DEF begin, letIn
  <1>7. /\ c = k /\ letIn => Guessing(c)' = Guessing(c) \union {r}
        /\ ~ (c = k /\ letIn) => Guessing(c)' = Guessing(c)
    <2>1. CASE letIn
      <3>1. PICK x : x = begin("increment")
        OBVIOUS
      <3>2. x.pc = "increment" /\ x.code = k /\ req' = [req EXCEPT ![r] = x]
        BY <1>1, <1>3, <2>1, <3>1
      <3>3. /\ c = k => Guessing(c)' = Guessing(c) \union {r}
            /\ c # k => Guessing(c)' = Guessing(c) \ {r}
        BY <1>i, <3>2, GuessersChange
      <3>4. QED
        BY <1>6, <2>1, <3>3
    <2>2. CASE ~ letIn
      <3>1. PICK x : x.pc # "increment" /\ req' = [req EXCEPT ![r] = x]
        <4>1. /\ Slot("idle").pc # "increment"
              /\ begin("burn_too_many").pc # "increment"
              /\ begin("consume").pc # "increment"
          BY <1>1, <1>2
        <4>2. QED
          BY <1>3, <2>2, <4>1
      <3>2. Guessing(c)' = Guessing(c) \ {r}
        BY <1>i, <3>1, GuessersChange
      <3>3. QED
        BY <1>6, <2>2, <3>2
    <2>3. QED
      BY <2>1, <2>2
  <1>8. /\ guessed[c] = Counted(c) + Cardinality(Guessing(c)) + lost[c]
        /\ Counted(c) \in Nat /\ Cardinality(Guessing(c)) \in Nat /\ lost[c] \in Nat
    BY <1>i, CountedTyped, CountsAreFinite DEF GuessCounts
  <1>9. IsFiniteSet(Guessing(c))
    BY CountsAreFinite
  <1>10. c = k /\ letIn => Cardinality(Guessing(c)') = Cardinality(Guessing(c)) + 1
    BY <1>6, <1>7, <1>9, FS_AddElement, Zenon
  <1>11. ~ (c = k /\ letIn) => Cardinality(Guessing(c)') = Cardinality(Guessing(c))
    BY <1>7
  <1>12. QED
    BY <1>4, <1>5, <1>8, <1>10, <1>11

\* A guess is counted.
LEMMA GuessIsCounted ==
    ASSUME Inv, GuessCounts, [Next]_vars, NEW r \in Request,
           IncrementOTPAttempts(r), NEW c \in Code
    PROVE  guessed'[c] = Counted(c)' + Cardinality(Guessing(c)') + lost'[c]
  <1> DEFINE k == req[r].code
  <1>i. Tables /\ req[r] \in RequestState
    BY RequestTyped DEF Inv
  <1>1. At(r, "increment") /\ k \in Code /\ Exists(k) /\ otp_codes[k] \in OtpRow
    BY <1>i, RowTyped DEF Inv, RequestsSound, Sound, Verifying, At, IncrementOTPAttempts
  <1>2. PICK x : req' = [req EXCEPT ![r] = x] /\ x.pc # "increment"
    <2>1. CASE Goto(r, "burn_invalid")
      <3>1. [req[r] EXCEPT !.pc = "burn_invalid"].pc # "increment"
        BY <1>i DEF RequestState
      <3>2. QED
        BY <2>1, <3>1 DEF Goto
    <2>2. CASE Answer(r, "invalid")
      <3>1. Slot("idle").pc # "increment"
        BY DEF Slot
      <3>2. QED
        BY <2>2, <3>1 DEF Answer
    <2>3. QED
      BY <2>1, <2>2 DEF IncrementOTPAttempts
  <1>3. Guessing(c)' = Guessing(c) \ {r}
    BY <1>i, <1>2, GuessersChange
  <1>4. guessed' = guessed /\ lost' = lost
    BY DEF IncrementOTPAttempts
  <1>5. r \in Guessing(c) <=> c = k
    BY <1>1 DEF Guessing
  <1>6. c = k => Counted(c)' = Counted(c) + 1
    <2>1. SUFFICES ASSUME c = k PROVE Counted(c)' = Counted(c) + 1
      OBVIOUS
    <2>2. otp_codes'[c] = [otp_codes[c] EXCEPT !.attempts = otp_codes[c].attempts + 1]
      BY <1>i, <2>1 DEF IncrementOTPAttempts, Tables
    <2>3. otp_codes'[c].attempts = otp_codes[c].attempts + 1
      BY <1>1, <2>1, <2>2 DEF OtpRow
    <2>4. Exists(c)'
      BY <1>1, <2>1, RowsRemain
    <2>5. QED
      BY <1>1, <2>1, <2>3, <2>4 DEF Counted
  <1>7. c # k => Counted(c)' = Counted(c)
    <2>1. c # k => otp_codes'[c] = otp_codes[c]
      BY <1>i DEF IncrementOTPAttempts, Tables
    <2>2. QED
      BY <2>1 DEF Counted, Exists
  <1> HIDE DEF k
  <1>8. /\ guessed[c] = Counted(c) + Cardinality(Guessing(c)) + lost[c]
        /\ Counted(c) \in Nat /\ Cardinality(Guessing(c)) \in Nat /\ lost[c] \in Nat
    BY <1>i, CountedTyped, CountsAreFinite DEF GuessCounts
  <1>9. IsFiniteSet(Guessing(c))
    BY CountsAreFinite
  <1>10. Cardinality(Guessing(c)') =
            IF c = k THEN Cardinality(Guessing(c)) - 1 ELSE Cardinality(Guessing(c))
    BY <1>3, <1>5, <1>9, FS_RemoveElement, Zenon
  <1>11. QED
    BY <1>4, <1>6, <1>7, <1>8, <1>10

\* A guess may lose its count with the request.
LEMMA GuessIsLost ==
    ASSUME Inv, GuessCounts, [Next]_vars, NEW r \in Request,
           Fail(r) \/ DeadlockVictim(r), NEW c \in Code
    PROVE  guessed'[c] = Counted(c)' + Cardinality(Guessing(c)') + lost'[c]
  <1>i. Tables
    BY DEF Inv
  <1>1. req' = [req EXCEPT ![r] = Slot("idle")] /\ Slot("idle").pc = "idle"
    BY DEF Fail, DeadlockVictim, Answer, Slot
  <1>2. Guessing(c)' = Guessing(c) \ {r}
    BY <1>i, <1>1, GuessersChange
  <1>3. guessed' = guessed /\ Counted(c)' = Counted(c)
    BY DEF Fail, DeadlockVictim, Counted, Exists
  <1>4. lost'[c] = IF r \in Guessing(c) THEN lost[c] + 1 ELSE lost[c]
    BY DEF Fail, DeadlockVictim, LoseCount, Guessing, GuessCounts
  <1>5. /\ guessed[c] = Counted(c) + Cardinality(Guessing(c)) + lost[c]
        /\ Counted(c) \in Nat /\ Cardinality(Guessing(c)) \in Nat /\ lost[c] \in Nat
    BY <1>i, CountedTyped, CountsAreFinite DEF GuessCounts
  <1>6. IsFiniteSet(Guessing(c))
    BY CountsAreFinite
  <1>7. Cardinality(Guessing(c)') =
            IF r \in Guessing(c) THEN Cardinality(Guessing(c)) - 1 ELSE Cardinality(Guessing(c))
    BY <1>2, <1>6, FS_RemoveElement, Zenon
  <1>8. QED
    BY <1>3, <1>4, <1>5, <1>7

\* Every other step leaves the guesses where they are.
LEMMA GuessesStay ==
    ASSUME Inv, [Next]_vars, NEW c \in Code,
           \A r \in Request :
              /\ \A k \in Code, codeMatches \in BOOLEAN : ~ VerifyOTP(r, k, codeMatches)
              /\ ~ IncrementOTPAttempts(r) /\ ~ Fail(r) /\ ~ DeadlockVictim(r)
    PROVE  /\ guessed' = guessed /\ lost' = lost
           /\ Counted(c)' = Counted(c)
           /\ Guessing(c)' = Guessing(c)
  <1>i. Tables
    BY DEF Inv
  <1>1. guessed' = guessed /\ lost' = lost
    BY DEF Next, Environment, Arrive, Proceed, RequestOTP, InvalidateSnapshot,
       InvalidateRow, CreateOTP, BurnOTP, ConsumeOTP, ResolveLogin, ResolveSignup,
       CreateUser, VerifyCommit, Expire, ResendWindowEnds, RegisterElsewhere,
       SetUserBanned, vars
  <1>2. Counted(c)' = Counted(c)
    BY CountedStays
  <1>3. ASSUME NEW r \in Request, NEW x, req' = [req EXCEPT ![r] = x],
               x.pc # "increment", ~ At(r, "increment")
        PROVE  Guessing(c)' = Guessing(c)
    <2>1. Guessing(c)' = Guessing(c) \ {r}
      BY <1>i, <1>3, GuessersChange
    <2>2. r \notin Guessing(c)
      BY <1>3 DEF Guessing
    <2>3. QED
      BY <2>1, <2>2
  <1>4. ASSUME NEW r \in Request, NEW verdict, Answer(r, verdict), ~ At(r, "increment")
        PROVE  Guessing(c)' = Guessing(c)
    <2>1. Slot("idle").pc # "increment"
      BY DEF Slot
    <2>2. QED
      BY <1>3, <1>4, <2>1 DEF Answer
  <1>5. ASSUME NEW r \in Request, NEW label, Goto(r, label), label # "increment",
               ~ At(r, "increment")
        PROVE  Guessing(c)' = Guessing(c)
    <2>1. [req[r] EXCEPT !.pc = label].pc = label
      BY <1>i, RequestTyped DEF RequestState
    <2>2. QED
      BY <1>3, <1>5, <2>1 DEF Goto
  <1>6. ASSUME NEW r \in Request, NEW d \in Destination, NEW p \in Purpose,
               RequestOTP(r, d, p)
        PROVE  Guessing(c)' = Guessing(c)
    <2>1. \A q \in Request \ {r} : Stays(q)
      BY <1>i, <1>6, OthersStay DEF Arrive
    <2>2. ~ At(r, "increment")
      BY <1>6 DEF RequestOTP, Idle, At
    <2>3. req'[r].pc \in {"idle", "snapshot"}
      <3>1. CASE Answer(r, "throttled")
        BY <1>i, <3>1 DEF Answer, Slot, Tables
      <3>2. CASE ~ Answer(r, "throttled")
        <4> DEFINE begin == [Slot("snapshot") EXCEPT !.destination = d, !.purpose = p,
                                                     !.met = Requesting(d, p) # {}]
        <4>1. req'[r] = begin
          <5>1. req' = [q \in Request |->
                  CASE q = r -> begin
                    [] q \in Requesting(d, p) -> [req[q] EXCEPT !.met = TRUE]
                    [] OTHER -> req[q]]
            BY <1>6, <3>2 DEF RequestOTP
          <5>2. r \notin Requesting(d, p)
            BY <1>6 DEF RequestOTP, Idle, At, Requesting
          <5> HIDE DEF begin
          <5>3. QED
            BY <5>1, <5>2
        <4>2. begin.pc = "snapshot"
          BY DEF Slot
        <4> HIDE DEF begin
        <4>3. QED
          BY <4>1, <4>2
      <3>3. QED
        BY <3>1, <3>2
    <2>4. \A q \in Request : (req'[q].pc = "increment" /\ req'[q].code = c)
                                <=> (req[q].pc = "increment" /\ req[q].code = c)
      BY <2>1, <2>2, <2>3 DEF Stays, At
    <2>5. QED
      BY <2>4 DEF Guessing, At
  <1>7. ASSUME NEW r \in Request, InvalidateSnapshot(r)
        PROVE  Guessing(c)' = Guessing(c)
    <2> DEFINE x == [req[r] EXCEPT !.pc = "invalidate",
                       !.todo = ToBurn(req[r].destination, req[r].purpose)]
    <2>1. x.pc = "invalidate"
      BY <1>i, RequestTyped DEF RequestState
    <2>2. req' = [req EXCEPT ![r] = x] /\ ~ At(r, "increment")
      BY <1>7 DEF InvalidateSnapshot, At
    <2> HIDE DEF x
    <2>3. QED
      BY <1>3, <2>1, <2>2
  <1>8. ASSUME NEW r \in Request, NEW k \in Code, InvalidateRow(r, k)
        PROVE  Guessing(c)' = Guessing(c)
    <2> DEFINE x == [req[r] EXCEPT !.todo = @ \ {k},
                       !.burning = IF Active(k) THEN @ \union {k} ELSE @]
    <2>1. x.pc = req[r].pc
      BY <1>i, RequestTyped DEF RequestState
    <2>2. req' = [req EXCEPT ![r] = x] /\ req[r].pc = "invalidate"
      BY <1>8 DEF InvalidateRow, At
    <2> HIDE DEF x
    <2>3. QED
      BY <1>3, <2>1, <2>2 DEF At
  <1>9. ASSUME NEW r \in Request,
               (\E k \in Code : CreateOTP(r, k)) \/ BurnOTP(r) \/ ConsumeOTP(r)
                 \/ ResolveLogin(r) \/ ResolveSignup(r) \/ CreateUser(r) \/ VerifyCommit(r)
        PROVE  Guessing(c)' = Guessing(c)
    <2>1. ~ At(r, "increment")
      BY <1>9 DEF CreateOTP, BurnOTP, ConsumeOTP, ResolveLogin, ResolveSignup,
         CreateUser, VerifyCommit, At
    <2>2. \/ \E verdict : Answer(r, verdict)
          \/ \E label \in {"resolve", "insert", "commit"} : Goto(r, label)
      BY <1>9 DEF CreateOTP, BurnOTP, ConsumeOTP, ResolveLogin, ResolveSignup,
         CreateUser, VerifyCommit
    <2>3. QED
      BY <1>4, <1>5, <2>1, <2>2
  <1>10. UNCHANGED req => Guessing(c)' = Guessing(c)
    BY DEF Guessing, At
  <1>11. Guessing(c)' = Guessing(c)
    BY <1>6, <1>7, <1>8, <1>9, <1>10 DEF Next, Environment, Arrive, Proceed, Expire,
       ResendWindowEnds, RegisterElsewhere, SetUserBanned, vars
  <1>12. QED
    BY <1>1, <1>2, <1>11

LEMMA GuessCountsNext ==
    ASSUME Inv, GuessCounts, [Next]_vars
    PROVE  GuessCounts'
  <1>1. guessed' \in [Code -> Nat] /\ lost' \in [Code -> Nat]
    <2>1. ASSUME NEW r \in Request, NEW k \in Code, NEW codeMatches \in BOOLEAN,
                 VerifyOTP(r, k, codeMatches)
          PROVE  guessed' \in [Code -> Nat] /\ lost' \in [Code -> Nat]
      BY <2>1 DEF VerifyOTP, GuessCounts
    <2>2. ASSUME NEW r \in Request, Fail(r) \/ DeadlockVictim(r)
          PROVE  guessed' \in [Code -> Nat] /\ lost' \in [Code -> Nat]
      BY <2>2 DEF Fail, DeadlockVictim, LoseCount, GuessCounts
    <2>3. QED
      BY <2>1, <2>2 DEF GuessCounts, Next, Environment, Arrive, Proceed, RequestOTP,
         InvalidateSnapshot, InvalidateRow, CreateOTP, IncrementOTPAttempts, BurnOTP,
         ConsumeOTP, ResolveLogin, ResolveSignup, CreateUser, VerifyCommit, Expire,
         ResendWindowEnds, RegisterElsewhere, SetUserBanned, vars
  <1>2. ASSUME NEW c \in Code
        PROVE  guessed'[c] = Counted(c)' + Cardinality(Guessing(c)') + lost'[c]
    <2>1. CASE \A r \in Request :
                 /\ \A k \in Code, codeMatches \in BOOLEAN : ~ VerifyOTP(r, k, codeMatches)
                 /\ ~ IncrementOTPAttempts(r) /\ ~ Fail(r) /\ ~ DeadlockVictim(r)
      BY <2>1, GuessesStay DEF GuessCounts
    <2>2. QED
      BY <2>1, GuessIsLetIn, GuessIsCounted, GuessIsLost
  <1>3. QED
    BY <1>1, <1>2 DEF GuessCounts

LEMMA GuessCountsInit == Init => GuessCounts
  <1> SUFFICES ASSUME Init, NEW c \in Code
               PROVE  0 = Counted(c) + Cardinality(Guessing(c)) + 0
    BY DEF Init, GuessCounts
  <1>1. Counted(c) = 0
    BY DEF Init, Counted, Exists
  <1>2. Guessing(c) = {}
    BY DEF Init, Guessing, At, Slot
  <1>3. QED
    BY <1>1, <1>2, FS_EmptySet

\* The histories of the guesses agree with the rows in every reachable state.
THEOREM GuessInvariance == Spec => []GuessCounts
  BY GuessCountsInit, GuessCountsNext, Invariance, PTL DEF Spec

\* Every variable has its type, in every reachable state.
THEOREM TypeCorrectness == Spec => []TypeOK
  <1>1. Inv /\ GuessCounts => TypeOK
    BY DEF Inv, Tables, GuessCounts, TypeOK
  <1>2. QED
    BY <1>1, Invariance, GuessInvariance, PTL

\* Fewer wrong guesses meet the hash of a code than its limit, the number of
\* requests and that of the lost counts together, however many of them were let in
\* side by side.
THEOREM GuessesAreBounded == Spec => []GuessesBounded
  <1>1. Inv /\ GuessCounts => GuessesBounded
    <2> SUFFICES ASSUME Inv, GuessCounts, NEW c \in Code, Exists(c)
                 PROVE  guessed[c] < otpMaxAttempts + Cardinality(Request) + lost[c]
      BY DEF GuessesBounded
    <2>1. /\ otp_codes[c].attempts \in Nat
          /\ otp_codes[c].attempts + Cardinality(Guessing(c))
                 < otpMaxAttempts + Cardinality(Request)
      BY RowTyped DEF Inv, Budgets
    <2>2. Cardinality(Guessing(c)) \in Nat /\ Cardinality(Request) \in Nat
      BY CountsAreFinite
    <2>3. /\ guessed[c] = otp_codes[c].attempts + Cardinality(Guessing(c)) + lost[c]
          /\ lost[c] \in Nat
      BY DEF GuessCounts, Counted
    <2>4. QED
      BY <2>1, <2>2, <2>3, MaxAttemptsPositive
  <1>2. QED
    BY <1>1, Invariance, GuessInvariance, PTL

-----------------------------------------------------------------------------
\* Who redeems a code.

\* A verification on its way to a session read the row before the first session.
NoneLate == \A r \in Request : req[r].pc \in Redeemers => ~ req[r].late

LEMMA NoneLateNext ==
    ASSUME Inv, NoneLate, [Next]_vars
    PROVE  NoneLate'
  <1> SUFFICES ASSUME NEW r \in Request, req'[r].pc \in Redeemers
               PROVE  ~ req'[r].late
    BY DEF NoneLate
  <1>i. Tables /\ req[r] \in RequestState
    BY RequestTyped DEF Inv
  <1>1. CASE Stays(r) \/ UNCHANGED req
    BY <1>1 DEF Stays, NoneLate
  <1>2. ASSUME NEW q \in Request \ {r}, Arrive(q) \/ Proceed(q) \/ Fail(q)
        PROVE  Stays(r)
    BY <1>i, <1>2, OthersStay
  <1>3. ASSUME NEW x, req' = [req EXCEPT ![r] = x]
        PROVE  req'[r] = x
    BY <1>i, <1>3 DEF Tables
  <1>4. ASSUME NEW verdict, Answer(r, verdict)
        PROVE  FALSE
    <2>1. Slot("idle").pc = "idle"
      BY DEF Slot
    <2>2. req'[r] = Slot("idle")
      BY <1>3, <1>4 DEF Answer
    <2>3. QED
      BY <2>1, <2>2 DEF Redeemers
  <1>5. ASSUME NEW label, Goto(r, label), req[r].pc \in Redeemers
        PROVE  ~ req'[r].late
    <2>1. req'[r] = [req[r] EXCEPT !.pc = label]
      BY <1>3, <1>5 DEF Goto
    <2>2. QED
      BY <1>i, <1>5, <2>1 DEF NoneLate, RequestState
  <1>6. ASSUME NEW c \in Code, NEW codeMatches \in BOOLEAN, VerifyOTP(r, c, codeMatches)
        PROVE  ~ req'[r].late
    <2> DEFINE begin(label) == [Slot(label) EXCEPT !.code = c,
                                  !.destination = otp_codes[c].destination,
                                  !.purpose = otp_codes[c].purpose,
                                  !.late = redeemed[c] > 0]
    <2>1. \A label : begin(label).pc = label /\ begin(label).late = (redeemed[c] > 0)
      BY DEF Slot
    <2>2. \/ req'[r] = Slot("idle")
          \/ req'[r] = begin("burn_too_many")
          \/ req'[r] = begin("increment")
          \/ req'[r] = begin("consume") /\ ~ otp_codes[c].consumed
      BY <1>3, <1>6 DEF VerifyOTP, Answer, Spent
    <2>3. ~ otp_codes[c].consumed => ~ (redeemed[c] > 0)
      BY DEF Inv, RedeemedIsConsumed
    <2>4. Slot("idle").pc = "idle"
      BY DEF Slot
    <2> HIDE DEF begin
    <2>5. QED
      BY <2>1, <2>2, <2>3, <2>4 DEF Redeemers
  <1>7. ASSUME NEW d \in Destination, NEW p \in Purpose, RequestOTP(r, d, p)
        PROVE  FALSE
    <2>1. HoldsNothing(r) /\ ~ At(r, "consume")
      BY <1>i, <1>7, ArriveHoldsNothing DEF Arrive, RequestOTP, Idle, At
    <2>2. CASE Answer(r, "throttled")
      BY <1>4, <2>2
    <2>3. CASE ~ Answer(r, "throttled")
      <3> DEFINE begin == [Slot("snapshot") EXCEPT !.destination = d, !.purpose = p,
                                                   !.met = Requesting(d, p) # {}]
      <3>1. req' = [q \in Request |->
              CASE q = r -> begin
                [] q \in Requesting(d, p) -> [req[q] EXCEPT !.met = TRUE]
                [] OTHER -> req[q]]
        BY <1>7, <2>3 DEF RequestOTP
      <3>2. r \notin Requesting(d, p)
        BY <1>7 DEF RequestOTP, Idle, At, Requesting
      <3>3. begin.pc = "snapshot"
        BY DEF Slot
      <3> HIDE DEF begin
      <3>4. req'[r] = begin
        BY <3>1, <3>2
      <3>5. QED
        BY <3>3, <3>4 DEF Redeemers
    <2>4. QED
      BY <2>2, <2>3
  <1>8. CASE InvalidateSnapshot(r) \/ \E c \in Code : InvalidateRow(r, c)
    <2>1. req'[r].pc = "invalidate"
      BY <1>i, <1>3, <1>8 DEF InvalidateSnapshot, InvalidateRow, At, RequestState, Tables
    <2>2. QED
      BY <2>1 DEF Redeemers
  <1>9. CASE IncrementOTPAttempts(r)
    <2>1. Goto(r, "burn_invalid") \/ Answer(r, "invalid")
      BY <1>9 DEF IncrementOTPAttempts
    <2>2. Goto(r, "burn_invalid") => req'[r].pc = "burn_invalid"
      BY <1>i DEF Goto, Tables, RequestState
    <2>3. QED
      BY <1>4, <2>1, <2>2 DEF Redeemers
  <1>10. CASE ConsumeOTP(r) \/ ResolveLogin(r) \/ ResolveSignup(r) \/ CreateUser(r)
    <2>1. req[r].pc \in Redeemers
      BY <1>10 DEF ConsumeOTP, ResolveLogin, ResolveSignup, CreateUser, At, Redeemers
    <2>2. (\E verdict : Answer(r, verdict)) \/ (\E label : Goto(r, label))
      BY <1>10 DEF ConsumeOTP, ResolveLogin, ResolveSignup, CreateUser
    <2>3. QED
      BY <1>4, <1>5, <2>1, <2>2
  <1>11. ~ (\E c \in Code : CreateOTP(r, c)) /\ ~ BurnOTP(r) /\ ~ VerifyCommit(r)
           /\ ~ DeadlockVictim(r) /\ ~ Fail(r)
    BY <1>4 DEF CreateOTP, BurnOTP, VerifyCommit, DeadlockVictim, Fail
  <1>12. Arrive(r) \/ Proceed(r) \/ Fail(r) => ~ req'[r].late
    BY <1>6, <1>7, <1>8, <1>9, <1>10, <1>11 DEF Arrive, Proceed
  <1>13. QED
    BY <1>1, <1>2, <1>12 DEF Next, Environment, Expire, ResendWindowEnds,
       RegisterElsewhere, SetUserBanned, vars

\* A code opens a second session only to a verification that had read the row
\* before the first one was there, and no more of them than requests overlap.
THEOREM CodesOnceUnlessOverlapping == Spec => OneTimeUnlessOverlapping
  <1>1. Init => NoneLate
    BY DEF Init, NoneLate, Slot, Redeemers
  <1>2. ASSUME Inv, NoneLate, NEW r \in Request, VerifyCommit(r)
        PROVE  ~ req[r].late /\ redeemed[req[r].code] < Cardinality(Request)
    <2> DEFINE c == req[r].code
    <2>1. req[r].pc \in Redeemers
      BY <1>2 DEF VerifyCommit, At, Redeemers
    <2>2. c \in Code /\ r \in Redeeming(c)
      BY <1>2, <2>1 DEF Inv, RequestsSound, Sound, Verifying, Redeeming
    <2>3. /\ redeemed[c] \in Nat
          /\ redeemed[c] + Cardinality(Redeeming(c)) <= Cardinality(Request)
      BY <1>2, <2>2 DEF Inv, Tables, Budgets
    <2>4. IsFiniteSet(Redeeming(c)) /\ Cardinality(Redeeming(c)) \in Nat
            /\ Cardinality(Request) \in Nat
      BY CountsAreFinite
    <2>5. Cardinality(Redeeming(c)) # 0
      BY <2>2, <2>4, FS_EmptySet
    <2>6. QED
      BY <1>2, <2>1, <2>3, <2>4, <2>5 DEF NoneLate
  <1>3. Inv /\ NoneLate => [\A r \in Request : VerifyCommit(r) =>
            ~ req[r].late /\ redeemed[req[r].code] < Cardinality(Request)]_vars
    BY <1>2
  <1>4. QED
    BY <1>1, <1>3, NoneLateNext, Invariance, PTL DEF Spec, OneTimeUnlessOverlapping

-----------------------------------------------------------------------------
\* Requests served in turn.

\* No request has met another one, so every code is of a request that was alone.
InTurn ==
    /\ \A r \in Request : ~ req[r].met
    /\ \A c \in Code : Exists(c) => c \in alone

\* A row appears by CreateOTP.
LEMMA NewRows ==
    ASSUME Inv, [Next]_vars, NEW c \in Code, ~ Exists(c), Exists(c)'
    PROVE  \E r \in Request : CreateOTP(r, c)
  <1>i. Tables /\ otp_codes'[c] # otp_codes[c]
    BY DEF Inv, Exists
  <1>1. ASSUME NEW r \in Request, BurnOTP(r) \/ VerifyCommit(r) \/ IncrementOTPAttempts(r)
        PROVE  FALSE
    <2>1. req[r].code # c
      BY <1>1 DEF BurnOTP, VerifyCommit, IncrementOTPAttempts, At, Inv, RequestsSound,
         Sound, Verifying, Redeemers
    <2>2. QED
      BY <1>i, <1>1, <2>1 DEF BurnOTP, VerifyCommit, IncrementOTPAttempts, Tables
  <1>2. ASSUME NEW r \in Request, NEW k \in Code, CreateOTP(r, k)
        PROVE  c = k
    <2>1. c \notin req[r].burning
      BY DEF Inv, RequestsSound, Sound, Group
    <2>2. QED
      BY <1>i, <1>2, <2>1 DEF CreateOTP
  <1>3. ASSUME NEW k \in Code, Expire(k) \/ ResendWindowEnds(k)
        PROVE  FALSE
    BY <1>i, <1>3 DEF Expire, ResendWindowEnds, Tables
  <1>4. QED
    BY <1>i, <1>1, <1>2, <1>3 DEF Next, Environment, Arrive, Proceed, RequestOTP,
       VerifyOTP, InvalidateSnapshot, InvalidateRow, ConsumeOTP, ResolveLogin,
       ResolveSignup, CreateUser, DeadlockVictim, Fail, RegisterElsewhere,
       SetUserBanned, vars

LEMMA InTurnNext ==
    ASSUME \A q, r \in Request : q = r, Inv, InTurn, [Next]_vars
    PROVE  InTurn'
  <1>i. Tables
    BY DEF Inv
  <1>1. ASSUME NEW r \in Request
        PROVE  ~ req'[r].met
    <2>1. req[r] \in RequestState /\ ~ req[r].met
      BY <1>i, RequestTyped DEF InTurn
    <2>2. ~ Slot("idle").met
      BY DEF Slot
    <2>3. ASSUME NEW x \in RequestState, ~ x.met, req' = [req EXCEPT ![r] = x]
          PROVE  ~ req'[r].met
      BY <1>i, <2>3 DEF Tables
    <2>4. ASSUME NEW verdict, Answer(r, verdict)
          PROVE  ~ req'[r].met
      BY <2>2, <2>3, <2>4, SlotTyped DEF Answer
    <2>5. CASE \E d \in Destination, p \in Purpose : RequestOTP(r, d, p)
      <3>1. PICK d \in Destination, p \in Purpose : RequestOTP(r, d, p)
        BY <2>5
      <3> DEFINE x == [Slot("snapshot") EXCEPT !.destination = d, !.purpose = p,
                                               !.met = Requesting(d, p) # {}]
      <3>2. Requesting(d, p) = {}
        BY <3>1 DEF RequestOTP, Idle, At, Requesting
      <3>3. ~ x.met
        BY <3>2 DEF Slot
      <3>4. CASE ~ Throttled(d, p)
        <4>1. req' = [q \in Request |->
                CASE q = r -> x
                  [] q \in Requesting(d, p) -> [req[q] EXCEPT !.met = TRUE]
                  [] OTHER -> req[q]]
          BY <3>1, <3>4 DEF RequestOTP
        <4> HIDE DEF x
        <4>2. req'[r] = x
          BY <3>2, <4>1
        <4>3. QED
          BY <3>3, <4>2
      <3>5. QED
        BY <2>4, <3>1, <3>4 DEF RequestOTP
    <2>6. CASE \E c \in Code, codeMatches \in BOOLEAN : VerifyOTP(r, c, codeMatches)
      <3>1. PICK c \in Code, codeMatches \in BOOLEAN : VerifyOTP(r, c, codeMatches)
        BY <2>6
      <3> DEFINE begin(label) == [Slot(label) EXCEPT !.code = c,
                                    !.destination = otp_codes[c].destination,
                                    !.purpose = otp_codes[c].purpose,
                                    !.late = redeemed[c] > 0]
      <3>2. \A label : ~ begin(label).met
        BY DEF Slot
      <3>3. \/ req'[r] = Slot("idle")
            \/ \E label \in {"burn_too_many", "consume", "increment"} :
                  req'[r] = begin(label)
        BY <1>i, <3>1 DEF VerifyOTP, Answer, Tables
      <3> HIDE DEF begin
      <3>4. QED
        BY <2>2, <3>2, <3>3
    <2>7. ASSUME NEW label, Goto(r, label)
          PROVE  ~ req'[r].met
      BY <1>i, <2>1, <2>7 DEF Goto, Tables, RequestState
    <2>8. CASE InvalidateSnapshot(r) \/ \E c \in Code : InvalidateRow(r, c)
      <3>1. CASE InvalidateSnapshot(r)
        BY <1>i, <2>1, <3>1 DEF InvalidateSnapshot, Tables, RequestState
      <3>2. ASSUME NEW c \in Code, InvalidateRow(r, c)
            PROVE  ~ req'[r].met
        BY <1>i, <2>1, <3>2 DEF InvalidateRow, Tables, RequestState
      <3>3. QED
        BY <2>8, <3>1, <3>2
    <2>9. CASE IncrementOTPAttempts(r) \/ ConsumeOTP(r) \/ ResolveLogin(r)
               \/ ResolveSignup(r) \/ CreateUser(r)
      BY <2>4, <2>7, <2>9 DEF IncrementOTPAttempts, ConsumeOTP, ResolveLogin,
         ResolveSignup, CreateUser
    <2>10. CASE \/ BurnOTP(r) \/ VerifyCommit(r) \/ DeadlockVictim(r) \/ Fail(r)
                \/ \E c \in Code : CreateOTP(r, c)
      BY <2>4, <2>10 DEF BurnOTP, VerifyCommit, DeadlockVictim, Fail, CreateOTP
    <2>11. CASE UNCHANGED req
      BY <2>1, <2>11
    <2>12. QED
      BY <2>5, <2>6, <2>8, <2>9, <2>10, <2>11 DEF Next, Environment, Arrive, Proceed,
         Expire, ResendWindowEnds, RegisterElsewhere, SetUserBanned, vars
  <1>2. ASSUME NEW c \in Code, Exists(c)'
        PROVE  c \in alone'
    <2>1. alone \subseteq alone'
      BY DEF Next, Environment, Arrive, Proceed, RequestOTP, VerifyOTP,
         InvalidateSnapshot, InvalidateRow, CreateOTP, IncrementOTPAttempts, BurnOTP,
         ConsumeOTP, ResolveLogin, ResolveSignup, CreateUser, VerifyCommit,
         DeadlockVictim, Fail, Expire, ResendWindowEnds, RegisterElsewhere,
         SetUserBanned, vars
    <2>2. CASE Exists(c)
      BY <2>1, <2>2 DEF InTurn
    <2>3. ASSUME NEW r \in Request, CreateOTP(r, c)
          PROVE  c \in alone'
      BY <2>3 DEF CreateOTP, InTurn
    <2>4. QED
      BY <1>2, <2>2, <2>3, NewRows
  <1>3. QED
    BY <1>1, <1>2 DEF InTurn

\* With one request at a time the newest code of a destination and purpose is the
\* only one that is not consumed, as the comment of RequestOTP has it.
THEOREM OneActiveCodeInTurn ==
    ASSUME \A q, r \in Request : q = r
    PROVE  Spec => []OneActiveCode
  <1>1. Init => InTurn
    BY DEF Init, InTurn, Slot, Exists
  <1>2. Inv /\ InTurn /\ [Next]_vars => InTurn'
    BY InTurnNext
  <1>3. Inv /\ InTurn => OneActiveCode
    <2> SUFFICES ASSUME Inv, InTurn, NEW c \in Code, NEW k \in Code,
                        Active(c), Active(k), c # k,
                        otp_codes[c].destination = otp_codes[k].destination,
                        otp_codes[c].purpose = otp_codes[k].purpose
                 PROVE  FALSE
      BY DEF OneActiveCode
    <2>1. c \in alone
      BY DEF InTurn, Active
    <2>2. k \in Group(otp_codes[c].destination, otp_codes[c].purpose) \ {c}
      BY DEF Group, Active
    <2>3. QED
      BY <2>1, <2>2 DEF Inv, LoneRequestLeavesOneCode
  <1>4. QED
    BY <1>1, <1>2, <1>3, Invariance, PTL DEF Spec
=============================================================================
