------------------------------- MODULE MCOtp -------------------------------
(* Instances of Otp for TLC. *)
EXTENDS Otp, TLC

CONSTANTS r1, r2, c1, c2, c3, c4, d1

TwoRequests == {r1, r2}
TwoCodes == {c1, c2}
FourCodes == {c1, c2, c3, c4}
OneDestination == {d1}

\* Slots and keys are only compared.
Symmetry ==
    Permutations(Request) \union Permutations(Code)

\* Bounds of the search: a third row is not followed further, a request for one is
\* followed only while the destination has no account, and so is one lost count of
\* guesses while there is no second row.
TwoRows ==
    LET rows == {c \in Code : Exists(c)}
    IN  /\ Cardinality(rows) <= 2
        /\ Cardinality(rows) = 2 => \/ users = {}
                                   \/ \A d \in Destination, p \in Purpose : Requesting(d, p) = {}
        /\ \A c \in rows : lost[c] <= 2 - Cardinality(rows)

\* Liveness is checked without symmetry.  A key is drawn once and keys are only
\* compared, so it does no harm to fix the order of drawing: every behaviour is
\* one of these under other names.
DrawnInOrder ==
    LET codes == <<c1, c2, c3, c4>>
    IN  \A n \in 2 .. 4 : Exists(codes[n]) => Exists(codes[n - 1])

TwoActive(d, p) == \E c, k \in Group(d, p) : c # k /\ Active(c) /\ Active(k)

\* Bounds of the search, on what arrives and on what happens around the requests
\* alone: accounts change and a code expires while there is one row, guesses come and
\* resend windows end while there are two, and a third and a fourth code are asked
\* for only where two are active.
ArrivesEarly ==
    LET rows == Cardinality({c \in Code : Exists(c)})
    IN  /\ Environment => rows < 2 \/ (rows = 2 /\ \E c \in Code : ResendWindowEnds(c))
        /\ \A r \in Request, c \in Code, codeMatches \in BOOLEAN :
              VerifyOTP(r, c, codeMatches) => rows <= 2
        /\ \A r \in Request, d \in Destination, p \in Purpose :
              RequestOTP(r, d, p) => rows < 2 \/ TwoActive(d, p)
=============================================================================
