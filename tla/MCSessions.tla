----------------------------- MODULE MCSessions -----------------------------
(* Instances of Sessions for TLC. *)
EXTENDS Sessions, TLC

CONSTANTS r1, r2, s1, s2, t1, t2, t3, t4, t5, u1, u2

OneUser == {u1}
TwoUsers == {u1, u2}
OneSession == {s1}
TwoSessions == {s1, s2}
FourTokens == {t1, t2, t3, t4}
FiveTokens == {t1, t2, t3, t4, t5}
OneRequest == {r1}
TwoRequests == {r1, r2}

\* Slots, sessions, tokens and users are interchangeable: the specification only
\* compares them, and no property names one.
Symmetry ==
    Permutations(Request) \union Permutations(Session)
        \union Permutations(Token) \union Permutations(User)

\* Liveness is checked without symmetry.  A token or a session is drawn once and
\* keys are only compared, so it does no harm to fix the order of drawing: every
\* behaviour is one of these under other names.
DrawnInOrder ==
    LET tokens == <<t1, t2, t3, t4, t5>>
    IN  /\ \A n \in 2 .. 5 : tokens[n] \in IssuedTokens => tokens[n - 1] \in IssuedTokens
        /\ Exists(s2) => Exists(s1)

\* Bound of the search, on the passing of time alone: a session expires while at
\* most two tokens are issued.
ExpiresEarly ==
    (\E s \in Session : Expire(s)) => Cardinality(issued) <= 2
=============================================================================
