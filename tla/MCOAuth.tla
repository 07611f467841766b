------------------------------ MODULE MCOAuth ------------------------------
(* Instances of OAuth for TLC. *)
EXTENDS OAuth, TLC

CONSTANTS p1, p2, e1, g1, g2, u1, u2, u3, s1, s2, s3,
          c1, c2, r1, r2

TwoProjects == {p1, p2}
OneEmail == {e1}
TwoSubjects == {g1, g2}
ThreeUsers == {u1, u2, u3}
ThreeStates == {s1, s2, s3}
TwoCodes == {c1, c2}
TwoRequests == {r1, r2}

\* All of these are only compared.
Symmetry ==
    Permutations(Project) \union Permutations(Subject) \union Permutations(User)
        \union Permutations(State) \union Permutations(AuthCode)
        \union Permutations(Request)
=============================================================================
