----------------------------- MODULE MCAccounts -----------------------------
(* Instances of Accounts for TLC. *)
EXTENDS Accounts, TLC

CONSTANTS p1, p2, n1, n2, k1, k2, u1, u2, t1, r1, r2

TwoProjects == {p1, p2}
TwoNames == {n1, n2}
TwoRoles == {k1, k2}
OneRoleEach == k1 :> p1 @@ k2 :> p2
DefaultInOne == p1 :> k1 @@ p2 :> None
TwoUsers == {u1, u2}
OneToken == {t1}
TwoRequests == {r1, r2}

\* Projects and roles differ; the rest is only compared.
Symmetry ==
    Permutations(Name) \union Permutations(User) \union Permutations(Request)
=============================================================================
