--------------------------- MODULE TokenFamilies ---------------------------
(***************************************************************************)
(* What the session store of SAuth promises, without hashes, tables, locks *)
(* or requests: a session is a family of refresh tokens of one user.       *)
(* Tokens enter it one at a time, each in exchange for an earlier one, and *)
(* a family that is closed is never used again.                            *)
(***************************************************************************)
CONSTANTS
    User, Session, Token, NoUser, NoToken,
    Overlap      \* may two exchanges of one token overlap?

VARIABLES
    owner,    \* the user of each family, NoUser before it is opened
    family,   \* the tokens ever given in it
    current,  \* the token to be exchanged next
    spent,    \* the tokens that were exchanged
    closed    \* the families that were closed

vars == <<owner, family, current, spent, closed>>

Fresh(t) == \A s \in Session : t \notin family[s]

IsOpen(s) == owner[s] # NoUser /\ s \notin closed

Init ==
    /\ owner = [s \in Session |-> NoUser]
    /\ family = [s \in Session |-> {}]
    /\ current = [s \in Session |-> NoToken]
    /\ spent = {}
    /\ closed = {}

\* A login of u opens the family s with its first token.
Open(s, u, t) ==
    /\ owner[s] = NoUser
    /\ Fresh(t)
    /\ owner' = [owner EXCEPT ![s] = u]
    /\ family' = [family EXCEPT ![s] = {t}]
    /\ current' = [current EXCEPT ![s] = t]
    /\ UNCHANGED <<spent, closed>>

\* A holder of p gets t.  Only overlapping exchanges may find p superseded.
Exchange(s, p, t) ==
    /\ IsOpen(s)
    /\ p \in family[s]
    /\ Overlap \/ p = current[s]
    /\ Fresh(t)
    /\ family' = [family EXCEPT ![s] = @ \union {t}]
    /\ current' = [current EXCEPT ![s] = t]
    /\ spent' = spent \union {p}
    /\ UNCHANGED <<owner, closed>>

\* A logout or a replay closes some of the open families of u.
Close(u, families) ==
    /\ \A s \in families : owner[s] = u /\ IsOpen(s)
    /\ closed' = closed \union families
    /\ UNCHANGED <<owner, family, current, spent>>

Next ==
    \/ \E s \in Session, u \in User, t \in Token : Open(s, u, t)
    \/ \E s \in Session, p \in Token, t \in Token : Exchange(s, p, t)
    \/ \E u \in User, families \in SUBSET Session : Close(u, families)

Spec == Init /\ [][Next]_vars
=============================================================================
