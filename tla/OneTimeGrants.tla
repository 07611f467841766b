---------------------------- MODULE OneTimeGrants ----------------------------
(***************************************************************************)
(* What SAuth promises of the secrets it hands out for one use, without    *)
(* tables, requests or transactions: a grant is issued, taken by whoever   *)
(* presents it first, and then used once or lost.  A grant that was not    *)
(* taken in time is lost too, and nothing brings a lost one back.          *)
(***************************************************************************)
CONSTANT Grant
VARIABLE status

Status == {"unissued", "live", "taken", "used", "lost"}

Moves(g, from, to) ==
    status[g] = from /\ status' = [status EXCEPT ![g] = to]

Init == status = [g \in Grant |-> "unissued"]

Issue(g) == Moves(g, "unissued", "live")

Take(g) == Moves(g, "live", "taken")

Use(g) == Moves(g, "taken", "used")

\* It expires, or the one who took it fails.
Lose(g) == Moves(g, "live", "lost") \/ Moves(g, "taken", "lost")

Next == \E g \in Grant : Issue(g) \/ Take(g) \/ Use(g) \/ Lose(g)

Spec == Init /\ [][Next]_status
=============================================================================
