------------------------------ MODULE MCServer ------------------------------
(* Instances of Server for TLC. *)
EXTENDS Server

CONSTANTS r1, r2, r3, row1, row2

ThreeRequests == {r1, r2, r3}

FirstRequest == {r1}

TwoRows == {row1, row2}
=============================================================================
