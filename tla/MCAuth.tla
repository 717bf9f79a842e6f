------------------------------- MODULE MCAuth -------------------------------
(* A small instance of Auth: two accounts, one spelling that matches none, *)
(* and four calls.                                                         *)
EXTENDS Auth, TLC

CONSTANTS r1, r2, r3, r4

\* Bob was created through POST /api/users, which stores what was sent.
MCStored == [u \in User |-> [hashed |-> u = "ada", word |-> "p"]]
MCTtl == [k \in Kind |-> IF k \in {"access", "reset"} THEN 1 ELSE 2]
MCSymmetry == Permutations({r1, r2, r3, r4})

=============================================================================
