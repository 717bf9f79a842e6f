--------------------------- MODULE MCRegistration ---------------------------
(* A small instance of Registration: two spellings of one mailbox and a    *)
(* second mailbox.                                                         *)
EXTENDS Registration, TLC

CONSTANTS r1, r2, r3

MCRawEmail == {"ada", "ADA", "bob"}
MCCanon == [e \in MCRawEmail |-> IF e = "ADA" THEN "ada" ELSE e]
MCSymmetry == Permutations({r1, r2, r3})

=============================================================================
