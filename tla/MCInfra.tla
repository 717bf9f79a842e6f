------------------------------ MODULE MCInfra ------------------------------
(* A small instance of Infra: three requests, two people, and clients that *)
(* store a note and know the path of one profile image.                    *)
EXTENDS Infra, TLC

CONSTANT i1 \* one of the ids

MCDemoPath == {<<"note", None>>, <<"media", i1>>}
Interchangeable == Permutations(Request) \cup Permutations(Subject)

=============================================================================
