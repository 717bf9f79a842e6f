--------------------------- MODULE MCSearchIndex ---------------------------
(* A small instance of SearchIndex: two writers and a search, on three     *)
(* users with two texts, one of them in a second spelling.                 *)
EXTENDS SearchIndex

MCRaw == {"ada", "Ada", "bob"}
MCCanon == [t \in MCRaw |-> IF t = "Ada" THEN "ada" ELSE t]

=============================================================================
