---------------------------- MODULE MCOnboarding ----------------------------
(* A small instance of Onboarding: two sign-ups, in any spelling of two    *)
(* mailboxes, validated by a form with a session, and one retry.           *)
EXTENDS Onboarding

MCRawEmail == {"ada", "ADA", "bob"}
MCCanon == [e \in MCRawEmail |-> IF e = "ADA" THEN "ada" ELSE e]

=============================================================================
