------------------------------- MODULE MCBoot -------------------------------
(* A small instance of Boot: two workers, and migrations that take the     *)
(* tables in another order than create_all.                                *)
EXTENDS Boot

MCCreateOrder == <<"media", "users", "auth_refresh_tokens">>

=============================================================================
