---------------------------- MODULE Credentials ----------------------------
(***************************************************************************)
(* What the authentication endpoints promise about an account, with no     *)
(* requests and no clock: a password opens the account only if it was the  *)
(* account's, hashed, at some time; it is set by somebody who has a        *)
(* session and knows such a password, or for whom a reset was asked; an    *)
(* address is verified after that was offered to somebody with a session.  *)
(* Passwords that were replaced are remembered, since a call that began    *)
(* before a password was replaced may end after it.                        *)
(***************************************************************************)
CONSTANTS
  User,      \* the accounts
  Password,  \* the passwords people submit
  Stored,    \* what is stored for each account at first
  Hash(_)    \* what is stored for a password that is set

VARIABLES
  password,  \* what is stored for each account
  had,       \* what was ever stored for it
  used,      \* the accounts and passwords that were accepted together
  sessions,  \* the accounts somebody was logged in to
  resets,    \* the accounts a reset was asked for
  offers,    \* the accounts a verification was offered to
  verified   \* the accounts that are verified

vars == <<password, had, used, sessions, resets, offers, verified>>

Init ==
  /\ password = Stored
  /\ had = [u \in User |-> {Stored[u]}]
  /\ used = {}
  /\ sessions = {} /\ resets = {} /\ offers = {} /\ verified = {}

Use(u, w) ==
  /\ Hash(w) \in had[u]
  /\ used' = used \cup {<<u, w>>}

Set(u, w) ==
  /\ password' = [password EXCEPT ![u] = Hash(w)]
  /\ had' = [had EXCEPT ![u] = @ \cup {Hash(w)}]

LogIn(u, w) ==
  /\ Use(u, w)
  /\ sessions' = sessions \cup {u}
  /\ UNCHANGED <<password, had, resets, offers, verified>>

AskReset(u) ==
  /\ resets' = resets \cup {u}
  /\ UNCHANGED <<password, had, used, sessions, offers, verified>>

Reset(u, w) ==
  /\ u \in resets
  /\ Set(u, w)
  /\ UNCHANGED <<used, sessions, resets, offers, verified>>

Change(u, old, w) ==
  /\ u \in sessions
  /\ Use(u, old)
  /\ Set(u, w)
  /\ UNCHANGED <<sessions, resets, offers, verified>>

OfferVerification(u) ==
  /\ u \in sessions
  /\ offers' = offers \cup {u}
  /\ UNCHANGED <<password, had, used, sessions, resets, verified>>

Verify(u) ==
  /\ u \in offers
  /\ verified' = verified \cup {u}
  /\ UNCHANGED <<password, had, used, sessions, resets, offers>>

Next ==
  \E u \in User :
    \/ AskReset(u) \/ OfferVerification(u) \/ Verify(u)
    \/ \E w \in Password : LogIn(u, w) \/ Reset(u, w)
    \/ \E old, w \in Password : Change(u, old, w)

Spec == Init /\ [][Next]_vars
=============================================================================
