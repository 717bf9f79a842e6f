------------------------------ MODULE Seeding ------------------------------
(***************************************************************************)
(* What seeding a tree of users promises, whoever races with it: each run  *)
(* adds, in one step, exactly the users of the tree that are missing, each *)
(* under its parent; or it adds nothing.  Nobody's address is taken twice, *)
(* and nobody is changed or taken away.                                    *)
(***************************************************************************)
CONSTANTS
  Run,           \* who seeds
  Address,       \* the addresses of the tree
  ChildOf,       \* whose child each of them is that is not at the top
  SignUpAddress, \* the addresses others sign up with
  NoParent,      \* the parent of a user at the top
  ASignUp        \* who makes the other users

VARIABLES
  users, \* records with an id, an address, a parent's id and who made them
  seeded \* the runs that have added what was missing

vars == <<users, seeded>>

Init == users = {} /\ seeded = {}

Distinct(rows) ==
  \A u, v \in rows : u.id = v.id \/ u.address = v.address => u = v

InPlace(u, rows) ==
  IF u.address \in DOMAIN ChildOf
  THEN \E p \in rows : p.id = u.parent /\ p.address = ChildOf[u.address]
  ELSE u.parent = NoParent

Missing == {a \in Address : \A u \in users : u.address # a}

Added == users' \ users

\* One more user, or several, beside those there are.
Grow == users \subseteq users' /\ Distinct(users')

SignUp(a) ==
  /\ Grow
  /\ \A u \in users : u.address # a
  /\ \E u \in Added :
       Added = {u} /\ u.address = a /\ u.by = ASignUp /\ u.parent = NoParent
  /\ UNCHANGED seeded

Seed(r) ==
  /\ r \notin seeded
  /\ seeded' = seeded \cup {r}
  /\ Grow
  /\ {u.address : u \in Added} = Missing
  /\ \A u \in Added : u.by = r /\ InPlace(u, users')

Next ==
  \/ \E a \in SignUpAddress : SignUp(a)
  \/ \E r \in Run : Seed(r)

Spec == Init /\ [][Next]_vars
=============================================================================
