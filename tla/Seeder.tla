------------------------------ MODULE Seeder ------------------------------
(***************************************************************************)
(* `arvel db seed`: DatabaseSeeder.run looks up five addresses, one after  *)
(* the other, in one transaction, and inserts the users it does not find,  *)
(* each under a parent it found or made before.  Runs of the seeder race   *)
(* with each other and with sign-ups; a run may be tried again later.      *)
(*                                                                         *)
(* A transaction sees what is committed and what it wrote itself.  The     *)
(* unique index on email makes an INSERT wait for another transaction that *)
(* inserted the address, and fail once that has committed.                 *)
(***************************************************************************)
EXTENDS Naturals, FiniteSets, Sequences

CONSTANTS
  Run,          \* runs of the seeder
  SignUpAddress \* the addresses sign-ups may name

VARIABLES
  users,   \* committed rows; `by` remembers who made them, for the properties
  pending, \* the rows each run's open transaction has inserted
  lastId,  \* the last id assigned
  pc,      \* where each run is
  got      \* the ids of the users each run has found or made, in order

vars == <<users, pending, lastId, pc, got>>

NoParent == 0
ASignUp  == "sign-up"

ASSUME SeederAssumption == ASignUp \notin Run

\* The calls of _ensure_user: the address, and the call whose user is the
\* parent.
Call ==
  << [address |-> "root", under |-> 0],
     [address |-> "child-a", under |-> 1],
     [address |-> "child-b", under |-> 1],
     [address |-> "grandchild-a1", under |-> 2],
     [address |-> "auth-test", under |-> 0] >>

Open == {"look", "insert"}

Init ==
  /\ users = {}
  /\ pending = [r \in Run |-> {}]
  /\ lastId = 0
  /\ pc = [r \in Run |-> "idle"]
  /\ got = [r \in Run |-> <<>>]

-----------------------------------------------------------------------------
(* The table, as transaction r sees it. *)

At(rows, a) == {u \in rows : u.address = a}

\* Variant with a bug: reads what others have not committed.
VisibleDirty(r) == users \cup UNION {pending[s] : s \in Run}

Visible(r) == users \cup pending[r]

\* Variant with a bug: the column has no unique index.
AddressLockedNever(r, a) == FALSE

AddressLocked(r, a) == \E s \in Run \ {r} : At(pending[s], a) # {}

\* Variant with a bug: every missing user goes under the user before it.
MakeUserUnderLast(r, c) ==
  [id |-> lastId + 1, address |-> c.address, by |-> r,
   parent |-> IF c.under = 0 THEN NoParent ELSE got[r][Len(got[r])]]

MakeUser(r, c) ==
  [id |-> lastId + 1, address |-> c.address, by |-> r,
   parent |-> IF c.under = 0 THEN NoParent ELSE got[r][c.under]]

-----------------------------------------------------------------------------
(* One run. *)

Now(r) == Call[Len(got[r]) + 1]

\* The result of _ensure_user is there; the next call follows, if there is one.
Return(r, id) ==
  /\ got' = [got EXCEPT ![r] = Append(@, id)]
  /\ pc' = [pc EXCEPT ![r] = IF Len(got'[r]) < Len(Call) THEN "look" ELSE "commit"]

Begin(r) ==
  /\ pc[r] = "idle"
  /\ pc' = [pc EXCEPT ![r] = "look"]
  /\ UNCHANGED <<users, pending, lastId, got>>

Find(r) ==
  /\ pc[r] = "look"
  /\ \E u \in At(Visible(r), Now(r).address) : Return(r, u.id)
  /\ UNCHANGED <<users, pending, lastId>>

Miss(r) ==
  /\ pc[r] = "look"
  /\ At(Visible(r), Now(r).address) = {}
  /\ pc' = [pc EXCEPT ![r] = "insert"]
  /\ UNCHANGED <<users, pending, lastId, got>>

Insert(r) ==
  /\ pc[r] = "insert"
  /\ ~ AddressLocked(r, Now(r).address)
  /\ At(users, Now(r).address) = {}
  /\ LET u == MakeUser(r, Now(r)) IN
       /\ pending' = [pending EXCEPT ![r] = @ \cup {u}]
       /\ lastId' = u.id
       /\ Return(r, u.id)
  /\ UNCHANGED users

\* Variant with a bug: the transaction of a failed run is left open.
FailOpen(r) ==
  /\ pc' = [pc EXCEPT ![r] = "failed"]
  /\ UNCHANGED <<users, pending, lastId, got>>

Fail(r) ==
  /\ pc' = [pc EXCEPT ![r] = "failed"]
  /\ pending' = [pending EXCEPT ![r] = {}]
  /\ UNCHANGED <<users, lastId, got>>

\* The flush raises IntegrityError, and run() does not catch it.
InsertConflicts(r) ==
  /\ pc[r] = "insert"
  /\ At(users, Now(r).address) # {}
  /\ Fail(r)

\* Any other error, or the end of the process.
Crash(r) == pc[r] \in Open \cup {"commit"} /\ Fail(r)

\* Variant with a bug: the session keeps what it has committed as new.
CommitKeeping(r) ==
  /\ pc[r] = "commit"
  /\ pc' = [pc EXCEPT ![r] = "seeded"]
  /\ users' = users \cup pending[r]
  /\ UNCHANGED <<pending, lastId, got>>

Commit(r) ==
  /\ pc[r] = "commit"
  /\ pc' = [pc EXCEPT ![r] = "seeded"]
  /\ users' = users \cup pending[r]
  /\ pending' = [pending EXCEPT ![r] = {}]
  /\ UNCHANGED <<lastId, got>>

\* A sign-up makes a user without a parent, if nobody has the address.
SignUp(a) ==
  /\ \A r \in Run : At(pending[r], a) = {}
  /\ At(users, a) = {}
  /\ users' = users \cup
       {[id |-> lastId + 1, address |-> a, by |-> ASignUp, parent |-> NoParent]}
  /\ lastId' = lastId + 1
  /\ UNCHANGED <<pending, pc, got>>

-----------------------------------------------------------------------------
RunStep(r) == Find(r) \/ Miss(r) \/ Insert(r) \/ InsertConflicts(r) \/ Commit(r)

Next ==
  \/ \E r \in Run : Begin(r) \/ RunStep(r) \/ Crash(r)
  \/ \E a \in SignUpAddress : SignUp(a)

Spec == Init /\ [][Next]_vars

\* A run that waits for no other transaction goes on.
FairSpec == Spec /\ \A r \in Run : WF_vars(RunStep(r))

-----------------------------------------------------------------------------
(* Properties *)

User ==
  [id : 1..lastId, parent : 0..lastId, by : Run \cup {ASignUp},
   address : {Call[n].address : n \in DOMAIN Call} \cup SignUpAddress]

\* Every variable has its type, and a row is either committed or pending.
TypeOK ==
  /\ users \subseteq User
  /\ lastId \in Nat
  /\ pending \in [Run -> SUBSET (User \ users)]
  /\ pc \in [Run -> Open \cup {"idle", "commit", "seeded", "failed"}]
  /\ got \in [Run -> Seq(1..lastId)]
  /\ \A r \in Run : Len(got[r]) <= Len(Call)
  /\ \A r \in Run : pc[r] \in Open => Len(got[r]) < Len(Call)

\* A run leaves nothing unless it gets to its end, however it fails; and then
\* all the users it worked with are there, those it only found included.
AllOrNothing ==
  /\ \A u \in users : u.by \in Run => pc[u.by] = "seeded"
  /\ \A r \in Run : pc[r] = "seeded" =>
       \A n \in DOMAIN Call :
         \E u \in users : u.id = got[r][n] /\ u.address = Call[n].address

\* The picture at the head of database_seeder.py: whose child each user is.
ChildOf ==
  [a \in {"child-a", "child-b", "grandchild-a1"} |->
     IF a = "grandchild-a1" THEN "child-a" ELSE "root"]

\* The users that the seeder made hang in the tree of that picture, also when
\* another run or a sign-up made the parent.
SeededTree ==
  \A u \in users : u.by \in Run =>
    IF u.address \in DOMAIN ChildOf
    THEN \E p \in users : p.id = u.parent /\ p.address = ChildOf[u.address]
    ELSE u.parent = NoParent

\* A run waits only for runs that are at work and have got further than it, so
\* no run waits, over others, for itself.
WaitsForward ==
  \A r, s \in Run :
    r # s /\ pc[r] = "insert" /\ At(pending[s], Now(r).address) # {} =>
      pc[s] \in Open \cup {"commit"} /\ Len(got[s]) > Len(got[r])

\* Seen from outside, each run adds what is missing of the tree in one step.
Seeds ==
  INSTANCE Seeding WITH Address <- {Call[n].address : n \in DOMAIN Call},
                        seeded <- {r \in Run : pc[r] = "seeded"}

ImplementsSeeding == Seeds!Spec

\* Once the users are there, a run that begins inserts nothing: it cannot
\* meet a conflict.
IdempotentRerun ==
  \A r \in Run :
    []((pc[r] = "idle" /\ \A n \in DOMAIN Call : At(users, Call[n].address) # {})
         => [](pc[r] # "insert"))

\* Runs wait for each other's inserts, and yet each ends: they all take the
\* addresses in the same order.
RunsEnd ==
  \A r \in Run : pc[r] = "look" ~> pc[r] \in {"seeded", "failed"}

=============================================================================
