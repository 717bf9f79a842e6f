--------------------------- MODULE Seeder_proofs ---------------------------
(***************************************************************************)
(* Proofs about Seeder, for any number of runs and any sign-ups.           *)
(***************************************************************************)
EXTENDS Seeder, TLAPS

\* The five calls, as far as the proofs need them.
LEMMA CallFacts ==
  /\ Len(Call) = 5 /\ DOMAIN Call = 1..5
  /\ \A m, n \in 1..5 : Call[m].address = Call[n].address => m = n
  /\ \A n \in 1..5 :
       /\ Call[n].under \in 0..(n - 1)
       /\ Call[n].under = 0 => Call[n].address \notin DOMAIN ChildOf
       /\ Call[n].under # 0 => /\ Call[n].address \in DOMAIN ChildOf
                               /\ ChildOf[Call[n].address] = Call[Call[n].under].address
<1>1. Len(Call) = 5 /\ DOMAIN Call = 1..5
  BY DEF Call
<1>2. /\ Call[1] = [address |-> "root", under |-> 0]
      /\ Call[2] = [address |-> "child-a", under |-> 1]
      /\ Call[3] = [address |-> "child-b", under |-> 1]
      /\ Call[4] = [address |-> "grandchild-a1", under |-> 2]
      /\ Call[5] = [address |-> "auth-test", under |-> 0]
  BY DEF Call
<1>3. /\ DOMAIN ChildOf = {"child-a", "child-b", "grandchild-a1"}
      /\ ChildOf["child-a"] = "root" /\ ChildOf["child-b"] = "root"
      /\ ChildOf["grandchild-a1"] = "child-a"
  BY DEF ChildOf
<1>4. ASSUME NEW n \in 1..5
      PROVE  /\ Call[n].under \in 0..(n - 1)
             /\ Call[n].under = 0 => Call[n].address \notin DOMAIN ChildOf
             /\ Call[n].under # 0 => /\ Call[n].address \in DOMAIN ChildOf
                                     /\ ChildOf[Call[n].address] = Call[Call[n].under].address
  <2>1. n = 1 \/ n = 2 \/ n = 3 \/ n = 4 \/ n = 5
    OBVIOUS
  <2> QED
    BY <1>2, <1>3, <2>1
<1>5. ASSUME NEW m \in 1..5, NEW n \in 1..5, Call[m].address = Call[n].address PROVE m = n
  BY <1>2, <1>5
<1> QED
  BY <1>1, <1>4, <1>5

LEMMA GrowSeq ==
  ASSUME NEW n \in Nat, NEW s \in Seq(1..n) PROVE s \in Seq(1..(n + 1))
OBVIOUS

LEMMA Position ==
  ASSUME NEW l \in Nat PROVE l < 5 <=> l \in 0..4 /\ l + 1 \in 1..5
OBVIOUS

LEMMA Element ==
  ASSUME NEW S, NEW s \in Seq(S), NEW n \in 0..Len(s), n # 0 PROVE s[n] \in S
OBVIOUS

-----------------------------------------------------------------------------
(* Type correctness, with how far each run is.                             *)

Progress ==
  \A r \in Run :
    /\ \A u \in pending[r] : u.by = r
    /\ pc[r] \notin Open \cup {"commit"} => pending[r] = {}
    /\ pc[r] = "idle" => got[r] = <<>>
    /\ pc[r] \in {"commit", "seeded"} => Len(got[r]) = 5

TInv == TypeOK /\ Progress

LEMMA TypeInit == Init => TInv
BY CallFacts DEF Init, TInv, TypeOK, Progress, Open

\* What a step that makes a user does to the types of the others.
LEMMA UserGrows ==
  ASSUME TInv, lastId' = lastId + 1
  PROVE  /\ lastId' \in Nat /\ User \subseteq User'
         /\ \A u \in User' : u.id = lastId + 1 => u \notin User
         /\ got \in [Run -> Seq(1..lastId')]
<1>1. lastId \in Nat
  BY DEF TInv, TypeOK
<1>2. got \in [Run -> Seq(1..lastId)]
  BY DEF TInv, TypeOK
<1>3. ASSUME NEW r \in Run PROVE got[r] \in Seq(1..lastId')
  BY <1>1, <1>2, GrowSeq
<1> QED
  BY <1>1, <1>2, <1>3 DEF User

\* A run's own call, in the middle of its calls.
LEMMA NowFacts ==
  ASSUME TInv, NEW r \in Run, pc[r] \in Open
  PROVE  /\ Len(got[r]) \in 0..4 /\ Len(got[r]) + 1 \in DOMAIN Call
         /\ Now(r).under \in 0..Len(got[r])
         /\ Now(r).under # 0 => got[r][Now(r).under] \in 1..lastId
<1>1. got[r] \in Seq(1..lastId) /\ Len(got[r]) \in 0..4 /\ Len(got[r]) + 1 \in 1..5
  <2>1. got[r] \in Seq(1..lastId) /\ Len(got[r]) < 5
    BY CallFacts DEF TInv, TypeOK
  <2>2. Len(got[r]) \in Nat
    BY <2>1
  <2> QED
    BY <2>1, <2>2, Position
<1>2. Now(r).under \in 0..Len(got[r])
  BY <1>1, CallFacts DEF Now
<1>3. Now(r).under # 0 => got[r][Now(r).under] \in 1..lastId
  BY <1>1, <1>2, Element
<1> QED
  BY <1>1, <1>2, <1>3, CallFacts

LEMMA MakeUserType ==
  ASSUME TInv, NEW r \in Run, pc[r] \in Open, lastId' = lastId + 1
  PROVE  MakeUser(r, Now(r)) \in User'
<1>1. lastId \in Nat
  BY DEF TInv, TypeOK
<1>2. Now(r).address \in {Call[n].address : n \in DOMAIN Call}
  BY NowFacts DEF Now
<1>3. (IF Now(r).under = 0 THEN NoParent ELSE got[r][Now(r).under]) \in 0..(lastId + 1)
  BY <1>1, NowFacts DEF NoParent
<1> QED
  BY <1>1, <1>2, <1>3 DEF MakeUser, User

\* Returning an id that there is takes a run one call further.
LEMMA ReturnType ==
  ASSUME TInv, NEW r \in Run, pc[r] \in Open, NEW n \in Nat, n >= lastId,
         NEW id \in 1..n, Return(r, id), got \in [Run -> Seq(1..n)]
  PROVE  /\ pc' \in [Run -> Open \cup {"idle", "commit", "seeded", "failed"}]
         /\ got' \in [Run -> Seq(1..n)] /\ \A s \in Run : Len(got'[s]) <= Len(Call)
         /\ \A s \in Run : pc'[s] \in Open => Len(got'[s]) < Len(Call)
         /\ \A s \in Run \ {r} : pc'[s] = pc[s] /\ got'[s] = got[s]
         /\ got'[r] = Append(got[r], id)
         /\ pc'[r] \in {"look", "commit"} /\ (pc'[r] = "commit" => Len(got'[r]) = 5)
<1>1. /\ pc \in [Run -> Open \cup {"idle", "commit", "seeded", "failed"}]
      /\ \A s \in Run : Len(got[s]) <= 5
      /\ \A s \in Run : pc[s] \in Open => Len(got[s]) < 5
  BY CallFacts DEF TInv, TypeOK
<1>2. got' = [got EXCEPT ![r] = Append(got[r], id)]
      /\ pc' = [pc EXCEPT ![r] = IF Len(got'[r]) < 5 THEN "look" ELSE "commit"]
  BY CallFacts DEF Return
<1>3. got' \in [Run -> Seq(1..n)] /\ got'[r] = Append(got[r], id)
      /\ Len(got'[r]) = Len(got[r]) + 1 /\ Len(got[r]) \in Nat
  BY <1>2
<1>4. \A s \in Run \ {r} : pc'[s] = pc[s] /\ got'[s] = got[s]
  BY <1>1, <1>2
<1>5. pc'[r] = IF Len(got'[r]) < 5 THEN "look" ELSE "commit"
  BY <1>1, <1>2
<1> QED
  BY <1>1, <1>2, <1>3, <1>4, <1>5, CallFacts DEF Open

LEMMA TypeStep == TInv /\ [Next]_vars => TInv'
<1> SUFFICES ASSUME TInv, [Next]_vars PROVE TInv'
  OBVIOUS
<1>1. /\ users \subseteq User /\ lastId \in Nat
      /\ pending \in [Run -> SUBSET (User \ users)]
      /\ pc \in [Run -> Open \cup {"idle", "commit", "seeded", "failed"}]
      /\ got \in [Run -> Seq(1..lastId)]
      /\ \A r \in Run : Len(got[r]) <= 5
      /\ \A r \in Run : pc[r] \in Open => Len(got[r]) < 5
  BY CallFacts DEF TInv, TypeOK
<1>2. CASE UNCHANGED vars
  BY <1>2 DEF vars, TInv, TypeOK, Progress, User
<1>3. ASSUME NEW r \in Run, Begin(r) PROVE TInv'
  <2>1. Len(got[r]) < 5
    BY <1>3 DEF Begin, TInv, Progress
  <2> QED
    BY <1>1, <1>3, <2>1, CallFacts DEF Begin, TInv, TypeOK, Progress, User, Open
<1>4. ASSUME NEW r \in Run, Find(r) PROVE TInv'
  <2>1. PICK u \in At(Visible(r), Now(r).address) : Return(r, u.id)
    BY <1>4 DEF Find
  <2>2. u.id \in 1..lastId
    BY <1>1 DEF At, Visible, User
  <2>3. pc[r] \in Open
    BY <1>4 DEF Find, Open
  <2> QED
    <3>1. /\ pc' \in [Run -> Open \cup {"idle", "commit", "seeded", "failed"}]
          /\ got' \in [Run -> Seq(1..lastId)] /\ \A s \in Run : Len(got'[s]) <= Len(Call)
          /\ \A s \in Run : pc'[s] \in Open => Len(got'[s]) < Len(Call)
          /\ \A s \in Run \ {r} : pc'[s] = pc[s] /\ got'[s] = got[s]
          /\ pc'[r] \in {"look", "commit"} /\ (pc'[r] = "commit" => Len(got'[r]) = 5)
      BY <1>1, <2>1, <2>2, <2>3, ReturnType
    <3>2. UNCHANGED <<users, pending, lastId>> /\ User' = User
      BY <1>4 DEF Find, User
    <3>3. TypeOK'
      BY <1>1, <3>1, <3>2 DEF TypeOK
    <3>4. Progress'
      BY <1>1, <2>3, <3>1, <3>2 DEF TInv, Progress, Open
    <3> QED
      BY <3>3, <3>4 DEF TInv
<1>5. ASSUME NEW r \in Run, Miss(r) PROVE TInv'
  BY <1>1, <1>5 DEF Miss, TInv, TypeOK, Progress, User, Open
<1>6. ASSUME NEW r \in Run, Insert(r) PROVE TInv'
  <2> DEFINE u == MakeUser(r, Now(r))
  <2>1. /\ pc[r] \in Open /\ lastId' = lastId + 1 /\ u.id = lastId + 1 /\ u.by = r
        /\ pending' = [pending EXCEPT ![r] = @ \cup {u}]
        /\ Return(r, lastId + 1) /\ UNCHANGED users
    BY <1>6 DEF Insert, MakeUser, Open
  <2>2. u \in User' /\ u \notin User
    BY <2>1, UserGrows, MakeUserType
  <2>3. users \subseteq User' /\ pending' \in [Run -> SUBSET (User' \ users)]
    BY <1>1, <2>1, <2>2, UserGrows
  <2>4. /\ pc' \in [Run -> Open \cup {"idle", "commit", "seeded", "failed"}]
        /\ got' \in [Run -> Seq(1..lastId')] /\ \A s \in Run : Len(got'[s]) <= Len(Call)
        /\ \A s \in Run : pc'[s] \in Open => Len(got'[s]) < Len(Call)
        /\ \A s \in Run \ {r} : pc'[s] = pc[s] /\ got'[s] = got[s]
        /\ pc'[r] \in {"look", "commit"} /\ (pc'[r] = "commit" => Len(got'[r]) = 5)
    BY <1>1, <2>1, UserGrows, ReturnType
  <2>5. TypeOK'
    BY <1>1, <2>1, <2>3, <2>4 DEF TypeOK
  <2>6. Progress'
    BY <1>1, <2>1, <2>4 DEF TInv, Progress, Open
  <2> QED
    BY <2>5, <2>6 DEF TInv
<1>7. ASSUME NEW r \in Run, Fail(r), pc[r] \in Open \cup {"commit"} PROVE TInv'
  BY <1>1, <1>7 DEF Fail, TInv, TypeOK, Progress, User, Open
<1>8. ASSUME NEW r \in Run, Commit(r) PROVE TInv'
  <2>1. User' = User
    BY <1>8 DEF Commit, User
  <2>2. pending' \in [Run -> SUBSET (User \ users')]
    <3>1. /\ users' = users \cup pending[r]
          /\ pending' = [pending EXCEPT ![r] = {}]
      BY <1>8 DEF Commit
    <3>2. \A s \in Run \ {r} : pending[s] \cap pending[r] = {}
      BY DEF TInv, Progress
    <3> QED
      BY <1>1, <3>1, <3>2
  <2> QED
    BY <1>1, <1>8, <2>1, <2>2 DEF Commit, TInv, TypeOK, Progress, Open
<1>9. ASSUME NEW a \in SignUpAddress, SignUp(a) PROVE TInv'
  <2> DEFINE u == [id |-> lastId + 1, address |-> a, by |-> ASignUp, parent |-> NoParent]
  <2>1. /\ users' = users \cup {u} /\ lastId' = lastId + 1 /\ u.id = lastId + 1
        /\ UNCHANGED <<pending, pc, got>>
    BY <1>9 DEF SignUp
  <2>2. u \in User' /\ u \notin User
    BY <1>1, <2>1, UserGrows DEF User, NoParent
  <2>3. pending \in [Run -> SUBSET (User' \ users')]
    BY <1>1, <2>1, <2>2, UserGrows
  <2>4. TypeOK'
    BY <1>1, <2>1, <2>2, <2>3, UserGrows, CallFacts DEF TypeOK
  <2> QED
    BY <2>1, <2>4 DEF TInv, Progress
<1> QED
  BY <1>2, <1>3, <1>4, <1>5, <1>6, <1>7, <1>8, <1>9
     DEF Next, RunStep, InsertConflicts, Crash, Open

\* Every variable of Seeder keeps its type, and no row is committed and pending
\* at once.
THEOREM TypeCorrect == Spec => []TypeOK
<1>1. TInv => TypeOK
  BY DEF TInv
<1> QED
  BY TypeInit, TypeStep, <1>1, PTL DEF Spec

-----------------------------------------------------------------------------
(* What a run sees stays there for it, until it fails.                     *)

LEMMA VisibleStays ==
  ASSUME TInv, [Next]_vars
  PROVE  /\ users \subseteq users'
         /\ \A s \in Run : pc'[s] # "failed" =>
              pc[s] # "failed" /\ Visible(s) \subseteq Visible(s)'
         /\ \A s \in Run : pc[s] = "seeded" => pc'[s] = "seeded"
<1>1. /\ pending \in [Run -> SUBSET (User \ users)]
      /\ pc \in [Run -> Open \cup {"idle", "commit", "seeded", "failed"}]
  BY DEF TInv, TypeOK
<1>2. CASE UNCHANGED vars
  BY <1>2 DEF vars, Visible
<1>3. ASSUME NEW r \in Run, Begin(r) \/ Miss(r) \/ Find(r)
      PROVE  /\ UNCHANGED <<users, pending>> /\ pc[r] \in {"idle", "look"}
             /\ \E step \in {"look", "insert", "commit"} : pc' = [pc EXCEPT ![r] = step]
  BY <1>3 DEF Begin, Miss, Find, Return
<1>4. ASSUME NEW r \in Run, Insert(r)
      PROVE  /\ UNCHANGED users /\ pc[r] = "insert"
             /\ \E u : pending' = [pending EXCEPT ![r] = @ \cup {u}]
             /\ \E step \in {"look", "commit"} : pc' = [pc EXCEPT ![r] = step]
  BY <1>4 DEF Insert, Return
<1>5. ASSUME NEW r \in Run, Commit(r)
      PROVE  /\ users' = users \cup pending[r] /\ pc[r] = "commit"
             /\ pending' = [pending EXCEPT ![r] = {}] /\ pc' = [pc EXCEPT ![r] = "seeded"]
  BY <1>5 DEF Commit
<1>6. ASSUME NEW r \in Run, InsertConflicts(r) \/ Crash(r)
      PROVE  /\ UNCHANGED users /\ pc[r] \in Open \cup {"commit"}
             /\ pending' = [pending EXCEPT ![r] = {}] /\ pc' = [pc EXCEPT ![r] = "failed"]
  BY <1>6 DEF InsertConflicts, Crash, Fail, Open
<1>7. ASSUME NEW a \in SignUpAddress, SignUp(a)
      PROVE  users \subseteq users' /\ UNCHANGED <<pending, pc>>
  BY <1>7 DEF SignUp
<1>8. ASSUME NEW r \in Run, Begin(r) \/ RunStep(r) \/ Crash(r)
      PROVE  /\ users \subseteq users'
             /\ \A s \in Run : pc'[s] # "failed" =>
                  pc[s] # "failed" /\ Visible(s) \subseteq Visible(s)'
             /\ \A s \in Run : pc[s] = "seeded" => pc'[s] = "seeded"
  <2>1. CASE Begin(r) \/ Miss(r) \/ Find(r)
    BY <1>1, <1>3, <2>1 DEF Visible
  <2>2. CASE Insert(r)
    BY <1>1, <1>4, <2>2 DEF Visible
  <2>3. CASE Commit(r)
    BY <1>1, <1>5, <2>3 DEF Visible
  <2>4. CASE InsertConflicts(r) \/ Crash(r)
    BY <1>1, <1>6, <2>4 DEF Visible, Open
  <2> QED
    BY <1>8, <2>1, <2>2, <2>3, <2>4 DEF RunStep
<1> QED
  BY <1>2, <1>7, <1>8 DEF Next, Visible

\* The user that a call of a run found or made, where the run can see it.
Backed(r, n) == \E u \in Visible(r) : u.id = got[r][n] /\ u.address = Call[n].address

GotVisible == \A r \in Run : pc[r] # "failed" => \A n \in DOMAIN got[r] : Backed(r, n)

LEMMA GotStep == TInv /\ GotVisible /\ [Next]_vars => GotVisible'
<1> SUFFICES ASSUME TInv, GotVisible, [Next]_vars,
                    NEW s \in Run, pc'[s] # "failed", NEW n \in DOMAIN got'[s]
             PROVE  Backed(s, n)'
  BY DEF GotVisible
<1>1. got \in [Run -> Seq(1..lastId)] /\ pc[s] # "failed" /\ Visible(s) \subseteq Visible(s)'
  BY VisibleStays DEF TInv, TypeOK
<1>2. CASE got'[s] = got[s]
  BY <1>1, <1>2 DEF GotVisible, Backed
<1>3. ASSUME NEW id \in 1..lastId', got' = [got EXCEPT ![s] = Append(@, id)],
             \E u \in Visible(s)' : u.id = id /\ u.address = Now(s).address
      PROVE  Backed(s, n)'
  <2>1. got'[s] = Append(got[s], id)
    BY <1>1, <1>3
  <2>2. CASE n \in DOMAIN got[s]
    <3>1. got'[s][n] = got[s][n]
      BY <1>1, <2>1, <2>2
    <3> QED
      BY <1>1, <2>2, <3>1 DEF GotVisible, Backed
  <2>3. CASE n = Len(got[s]) + 1
    <3>1. got'[s][n] = id
      BY <1>1, <2>1, <2>3
    <3> QED
      BY <1>3, <2>3, <3>1 DEF Backed, Now
  <2> QED
    BY <1>1, <2>1, <2>2, <2>3
<1>4. CASE Find(s)
  <2>1. PICK u \in At(Visible(s), Now(s).address) : Return(s, u.id)
    BY <1>4 DEF Find
  <2>2. u \in Visible(s) /\ u.address = Now(s).address /\ u.id \in 1..lastId
    BY <2>1 DEF At, Visible, TInv, TypeOK, User
  <2>3. got' = [got EXCEPT ![s] = Append(@, u.id)] /\ UNCHANGED lastId
    BY <1>4, <2>1 DEF Find, Return
  <2> QED
    BY <1>1, <1>3, <2>2, <2>3
<1>5. CASE Insert(s)
  <2> DEFINE u == MakeUser(s, Now(s))
  <2>1. /\ u.id = lastId + 1 /\ u.address = Now(s).address /\ lastId' = lastId + 1
        /\ pending' = [pending EXCEPT ![s] = @ \cup {u}]
        /\ got' = [got EXCEPT ![s] = Append(@, lastId + 1)]
    BY <1>5 DEF Insert, MakeUser, Return
  <2>2. u \in Visible(s)' /\ lastId + 1 \in 1..lastId'
    BY <2>1 DEF Visible, TInv, TypeOK
  <2> QED
    BY <1>3, <2>1, <2>2
<1>6. ASSUME ~ Find(s), ~ Insert(s) PROVE got'[s] = got[s]
  BY <1>1, <1>6 DEF Next, vars, Begin, RunStep, Find, Miss, Insert, InsertConflicts, Commit,
                    Crash, Fail, SignUp, Return
<1> QED
  BY <1>2, <1>4, <1>5, <1>6

-----------------------------------------------------------------------------
(* All or nothing.                                                         *)

MadeBySeeded == \A u \in users : u.by \in Run => pc[u.by] = "seeded"

LEMMA GotInit == Init => GotVisible /\ MadeBySeeded
BY DEF Init, GotVisible, MadeBySeeded

LEMMA MadeStep == TInv /\ MadeBySeeded /\ [Next]_vars => MadeBySeeded'
<1> SUFFICES ASSUME TInv, MadeBySeeded, [Next]_vars, NEW u \in users', u.by \in Run
             PROVE  pc'[u.by] = "seeded"
  BY DEF MadeBySeeded
<1>1. CASE u \in users
  BY <1>1, VisibleStays DEF MadeBySeeded
<1>2. ASSUME NEW r \in Run, Commit(r), u \in pending[r] PROVE pc'[u.by] = "seeded"
  BY <1>2 DEF Commit, TInv, TypeOK, Progress
<1>3. ASSUME NEW a \in SignUpAddress, SignUp(a) PROVE u \in users
  BY <1>3, SeederAssumption DEF SignUp
<1>4. ASSUME NEW r \in Run, Commit(r) PROVE u \in users \/ u \in pending[r]
  BY <1>4 DEF Commit
<1>5. ASSUME NEW r \in Run, ~ Commit(r), Begin(r) \/ RunStep(r) \/ Crash(r) PROVE u \in users
  BY <1>5 DEF Begin, RunStep, Find, Miss, Insert, InsertConflicts, Crash, Fail
<1> QED
  BY <1>1, <1>2, <1>3, <1>4, <1>5 DEF Next, vars

\* A run leaves nothing unless it gets to its end, however it fails; and then
\* all the users it worked with are there, those it only found included.
THEOREM SeedsAllOrNothing == Spec => []AllOrNothing
<1>1. TInv /\ GotVisible /\ MadeBySeeded => AllOrNothing
  <2> SUFFICES ASSUME TInv, GotVisible, NEW r \in Run, pc[r] = "seeded", NEW n \in DOMAIN Call
               PROVE  \E u \in users : u.id = got[r][n] /\ u.address = Call[n].address
    BY DEF AllOrNothing, MadeBySeeded
  <2>1. n \in DOMAIN got[r]
    <3>1. got[r] \in Seq(1..lastId) /\ Len(got[r]) = 5
      BY DEF TInv, TypeOK, Progress
    <3> QED
      BY <3>1, CallFacts
  <2>2. Visible(r) = users
    BY DEF TInv, Progress, Visible, Open
  <2> QED
    BY <2>1, <2>2 DEF GotVisible, Backed
<1> QED
  BY TypeInit, TypeStep, GotInit, GotStep, MadeStep, <1>1, PTL DEF Spec

-----------------------------------------------------------------------------
(* The tree.                                                               *)

InTree(u, rows) ==
  IF u.address \in DOMAIN ChildOf
  THEN \E p \in rows : p.id = u.parent /\ p.address = ChildOf[u.address]
  ELSE u.parent = NoParent

TreeHolds ==
  /\ \A r \in Run : \A u \in pending[r] : InTree(u, Visible(r))
  /\ \A u \in users : u.by \in Run => InTree(u, users)

LEMMA TreeInit == Init => TreeHolds
BY DEF Init, TreeHolds

LEMMA MoreRowsKeepTree ==
  ASSUME NEW u, NEW R, NEW S, R \subseteq S, InTree(u, R) PROVE InTree(u, S)
BY DEF InTree

LEMMA TreeStep == TInv /\ GotVisible /\ TreeHolds /\ [Next]_vars => TreeHolds'
<1> SUFFICES ASSUME TInv, GotVisible, TreeHolds, [Next]_vars PROVE TreeHolds'
  OBVIOUS
<1>1. TInv'
  BY TypeStep
<1>2. ASSUME NEW s \in Run, NEW u \in pending'[s], u \in pending[s]
      PROVE  InTree(u, Visible(s)')
  <2>1. pc'[s] # "failed"
    BY <1>1, <1>2 DEF TInv, Progress, Open
  <2> QED
    BY <1>2, <2>1, VisibleStays, MoreRowsKeepTree DEF TreeHolds
<1>3. ASSUME NEW s \in Run, NEW u \in pending'[s], u \notin pending[s]
      PROVE  InTree(u, Visible(s)')
  <2>1. Insert(s) /\ u = MakeUser(s, Now(s))
    <3>1. pending \in [Run -> SUBSET (User \ users)]
      BY DEF TInv, TypeOK
    <3>2. ASSUME NEW r \in Run, Insert(r) PROVE Insert(s) /\ u = MakeUser(s, Now(s))
      BY <1>3, <3>1, <3>2 DEF Insert
    <3>3. ASSUME NEW r \in Run, ~ Insert(r), Begin(r) \/ RunStep(r) \/ Crash(r) PROVE FALSE
      BY <1>3, <3>1, <3>3 DEF Begin, RunStep, Find, Miss, InsertConflicts, Commit, Crash, Fail
    <3>4. ASSUME (\E a \in SignUpAddress : SignUp(a)) \/ UNCHANGED vars PROVE FALSE
      BY <1>3, <3>4 DEF SignUp, vars
    <3> QED
      BY <3>2, <3>3, <3>4 DEF Next
  <2> DEFINE k == Now(s).under
             l == Len(got[s]) + 1
  <2>2. pc[s] \in Open /\ got[s] \in Seq(1..lastId)
    BY <2>1 DEF Insert, Open, TInv, TypeOK
  <2>3. k \in 0..Len(got[s]) /\ l \in 1..5 /\ Now(s) = Call[l]
    BY <2>2, NowFacts, CallFacts DEF Now
  <2>4. u.address = Call[l].address /\ u.parent = IF k = 0 THEN NoParent ELSE got[s][k]
    BY <2>1, <2>3 DEF MakeUser
  <2>5. CASE k = 0
    BY <2>3, <2>4, <2>5, CallFacts DEF InTree
  <2>6. CASE k # 0
    <3>1. k \in DOMAIN got[s]
      BY <2>2, <2>3, <2>6
    <3>2. pc[s] # "failed"
      BY <2>2 DEF Open
    <3>3. Backed(s, k)
      BY <3>1, <3>2 DEF GotVisible
    <3>4. u.address \in DOMAIN ChildOf /\ ChildOf[u.address] = Call[k].address
      BY <2>3, <2>4, <2>6, CallFacts
    <3>5. Visible(s) \subseteq Visible(s)'
      BY <2>1, VisibleStays DEF Insert, Return, TInv, TypeOK
    <3> QED
      BY <2>4, <2>6, <3>3, <3>4, <3>5 DEF Backed, InTree
  <2> QED
    BY <2>5, <2>6
<1>4. ASSUME NEW u \in users', u.by \in Run PROVE InTree(u, users')
  <2>1. CASE u \in users
    BY <1>4, <2>1, VisibleStays, MoreRowsKeepTree DEF TreeHolds
  <2>2. ASSUME NEW r \in Run, Commit(r), u \in pending[r] PROVE InTree(u, users')
    BY <2>2 DEF Commit, TreeHolds, Visible
  <2>3. ASSUME NEW a \in SignUpAddress, SignUp(a) PROVE u \in users
    BY <1>4, <2>3, SeederAssumption DEF SignUp
  <2>4. ASSUME NEW r \in Run, Commit(r) PROVE u \in users \/ u \in pending[r]
    BY <1>4, <2>4 DEF Commit
  <2>5. ASSUME NEW r \in Run, ~ Commit(r), Begin(r) \/ RunStep(r) \/ Crash(r) PROVE u \in users
    BY <1>4, <2>5 DEF Begin, RunStep, Find, Miss, Insert, InsertConflicts, Crash, Fail
  <2> QED
    BY <1>4, <2>1, <2>2, <2>3, <2>4, <2>5 DEF Next, vars
<1> QED
  BY <1>2, <1>3, <1>4 DEF TreeHolds

\* The users that the seeder made hang in the documented tree, also when
\* another run or a sign-up made the parent.
THEOREM SeedsTree == Spec => []SeededTree
<1>1. TreeHolds => SeededTree
  BY DEF TreeHolds, SeededTree, InTree
<1> QED
  BY TypeInit, TypeStep, GotInit, GotStep, TreeInit, TreeStep, <1>1, PTL DEF Spec

-----------------------------------------------------------------------------
(* Who waits for whom.                                                     *)

\* What a run has inserted is what its calls so far are about.
PendingKnown ==
  \A s \in Run : \A u \in pending[s] :
    \E n \in 1..Len(got[s]) : u.address = Call[n].address

\* Each step of a run leaves what it has inserted, adds one row, or drops all.
LEMMA PendingMoves ==
  ASSUME TInv, [Next]_vars, NEW s \in Run
  PROVE  \/ pending'[s] = pending[s] /\ (got'[s] = got[s] \/ Find(s))
         \/ pending'[s] = {}
         \/ Insert(s) /\ pending'[s] = pending[s] \cup {MakeUser(s, Now(s))}
<1>1. /\ pending \in [Run -> SUBSET (User \ users)]
      /\ got \in [Run -> Seq(1..lastId)]
  BY DEF TInv, TypeOK
<1>2. CASE UNCHANGED vars
  BY <1>2 DEF vars
<1>3. ASSUME NEW r \in Run, Insert(r)
      PROVE  \/ pending'[s] = pending[s] /\ got'[s] = got[s]
             \/ r = s /\ pending'[s] = pending[s] \cup {MakeUser(s, Now(s))}
  BY <1>1, <1>3 DEF Insert, Return
<1>4. ASSUME NEW r \in Run, Find(r) PROVE pending'[s] = pending[s] /\ (got'[s] = got[s] \/ r = s)
  BY <1>1, <1>4 DEF Find, Return
<1>5. ASSUME NEW r \in Run, Begin(r) \/ Miss(r) PROVE pending'[s] = pending[s] /\ got'[s] = got[s]
  BY <1>5 DEF Begin, Miss
<1>6. ASSUME NEW r \in Run, InsertConflicts(r) \/ Crash(r) \/ Commit(r)
      PROVE  got'[s] = got[s] /\ (pending'[s] = pending[s] \/ pending'[s] = {})
  BY <1>1, <1>6 DEF InsertConflicts, Crash, Commit, Fail
<1>7. ASSUME NEW a \in SignUpAddress, SignUp(a) PROVE pending'[s] = pending[s] /\ got'[s] = got[s]
  BY <1>7 DEF SignUp
<1> QED
  BY <1>2, <1>3, <1>4, <1>5, <1>6, <1>7 DEF Next, RunStep

LEMMA PendingKnownInit == Init => PendingKnown
BY DEF Init, PendingKnown

LEMMA PendingKnownStep == TInv /\ PendingKnown /\ [Next]_vars => PendingKnown'
<1> SUFFICES ASSUME TInv, PendingKnown, [Next]_vars, NEW s \in Run, NEW u \in pending'[s]
             PROVE  \E n \in 1..Len(got'[s]) : u.address = Call[n].address
  BY DEF PendingKnown
<1>1. got[s] \in Seq(1..lastId) /\ Len(got[s]) \in Nat
  BY DEF TInv, TypeOK
<1>2. ASSUME NEW id, got'[s] = Append(got[s], id), id \in Nat
      PROVE  Len(got'[s]) = Len(got[s]) + 1
  BY <1>1, <1>2
<1>3. got \in [Run -> Seq(1..lastId)] /\ users \subseteq User /\ pending[s] \subseteq User
      /\ lastId \in Nat
  BY DEF TInv, TypeOK
<1>4. Find(s) => \E id \in Nat : got'[s] = Append(got[s], id)
  <2> SUFFICES ASSUME Find(s) PROVE \E id \in Nat : got'[s] = Append(got[s], id)
    OBVIOUS
  <2>1. PICK v \in At(Visible(s), Now(s).address) : Return(s, v.id)
    BY DEF Find
  <2>2. v.id \in Nat
    BY <1>3 DEF At, Visible, User
  <2> QED
    BY <1>3, <2>1, <2>2 DEF Return
<1>5. Insert(s) => \E id \in Nat : got'[s] = Append(got[s], id)
  BY <1>3 DEF Insert, Return, MakeUser
<1>6. CASE pending'[s] = pending[s] /\ (got'[s] = got[s] \/ Find(s))
  <2>1. PICK n \in 1..Len(got[s]) : u.address = Call[n].address
    BY <1>6 DEF PendingKnown
  <2>2. n \in 1..Len(got'[s])
    BY <1>1, <1>2, <1>4, <1>6
  <2> QED
    BY <2>1, <2>2
<1>7. CASE Insert(s) /\ pending'[s] = pending[s] \cup {MakeUser(s, Now(s))}
  <2>1. Len(got'[s]) = Len(got[s]) + 1
    BY <1>2, <1>5, <1>7
  <2>2. CASE u \in pending[s]
    BY <1>1, <2>1, <2>2 DEF PendingKnown
  <2>3. CASE u = MakeUser(s, Now(s))
    <3>1. u.address = Call[Len(got[s]) + 1].address
      BY <2>3 DEF MakeUser, Now
    <3>2. Len(got[s]) + 1 \in 1..Len(got'[s])
      BY <1>1, <2>1
    <3> QED
      BY <3>1, <3>2
  <2> QED
    BY <1>7, <2>2, <2>3
<1> QED
  BY <1>6, <1>7, PendingMoves

\* A run waits only for runs that are at work and have got further than it, so
\* no run waits, over others, for itself.
THEOREM RunsWaitForward == Spec => []WaitsForward
<1>1. TInv /\ PendingKnown => WaitsForward
  <2> SUFFICES ASSUME TInv, PendingKnown, NEW r \in Run, NEW s \in Run, pc[r] = "insert",
                      NEW u \in pending[s], u.address = Now(r).address
               PROVE  pc[s] \in Open \cup {"commit"} /\ Len(got[s]) > Len(got[r])
    BY DEF WaitsForward, At
  <2>1. PICK n \in 1..Len(got[s]) : u.address = Call[n].address
    BY DEF PendingKnown
  <2>2. Len(got[s]) \in 0..5 /\ Len(got[r]) \in 0..4
    <3>1. got[s] \in Seq(1..lastId) /\ Len(got[s]) <= 5
      BY CallFacts DEF TInv, TypeOK
    <3>2. Len(got[s]) \in Nat
      BY <3>1
    <3>3. Len(got[s]) \in 0..5
      <4> DEFINE k == Len(got[s])
      <4>1. k \in Nat /\ k <= 5
        BY <3>1, <3>2
      <4> HIDE DEF k
      <4>2. k \in 0..5
        BY <4>1
      <4> QED
        BY <4>2 DEF k
    <3>4. Len(got[r]) \in 0..4
      BY NowFacts DEF Open
    <3> QED
      BY <3>3, <3>4
  <2>3. n \in 1..5 /\ Len(got[r]) + 1 \in 1..5
    <3> DEFINE k == Len(got[s])
               l == Len(got[r])
    <3>1. n \in 1..k /\ k \in 0..5 /\ l \in 0..4
      BY <2>1, <2>2
    <3> HIDE DEF k, l
    <3>2. n \in 1..5 /\ l + 1 \in 1..5
      BY <3>1
    <3> QED
      BY <3>2 DEF l
  <2>4. n = Len(got[r]) + 1
    BY <2>1, <2>3, CallFacts DEF Now
  <2>5. pc[s] \in Open \cup {"commit"}
    BY DEF TInv, Progress
  <2> QED
    BY <2>2, <2>4, <2>5
<1> QED
  BY TypeInit, TypeStep, PendingKnownInit, PendingKnownStep, <1>1, PTL DEF Spec

-----------------------------------------------------------------------------
(* Seeding in one step.                                                    *)

Pending == UNION {pending[r] : r \in Run}

\* No two rows, committed or not, have an id or an address in common.
RowsDistinct == Seeds!Distinct(users \cup Pending)

\* A step moves rows about, drops some, or adds one with a new id and address.
LEMMA RowsMove ==
  ASSUME TInv, PendingKnown, [Next]_vars
  PROVE  \E w : /\ users' \cup Pending' \subseteq users \cup Pending \cup {w}
                /\ \/ w \in users \cup Pending
                   \/ users' \cup Pending' \subseteq users \cup Pending
                   \/ \A u \in users \cup Pending : u.id # w.id /\ u.address # w.address
<1> DEFINE Goal(w) ==
      /\ users' \cup Pending' \subseteq users \cup Pending \cup {w}
      /\ \/ w \in users \cup Pending
         \/ users' \cup Pending' \subseteq users \cup Pending
         \/ \A u \in users \cup Pending : u.id # w.id /\ u.address # w.address
<1>1. /\ users \subseteq User /\ lastId \in Nat
      /\ pending \in [Run -> SUBSET (User \ users)]
  BY DEF TInv, TypeOK
<1>2. \A u \in users \cup Pending : u.id # lastId + 1
  BY <1>1 DEF User, Pending
<1>3. CASE UNCHANGED <<users, pending>>
  BY <1>3 DEF Pending
<1>4. ASSUME NEW r \in Run, Insert(r) PROVE \E w : Goal(w)
  <2> DEFINE w == MakeUser(r, Now(r))
  <2>1. /\ pc[r] = "insert" /\ users' = users
        /\ pending' = [pending EXCEPT ![r] = @ \cup {w}]
        /\ w.id = lastId + 1 /\ w.address = Now(r).address
    BY <1>4 DEF Insert, MakeUser
  <2>2. users' \cup Pending' \subseteq users \cup Pending \cup {w}
    BY <1>1, <2>1 DEF Pending
  <2>3. \A u \in users : u.address # Now(r).address
    BY <1>4 DEF Insert, At
  <2>4. \A s \in Run \ {r} : \A u \in pending[s] : u.address # Now(r).address
    BY <1>4 DEF Insert, AddressLocked, At
  <2>5. ASSUME NEW u \in pending[r] PROVE u.address # Now(r).address
    <3> DEFINE l == Len(got[r])
    <3>1. l \in 0..4
      BY <2>1, NowFacts DEF Open
    <3>2. PICK n \in 1..l : u.address = Call[n].address
      BY DEF PendingKnown
    <3>3. Now(r).address = Call[l + 1].address
      BY DEF Now
    <3> HIDE DEF l
    <3>4. n \in 1..5 /\ l + 1 \in 1..5 /\ n # l + 1
      BY <3>1, <3>2
    <3> QED
      BY <3>2, <3>3, <3>4, CallFacts
  <2>6. \A u \in users \cup Pending : u.id # w.id /\ u.address # w.address
    BY <1>2, <2>1, <2>3, <2>4, <2>5 DEF Pending
  <2> QED
    BY <2>2, <2>6
<1>5. ASSUME NEW a \in SignUpAddress, SignUp(a) PROVE \E w : Goal(w)
  <2> DEFINE w == [id |-> lastId + 1, address |-> a, by |-> ASignUp, parent |-> NoParent]
  <2>1. users' = users \cup {w} /\ UNCHANGED pending
    BY <1>5 DEF SignUp
  <2>2. \A u \in users \cup Pending : u.address # a
    BY <1>5 DEF SignUp, At, Pending
  <2> QED
    BY <1>2, <2>1, <2>2 DEF Pending
<1>6. ASSUME NEW r \in Run, Commit(r) PROVE users' \cup Pending' \subseteq users \cup Pending
  <2>1. users' = users \cup pending[r] /\ pending' = [pending EXCEPT ![r] = {}]
    BY <1>6 DEF Commit
  <2> QED
    BY <1>1, <2>1 DEF Pending
<1>7. ASSUME NEW r \in Run, Fail(r) PROVE users' \cup Pending' \subseteq users \cup Pending
  <2>1. users' = users /\ pending' = [pending EXCEPT ![r] = {}]
    BY <1>7 DEF Fail
  <2> QED
    BY <1>1, <2>1 DEF Pending
<1>8. ASSUME NEW r \in Run, Begin(r) \/ Find(r) \/ Miss(r) PROVE UNCHANGED <<users, pending>>
  BY <1>8 DEF Begin, Find, Miss
<1> QED
  BY <1>3, <1>4, <1>5, <1>6, <1>7, <1>8 DEF Next, RunStep, InsertConflicts, Crash, vars

LEMMA DistinctInit == Init => RowsDistinct
BY DEF Init, RowsDistinct, Pending, Seeds!Distinct

LEMMA DistinctStep == TInv /\ PendingKnown /\ RowsDistinct /\ [Next]_vars => RowsDistinct'
<1> SUFFICES ASSUME TInv, PendingKnown, RowsDistinct, [Next]_vars PROVE RowsDistinct'
  OBVIOUS
<1>1. PICK w : /\ users' \cup Pending' \subseteq users \cup Pending \cup {w}
               /\ \/ w \in users \cup Pending
                  \/ users' \cup Pending' \subseteq users \cup Pending
                  \/ \A u \in users \cup Pending : u.id # w.id /\ u.address # w.address
  BY RowsMove
<1> QED
  BY <1>1 DEF RowsDistinct, Seeds!Distinct

SeededRuns == {r \in Run : pc[r] = "seeded"}

\* A run's commit adds what is missing of the tree, and nothing else.
LEMMA CommitSeeds ==
  ASSUME TInv, GotVisible, TreeHolds, PendingKnown, RowsDistinct, NEW r \in Run, Commit(r)
  PROVE  Seeds!Seed(r)
<1>1. /\ pc[r] = "commit" /\ users' = users \cup pending[r]
      /\ pc' = [pc EXCEPT ![r] = "seeded"]
  BY DEF Commit
<1>2. /\ pending[r] \subseteq User \ users
      /\ pc \in [Run -> Open \cup {"idle", "commit", "seeded", "failed"}]
      /\ Len(got[r]) = 5 /\ got[r] \in Seq(1..lastId)
  BY <1>1 DEF TInv, TypeOK, Progress
<1>3. r \notin SeededRuns /\ SeededRuns' = SeededRuns \cup {r}
  BY <1>1, <1>2 DEF SeededRuns
<1>4. users' \ users = pending[r]
  BY <1>1, <1>2
<1>5. users \subseteq users' /\ Seeds!Distinct(users')
  BY <1>1 DEF RowsDistinct, Seeds!Distinct, Pending
<1>6. \A u \in pending[r] : u.by = r
  BY DEF TInv, Progress
<1>7. ASSUME NEW u \in pending[r] PROVE Seeds!InPlace(u, users')
  BY <1>1 DEF TreeHolds, Visible, InTree, Seeds!InPlace
<1>8. ASSUME NEW u \in pending[r] PROVE u.address \in Seeds!Missing
  <2>1. \E n \in DOMAIN Call : u.address = Call[n].address
    <3>1. PICK n \in 1..Len(got[r]) : u.address = Call[n].address
      BY DEF PendingKnown
    <3>2. 1..Len(got[r]) = DOMAIN Call
      BY <1>2, CallFacts
    <3> QED
      BY <3>1, <3>2
  <2>2. \A v \in users : v.address # u.address
    BY <1>2 DEF RowsDistinct, Seeds!Distinct, Pending
  <2> QED
    BY <2>1, <2>2 DEF Seeds!Missing
<1>9. ASSUME NEW a \in Seeds!Missing PROVE \E u \in pending[r] : u.address = a
  <2>1. PICK n \in DOMAIN Call : a = Call[n].address
    BY DEF Seeds!Missing
  <2>2. n \in DOMAIN got[r]
    BY <1>2, CallFacts
  <2>3. PICK u \in Visible(r) : u.address = a
    BY <1>1, <2>1, <2>2 DEF GotVisible, Backed
  <2>4. u \notin users
    BY <2>3 DEF Seeds!Missing
  <2> QED
    BY <2>3, <2>4 DEF Visible
<1>10. {u.address : u \in pending[r]} = Seeds!Missing
  BY <1>8, <1>9
<1> QED
  BY <1>3, <1>4, <1>5, <1>6, <1>7, <1>10 DEF Seeds!Seed, Seeds!Grow, Seeds!Added, SeededRuns

LEMMA SignUpSeeds ==
  ASSUME TInv, RowsDistinct, RowsDistinct', NEW a \in SignUpAddress, SignUp(a)
  PROVE  Seeds!SignUp(a)
<1> DEFINE u == [id |-> lastId + 1, address |-> a, by |-> ASignUp, parent |-> NoParent]
<1>1. users' = users \cup {u} /\ UNCHANGED pc /\ \A v \in users : v.address # a
  BY DEF SignUp, At
<1>2. u \notin users /\ users' \ users = {u}
  BY <1>1
<1>3. users \subseteq users' /\ Seeds!Distinct(users')
  BY <1>1 DEF RowsDistinct, Seeds!Distinct
<1>4. \E v \in users' \ users :
        users' \ users = {v} /\ v.address = a /\ v.by = ASignUp /\ v.parent = NoParent
  BY <1>2
<1> QED
  BY <1>1, <1>3, <1>4 DEF Seeds!SignUp, Seeds!Grow, Seeds!Added

\* Runs that look, insert, conflict and fail, beside each other and sign-ups,
\* refine seeding in one step.
THEOREM SeederImplementsSeeding == Spec => ImplementsSeeding
<1>1. Init => Seeds!Init
  BY DEF Init, Seeds!Init
<1>2. TInv /\ GotVisible /\ TreeHolds /\ PendingKnown /\ RowsDistinct /\ RowsDistinct'
        /\ [Next]_vars => [Seeds!Next]_(Seeds!vars)
  <2> SUFFICES ASSUME TInv, GotVisible, TreeHolds, PendingKnown, RowsDistinct, RowsDistinct',
                      [Next]_vars
               PROVE  Seeds!Next \/ UNCHANGED <<users, SeededRuns>>
    BY DEF Seeds!vars, SeededRuns
  <2>1. CASE UNCHANGED vars
    BY <2>1 DEF vars, SeededRuns
  <2>2. ASSUME NEW r \in Run, Commit(r) PROVE Seeds!Next
    BY <2>2, CommitSeeds DEF Seeds!Next
  <2>3. ASSUME NEW a \in SignUpAddress, SignUp(a) PROVE Seeds!Next
    BY <2>3, SignUpSeeds DEF Seeds!Next
  <2>4. ASSUME NEW r \in Run, Begin(r) \/ Find(r) \/ Miss(r) \/ Insert(r) \/ InsertConflicts(r)
                              \/ Crash(r)
        PROVE  UNCHANGED <<users, SeededRuns>>
    <3>1. pc \in [Run -> Open \cup {"idle", "commit", "seeded", "failed"}]
      BY DEF TInv, TypeOK
    <3>2. UNCHANGED users
      BY <2>4 DEF Begin, Find, Miss, Insert, InsertConflicts, Crash, Fail
    <3>3. pc[r] # "seeded" /\ \E step \in {"look", "insert", "commit", "failed"} :
                                pc' = [pc EXCEPT ![r] = step]
      BY <2>4 DEF Begin, Find, Miss, Insert, InsertConflicts, Crash, Fail, Return, Open
    <3>4. \A s \in Run : pc'[s] = "seeded" <=> pc[s] = "seeded"
      BY <3>1, <3>3
    <3> QED
      BY <3>2, <3>4 DEF SeededRuns
  <2> QED
    BY <2>1, <2>2, <2>3, <2>4 DEF Next, RunStep
<1> QED
  BY TypeInit, TypeStep, GotInit, GotStep, TreeInit, TreeStep, PendingKnownInit, PendingKnownStep,
     DistinctInit, DistinctStep, <1>1, <1>2, PTL DEF Spec, ImplementsSeeding, Seeds!Spec

-----------------------------------------------------------------------------
(* Running the seeder again.                                               *)

AllThere == \A n \in DOMAIN Call : At(users, Call[n].address) # {}

OnlyFinds(r) == AllThere /\ pc[r] # "insert"

LEMMA OnlyFindsStays ==
  ASSUME NEW r \in Run
  PROVE  TInv /\ OnlyFinds(r) /\ [Next]_vars => OnlyFinds(r)'
<1> SUFFICES ASSUME TInv, OnlyFinds(r), [Next]_vars PROVE OnlyFinds(r)'
  OBVIOUS
<1>1. AllThere'
  <2>1. users \subseteq users'
    BY VisibleStays
  <2> QED
    BY <2>1 DEF OnlyFinds, AllThere, At
<1>2. ~ Miss(r)
  <2> SUFFICES ASSUME Miss(r) PROVE FALSE
    OBVIOUS
  <2>1. pc[r] = "look" /\ At(Visible(r), Now(r).address) = {}
    BY DEF Miss
  <2>2. \E n \in DOMAIN Call : Now(r) = Call[n]
    BY <2>1, NowFacts DEF Open, Now
  <2>3. At(users, Now(r).address) # {}
    BY <2>2 DEF OnlyFinds, AllThere
  <2> QED
    BY <2>1, <2>3 DEF At, Visible
<1>3. pc \in [Run -> Open \cup {"idle", "commit", "seeded", "failed"}] /\ pc[r] # "insert"
  BY DEF TInv, TypeOK, OnlyFinds
<1>4. pc'[r] # "insert"
  <2>1. ASSUME NEW s \in Run, s # r, Begin(s) \/ RunStep(s) \/ Crash(s) PROVE pc'[r] = pc[r]
    BY <1>3, <2>1 DEF Begin, RunStep, Crash, Find, Miss, Insert, InsertConflicts, Commit, Return, Fail
  <2>2. CASE Begin(r) \/ Find(r) \/ Insert(r) \/ InsertConflicts(r) \/ Commit(r) \/ Crash(r)
    BY <1>3, <2>2 DEF Begin, Crash, Find, Insert, InsertConflicts, Commit, Return, Fail
  <2>3. CASE UNCHANGED pc
    BY <1>3, <2>3
  <2> QED
    BY <1>2, <1>3, <2>1, <2>2, <2>3 DEF Next, vars, RunStep, SignUp
<1> QED
  BY <1>1, <1>4 DEF OnlyFinds

\* Once the five users are there, a run that begins inserts nothing, so it
\* cannot meet a conflict: nobody takes a user away.
THEOREM RerunOnlyFinds == Spec => IdempotentRerun
<1> SUFFICES ASSUME NEW r \in Run
             PROVE  Spec => []((pc[r] = "idle" /\ \A n \in DOMAIN Call :
                                  At(users, Call[n].address) # {}) => [](pc[r] # "insert"))
  BY DEF IdempotentRerun
<1>1. pc[r] = "idle" /\ (\A n \in DOMAIN Call : At(users, Call[n].address) # {}) => OnlyFinds(r)
  BY DEF OnlyFinds, AllThere
<1>2. OnlyFinds(r) => pc[r] # "insert"
  BY DEF OnlyFinds
<1>3. TInv /\ OnlyFinds(r) /\ [Next]_vars => OnlyFinds(r)'
  BY OnlyFindsStays
<1> QED
  BY TypeInit, TypeStep, <1>1, <1>2, <1>3, PTL DEF Spec

=============================================================================
