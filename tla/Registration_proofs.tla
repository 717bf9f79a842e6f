------------------------ MODULE Registration_proofs ------------------------
(***************************************************************************)
(* Proofs about Registration, for any requests, any spellings and any      *)
(* choice of reliable services; and about Onboarding, where the queue's    *)
(* workers join in.                                                        *)
(***************************************************************************)
EXTENDS Onboarding, TLAPS

\* The requests whose row is in the table, and those whose row is not.
Inserted(r) ==
  pc[r] \in {"index", "broadcast", "dispatch", "respond"} \/ status[r] = 201

NotInserted(r) ==
  pc[r] \in {"idle", "validate", "insert"} \/ status[r] \in {422, 500}

\* A status is given by the last step of a request only.
AnsweredLast == \A r \in Request : status[r] # NoStatus => pc[r] = "done"

\* Each row is what `creating` made of its request, alone in its mailbox.
RowsNormal ==
  /\ \A u \in users : u = RowOf(u.id) /\ Canon[u.email] = u.email
  /\ \A u, v \in users : u.email = v.email => u = v

\* The table follows the control state of the requests.
RowsFollowRequests ==
  \A r \in Request :
    /\ Inserted(r) => RowOf(r) \in users
    /\ NotInserted(r) => \A u \in users : u.id # r

\* The hooks a request has passed have told the services that work.
HooksTold ==
  \A r \in Request :
    /\ "search" \in Reliable /\ (pc[r] \in {"broadcast", "dispatch", "respond"} \/ status[r] = 201)
         => RowOf(r) \in accepted \cup index
    /\ "broadcast" \in Reliable /\ (pc[r] \in {"dispatch", "respond"} \/ status[r] = 201)
         => RowOf(r) \in channel
    /\ "events" \in Reliable /\ (pc[r] = "respond" \/ status[r] = 201)
         => RowOf(r) \in dispatched

IInv ==
  /\ TypeOK
  /\ AnsweredLast
  /\ RowsNormal
  /\ RowsFollowRequests
  /\ HooksTold
  /\ EffectsFollowPersistence
  /\ AnnouncedIsIndexed

-----------------------------------------------------------------------------
\* Normalising an address always gives a spelling, and RowOf a row.
LEMMA CanonSpelling ==
  /\ \A e \in RawEmail : Canon[e] \in RawEmail /\ Canon[Canon[e]] = Canon[e]
BY CanonAssumption

LEMMA RowOfType ==
  ASSUME TypeOK, NEW r \in Request, pc[r] \in InHandler
  PROVE  RowOf(r) \in Row
BY CanonSpelling DEF TypeOK, RowOf, Row, Creating

-----------------------------------------------------------------------------
(* Type correctness.                                                       *)

LEMMA TypeInit == Init => TypeOK
BY DEF Init, TypeOK, Steps, InHandler, NoStatus

LEMMA TypeStep == TypeOK /\ [Next]_vars => TypeOK'
<1> SUFFICES ASSUME TypeOK, [Next]_vars PROVE TypeOK'
  OBVIOUS
<1> USE DEF TypeOK, Steps, InHandler, effects, engine, Goto
<1>1. CASE UNCHANGED vars
  BY <1>1 DEF vars
<1>2. ASSUME NEW r \in Request, RequestStep(r) PROVE TypeOK'
  <2>1. CASE Store(r)
    BY <2>1 DEF Store
  <2>2. CASE StoreValidated(r)
    BY <2>2 DEF StoreValidated
  <2>3. CASE RejectBody(r) \/ FormFails(r) \/ InsertFails(r) \/ Respond(r)
    BY <2>3 DEF RejectBody, FormFails, InsertFails, Respond, Answer
  <2>4. CASE Validate(r)
    BY <2>4, CanonSpelling DEF Validate
  <2>5. CASE Insert(r)
    <3>1. RowOf(r) \in Row
      BY <2>5, RowOfType DEF Insert
    <3> QED
      BY <2>5, <3>1 DEF Insert
  <2>6. CASE IndexUser(r) \/ BroadcastUserCreated(r) \/ DispatchUserCreatedEvent(r)
    <3>1. RowOf(r) \in Row
      BY <2>6, RowOfType DEF IndexUser, BroadcastUserCreated, DispatchUserCreatedEvent
    <3> QED
      BY <2>6, <3>1 DEF IndexUser, BroadcastUserCreated, DispatchUserCreatedEvent, Deliver
  <2>7. CASE Crash(r)
    BY <2>7 DEF Crash
  <2> QED
    BY <1>2, <2>1, <2>2, <2>3, <2>4, <2>5, <2>6, <2>7 DEF RequestStep, HandlerStep
<1>3. CASE Apply
  BY <1>3 DEF Apply
<1> QED
  BY <1>1, <1>2, <1>3 DEF Next

\* Every variable of Registration keeps its type, and a request inside its
\* handler always holds an address.
THEOREM TypeCorrect == Spec => []TypeOK
  BY TypeInit, TypeStep, PTL DEF Spec

-----------------------------------------------------------------------------
(* The inductive invariant.                                                *)

LEMMA IInit == Init => IInv
<1> SUFFICES ASSUME Init PROVE IInv
  OBVIOUS
<1>1. TypeOK
  BY TypeInit
<1> QED
  BY <1>1 DEF Init, IInv, AnsweredLast, RowsNormal, RowsFollowRequests, HooksTold,
     EffectsFollowPersistence, AnnouncedIsIndexed, Inserted, NoStatus

\* A step of one request leaves the normalised row of every other alone, and
\* its own once it is about to be inserted.
LEMMA RowOfStable ==
  ASSUME TypeOK, NEW r \in Request, RequestStep(r), NEW q \in Request,
         q # r \/ pc[q] \notin {"idle", "validate"}
  PROVE  RowOf(q)' = RowOf(q)
<1>1. email'[q] = email[q]
  BY DEF TypeOK, RequestStep, HandlerStep, Store, StoreValidated, RejectBody, Validate,
     FormFails, Insert, InsertFails, IndexUser, BroadcastUserCreated,
     DispatchUserCreatedEvent, Respond, Crash
<1> QED
  BY <1>1 DEF RowOf, Creating

LEMMA OthersKeepStep ==
  ASSUME TypeOK, NEW r \in Request, RequestStep(r), NEW q \in Request, q # r
  PROVE  pc'[q] = pc[q] /\ status'[q] = status[q]
BY DEF TypeOK, RequestStep, HandlerStep, Store, StoreValidated, RejectBody, Validate,
   FormFails, Insert, InsertFails, IndexUser, BroadcastUserCreated,
   DispatchUserCreatedEvent, Respond, Crash, Goto, Answer

LEMMA IStep == IInv /\ [Next]_vars => IInv'
<1> SUFFICES ASSUME IInv, [Next]_vars PROVE IInv'
  OBVIOUS
<1>0. TypeOK /\ TypeOK'
  BY TypeStep DEF IInv
<1>1. CASE UNCHANGED vars
  BY <1>0, <1>1 DEF vars, IInv, AnsweredLast, RowsNormal, RowsFollowRequests, HooksTold,
     EffectsFollowPersistence, AnnouncedIsIndexed, Inserted, NotInserted, RowOf, Creating
<1>2. ASSUME NEW r \in Request, RequestStep(r) PROVE IInv'
  <2>1. \A q \in Request : q # r => /\ pc'[q] = pc[q] /\ status'[q] = status[q]
                                   /\ RowOf(q)' = RowOf(q)
    BY <1>0, <1>2, RowOfStable, OthersKeepStep
  <2>2. CASE Store(r) \/ StoreValidated(r) \/ Validate(r)
    <3>1. /\ pc[r] \in {"idle", "validate"} /\ pc'[r] \in {"insert", "validate"}
          /\ UNCHANGED <<status, users, accepted, index, channel, dispatched>>
      BY <1>0, <2>2 DEF Store, StoreValidated, Validate, Goto, effects, engine, TypeOK
    <3>2. \A u \in users : u.id \in Request /\ u.id # r
      BY <1>0, <3>1 DEF IInv, RowsFollowRequests, NotInserted, TypeOK, Row
    <3> QED
      BY <1>0, <2>1, <3>1, <3>2 DEF IInv, AnsweredLast, RowsNormal, RowsFollowRequests,
         HooksTold, EffectsFollowPersistence, AnnouncedIsIndexed, Inserted, NotInserted,
         NoStatus
  <2>3. CASE RejectBody(r) \/ FormFails(r) \/ InsertFails(r)
    <3>1. /\ pc[r] \in {"idle", "validate", "insert"} /\ pc'[r] = "done"
          /\ status'[r] \in {422, 500}
          /\ UNCHANGED <<email, users, accepted, index, channel, dispatched>>
      BY <1>0, <2>3 DEF RejectBody, FormFails, InsertFails, Answer, Goto, effects, engine, TypeOK
    <3> QED
      BY <1>0, <2>1, <3>1 DEF IInv, AnsweredLast, RowsNormal, RowsFollowRequests,
         HooksTold, EffectsFollowPersistence, AnnouncedIsIndexed, Inserted, NotInserted,
         NoStatus, RowOf, Creating, TypeOK, Row
  <2>4. CASE Insert(r)
    <3>1. /\ pc[r] = "insert" /\ pc'[r] = "index" /\ status'[r] = status[r]
          /\ users' = users \cup {RowOf(r)}
          /\ UNCHANGED <<accepted, index, channel, dispatched>>
      BY <1>0, <2>4 DEF Insert, Goto, effects, engine, TypeOK
    <3>2. /\ RowOf(r)' = RowOf(r) /\ RowOf(r).id = r
          /\ RowOf(r) \in Row /\ Canon[RowOf(r).email] = RowOf(r).email
      BY <1>0, <2>4, <3>1, RowOfType, CanonSpelling
      DEF Insert, RowOf, Creating, InHandler, TypeOK
    <3>3. \A u \in users : u.id \in Request /\ u.id # r /\ u.email # RowOf(r).email
      <4>1. \A u \in users : u.id \in Request
        BY <1>0 DEF TypeOK, Row
      <4>2. \A u \in users : u.id # r
        BY <3>1 DEF IInv, RowsFollowRequests, NotInserted
      <4>3. \A u \in users : u.email # RowOf(r).email
        BY <2>4 DEF Insert, EmailTaken, RowOf
      <4> QED
        BY <4>1, <4>2, <4>3
    <3>4. status[r] = NoStatus
      BY <3>1 DEF IInv, AnsweredLast
    <3>5. RowsNormal'
      BY <2>1, <3>1, <3>2, <3>3 DEF IInv, RowsNormal
    <3>6. RowsFollowRequests'
      <4> SUFFICES ASSUME NEW q \in Request
                   PROVE  /\ Inserted(q)' => RowOf(q)' \in users'
                          /\ NotInserted(q)' => \A u \in users' : u.id # q
        BY DEF RowsFollowRequests
      <4>1. CASE q = r
        BY <3>1, <3>2, <3>4, <4>1 DEF NotInserted, NoStatus
      <4>2. CASE q # r
        BY <2>1, <3>1, <3>2, <4>2 DEF IInv, RowsFollowRequests, Inserted, NotInserted
      <4> QED
        BY <4>1, <4>2
    <3> QED
      BY <1>0, <2>1, <3>1, <3>4, <3>5, <3>6 DEF IInv, AnsweredLast, HooksTold,
         EffectsFollowPersistence, AnnouncedIsIndexed, NoStatus
  <2>5. CASE IndexUser(r) \/ BroadcastUserCreated(r) \/ DispatchUserCreatedEvent(r)
    <3>1. /\ pc[r] \in {"index", "broadcast", "dispatch"}
          /\ pc'[r] \in {"broadcast", "dispatch", "respond"}
          /\ status'[r] = status[r] /\ users' = users /\ email' = email
      BY <1>0, <2>5 DEF IndexUser, BroadcastUserCreated, DispatchUserCreatedEvent, Goto,
         TypeOK
    <3>2. RowOf(r)' = RowOf(r) /\ RowOf(r) \in users /\ status[r] = NoStatus
      BY <3>1 DEF RowOf, Creating, IInv, RowsFollowRequests, Inserted, AnsweredLast
    <3>3. /\ AnsweredLast' /\ RowsNormal' /\ RowsFollowRequests'
      BY <1>0, <2>1, <3>1, <3>2 DEF IInv, AnsweredLast, RowsNormal, RowsFollowRequests,
         Inserted, NotInserted, NoStatus, RowOf, Creating, TypeOK, Row
    <3>4. HooksTold' /\ EffectsFollowPersistence' /\ AnnouncedIsIndexed'
      <4>1. CASE IndexUser(r)
        BY <1>0, <2>1, <3>1, <3>2, <4>1 DEF IndexUser, Deliver, Goto, engine, IInv, HooksTold,
           EffectsFollowPersistence, AnnouncedIsIndexed, NoStatus, TypeOK
      <4>2. CASE BroadcastUserCreated(r)
        BY <1>0, <2>1, <3>1, <3>2, <4>2 DEF BroadcastUserCreated, Deliver, Goto, engine, IInv,
           HooksTold, EffectsFollowPersistence, AnnouncedIsIndexed, NoStatus, TypeOK
      <4>3. CASE DispatchUserCreatedEvent(r)
        BY <1>0, <2>1, <3>1, <3>2, <4>3 DEF DispatchUserCreatedEvent, Deliver, Goto, engine, IInv,
           HooksTold, EffectsFollowPersistence, AnnouncedIsIndexed, NoStatus, TypeOK
      <4> QED
        BY <2>5, <4>1, <4>2, <4>3
    <3> QED
      BY <1>0, <3>3, <3>4 DEF IInv
  <2>6. CASE Respond(r)
    BY <1>0, <2>1, <2>6 DEF Respond, Answer, Goto, effects, engine, IInv, AnsweredLast, RowsNormal,
       RowsFollowRequests, HooksTold, EffectsFollowPersistence, AnnouncedIsIndexed,
       Inserted, NotInserted, NoStatus, RowOf, Creating, TypeOK, Row
  <2>7. CASE Crash(r)
    BY <1>0, <2>1, <2>7 DEF Crash, InHandler, Goto, effects, engine, IInv, AnsweredLast, RowsNormal,
       RowsFollowRequests, HooksTold, EffectsFollowPersistence, AnnouncedIsIndexed,
       Inserted, NotInserted, NoStatus, RowOf, Creating, TypeOK, Row
  <2> QED
    BY <1>2, <2>2, <2>3, <2>4, <2>5, <2>6, <2>7 DEF RequestStep, HandlerStep
<1>3. CASE Apply
  <2>1. /\ UNCHANGED <<pc, email, status, users, channel, dispatched>>
        /\ accepted' \cup index' \subseteq accepted \cup index
        /\ "search" \in Reliable => accepted' \cup index' = accepted \cup index
    BY <1>3 DEF Apply
  <2>2. \A q \in Request : RowOf(q)' = RowOf(q)
    BY <2>1 DEF RowOf, Creating
  <2>3. AnsweredLast' /\ RowsNormal' /\ RowsFollowRequests'
    BY <2>1, <2>2 DEF IInv, AnsweredLast, RowsNormal, RowsFollowRequests, Inserted,
                      NotInserted, RowOf, Creating
  <2>4. HooksTold' /\ EffectsFollowPersistence' /\ AnnouncedIsIndexed'
    BY <2>1, <2>2 DEF IInv, HooksTold, EffectsFollowPersistence, AnnouncedIsIndexed
  <2> QED
    BY <1>0, <2>3, <2>4 DEF IInv
<1> QED
  BY <1>1, <1>2, <1>3 DEF Next

LEMMA Invariance == Spec => []IInv
  BY IInit, IStep, PTL DEF Spec

-----------------------------------------------------------------------------
(* The safety properties.                                                  *)

LEMMA UniqueByMailbox == IInv => OneAccountPerMailbox
<1> SUFFICES ASSUME IInv, NEW u \in users, NEW v \in users, Canon[u.email] = Canon[v.email]
             PROVE  u = v
  BY DEF OneAccountPerMailbox
<1> QED
  BY DEF IInv, RowsNormal

\* A mailbox never has two accounts, however its address is spelt and however
\* the requests interleave.
THEOREM UniqueAccounts == Spec => []OneAccountPerMailbox
  BY Invariance, UniqueByMailbox, PTL

LEMMA AnswersByInvariant == IInv => AnswerMatchesStore
<1> SUFFICES ASSUME IInv, NEW r \in Request
             PROVE  LET mine == {u \in users : u.id = r}
                    IN  /\ status[r] = 201 => mine = {[id |-> r, email |-> Canon[email[r]]]}
                        /\ status[r] \in {422, 500} => mine = {}
  BY DEF AnswerMatchesStore
<1>1. ASSUME status[r] = 201 PROVE {u \in users : u.id = r} = {RowOf(r)}
  <2>1. RowOf(r) \in users /\ RowOf(r).id = r
    BY <1>1 DEF IInv, RowsFollowRequests, Inserted, RowOf
  <2>2. \A u \in users : u.id = r => u = RowOf(r)
    BY DEF IInv, RowsNormal
  <2> QED
    BY <2>1, <2>2
<1>2. ASSUME status[r] \in {422, 500} PROVE {u \in users : u.id = r} = {}
  BY <1>2 DEF IInv, RowsFollowRequests, NotInserted
<1> QED
  BY <1>1, <1>2 DEF RowOf, Creating

LEMMA IndependenceByInvariant == IInv => EffectsIndependent
BY DEF IInv, EffectsIndependent, HooksTold, RowsNormal, TypeOK, Row

\* 201 is answered exactly for an account that is in the table under the
\* normalised address, and an error only when nothing was created.
THEOREM TruthfulAnswers == Spec => []AnswerMatchesStore
  BY Invariance, AnswersByInvariant, PTL

\* No service ever hears of an account that is not in the table.
THEOREM EffectsOnlyOfAccounts == Spec => []EffectsFollowPersistence
<1>1. IInv => EffectsFollowPersistence
  BY DEF IInv
<1> QED
  BY Invariance, <1>1, PTL

\* Whatever the other services do, a service that works has every account
\* that was answered 201.
THEOREM ServicesIndependent == Spec => []EffectsIndependent
  BY Invariance, IndependenceByInvariant, PTL

\* A search engine that works has the document of every account that was
\* announced or queued for its welcome mail: found now, or acknowledged and to
\* be applied.
THEOREM IndexedBeforeAnnounced == Spec => []AnnouncedIsIndexed
<1>1. IInv => AnnouncedIsIndexed
  BY DEF IInv
<1> QED
  BY Invariance, <1>1, PTL

-----------------------------------------------------------------------------
(* Registration implements Claims.                                         *)

OwnersAreRows ==
  /\ \A u \in users : u.email \in Mailbox /\ Owner[u.email] = u.id
  /\ \A m \in Mailbox : (\A u \in users : u.email # m) => Owner[m] = "nobody"

LEMMA OwnerOfRow == IInv => OwnersAreRows
<1> SUFFICES ASSUME IInv PROVE OwnersAreRows
  OBVIOUS
<1>1. ASSUME NEW u \in users PROVE u.email \in Mailbox /\ Owner[u.email] = u.id
  <2>1. u.email \in RawEmail /\ Canon[u.email] = u.email
    BY DEF IInv, RowsNormal, TypeOK, Row
  <2>2. u.email \in Mailbox
    BY <2>1 DEF Mailbox
  <2>3. (CHOOSE v \in users : v.email = u.email) = u
    BY DEF IInv, RowsNormal
  <2> QED
    BY <2>2, <2>3 DEF Owner
<1> QED
  BY <1>1 DEF Owner, OwnersAreRows

\* The owner of a mailbox is the request whose row it is.
LEMMA HoldsIsInserted ==
  ASSUME IInv, NEW r \in Request
  PROVE  Claim!Holds(r) <=> \E u \in users : u.id = r
<1>1. ASSUME NEW u \in users, u.id = r PROVE Claim!Holds(r)
  BY <1>1, OwnerOfRow DEF Claim!Holds, OwnersAreRows
<1>2. ASSUME NEW m \in Mailbox, Owner[m] = r PROVE \E u \in users : u.id = r
  BY <1>2, OwnerOfRow, NobodyAssumption DEF OwnersAreRows
<1> QED
  BY <1>1, <1>2 DEF Claim!Holds

LEMMA ClaimInit == Init => Claim!Init
<1> SUFFICES ASSUME Init PROVE Claim!Init
  OBVIOUS
<1>1. Owner = [m \in Mailbox |-> "nobody"]
  BY DEF Init, Owner
<1>2. Verdict = [r \in Request |-> "open"]
  BY DEF Init, Verdict, Told, NoStatus
<1> QED
  BY <1>1, <1>2 DEF Claim!Init

LEMMA OwnerUnchanged ==
  ASSUME users' = users PROVE Owner' = Owner
BY DEF Owner

\* What a request is told depends on its own status only.
LEMMA VerdictAfter ==
  ASSUME TypeOK, NEW r \in Request, NEW code,
         status' = [status EXCEPT ![r] = code]
  PROVE  Verdict' = [Verdict EXCEPT ![r] = Told(code)]
BY DEF Verdict, TypeOK

LEMMA ToldCodes == Told(201) = "won" /\ Told(422) = "lost" /\ Told(500) = "lost"
                   /\ Told(NoStatus) = "open"
BY DEF Told, NoStatus

LEMMA ClaimStep == IInv /\ IInv' /\ [Next]_vars => [Claim!Next]_<<Owner, Verdict>>
<1> SUFFICES ASSUME IInv, IInv', [Next]_vars PROVE [Claim!Next]_<<Owner, Verdict>>
  OBVIOUS
<1>1. CASE UNCHANGED vars
  BY <1>1 DEF vars, Owner, Verdict
<1>2. ASSUME NEW r \in Request, RequestStep(r) PROVE [Claim!Next]_<<Owner, Verdict>>
  <2>0. TypeOK
    BY DEF IInv
  <2>1. CASE UNCHANGED <<users, status>>
    BY <2>1 DEF Owner, Verdict
  <2>2. CASE RejectBody(r) \/ FormFails(r) \/ InsertFails(r)
    <3>1. /\ pc[r] \in {"idle", "validate", "insert"}
          /\ users' = users
          /\ \/ status' = [status EXCEPT ![r] = 422]
             \/ status' = [status EXCEPT ![r] = 500]
      BY <2>2 DEF RejectBody, FormFails, InsertFails, Answer
    <3>2. Owner' = Owner /\ Verdict' = [Verdict EXCEPT ![r] = "lost"]
      BY <2>0, <3>1, OwnerUnchanged, VerdictAfter, ToldCodes
    <3>3. ~ Claim!Holds(r)
      <4>1. \A u \in users : u.id # r
        BY <3>1 DEF IInv, RowsFollowRequests, NotInserted
      <4> QED
        BY <4>1, HoldsIsInserted
    <3>4. Verdict[r] = "open"
      BY <3>1, ToldCodes DEF IInv, AnsweredLast, Verdict
    <3> QED
      BY <3>2, <3>3, <3>4 DEF Claim!Next, Claim!Lost
  <2>3. CASE Respond(r)
    <3>1. /\ pc[r] = "respond" /\ users' = users
          /\ status' = [status EXCEPT ![r] = 201]
      BY <2>3 DEF Respond, Answer
    <3>2. Owner' = Owner /\ Verdict' = [Verdict EXCEPT ![r] = "won"]
      <4>1. Verdict' = [Verdict EXCEPT ![r] = "won"]
        BY <2>0, <3>1 DEF Verdict, Told, TypeOK
      <4>2. Owner' = Owner
        BY <3>1, OwnerUnchanged
      <4> QED
        BY <4>1, <4>2
    <3>3. Claim!Holds(r)
      <4>1. Inserted(r)
        BY <3>1 DEF Inserted
      <4>2. RowOf(r) \in users
        BY <4>1 DEF IInv, RowsFollowRequests
      <4>3. RowOf(r).id = r
        BY DEF RowOf
      <4> QED
        BY <4>2, <4>3, HoldsIsInserted
    <3>4. Verdict[r] = "open"
      BY <3>1, ToldCodes DEF IInv, AnsweredLast, Verdict
    <3> QED
      BY <3>2, <3>3, <3>4 DEF Claim!Next, Claim!Won
  <2>4. CASE Insert(r)
    <3> DEFINE m == RowOf(r).email
    <3>1. /\ pc[r] = "insert" /\ users' = users \cup {RowOf(r)} /\ status' = status
          /\ \A u \in users : u.email # m
      BY <2>4 DEF Insert, EmailTaken, RowOf
    <3>2. RowOf(r) \in users' /\ RowOf(r).id = r
      BY <3>1 DEF RowOf
    <3>3. OwnersAreRows /\ OwnersAreRows'
      BY OwnerOfRow, PTL
    <3>4. m \in Mailbox /\ Owner'[m] = r /\ Owner[m] = "nobody"
      BY <3>1, <3>2, <3>3 DEF OwnersAreRows
    <3>5. ASSUME NEW n \in Mailbox, n # m PROVE Owner'[n] = Owner[n]
      <4>1. CASE \E u \in users : u.email = n
        BY <3>1, <3>3, <4>1 DEF OwnersAreRows
      <4>2. CASE \A u \in users : u.email # n
        BY <3>1, <3>3, <3>5, <4>2 DEF OwnersAreRows
      <4> QED
        BY <4>1, <4>2
    <3>6. Owner' = [Owner EXCEPT ![m] = r]
      <4> HIDE DEF m
      <4>1. Owner' = [n \in Mailbox |-> Owner'[n]] /\ Owner = [n \in Mailbox |-> Owner[n]]
        BY DEF Owner
      <4> QED
        BY <3>4, <3>5, <4>1
    <3>7. ~ Claim!Holds(r)
      BY <3>1, HoldsIsInserted DEF IInv, RowsFollowRequests, NotInserted
    <3>8. Verdict[r] = "open" /\ Verdict' = Verdict
      BY <3>1, ToldCodes DEF IInv, AnsweredLast, Verdict
    <3> QED
      BY <3>4, <3>6, <3>7, <3>8 DEF Claim!Next, Claim!Take
  <2> QED
    BY <1>2, <2>1, <2>2, <2>3, <2>4 DEF RequestStep, HandlerStep, Store, StoreValidated,
       Validate, IndexUser, BroadcastUserCreated, DispatchUserCreatedEvent, Crash, effects
<1>3. CASE Apply
  BY <1>3 DEF Apply, Owner, Verdict
<1> QED
  BY <1>1, <1>2, <1>3 DEF Next

\* Registration hands mailboxes out the way Claims does: the first row that
\* takes effect owns the mailbox for good, and every request is told once,
\* truly, whether it won.
THEOREM RegistrationImplementsClaims == Spec => ImplementsClaims
  BY Invariance, ClaimInit, ClaimStep, PTL DEF Spec, ImplementsClaims, Claim!Spec

-----------------------------------------------------------------------------
(* Onboarding.  The workers leave requests and rows alone, so all that was *)
(* proved of Registration holds of it.                                     *)

LEMMA WorkersOnlyRead == [OnboardingNext]_allVars => [Next]_vars
<1>1. Worker!Next => UNCHANGED dispatched
  BY DEF Worker!Next, Worker!WorkOn, Worker!HandleSends, Worker!HandleRaises,
         Worker!OnFailure, Worker!WorkerDies, Worker!Run
<1> QED
  BY <1>1 DEF OnboardingNext, allVars, requestVars, vars, engine

LEMMA OnboardingRegisters == OnboardingSpec => Spec
  BY WorkersOnlyRead, PTL DEF OnboardingSpec, OnboardingInit, Spec

\* With workers, retries and mails beside them, the requests still hand the
\* mailboxes out the way Claims does.
THEOREM OnboardingImplementsClaims == OnboardingSpec => ImplementsClaims
  BY OnboardingRegisters, RegistrationImplementsClaims, PTL

\* Every mail was sent by one of the job's tries, and only queued jobs that
\* have tries left are tried.
MailsCounted ==
  /\ mails \in [Row -> Nat] /\ tries \in [Row -> Nat]
  /\ \A j \in Row : /\ mails[j] <= tries[j] /\ tries[j] <= MaxRetries + 1
                    /\ tries[j] > 0 => j \in dispatched

LEMMA MailsInit == OnboardingInit => MailsCounted
BY MaxRetriesAssumption DEF OnboardingInit, Worker!Init, MailsCounted

LEMMA MailsStep == MailsCounted /\ [OnboardingNext]_allVars => MailsCounted'
<1> SUFFICES ASSUME MailsCounted, [OnboardingNext]_allVars PROVE MailsCounted'
  OBVIOUS
<1>1. CASE UNCHANGED <<mails, tries>> /\ dispatched \subseteq dispatched'
  BY <1>1 DEF MailsCounted
<1>2. ASSUME NEW k \in Row, Worker!Run(k), Worker!Accepted(k) \/ UNCHANGED mails
      PROVE  MailsCounted'
  BY <1>2, MaxRetriesAssumption DEF Worker!Run, Worker!CanRun, Worker!Accepted, MailsCounted
<1>3. CASE Next /\ UNCHANGED workerVars
  <2>1. dispatched \subseteq dispatched'
    BY <1>3 DEF Next, RequestStep, HandlerStep, Store, StoreValidated, RejectBody, Validate,
                FormFails, Insert, InsertFails, IndexUser, BroadcastUserCreated,
                DispatchUserCreatedEvent, Deliver, Respond, Crash, Apply, effects
  <2> QED
    BY <1>1, <1>3, <2>1 DEF workerVars
<1>4. CASE Worker!Next
  <2>1. PICK k \in Row : Worker!WorkOn(k) \/ Worker!WorkerDies(k)
    BY <1>4 DEF Worker!Next
  <2>2. CASE Worker!OnFailure(k)
    BY <1>1, <2>2 DEF Worker!OnFailure
  <2> QED
    BY <1>2, <2>1, <2>2 DEF Worker!WorkOn, Worker!HandleSends, Worker!HandleRaises,
                            Worker!WorkerDies
<1>5. CASE UNCHANGED allVars
  BY <1>1, <1>5 DEF allVars, workerVars
<1> QED
  BY <1>3, <1>4, <1>5 DEF OnboardingNext

\* However often somebody signs a mailbox up and however often the mailer
\* fails, the mailbox gets the mails of one job only, one for each of its
\* tries at most: a job was dispatched for a row, and a mailbox has one.
THEOREM MailsBounded == OnboardingSpec => []MailsPerMailbox
<1>1. IInv /\ MailsCounted => MailsPerMailbox
  <2> SUFFICES ASSUME IInv, MailsCounted, NEW j \in Row, NEW k \in Row
               PROVE  /\ mails[j] <= MaxRetries + 1
                      /\ mails[j] > 0 /\ mails[k] > 0 /\ Canon[j.email] = Canon[k.email] => j = k
    BY DEF MailsPerMailbox
  <2>1. mails[j] <= MaxRetries + 1
    BY MaxRetriesAssumption DEF MailsCounted
  <2>2. ASSUME mails[j] > 0, mails[k] > 0 PROVE j \in users /\ k \in users
    BY <2>2 DEF MailsCounted, IInv, EffectsFollowPersistence
  <2> QED
    BY <2>1, <2>2, UniqueByMailbox DEF OneAccountPerMailbox
<1>2. OnboardingSpec => []MailsCounted
  BY MailsInit, MailsStep, PTL DEF OnboardingSpec
<1> QED
  BY <1>1, <1>2, OnboardingRegisters, Invariance, PTL

=============================================================================
