---------------------------- MODULE Auth_proofs ----------------------------
(***************************************************************************)
(* Proofs about Auth, for any accounts, calls, passwords, token lifetimes  *)
(* and bound on the clock.                                                 *)
(***************************************************************************)
EXTENDS Auth, TLAPS

-----------------------------------------------------------------------------
(* Type correctness.  A handler holds an instance only of an account, and  *)
(* a new password when it is going to set one.                             *)

LoadedIsUser ==
  \A r \in Request :
    /\ pc[r] = "new" => user[r] = None
    /\ user[r] # None => user[r] \in RowType /\ call[r].who \in User
    /\ pc[r] \in {"read", "check", "save"} /\ call[r].op \in {"reset", "change"}
         => call[r].new \in Password

TInv == TypeOK /\ LoadedIsUser

LEMMA TypeInit == Init => TInv
BY AuthAssumption DEF Init, TInv, TypeOK, LoadedIsUser, RowType, Null

LEMMA NewTokenType ==
  ASSUME TInv, NEW kind \in Kind, NEW u \in User
  PROVE  NewToken(kind, u) \in Token
BY AuthAssumption DEF TInv, TypeOK, NewToken, Token

LEMMA ArgsType ==
  ASSUME NEW op \in Op, NEW e \in Address, NEW w \in Password \cup {None},
         NEW v \in Password \cup {None}, NEW t \in Token \cup {None}
  PROVE  Args(op, e, w, v, t) \in CallType
BY DEF Args, CallType

\* The calls whose first step only records what they ask for.
Arrives(r) ==
  \/ Login(r) \/ ForgotPassword(r) \/ ResetPassword(r)
  \/ ChangePassword(r) \/ SendVerification(r) \/ VerifyEmail(r)

AnsweredAtOnce(r) == Logout(r) \/ GuardRefuses(r) \/ Refresh(r)

Check(r) ==
  \/ LoginCheck(r) \/ ForgotCheck(r) \/ ResetCheck(r)
  \/ ChangeCheck(r) \/ SendCheck(r) \/ VerifyCheck(r)

\* What an arriving call leaves alone, and what it is.
ArriveEffect(r) ==
  /\ pc[r] = "new" /\ pc' = [pc EXCEPT ![r] = "read"]
  /\ UNCHANGED <<now, rows, issued, loaded, user, status>>
  /\ \E c \in CallType :
       /\ call' = [call EXCEPT ![r] = c]
       /\ c.op \in {"change", "send"} =>
            \E t \in issued : t.kind = "access" /\ c.who = t.sub
       /\ c.op \in {"reset", "change"} => c.new \in Password

LEMMA BeginEffect ==
  ASSUME NEW r \in Request, NEW c \in CallType, Begin(r, c, "read"),
         c.op \in {"change", "send"} =>
           \E t \in issued : t.kind = "access" /\ c.who = t.sub,
         c.op \in {"reset", "change"} => c.new \in Password
  PROVE  ArriveEffect(r)
BY DEF ArriveEffect, Begin, Goto

LEMMA ArrivesEffect ==
  ASSUME TInv, NEW r \in Request, Arrives(r)
  PROVE  ArriveEffect(r)
<1>0. issued \subseteq Token /\ \A t \in Token : t.sub \in User /\ t.sub \in Address
  BY DEF TInv, TypeOK, Token, Address
<1>a. ASSUME NEW op \in Op, NEW e \in Address, NEW w \in Password \cup {None},
             NEW v \in Password \cup {None}, NEW t \in Token \cup {None},
             Begin(r, Args(op, e, w, v, t), "read"),
             op \in {"change", "send"} => t \in issued /\ t.kind = "access" /\ e = t.sub,
             op \in {"reset", "change"} => v \in Password
      PROVE  ArriveEffect(r)
  <2> DEFINE c == Args(op, e, w, v, t)
  <2>1. c \in CallType /\ c.op = op /\ c.who = e /\ c.new = v
    BY ArgsType DEF Args
  <2> HIDE DEF c
  <2>2. Begin(r, c, "read")
    BY <1>a DEF c
  <2> QED
    BY <1>a, <2>1, <2>2, BeginEffect
<1>1. CASE Login(r)
  BY <1>1, <1>a DEF Login, Op
<1>2. CASE ForgotPassword(r)
  BY <1>2, <1>a DEF ForgotPassword, Op
<1>3. CASE ResetPassword(r)
  BY <1>0, <1>3, <1>a DEF ResetPassword, Op
<1>4. CASE VerifyEmail(r)
  BY <1>0, <1>4, <1>a DEF VerifyEmail, Op
<1>5. CASE ChangePassword(r)
  BY <1>0, <1>5, <1>a DEF ChangePassword, Op, GuardAdmits, ValidToken
<1>6. CASE SendVerification(r)
  BY <1>0, <1>6, <1>a DEF SendVerification, Op, GuardAdmits, ValidToken
<1> QED
  BY <1>1, <1>2, <1>3, <1>4, <1>5, <1>6 DEF Arrives

\* A call that is answered at once hands out tokens only for a refresh token.
AtOnce(r, c, code, t) ==
  /\ pc[r] = "new" /\ pc' = [pc EXCEPT ![r] = "done"]
  /\ UNCHANGED <<now, rows, loaded, user>>
  /\ call' = [call EXCEPT ![r] = c]
  /\ status' = [status EXCEPT ![r] = code]
  /\ c.op \in {"refresh", "change", "send", "logout"} /\ c.who = t.sub
  /\ code = 200 => c.op \in {"refresh", "logout"}
  /\ \/ issued' = issued
     \/ t.kind = "refresh" /\ issued' = issued \cup TokenPair(t.sub)

LEMMA AtOnceEffect ==
  ASSUME TInv, NEW r \in Request, AnsweredAtOnce(r)
  PROVE  \E c \in CallType, code \in {200, 401}, t \in issued : AtOnce(r, c, code, t)
<1> USE DEF Answer, Goto
<1>0. issued \subseteq Token /\ \A t \in Token : t.sub \in User /\ t.sub \in Address
  BY DEF TInv, TypeOK, Token, Address
<1>a. ASSUME NEW op \in {"refresh", "change", "send", "logout"}, NEW t \in issued
      PROVE  LET c == Args(op, t.sub, None, None, t)
             IN  c \in CallType /\ c.op = op /\ c.who = t.sub
  BY <1>0, ArgsType DEF Op, Args
<1>1. CASE Logout(r)
  <2>1. PICK t \in issued :
          /\ GuardAdmits(t)
          /\ call' = [call EXCEPT ![r] = Args("logout", t.sub, None, None, t)]
    BY <1>1 DEF Logout
  <2> DEFINE c == Args("logout", t.sub, None, None, t)
  <2>2. c \in CallType /\ c.op = "logout" /\ c.who = t.sub
    BY <1>a
  <2> HIDE DEF c
  <2>3. AtOnce(r, c, 200, t)
    BY <1>1, <2>1, <2>2 DEF Logout, GuardAdmits, ValidToken, AtOnce, c
  <2> QED
    BY <2>2, <2>3
<1>2. CASE GuardRefuses(r)
  <2>0. /\ pc[r] = "new" /\ pc' = [pc EXCEPT ![r] = "done"]
        /\ status' = [status EXCEPT ![r] = 401]
        /\ UNCHANGED <<now, rows, issued, loaded, user>>
    BY <1>2 DEF GuardRefuses
  <2>1. PICK t \in issued, op \in {"change", "send", "logout"} :
          call' = [call EXCEPT ![r] = Args(op, t.sub, None, None, t)]
    BY <1>2 DEF GuardRefuses
  <2> DEFINE c == Args(op, t.sub, None, None, t)
  <2>2. c \in CallType /\ c.op = op /\ c.who = t.sub
    <3>1. op \in {"refresh", "change", "send", "logout"}
      OBVIOUS
    <3> QED
      BY <1>a, <3>1
  <2> HIDE DEF c
  <2>3. AtOnce(r, c, 401, t)
    BY <2>0, <2>1, <2>2 DEF AtOnce, c
  <2> QED
    BY <2>2, <2>3
<1>3. CASE Refresh(r)
  <2>1. PICK t \in issued :
          /\ call' = [call EXCEPT ![r] = Args("refresh", t.sub, None, None, t)]
          /\ \/ /\ ValidToken(t, "refresh")
                /\ issued' = issued \cup TokenPair(t.sub)
                /\ Answer(r, 200)
             \/ /\ ~ ValidToken(t, "refresh")
                /\ Answer(r, 401)
                /\ UNCHANGED issued
    BY <1>3 DEF Refresh
  <2> DEFINE c == Args("refresh", t.sub, None, None, t)
  <2>2. c \in CallType /\ c.op = "refresh" /\ c.who = t.sub
    BY <1>a
  <2> HIDE DEF c
  <2>3. AtOnce(r, c, 200, t) \/ AtOnce(r, c, 401, t)
    BY <1>3, <2>1, <2>2 DEF Refresh, ValidToken, AtOnce, c
  <2> QED
    BY <2>2, <2>3
<1> QED
  BY <1>1, <1>2, <1>3 DEF AnsweredAtOnce

\* The ways out of the synchronous code of a handler.
CheckOutcome(r) ==
  \/ /\ call[r].op = "login" /\ Found(r) /\ HasherCheck(call[r].pw, user[r].password)
     /\ Grant(r, TokenPair(call[r].who))
  \/ /\ call[r].op = "forgot"
     /\ Grant(r, IF Found(r) THEN {NewToken("reset", call[r].who)} ELSE {})
  \/ /\ call[r].op = "send" /\ Found(r)
     /\ Grant(r, IF user[r].verifiedAt = Null THEN {NewToken("verify", call[r].who)} ELSE {})
  \/ call[r].op = "verify" /\ Found(r) /\ user[r].verifiedAt # Null /\ Reply(r, 200)
  \/ Reply(r, 400) \/ Reply(r, 401) \/ Reply(r, 404)
  \/ /\ call[r].op = "reset" /\ Found(r)
     /\ ValidTokenFor(call[r].tok, "reset", call[r].who)
     /\ Assign(r, [user[r] EXCEPT !.password = HasherMake(call[r].new)])
  \/ /\ call[r].op = "change" /\ Found(r) /\ HasherCheck(call[r].pw, user[r].password)
     /\ Assign(r, [user[r] EXCEPT !.password = HasherMake(call[r].new)])
  \/ /\ call[r].op = "verify" /\ Found(r)
     /\ ValidTokenFor(call[r].tok, "verify", call[r].who)
     /\ Assign(r, [user[r] EXCEPT !.verifiedAt = now])

LEMMA CheckEffect ==
  ASSUME NEW r \in Request, Check(r)
  PROVE  pc[r] = "check" /\ CheckOutcome(r)
<1>1. pc[r] = "check"
  BY DEF Check, LoginCheck, ForgotCheck, ResetCheck, ChangeCheck, SendCheck, VerifyCheck, Checks
<1>2. CASE LoginCheck(r)
  BY <1>2 DEF LoginCheck, CheckOutcome, Checks
<1>3. CASE ForgotCheck(r)
  BY <1>3 DEF ForgotCheck, CheckOutcome, Checks
<1>4. CASE ResetCheck(r)
  BY <1>4 DEF ResetCheck, CheckOutcome, Checks
<1>5. CASE ChangeCheck(r)
  BY <1>5 DEF ChangeCheck, CheckOutcome, Checks
<1>6. CASE SendCheck(r)
  BY <1>6 DEF SendCheck, CheckOutcome, Checks
<1>7. CASE VerifyCheck(r)
  BY <1>7 DEF VerifyCheck, CheckOutcome, Checks
<1> QED
  BY <1>1, <1>2, <1>3, <1>4, <1>5, <1>6, <1>7 DEF Check

LEMMA StepKinds ==
  ASSUME NEW r \in Request, RequestStep(r)
  PROVE  \/ Arrives(r) \/ AnsweredAtOnce(r) \/ Read(r) \/ Check(r)
         \/ Save(r) \/ SaveFails(r) \/ UpdatedHook(r)
BY DEF RequestStep, Arrives, AnsweredAtOnce, Check

\* The steps in which something happens: all but the answer after the hook.
Moves(r) == RequestStep(r) /\ pc[r] # "hook"

LEMMA MoveKinds ==
  ASSUME NEW r \in Request, Moves(r)
  PROVE  Arrives(r) \/ AnsweredAtOnce(r) \/ Read(r) \/ Check(r) \/ Save(r) \/ SaveFails(r)
BY StepKinds DEF Moves, UpdatedHook

LEMMA StepMoves ==
  ASSUME TInv, NEW r \in Request, RequestStep(r), ~ UpdatedHook(r)
  PROVE  Moves(r)
<1>1. CASE Arrives(r)
  BY <1>1, ArrivesEffect DEF ArriveEffect, Moves
<1>2. CASE AnsweredAtOnce(r)
  BY <1>2, AtOnceEffect DEF AtOnce, Moves
<1>3. CASE Read(r) \/ Check(r) \/ Save(r) \/ SaveFails(r)
  BY <1>3, CheckEffect DEF Read, Save, SaveFails, Moves
<1> QED
  BY <1>1, <1>2, <1>3, StepKinds

LEMMA TypeStep == TInv /\ [Next]_vars => TInv'
<1> SUFFICES ASSUME TInv, [Next]_vars PROVE TInv'
  OBVIOUS
<1> USE DEF TInv, TypeOK, LoadedIsUser
<1>1. CASE UNCHANGED vars
  BY <1>1 DEF vars
<1>2. CASE Tick
  BY <1>2, AuthAssumption DEF Tick
<1>3. ASSUME NEW r \in Request, Arrives(r) PROVE TInv'
  <2>1. ArriveEffect(r)
    BY <1>3, ArrivesEffect
  <2>2. PICK c \in CallType : /\ call' = [call EXCEPT ![r] = c]
                              /\ c.op \in {"reset", "change"} => c.new \in Password
    BY <2>1 DEF ArriveEffect
  <2> QED
    BY <2>1, <2>2 DEF ArriveEffect
<1>4. ASSUME NEW r \in Request, AnsweredAtOnce(r) PROVE TInv'
  <2>1. PICK c \in CallType, code \in {200, 401}, t \in issued : AtOnce(r, c, code, t)
    BY <1>4, AtOnceEffect
  <2>2. TokenPair(t.sub) \subseteq Token
    BY NewTokenType DEF TokenPair, Kind, Token
  <2>3. issued' \subseteq Token
    BY <2>1, <2>2 DEF AtOnce
  <2>4. pc[r] = "new" /\ pc' = [pc EXCEPT ![r] = "done"] /\ call' = [call EXCEPT ![r] = c]
    BY <2>1 DEF AtOnce
  <2>5. status' \in [Request -> {0, 200, 400, 401, 404, 500}]
    BY <2>1 DEF AtOnce
  <2> QED
    BY <2>1, <2>3, <2>4, <2>5 DEF AtOnce
<1>5. ASSUME NEW r \in Request, Read(r) PROVE TInv'
  BY <1>5 DEF Read, Goto
<1>6. ASSUME NEW r \in Request, Check(r) PROVE TInv'
  <2>1. pc[r] = "check" /\ CheckOutcome(r)
    BY <1>6, CheckEffect
  <2>2. call[r] \in CallType /\ (Found(r) => user[r] \in RowType /\ call[r].who \in User)
    BY <2>1 DEF Found
  <2>3. ASSUME NEW T \in SUBSET Token, Grant(r, T) PROVE TInv'
    BY <2>1, <2>3 DEF Grant, Answer, Goto
  <2>4. ASSUME NEW code \in {200, 400, 401, 404}, Reply(r, code) PROVE TInv'
    BY <2>1, <2>4 DEF Reply, Answer, Goto
  <2>5. ASSUME NEW row \in RowType, Found(r), Assign(r, row) PROVE TInv'
    BY <2>1, <2>2, <2>5 DEF Assign, Goto
  <2>6. Found(r) => \A kind \in Kind : NewToken(kind, call[r].who) \in Token
    BY <2>2, NewTokenType
  <2>7. Found(r) => [user[r] EXCEPT !.verifiedAt = now] \in RowType
    BY <2>2 DEF RowType
  <2>8. Found(r) /\ call[r].op \in {"reset", "change"}
          => [user[r] EXCEPT !.password = HasherMake(call[r].new)] \in RowType
    BY <2>1, <2>2 DEF RowType, HasherMake, PasswordColumn
  <2>9. TokenPair(call[r].who) \subseteq Token \/ ~ Found(r)
    BY <2>6 DEF TokenPair, Kind
  <2> HIDE DEF TInv, TypeOK, LoadedIsUser
  <2> QED
    BY <2>1, <2>3, <2>4, <2>5, <2>6, <2>7, <2>8, <2>9 DEF CheckOutcome, Kind
<1>7. ASSUME NEW r \in Request, Save(r) \/ SaveFails(r) \/ UpdatedHook(r) PROVE TInv'
  <2>1. CASE Save(r)
    <3>1. user[r] \in RowType /\ call[r].who \in User
      BY <2>1 DEF Save
    <3>2. Saved(r, rows[call[r].who]) \in RowType
      BY <3>1 DEF Saved, RowType
    <3> QED
      BY <2>1, <3>1, <3>2 DEF Save, Goto
  <2>2. ASSUME NEW code \in {200, 500}, pc[r] # "new", Reply(r, code) PROVE TInv'
    BY <2>2 DEF Reply, Answer, Goto
  <2> QED
    BY <1>7, <2>1, <2>2 DEF SaveFails, UpdatedHook
<1> QED
  BY <1>1, <1>2, <1>3, <1>4, <1>5, <1>6, <1>7, StepKinds DEF Next

-----------------------------------------------------------------------------
(* The inductive invariant: what has been handed out, and what is about to *)
(* be written, goes back to calls that succeeded.                          *)

AnsweredLast == \A r \in Request : status[r] # 0 => pc[r] = "done"

TokensAccounted ==
  \A t \in issued :
    /\ t.kind \in {"access", "refresh"} => SomeoneDid("login", t.sub)
    /\ t.kind = "reset" => SomeoneDid("forgot", t.sub)
    /\ t.kind = "verify" => SomeoneDid("send", t.sub) /\ SomeoneDid("login", t.sub)

CallAccounted(r) ==
  pc[r] \in {"read", "check", "save"} /\ call[r].op \in {"change", "send"}
    => SomeoneDid("login", call[r].who)

SaveAccounted(r) ==
  pc[r] = "save" =>
    /\ call[r].op \in {"reset", "change", "verify"}
    /\ call[r].op \in {"reset", "change"} => user[r].password = HasherMake(call[r].new)
    /\ call[r].op = "reset" => SomeoneDid("forgot", call[r].who)
    /\ call[r].op = "verify" => /\ user[r].verifiedAt # Null
                               /\ SomeoneDid("send", call[r].who)
                               /\ SomeoneDid("login", call[r].who)

\* What a handler has loaded was true of the table, and of its history.
LoadAccounted(r) ==
  pc[r] = "check" /\ user[r] # None =>
    /\ user[r].verifiedAt # Null => rows[call[r].who].verifiedAt # Null
    /\ user[r].password.hashed /\ ~ Stored[call[r].who].hashed
         => SomeoneDid("reset", call[r].who)

RequestAccounted(r) == CallAccounted(r) /\ SaveAccounted(r) /\ LoadAccounted(r)

RequestsAccounted == \A r \in Request : RequestAccounted(r)

HashesAccounted ==
  \A u \in User :
    rows[u].password.hashed /\ ~ Stored[u].hashed => SomeoneDid("reset", u)

\* What took effect stands, whether it was answered or not.
UpdatesStand ==
  \A u \in User, r \in Request :
    /\ Took(r, "verify", u) => rows[u].verifiedAt # Null
    /\ Took(r, "reset", u) \/ Took(r, "change", u) =>
         \E q \in Request :
           /\ Took(q, "reset", u) \/ Took(q, "change", u)
           /\ rows[u].password = HasherMake(call[q].new)

IInv ==
  /\ TInv /\ AnsweredLast
  /\ TokensAccounted /\ RequestsAccounted /\ HashesAccounted
  /\ PasswordAccountedFor /\ VerifiedNeedsSession /\ UpdatesStand /\ PlainPasswordNeedsReset

LEMMA IInit == Init => IInv
<1> SUFFICES ASSUME Init PROVE IInv
  OBVIOUS
<1>1. TInv
  BY TypeInit
<1>2. /\ issued = {} /\ \A r \in Request : pc[r] = "new" /\ status[r] = 0
      /\ \A u \in User : rows[u].password = Stored[u] /\ rows[u].verifiedAt = Null
  BY DEF Init
<1>3. \A r \in Request, op \in Op, u \in User : ~ Took(r, op, u)
  BY <1>2 DEF Took, Effective
<1>4. \A u \in User : ~ SomeoneDid("login", u) /\ \A r \in Request :
         ~ Took(r, "verify", u) /\ ~ Took(r, "reset", u) /\ ~ Took(r, "change", u)
  BY <1>3 DEF SomeoneDid, Op
<1>5. HashesAccounted
  <2>1. \A u \in User : rows[u].password = Stored[u]
    BY <1>2
  <2> QED
    BY <2>1, Zenon DEF HashesAccounted
<1>6. VerifiedNeedsSession /\ PasswordAccountedFor
  BY <1>2 DEF VerifiedNeedsSession, PasswordAccountedFor
<1>7. UpdatesStand /\ PlainPasswordNeedsReset
  BY <1>4 DEF UpdatesStand, PlainPasswordNeedsReset
<1> QED
  BY <1>1, <1>2, <1>5, <1>6, <1>7 DEF IInv, AnsweredLast, TokensAccounted, RequestsAccounted,
     RequestAccounted, CallAccounted, SaveAccounted, LoadAccounted

\* A step is a step of one request that was not answered yet.
LEMMA Frame ==
  ASSUME TInv, NEW r \in Request, Moves(r)
  PROVE  /\ pc[r] # "done"
         /\ \A q \in Request : q # r =>
              /\ pc'[q] = pc[q] /\ call'[q] = call[q]
              /\ user'[q] = user[q] /\ status'[q] = status[q]
         /\ issued \subseteq issued'
<1> USE DEF TInv, TypeOK
<1>1. CASE Arrives(r)
  BY <1>1, ArrivesEffect DEF ArriveEffect
<1>2. CASE AnsweredAtOnce(r)
  BY <1>2, AtOnceEffect DEF AtOnce
<1>3. CASE Read(r)
  BY <1>3 DEF Read, Goto
<1>4. CASE Check(r)
  BY <1>4, CheckEffect DEF CheckOutcome, Grant, Reply, Assign, Answer, Goto
<1>5. CASE Save(r) \/ SaveFails(r)
  BY <1>5 DEF Save, SaveFails, Reply, Answer, Goto
<1> QED
  BY <1>1, <1>2, <1>3, <1>4, <1>5, MoveKinds

\* Once a call has succeeded, it has.
LEMMA Monotone ==
  ASSUME IInv, NEW r \in Request, Moves(r)
  PROVE  /\ \A q \in Request : \A op, u :
              Took(q, op, u) => Took(q, op, u)' /\ q # r /\ call'[q] = call[q]
         /\ \A op, u : SomeoneDid(op, u) => SomeoneDid(op, u)'
<1>0. TInv /\ AnsweredLast
  BY DEF IInv
<1>1. ~ Effective(r)
  BY <1>0, Frame DEF AnsweredLast, Effective, Moves
<1>2. \A q \in Request : q # r => call'[q] = call[q] /\ (Effective(q)' <=> Effective(q))
  BY <1>0, Frame DEF Effective
<1>3. \A q \in Request : \A op, u :
        Took(q, op, u) => Took(q, op, u)' /\ q # r /\ call'[q] = call[q]
  BY <1>1, <1>2 DEF Took
<1> QED
  BY <1>3 DEF SomeoneDid

\* What is accounted for a request that does not move stays accounted for, as
\* long as no address becomes unverified.
LEMMA OthersAccounted ==
  ASSUME IInv, NEW r \in Request, Moves(r), NEW q \in Request, q # r,
         \A u \in User : rows[u].verifiedAt # Null => rows'[u].verifiedAt # Null
  PROVE  RequestAccounted(q)'
<1>1. /\ pc'[q] = pc[q] /\ call'[q] = call[q] /\ user'[q] = user[q]
      /\ pc[q] # "new" => call[q] \in CallType
      /\ user[q] # None => call[q].who \in User
  BY Frame DEF IInv, TInv, TypeOK, LoadedIsUser
<1>2. RequestAccounted(q)
  BY DEF IInv, RequestsAccounted
<1>3. \A op, u : SomeoneDid(op, u) => SomeoneDid(op, u)'
  BY Monotone
<1>4. CallAccounted(q)'
  BY <1>1, <1>2, <1>3 DEF RequestAccounted, CallAccounted
<1>5. SaveAccounted(q)'
  BY <1>1, <1>2, <1>3 DEF RequestAccounted, SaveAccounted
<1>6. LoadAccounted(q)'
  BY <1>1, <1>2, <1>3 DEF RequestAccounted, LoadAccounted
<1> QED
  BY <1>4, <1>5, <1>6 DEF RequestAccounted

\* A step that leaves the table alone keeps the invariant if what it hands out,
\* answers and does next is accounted for.
LEMMA RowsKept ==
  ASSUME IInv, TInv', NEW r \in Request, Moves(r), rows' = rows,
         status'[r] # 0 => pc'[r] = "done",
         TokensAccounted', RequestAccounted(r)',
         \A u \in User :
           /\ Took(r, "login", u)' /\ ~ Stored[u].hashed => SomeoneDid("reset", u)
           /\ Took(r, "verify", u)' => rows[u].verifiedAt # Null
           /\ ~ Took(r, "reset", u)' /\ ~ Took(r, "change", u)'
  PROVE  IInv'
<1>1. /\ \A q \in Request : \A op, u :
           Took(q, op, u) => Took(q, op, u)' /\ call'[q] = call[q]
      /\ \A op, u : SomeoneDid(op, u) => SomeoneDid(op, u)'
  BY Monotone
<1>2. \A q \in Request : q # r => \A op, u : Took(q, op, u)' => Took(q, op, u)
  BY Frame DEF IInv, Took, Effective
<1>3. AnsweredLast'
  BY Frame DEF IInv, AnsweredLast
<1>4. RequestsAccounted'
  BY OthersAccounted DEF RequestsAccounted
<1>5. HashesAccounted'
  BY <1>1 DEF IInv, HashesAccounted
<1>6. PasswordAccountedFor'
  BY <1>1 DEF IInv, PasswordAccountedFor
<1>7. VerifiedNeedsSession'
  BY <1>1 DEF IInv, VerifiedNeedsSession
<1>8. UpdatesStand'
  BY <1>1, <1>2 DEF IInv, UpdatesStand
<1>9. PlainPasswordNeedsReset'
  <2> SUFFICES ASSUME NEW u \in User, ~ Stored[u].hashed, SomeoneDid("login", u)'
               PROVE  SomeoneDid("reset", u)
    BY <1>1 DEF PlainPasswordNeedsReset
  <2>1. PICK q \in Request : Took(q, "login", u)'
    BY DEF SomeoneDid
  <2>2. CASE q = r
    BY <2>1, <2>2
  <2>3. CASE q # r
    BY <1>2, <2>1, <2>3 DEF IInv, PlainPasswordNeedsReset, SomeoneDid
  <2> QED
    BY <2>2, <2>3
<1> QED
  BY <1>3, <1>4, <1>5, <1>6, <1>7, <1>8, <1>9 DEF IInv

\* Tokens that were accounted for stay so; new ones must be.
LEMMA TokensStay ==
  ASSUME IInv, NEW r \in Request, Moves(r),
         \A t \in issued' \ issued :
           /\ t.kind \in {"access", "refresh"} => SomeoneDid("login", t.sub)'
           /\ t.kind = "reset" => SomeoneDid("forgot", t.sub)'
           /\ t.kind = "verify" => SomeoneDid("send", t.sub)' /\ SomeoneDid("login", t.sub)'
  PROVE  TokensAccounted'
<1>1. \A op, u : SomeoneDid(op, u) => SomeoneDid(op, u)'
  BY Monotone
<1> QED
  BY <1>1 DEF IInv, TokensAccounted

LEMMA ArrivesStep ==
  ASSUME IInv, TInv', NEW r \in Request, Arrives(r), Moves(r)
  PROVE  IInv'
<1>1. ArriveEffect(r)
  BY ArrivesEffect DEF IInv
<1>2. PICK c \in CallType :
        /\ call' = [call EXCEPT ![r] = c]
        /\ c.op \in {"change", "send"} => \E t \in issued : t.kind = "access" /\ c.who = t.sub
  BY <1>1 DEF ArriveEffect
<1>3. /\ pc'[r] = "read" /\ call'[r] = c /\ status'[r] = 0 /\ rows' = rows /\ issued' = issued
  BY <1>1, <1>2 DEF ArriveEffect, IInv, TInv, TypeOK, AnsweredLast
<1>4. \A op, u : ~ Took(r, op, u)'
  BY <1>3 DEF Took, Effective
<1>5. TokensAccounted'
  BY <1>3, TokensStay
<1>6. c.op \in {"change", "send"} => SomeoneDid("login", c.who)'
  BY <1>2, Monotone DEF IInv, TokensAccounted
<1>7. RequestAccounted(r)'
  BY <1>3, <1>6 DEF RequestAccounted, CallAccounted, SaveAccounted, LoadAccounted
<1> QED
  BY <1>3, <1>4, <1>5, <1>7, RowsKept

LEMMA AtOnceStep ==
  ASSUME IInv, TInv', NEW r \in Request, AnsweredAtOnce(r), Moves(r)
  PROVE  IInv'
<1>1. PICK c \in CallType, code \in {200, 401}, t \in issued : AtOnce(r, c, code, t)
  BY AtOnceEffect DEF IInv
<1>2. /\ pc'[r] = "done" /\ call'[r] = c /\ status'[r] = code /\ rows' = rows
  BY <1>1 DEF AtOnce, IInv, TInv, TypeOK
<1>3. \A op \in {"login", "verify", "reset", "change"}, u \in User : ~ Took(r, op, u)'
  BY <1>1, <1>2 DEF Took, Effective, AtOnce
<1>4. ASSUME NEW n \in issued', n \notin issued
      PROVE  n.kind \in {"access", "refresh"} /\ SomeoneDid("login", n.sub)'
  <2>1. t.kind = "refresh" /\ n \in TokenPair(t.sub)
    BY <1>1, <1>4 DEF AtOnce
  <2>2. SomeoneDid("login", t.sub)'
    BY <2>1, Monotone DEF IInv, TokensAccounted
  <2> QED
    BY <2>1, <2>2 DEF TokenPair, NewToken
<1>5. TokensAccounted'
  BY <1>4, TokensStay
<1>6. RequestAccounted(r)'
  BY <1>2 DEF RequestAccounted, CallAccounted, SaveAccounted, LoadAccounted
<1> QED
  BY <1>2, <1>3, <1>5, <1>6, RowsKept

LEMMA ReadStep ==
  ASSUME IInv, TInv', NEW r \in Request, Read(r), Moves(r)
  PROVE  IInv'
<1>1. /\ pc[r] = "read" /\ pc'[r] = "check" /\ call' = call /\ status' = status
      /\ rows' = rows /\ issued' = issued /\ status[r] = 0
      /\ user'[r] = IF call[r].who \in User THEN rows[call[r].who] ELSE None
  BY DEF Read, Goto, IInv, TInv, TypeOK, AnsweredLast
<1>2. \A op, u : ~ Took(r, op, u)'
  BY <1>1 DEF Took, Effective
<1>3. TokensAccounted'
  BY <1>1, TokensStay
<1>4. CallAccounted(r)' /\ SaveAccounted(r)'
  <2>1. CallAccounted(r)
    BY DEF IInv, RequestsAccounted, RequestAccounted
  <2> QED
    BY <1>1, <2>1, Monotone DEF CallAccounted, SaveAccounted
<1>5. LoadAccounted(r)'
  <2>1. HashesAccounted
    BY DEF IInv
  <2>2. CASE call[r].who \in User
    BY <1>1, <2>1, <2>2, Monotone DEF LoadAccounted, HashesAccounted
  <2>3. CASE call[r].who \notin User
    BY <1>1, <2>3 DEF LoadAccounted
  <2> QED
    BY <2>2, <2>3
<1> QED
  BY <1>1, <1>2, <1>3, <1>4, <1>5, RowsKept DEF RequestAccounted

\* The ways out of a check, one by one.
LEMMA GrantStep ==
  ASSUME IInv, TInv', NEW r \in Request, pc[r] = "check", Moves(r),
         NEW T, Grant(r, T), call[r].op \in {"login", "forgot", "send"},
         call[r].op = "login" => Found(r) /\ user[r].password.hashed,
         \A t \in T :
           /\ t.sub = call[r].who
           /\ call[r].op = "login" => t.kind \in {"access", "refresh"}
           /\ call[r].op = "forgot" => t.kind = "reset"
           /\ call[r].op = "send" => t.kind = "verify"
  PROVE  IInv'
<1>1. /\ pc'[r] = "done" /\ status'[r] = 200 /\ call' = call /\ rows' = rows
      /\ issued' = issued \cup T
  BY DEF Grant, Answer, Goto, IInv, TInv, TypeOK
<1>2. Took(r, call[r].op, call[r].who)'
  BY <1>1 DEF Took, Effective
<1>3. SomeoneDid(call[r].op, call[r].who)'
  BY <1>2 DEF SomeoneDid
<1>4. RequestAccounted(r)
  BY DEF IInv, RequestsAccounted
<1>5. ASSUME call[r].op = "send" PROVE SomeoneDid("login", call[r].who)'
  <2>1. SomeoneDid("login", call[r].who)
    BY <1>4, <1>5 DEF RequestAccounted, CallAccounted
  <2> QED
    BY <1>1, <2>1, Monotone
<1>6. TokensAccounted'
  BY <1>1, <1>3, <1>5, TokensStay
<1>7. RequestAccounted(r)'
  BY <1>1 DEF RequestAccounted, CallAccounted, SaveAccounted, LoadAccounted
<1>8. ASSUME NEW u \in User, Took(r, "login", u)', ~ Stored[u].hashed
      PROVE  SomeoneDid("reset", u)
  <2>1. call[r].op = "login" /\ call[r].who = u
    BY <1>1, <1>8 DEF Took, Effective
  <2> QED
    BY <1>4, <1>8, <2>1 DEF RequestAccounted, LoadAccounted, Found
<1>9. \A op \in {"verify", "reset", "change"}, u \in User : ~ Took(r, op, u)'
  BY <1>1 DEF Took, Effective
<1> QED
  BY <1>1, <1>6, <1>7, <1>8, <1>9, RowsKept

LEMMA RefuseStep ==
  ASSUME IInv, TInv', NEW r \in Request, Moves(r), NEW code, Reply(r, code),
         code = 200 => /\ call[r].op = "verify" /\ pc[r] = "check"
                       /\ Found(r) /\ user[r].verifiedAt # Null
  PROVE  IInv'
<1>1. /\ pc'[r] = "done" /\ status'[r] = code /\ call' = call /\ rows' = rows
      /\ issued' = issued
  BY DEF Reply, Answer, Goto, IInv, TInv, TypeOK
<1>2. TokensAccounted'
  BY <1>1, TokensStay
<1>3. RequestAccounted(r)'
  BY <1>1 DEF RequestAccounted, CallAccounted, SaveAccounted, LoadAccounted
<1>4. ASSUME NEW op, NEW u \in User, Took(r, op, u)'
      PROVE  op = "verify" /\ rows[u].verifiedAt # Null
  <2>1. code = 200 /\ op = "verify" /\ call[r].who = u
    BY <1>1, <1>4 DEF Took, Effective
  <2>2. LoadAccounted(r)
    BY DEF IInv, RequestsAccounted, RequestAccounted
  <2> QED
    BY <2>1, <2>2 DEF LoadAccounted, Found
<1>5. \A u \in User :
        /\ ~ Took(r, "login", u)' /\ ~ Took(r, "reset", u)' /\ ~ Took(r, "change", u)'
        /\ Took(r, "verify", u)' => rows[u].verifiedAt # Null
  <2>1. "login" # "verify" /\ "reset" # "verify" /\ "change" # "verify"
    OBVIOUS
  <2> QED
    BY <1>4, <2>1
<1> QED
  BY <1>1, <1>2, <1>3, <1>5, RowsKept

LEMMA AssignStep ==
  ASSUME IInv, TInv', NEW r \in Request, pc[r] = "check", Moves(r),
         NEW row \in RowType, Assign(r, row),
         call[r].op \in {"reset", "change", "verify"},
         call[r].op \in {"reset", "change"} => row.password = HasherMake(call[r].new),
         call[r].op = "reset" => ValidTokenFor(call[r].tok, "reset", call[r].who),
         call[r].op = "verify" => /\ row.verifiedAt # Null
                                 /\ ValidTokenFor(call[r].tok, "verify", call[r].who)
  PROVE  IInv'
<1>1. /\ pc'[r] = "save" /\ status' = status /\ call' = call /\ rows' = rows
      /\ issued' = issued /\ user'[r] = row /\ status[r] = 0
  BY DEF Assign, Goto, IInv, TInv, TypeOK, AnsweredLast
<1>2. TokensAccounted /\ CallAccounted(r)
  BY DEF IInv, RequestsAccounted, RequestAccounted
<1>3. TokensAccounted'
  BY <1>1, TokensStay
<1>4. \A op, u : SomeoneDid(op, u) => SomeoneDid(op, u)'
  BY Monotone
<1>5. ASSUME call[r].op = "reset" PROVE SomeoneDid("forgot", call[r].who)'
  <2>1. call[r].tok \in issued /\ call[r].tok.kind = "reset" /\ call[r].tok.sub = call[r].who
    BY <1>5 DEF ValidTokenFor, ValidToken
  <2>2. SomeoneDid("forgot", call[r].tok.sub)
    BY <1>2, <2>1 DEF TokensAccounted
  <2> QED
    BY <1>1, <1>4, <2>1, <2>2
<1>6. ASSUME call[r].op = "verify"
      PROVE  SomeoneDid("send", call[r].who)' /\ SomeoneDid("login", call[r].who)'
  <2>1. call[r].tok \in issued /\ call[r].tok.kind = "verify" /\ call[r].tok.sub = call[r].who
    BY <1>6 DEF ValidTokenFor, ValidToken
  <2>2. SomeoneDid("send", call[r].tok.sub) /\ SomeoneDid("login", call[r].tok.sub)
    BY <1>2, <2>1 DEF TokensAccounted
  <2> QED
    BY <1>1, <1>4, <2>1, <2>2
<1>7. SaveAccounted(r)'
  BY <1>1, <1>5, <1>6 DEF SaveAccounted, HasherMake, Null
<1>8. CallAccounted(r)' /\ LoadAccounted(r)'
  BY <1>1, <1>2, <1>4 DEF CallAccounted, LoadAccounted
<1>9. \A op, u : ~ Took(r, op, u)'
  BY <1>1 DEF Took, Effective
<1> QED
  BY <1>1, <1>3, <1>7, <1>8, <1>9, RowsKept DEF RequestAccounted

LEMMA CheckStep ==
  ASSUME IInv, TInv', NEW r \in Request, Check(r), Moves(r)
  PROVE  IInv'
<1>0. pc[r] = "check" /\ CheckOutcome(r)
  BY CheckEffect
<1>1. /\ now # Null
      /\ Found(r) => user[r] \in RowType
      /\ Found(r) /\ call[r].op \in {"reset", "change"} => call[r].new \in Password
  BY <1>0 DEF IInv, TInv, TypeOK, LoadedIsUser, Null, Found
<1>2. /\ \A t \in TokenPair(call[r].who) : t.sub = call[r].who /\ t.kind \in {"access", "refresh"}
      /\ \A kind \in Kind : LET t == NewToken(kind, call[r].who)
                            IN  t.sub = call[r].who /\ t.kind = kind
  BY DEF TokenPair, NewToken
<1>3. CASE /\ call[r].op = "login" /\ Found(r) /\ HasherCheck(call[r].pw, user[r].password)
           /\ Grant(r, TokenPair(call[r].who))
  BY <1>0, <1>2, <1>3, GrantStep DEF HasherCheck
<1>4. CASE /\ call[r].op = "forgot"
           /\ Grant(r, IF Found(r) THEN {NewToken("reset", call[r].who)} ELSE {})
  BY <1>0, <1>2, <1>4, GrantStep DEF Kind
<1>5. CASE /\ call[r].op = "send"
           /\ Grant(r, IF user[r].verifiedAt = Null THEN {NewToken("verify", call[r].who)} ELSE {})
  BY <1>0, <1>2, <1>5, GrantStep DEF Kind
<1>6. CASE call[r].op = "verify" /\ Found(r) /\ user[r].verifiedAt # Null /\ Reply(r, 200)
  BY <1>0, <1>6, RefuseStep
<1>7. CASE Reply(r, 400) \/ Reply(r, 401) \/ Reply(r, 404)
  BY <1>7, RefuseStep
<1>8. CASE /\ call[r].op \in {"reset", "change"} /\ Found(r)
           /\ call[r].op = "reset" => ValidTokenFor(call[r].tok, "reset", call[r].who)
           /\ Assign(r, [user[r] EXCEPT !.password = HasherMake(call[r].new)])
  <2> DEFINE row == [user[r] EXCEPT !.password = HasherMake(call[r].new)]
  <2>1. row \in RowType /\ row.password = HasherMake(call[r].new)
    BY <1>1, <1>8 DEF RowType, HasherMake, PasswordColumn
  <2> HIDE DEF row
  <2>2. Assign(r, row)
    BY <1>8 DEF row
  <2> QED
    BY <1>0, <1>8, <2>1, <2>2, AssignStep
<1>9. CASE /\ call[r].op = "verify" /\ Found(r)
           /\ ValidTokenFor(call[r].tok, "verify", call[r].who)
           /\ Assign(r, [user[r] EXCEPT !.verifiedAt = now])
  <2> DEFINE row == [user[r] EXCEPT !.verifiedAt = now]
  <2>1. row \in RowType /\ row.verifiedAt = now
    BY <1>1, <1>9 DEF RowType, IInv, TInv, TypeOK
  <2> HIDE DEF row
  <2>2. Assign(r, row)
    BY <1>9 DEF row
  <2> QED
    BY <1>0, <1>1, <1>9, <2>1, <2>2, AssignStep
<1> QED
  BY <1>0, <1>3, <1>4, <1>5, <1>6, <1>7, <1>8, <1>9 DEF CheckOutcome

LEMMA SaveStep ==
  ASSUME IInv, TInv', NEW r \in Request, Save(r), Moves(r)
  PROVE  IInv'
<1> DEFINE who == call[r].who
<1>1. /\ pc[r] = "save" /\ pc'[r] = "hook" /\ status' = status /\ status[r] = 0
      /\ call' = call /\ user' = user /\ issued' = issued
      /\ who \in User /\ call'[r].who = who
      /\ rows'[who] = Saved(r, rows[who])
      /\ \A u \in User : u # who => rows'[u] = rows[u]
      /\ rows \in [User -> RowType] /\ rows' \in [User -> RowType]
  BY DEF Save, Goto, IInv, TInv, TypeOK, AnsweredLast
<1>2. CallAccounted(r) /\ SaveAccounted(r)
  BY DEF IInv, RequestsAccounted, RequestAccounted
<1>3. call[r].op \in {"reset", "change", "verify"}
  BY <1>1, <1>2 DEF SaveAccounted
<1>4. \A op, u : Took(r, op, u)' <=> op = call[r].op /\ u = who
  BY <1>1 DEF Took, Effective
<1>5. /\ \A q \in Request : \A op, u : Took(q, op, u) => Took(q, op, u)'
      /\ \A op, u : SomeoneDid(op, u) => SomeoneDid(op, u)'
  BY Monotone
<1>6. \A q \in Request : q # r => \A op, u : Took(q, op, u)' => Took(q, op, u)
  BY Frame DEF IInv, Took, Effective
<1>7. /\ \A u \in User : u # who \/ call[r].op = "verify"
           => rows'[u].password = rows[u].password
      /\ \A u \in User : u # who \/ call[r].op # "verify"
           => rows'[u].verifiedAt = rows[u].verifiedAt
      /\ call[r].op # "verify" => rows'[who].password = HasherMake(call[r].new)
      /\ call[r].op = "verify" => rows'[who].verifiedAt # Null
  BY <1>1, <1>2, <1>3 DEF Saved, SaveAccounted, RowType
<1> HIDE DEF who
<1>8. AnsweredLast'
  BY <1>1, Frame DEF IInv, AnsweredLast
<1>9. TokensAccounted'
  BY <1>1, TokensStay
<1>10. RequestsAccounted'
  <2>1. \A u \in User : rows[u].verifiedAt # Null => rows'[u].verifiedAt # Null
    BY <1>1, <1>7
  <2>2. RequestAccounted(r)'
    BY <1>1 DEF RequestAccounted, CallAccounted, SaveAccounted, LoadAccounted
  <2> QED
    BY <2>1, <2>2, OthersAccounted DEF RequestsAccounted
<1>11. \A op, u : op = call[r].op /\ u = who => SomeoneDid(op, u)'
  BY <1>4 DEF SomeoneDid
<1>12. HashesAccounted'
  <2> SUFFICES ASSUME NEW u \in User, rows'[u].password.hashed, ~ Stored[u].hashed
               PROVE  SomeoneDid("reset", u)'
    BY DEF HashesAccounted
  <2>1. CASE u # who \/ call[r].op = "verify"
    <3>1. rows'[u].password = rows[u].password
      BY <1>7, <2>1
    <3>2. SomeoneDid("reset", u)
      BY <3>1, Zenon DEF IInv, HashesAccounted
    <3> QED
      BY <1>5, <3>2
  <2>2. CASE u = who /\ call[r].op = "reset"
    BY <1>11, <2>2
  <2>3. CASE u = who /\ call[r].op = "change"
    <3>1. SomeoneDid("login", u)
      BY <1>1, <1>2, <2>3 DEF CallAccounted, who
    <3>2. SomeoneDid("reset", u)
      BY <3>1 DEF IInv, PlainPasswordNeedsReset
    <3> QED
      BY <1>5, <3>2
  <2> QED
    BY <1>3, <2>1, <2>2, <2>3
<1>13. PasswordAccountedFor'
  <2> SUFFICES ASSUME NEW u \in User, rows'[u].password # Stored[u]
               PROVE  \E q \in Request :
                        /\ rows'[u].password = HasherMake(call'[q].new)
                        /\ \/ Took(q, "reset", u)' /\ SomeoneDid("forgot", u)'
                           \/ Took(q, "change", u)' /\ SomeoneDid("login", u)'
    BY DEF PasswordAccountedFor, HasherMake
  <2>1. CASE u # who \/ call[r].op = "verify"
    <3>1. rows'[u].password = rows[u].password
      BY <1>7, <2>1
    <3>2. PICK q \in Request :
            /\ rows[u].password = HasherMake(call[q].new)
            /\ \/ Took(q, "reset", u) /\ SomeoneDid("forgot", u)
               \/ Took(q, "change", u) /\ SomeoneDid("login", u)
      BY <3>1 DEF IInv, PasswordAccountedFor
    <3> QED
      BY <1>1, <1>5, <3>1, <3>2
  <2>2. CASE u = who /\ call[r].op \in {"reset", "change"}
    <3>1. call[r].op = "reset" => SomeoneDid("forgot", who)
      BY <1>1, <1>2 DEF SaveAccounted, who
    <3>2. call[r].op = "change" => SomeoneDid("login", who)
      BY <1>1, <1>2 DEF CallAccounted, who
    <3>3. rows'[u].password = HasherMake(call'[r].new)
      BY <1>1, <1>7, <2>2
    <3> QED
      BY <1>4, <1>5, <2>2, <3>1, <3>2, <3>3
  <2> QED
    BY <1>3, <2>1, <2>2
<1>14. VerifiedNeedsSession'
  <2> SUFFICES ASSUME NEW u \in User, rows'[u].verifiedAt # Null
               PROVE  SomeoneDid("verify", u)' /\ SomeoneDid("send", u)' /\ SomeoneDid("login", u)'
    BY DEF VerifiedNeedsSession, Null
  <2>1. CASE u # who \/ call[r].op # "verify"
    BY <1>5, <1>7, <2>1 DEF IInv, VerifiedNeedsSession
  <2>2. CASE u = who /\ call[r].op = "verify"
    <3>1. SomeoneDid("send", u) /\ SomeoneDid("login", u)
      BY <1>1, <1>2, <2>2 DEF SaveAccounted, who
    <3> QED
      BY <1>5, <1>11, <2>2, <3>1
  <2> QED
    BY <2>1, <2>2
<1>15. UpdatesStand'
  <2> SUFFICES ASSUME NEW u \in User, NEW q \in Request
               PROVE  /\ Took(q, "verify", u)' => rows'[u].verifiedAt # Null
                      /\ Took(q, "reset", u)' \/ Took(q, "change", u)' =>
                           \E p \in Request :
                             /\ Took(p, "reset", u)' \/ Took(p, "change", u)'
                             /\ rows'[u].password = HasherMake(call'[p].new)
    BY DEF UpdatesStand, HasherMake, Null
  <2>1. ASSUME Took(q, "verify", u)' PROVE rows'[u].verifiedAt # Null
    <3>1. CASE q = r
      BY <1>4, <1>7, <2>1, <3>1
    <3>2. CASE q # r
      BY <1>6, <1>7, <2>1, <3>2 DEF IInv, UpdatesStand
    <3> QED
      BY <3>1, <3>2
  <2>2. ASSUME Took(q, "reset", u)' \/ Took(q, "change", u)'
        PROVE  \E p \in Request :
                 /\ Took(p, "reset", u)' \/ Took(p, "change", u)'
                 /\ rows'[u].password = HasherMake(call'[p].new)
    <3>1. CASE u = who /\ call[r].op \in {"reset", "change"}
      BY <1>1, <1>4, <1>7, <3>1
    <3>2. CASE ~ (u = who /\ call[r].op \in {"reset", "change"})
      <4>1. q # r
        BY <1>4, <2>2, <3>2
      <4>2. Took(q, "reset", u) \/ Took(q, "change", u)
        BY <1>6, <2>2, <4>1
      <4>3. PICK p \in Request :
              /\ Took(p, "reset", u) \/ Took(p, "change", u)
              /\ rows[u].password = HasherMake(call[p].new)
        BY <4>2 DEF IInv, UpdatesStand
      <4>4. rows'[u].password = rows[u].password
        BY <1>3, <1>7, <3>2
      <4> QED
        BY <1>1, <1>5, <4>3, <4>4
    <3> QED
      BY <3>1, <3>2
  <2> QED
    BY <2>1, <2>2
<1>16. PlainPasswordNeedsReset'
  <2> SUFFICES ASSUME NEW u \in User, ~ Stored[u].hashed, SomeoneDid("login", u)'
               PROVE  SomeoneDid("reset", u)'
    BY DEF PlainPasswordNeedsReset
  <2>1. PICK q \in Request : Took(q, "login", u)'
    BY DEF SomeoneDid
  <2>2. q # r
    BY <1>3, <1>4, <2>1
  <2>3. SomeoneDid("login", u)
    BY <1>6, <2>1, <2>2 DEF SomeoneDid
  <2> QED
    BY <1>5, <2>3 DEF IInv, PlainPasswordNeedsReset
<1> QED
  BY <1>8, <1>9, <1>10, <1>12, <1>13, <1>14, <1>15, <1>16 DEF IInv

\* The answer after the hook changes nothing but that it is given.
LEMMA HookEffect ==
  ASSUME IInv, NEW r \in Request, UpdatedHook(r)
  PROVE  /\ UNCHANGED <<now, rows, issued, call, loaded, user>>
         /\ pc'[r] = "done"
         /\ \A q \in Request : q # r => pc'[q] = pc[q] /\ status'[q] = status[q]
         /\ \A q \in Request : Effective(q)' <=> Effective(q)
         /\ AnsweredLast'
<1>1. /\ UNCHANGED <<now, rows, issued, call, loaded, user>>
      /\ pc[r] = "hook" /\ pc'[r] = "done" /\ status'[r] = 200
      /\ \A q \in Request : q # r => pc'[q] = pc[q] /\ status'[q] = status[q]
  BY DEF UpdatedHook, Reply, Answer, Goto, IInv, TInv, TypeOK
<1> QED
  BY <1>1 DEF Effective, IInv, AnsweredLast

LEMMA HookStep ==
  ASSUME IInv, TInv', NEW r \in Request, UpdatedHook(r)
  PROVE  IInv'
<1>1. /\ UNCHANGED <<rows, issued, call, user>> /\ AnsweredLast'
      /\ \A q \in Request : pc'[q] = pc[q] \/ pc'[q] = "done"
  BY HookEffect
<1>2. \A q \in Request : \A op, u : Took(q, op, u)' <=> Took(q, op, u)
  BY <1>1, HookEffect DEF Took
<1>3. \A op, u : SomeoneDid(op, u)' <=> SomeoneDid(op, u)
  BY <1>2 DEF SomeoneDid
<1>4. TokensAccounted'
  BY <1>1, <1>3 DEF IInv, TokensAccounted
<1>5. RequestsAccounted'
  <2> SUFFICES ASSUME NEW q \in Request PROVE RequestAccounted(q)'
    BY DEF RequestsAccounted
  <2>1. RequestAccounted(q)
    BY DEF IInv, RequestsAccounted
  <2>2. CASE pc'[q] = pc[q]
    BY <1>1, <1>3, <2>1, <2>2
       DEF RequestAccounted, CallAccounted, SaveAccounted, LoadAccounted
  <2>3. CASE pc'[q] = "done"
    BY <2>3 DEF RequestAccounted, CallAccounted, SaveAccounted, LoadAccounted
  <2> QED
    BY <1>1, <2>2, <2>3
<1>6. HashesAccounted' /\ VerifiedNeedsSession' /\ PlainPasswordNeedsReset'
  BY <1>1, <1>3 DEF IInv, HashesAccounted, VerifiedNeedsSession, PlainPasswordNeedsReset
<1>7. PasswordAccountedFor'
  BY <1>1, <1>2, <1>3 DEF IInv, PasswordAccountedFor
<1>8. UpdatesStand'
  BY <1>1, <1>2 DEF IInv, UpdatesStand
<1> QED
  BY <1>1, <1>4, <1>5, <1>6, <1>7, <1>8 DEF IInv

LEMMA IStep == IInv /\ [Next]_vars => IInv'
<1> SUFFICES ASSUME IInv, [Next]_vars PROVE IInv'
  OBVIOUS
<1>1. TInv'
  BY TypeStep DEF IInv
<1>2. CASE UNCHANGED vars \/ Tick
  <2>1. UNCHANGED <<rows, issued, pc, call, user, status>>
    BY <1>2 DEF vars, Tick
  <2>2. \A op, u : /\ SomeoneDid(op, u)' <=> SomeoneDid(op, u)
                   /\ \A r \in Request : Took(r, op, u)' <=> Took(r, op, u)
    BY <2>1 DEF SomeoneDid, Took, Effective
  <2>3. AnsweredLast' /\ TokensAccounted'
    BY <2>1, <2>2 DEF IInv, AnsweredLast, TokensAccounted
  <2>4. RequestsAccounted'
    BY <2>1, <2>2 DEF IInv, RequestsAccounted, RequestAccounted, CallAccounted, SaveAccounted, LoadAccounted
  <2>5. HashesAccounted' /\ VerifiedNeedsSession' /\ PlainPasswordNeedsReset'
    BY <2>1, <2>2 DEF IInv, HashesAccounted, VerifiedNeedsSession, PlainPasswordNeedsReset
  <2>6. PasswordAccountedFor'
    BY <2>1, <2>2 DEF IInv, PasswordAccountedFor
  <2>7. UpdatesStand'
    BY <2>1, <2>2 DEF IInv, UpdatesStand
  <2> QED
    BY <1>1, <2>3, <2>4, <2>5, <2>6, <2>7 DEF IInv
<1>3. ASSUME NEW r \in Request, RequestStep(r), UpdatedHook(r) PROVE IInv'
  BY <1>1, <1>3, HookStep
<1>4. ASSUME NEW r \in Request, RequestStep(r), ~ UpdatedHook(r) PROVE IInv'
  <2>0. Moves(r)
    BY <1>4, StepMoves DEF IInv
  <2>1. CASE SaveFails(r)
    BY <1>1, <2>0, <2>1, RefuseStep DEF SaveFails
  <2> QED
    BY <1>1, <2>0, <2>1, MoveKinds, ArrivesStep, AtOnceStep, ReadStep, CheckStep, SaveStep
<1> QED
  BY <1>2, <1>3, <1>4 DEF Next

LEMMA Invariance == Spec => []IInv
BY IInit, IStep, PTL DEF Spec

-----------------------------------------------------------------------------
(* The theorems.                                                           *)

\* The state of the authentication endpoints stays well typed: a handler holds
\* an instance of a row, and saves only one it found.
THEOREM TypeCorrect == Spec => []TypeOK
<1>1. IInv => TypeOK
  BY DEF IInv, TInv
<1> QED
  BY <1>1, Invariance, PTL

\* login, refresh: every session goes back to a login of its subject.
THEOREM SessionsComeFromLogins == Spec => []SessionsStartWithLogin
<1>1. IInv => SessionsStartWithLogin
  BY DEF IInv, TokensAccounted, SessionsStartWithLogin
<1> QED
  BY <1>1, Invariance, PTL

\* reset_password, change_password: nothing else sets a password, however the
\* handlers interleave.
THEOREM PasswordsAccountedFor == Spec => []PasswordAccountedFor
<1>1. IInv => PasswordAccountedFor
  BY DEF IInv
<1> QED
  BY <1>1, Invariance, PTL

\* store then login: a password that was stored unhashed lets nobody in before
\* a reset.
THEOREM PlainPasswordsNeedReset == Spec => []PlainPasswordNeedsReset
<1>1. IInv => PlainPasswordNeedsReset
  BY DEF IInv
<1> QED
  BY <1>1, Invariance, PTL

\* verify_email: an address is verified only with a token that was sent to
\* somebody who was logged in.
THEOREM VerificationNeedsSession == Spec => []VerifiedNeedsSession
<1>1. IInv => VerifiedNeedsSession
  BY DEF IInv
<1> QED
  BY <1>1, Invariance, PTL

\* save(): concurrent updates of one row do not undo each other.
THEOREM NoUpdateIsLost == Spec => []NoLostUpdate
<1>1. IInv => NoLostUpdate
  BY DEF IInv, UpdatesStand, NoLostUpdate, Took, Effective, Succeeded
<1> QED
  BY <1>1, Invariance, PTL

-----------------------------------------------------------------------------
(* Who stamps a verified address again.                                    *)

\* A handler checks the row it loaded, and goes on to stamp it only if it was
\* not verified.
LoadsKnown ==
  \A r \in Request :
    /\ pc[r] = "check" => user[r] = loaded[r]
    /\ pc[r] = "save" /\ call[r].op = "verify" => loaded[r].verifiedAt = Null

LEMMA LoadsStep == TInv /\ LoadsKnown /\ [Next]_vars => LoadsKnown'
<1> SUFFICES ASSUME TInv, LoadsKnown, [Next]_vars PROVE LoadsKnown'
  OBVIOUS
<1> USE DEF LoadsKnown, TInv, TypeOK
<1>1. CASE UNCHANGED vars
  BY <1>1 DEF vars, Null
<1>2. CASE Tick
  BY <1>2 DEF Tick, Null
<1>3. ASSUME NEW r \in Request, Arrives(r) PROVE LoadsKnown'
  BY <1>3, ArrivesEffect DEF ArriveEffect, Null
<1>4. ASSUME NEW r \in Request, AnsweredAtOnce(r) PROVE LoadsKnown'
  BY <1>4, AtOnceEffect DEF AtOnce, Null
<1>5. ASSUME NEW r \in Request, Read(r) PROVE LoadsKnown'
  BY <1>5 DEF Read, Goto, Null
<1>6. ASSUME NEW r \in Request, Check(r) PROVE LoadsKnown'
  <2>1. CASE VerifyCheck(r)
    BY <2>1 DEF VerifyCheck, Checks, Reply, Assign, Answer, Goto, Null
  <2>2. CASE LoginCheck(r) \/ ForgotCheck(r) \/ SendCheck(r)
    BY <2>2 DEF LoginCheck, ForgotCheck, SendCheck, Reply, Grant, Answer, Goto, Null
  <2>3. CASE ResetCheck(r) \/ ChangeCheck(r)
    BY <2>3 DEF ResetCheck, ChangeCheck, Checks, Reply, Assign, Answer, Goto, Null
  <2> QED
    BY <1>6, <2>1, <2>2, <2>3 DEF Check
<1>7. ASSUME NEW r \in Request, Save(r) \/ SaveFails(r) \/ UpdatedHook(r) PROVE LoadsKnown'
  BY <1>7 DEF Save, SaveFails, UpdatedHook, Reply, Answer, Goto, Null
<1> QED
  BY <1>1, <1>2, <1>3, <1>4, <1>5, <1>6, <1>7, StepKinds DEF Next

\* verify_email: only a handler that loaded the row unverified stamps it over
\* the stamp of another, and none takes a stamp away.
THEOREM OnlyRacesStampAgain == Spec => StampedAgainOnlyByRace
<1> DEFINE Stamped(u) ==
      rows[u].verifiedAt # Null /\ rows'[u].verifiedAt # rows[u].verifiedAt =>
        /\ rows'[u].verifiedAt # Null
        /\ \E r \in Request :
             pc[r] = "save" /\ Took(r, "verify", u)' /\ loaded[r].verifiedAt = Null
<1>1. IInv /\ LoadsKnown /\ [Next]_vars => \A u \in User : Stamped(u)
  <2> SUFFICES ASSUME IInv, LoadsKnown, [Next]_vars, NEW u \in User,
                      rows[u].verifiedAt # Null, rows'[u].verifiedAt # rows[u].verifiedAt
               PROVE  /\ rows'[u].verifiedAt # Null
                      /\ \E r \in Request :
                           pc[r] = "save" /\ Took(r, "verify", u)' /\ loaded[r].verifiedAt = Null
    OBVIOUS
  <2>1. PICK r \in Request : Save(r)
    <3>1. ~ UNCHANGED vars /\ ~ Tick
      BY DEF vars, Tick
    <3>2. PICK r \in Request : RequestStep(r)
      BY <3>1 DEF Next
    <3>3. ~ Arrives(r) /\ ~ AnsweredAtOnce(r)
      BY ArrivesEffect, AtOnceEffect DEF IInv, ArriveEffect, AtOnce
    <3>4. ~ Read(r) /\ ~ Check(r) /\ ~ SaveFails(r) /\ ~ UpdatedHook(r)
      BY CheckEffect DEF Read, SaveFails, UpdatedHook, CheckOutcome, Grant, Reply, Assign
    <3> QED
      BY <3>2, <3>3, <3>4, StepKinds
  <2>2. /\ pc[r] = "save" /\ pc'[r] = "hook" /\ call' = call
        /\ rows \in [User -> RowType] /\ call[r].who \in User
        /\ rows' = [rows EXCEPT ![call[r].who] = Saved(r, @)]
    BY <2>1 DEF Save, Goto, IInv, TInv, TypeOK
  <2>3. call[r].who = u /\ call[r].op = "verify"
    BY <2>2 DEF Saved, RowType
  <2>4. rows'[u].verifiedAt = user[r].verifiedAt /\ user[r].verifiedAt # Null
    <3>1. SaveAccounted(r)
      BY DEF IInv, RequestsAccounted, RequestAccounted
    <3> QED
      BY <2>2, <2>3, <3>1 DEF Saved, RowType, SaveAccounted
  <2>5. Took(r, "verify", u)'
    BY <2>2, <2>3 DEF Took, Effective
  <2> QED
    BY <2>2, <2>3, <2>4, <2>5 DEF LoadsKnown
<1>2. Init => LoadsKnown
  BY DEF Init, LoadsKnown
<1>3. IInv => TInv
  BY DEF IInv
<1> QED
  BY <1>1, <1>2, <1>3, LoadsStep, Invariance, PTL DEF Spec, StampedAgainOnlyByRace

-----------------------------------------------------------------------------
(* The endpoints keep what Credentials promises.                           *)

\* What a handler relies on was granted by the past of the account: what it
\* loaded was once the account's, and what it was asked with was given out.
BackedCall(r) ==
  /\ pc[r] \in {"read", "check", "save"} /\ call[r].op \in {"change", "send"}
       => call[r].who \in Holders({"access", "refresh"})
  /\ pc[r] = "check" /\ Found(r) => user[r].password \in Had(call[r].who)
  /\ pc[r] = "save" =>
       /\ call[r].op = "reset" => call[r].who \in Holders({"reset"})
       /\ call[r].op = "verify" => call[r].who \in Holders({"verify"})
       /\ call[r].op = "change" =>
            call[r].pw \in Password /\ HasherMake(call[r].pw) \in Had(call[r].who)

Backed == \A r \in Request : BackedCall(r)

Setters(u) == {q \in Request : Took(q, "reset", u) \/ Took(q, "change", u)}
Openers    == {q \in Request : Effective(q) /\ call[q].op \in {"login", "change"}}

\* A step answers at most its own call.
LEMMA CallsMove ==
  ASSUME IInv, NEW r \in Request, Moves(r)
  PROVE  /\ \A u : r \notin Setters(u) /\ r \notin Openers
         /\ \A q \in Request : q # r =>
              /\ call'[q] = call[q]
              /\ q \in Openers' <=> q \in Openers
              /\ \A u : q \in Setters(u)' <=> q \in Setters(u)
<1>1. /\ ~ Effective(r)
      /\ \A q \in Request : q # r =>
           call'[q] = call[q] /\ status'[q] = status[q] /\ pc'[q] = pc[q]
  BY Frame DEF IInv, TInv, TypeOK, AnsweredLast, Moves, Effective
<1> QED
  BY <1>1 DEF Setters, Openers, Took, Effective

\* The passwords of an account grow by the one that a reset or change sets.
LEMMA HadMoves ==
  ASSUME IInv, NEW r \in Request, Moves(r), NEW u
  PROVE  /\ r \notin Setters(u)' => Had(u)' = Had(u)
         /\ r \in Setters(u)' => Had(u)' = Had(u) \cup {HasherMake(call'[r].new)}
         /\ Had(u) \subseteq Had(u)'
<1>1. /\ Had(u) = {Stored[u]} \cup {HasherMake(call[q].new) : q \in Setters(u)}
      /\ Had(u)' = {Stored[u]} \cup {HasherMake(call'[q].new) : q \in Setters(u)'}
  BY DEF Had, Setters, HasherMake
<1>0. Setters(u) \subseteq Request \ {r} /\ Setters(u)' \subseteq Request
  <2>1. Setters(u) \subseteq Request /\ Setters(u)' \subseteq Request
    BY DEF Setters
  <2> QED
    BY <2>1, CallsMove
<1>2. Setters(u)' \subseteq Setters(u) \cup {r} /\ Setters(u) \subseteq Setters(u)'
  BY <1>0, CallsMove
<1>3. \A q \in Setters(u) : call'[q] = call[q]
  BY <1>0, CallsMove
<1> HIDE DEF HasherMake
<1> QED
  BY <1>1, <1>2, <1>3

LEMMA UsedMoves ==
  ASSUME IInv, NEW r \in Request, Moves(r)
  PROVE  /\ r \notin Openers' => Used' = Used
         /\ r \in Openers' => Used' = Used \cup {<<call'[r].who, call'[r].pw>>}
<1>1. /\ Used = {<<call[q].who, call[q].pw>> : q \in Openers}
      /\ Used' = {<<call'[q].who, call'[q].pw>> : q \in Openers'}
  BY DEF Used, Openers
<1>0. Openers \subseteq Request \ {r} /\ Openers' \subseteq Request
  <2>1. Openers \subseteq Request /\ Openers' \subseteq Request
    BY DEF Openers
  <2> QED
    BY <2>1, CallsMove
<1>2. Openers' \subseteq Openers \cup {r} /\ Openers \subseteq Openers'
  BY <1>0, CallsMove
<1>3. \A q \in Openers : call'[q] = call[q]
  BY <1>0, CallsMove
<1> QED
  BY <1>1, <1>2, <1>3

\* Whom the tokens that are handed out are for.
LEMMA OneMore ==
  ASSUME NEW kind, NEW u, issued' = issued \cup {NewToken(kind, u)}
  PROVE  \A kinds : Holders(kinds)' = Holders(kinds) \cup (IF kind \in kinds THEN {u} ELSE {})
<1> DEFINE n == NewToken(kind, u)
<1>1. n.kind = kind /\ n.sub = u
  BY DEF NewToken
<1>2. issued' = issued \cup {n}
  OBVIOUS
<1> HIDE DEF n
<1> QED
  BY <1>1, <1>2 DEF Holders

LEMMA PairMore ==
  ASSUME NEW u, issued' = issued \cup TokenPair(u)
  PROVE  /\ Holders({"access", "refresh"})' = Holders({"access", "refresh"}) \cup {u}
         /\ Holders({"reset"})' = Holders({"reset"}) /\ Holders({"verify"})' = Holders({"verify"})
<1> DEFINE a == NewToken("access", u)
           b == NewToken("refresh", u)
<1>1. a.kind = "access" /\ a.sub = u /\ b.kind = "refresh" /\ b.sub = u
  BY DEF NewToken
<1>2. issued' = issued \cup {a, b}
  BY DEF TokenPair
<1> HIDE DEF a, b
<1> QED
  BY <1>1, <1>2 DEF Holders

LEMMA HoldersStay ==
  ASSUME NEW kinds, issued \subseteq issued'
  PROVE  Holders(kinds) \subseteq Holders(kinds)'
BY DEF Holders

\* What is in the table was set by a call that succeeded, or was there before.
LEMMA RowsHad ==
  ASSUME IInv, NEW u \in User
  PROVE  rows[u].password \in Had(u)
BY DEF IInv, PasswordAccountedFor, Had

LEMMA OthersBacked ==
  ASSUME IInv, Backed, NEW r \in Request, Moves(r), NEW q \in Request, q # r
  PROVE  BackedCall(q)'
<1>1. pc'[q] = pc[q] /\ call'[q] = call[q] /\ user'[q] = user[q] /\ issued \subseteq issued'
  BY Frame DEF IInv
<1>2. \A u : Had(u) \subseteq Had(u)'
  BY HadMoves
<1>3. \A kinds : Holders(kinds) \subseteq Holders(kinds)'
  BY <1>1, HoldersStay
<1> QED
  BY <1>1, <1>2, <1>3 DEF Backed, BackedCall, Found, HasherMake

\* A password that the hasher accepts is what was hashed.
LEMMA Opens ==
  ASSUME TInv, NEW r \in Request, Found(r), HasherCheck(call[r].pw, user[r].password)
  PROVE  call[r].pw \in Password /\ HasherMake(call[r].pw) = user[r].password
<1>1. user[r].password \in PasswordColumn
  BY DEF TInv, LoadedIsUser, Found, RowType
<1> QED
  BY <1>1 DEF HasherCheck, HasherMake, PasswordColumn

LEMMA BackedStep == IInv /\ Backed /\ [Next]_vars => Backed'
<1> SUFFICES ASSUME IInv, Backed, [Next]_vars PROVE Backed'
  OBVIOUS
<1>1. CASE UNCHANGED vars \/ Tick
  BY <1>1 DEF vars, Tick, Backed, BackedCall, Found, Holders, Had, Took, Effective, HasherMake
<1>3. ASSUME NEW r \in Request, UpdatedHook(r) PROVE Backed'
  <2>1. /\ UNCHANGED <<rows, issued, call, user>>
        /\ \A q \in Request : pc'[q] = pc[q] \/ pc'[q] = "done"
        /\ \A q \in Request : Effective(q)' <=> Effective(q)
    BY <1>3, HookEffect
  <2>2. \A u : Had(u)' = Had(u)
    BY <2>1 DEF Had, Took, HasherMake
  <2>3. \A kinds : Holders(kinds)' = Holders(kinds)
    BY <2>1 DEF Holders
  <2> QED
    BY <2>1, <2>2, <2>3 DEF Backed, BackedCall, Found, HasherMake
<1>2. ASSUME NEW r \in Request, Moves(r) PROVE Backed'
  <2>0. \A u : Had(u) \subseteq Had(u)'
    BY <1>2, HadMoves
  <2>1. \A kinds : Holders(kinds) \subseteq Holders(kinds)'
    BY <1>2, Frame, HoldersStay DEF IInv
  <2>2. pc \in [Request -> {"new", "read", "check", "save", "hook", "done"}] /\ TInv /\ BackedCall(r)
    BY DEF IInv, TInv, TypeOK, Backed
  <2>3. BackedCall(r)'
    <3>1. CASE Arrives(r)
      <4>1. PICK c \in CallType :
              /\ call'[r] = c
              /\ c.op \in {"change", "send"} => \E t \in issued : t.kind = "access" /\ c.who = t.sub
        BY <2>2, <3>1, ArrivesEffect DEF ArriveEffect, TInv, TypeOK
      <4>2. pc'[r] = "read"
        BY <2>2, <3>1, ArrivesEffect DEF ArriveEffect
      <4>3. c.op \in {"change", "send"} => c.who \in Holders({"access", "refresh"})
        BY <4>1 DEF Holders
      <4> QED
        BY <2>1, <4>1, <4>2, <4>3 DEF BackedCall
    <3>2. CASE AnsweredAtOnce(r) \/ Save(r) \/ SaveFails(r)
      <4>1. pc'[r] \in {"hook", "done"}
        BY <2>2, <3>2, AtOnceEffect DEF AtOnce, Save, SaveFails, Reply, Answer, Goto
      <4> QED
        BY <4>1 DEF BackedCall
    <3>3. CASE Read(r)
      <4>1. /\ pc[r] = "read" /\ pc'[r] = "check" /\ call' = call
            /\ user'[r] = IF call[r].who \in User THEN rows[call[r].who] ELSE None
        BY <2>2, <3>3 DEF Read, Goto, TInv, TypeOK
      <4>2. Found(r)' => user'[r].password \in Had(call[r].who)
        BY <4>1, RowsHad DEF Found
      <4>3. Found(r)' => user'[r].password \in Had(call[r].who)'
        BY <2>0, <4>1, <4>2
      <4> QED
        BY <2>1, <2>2, <4>1, <4>3 DEF BackedCall
    <3>4. CASE Check(r)
      <4>1. pc[r] = "check" /\ CheckOutcome(r)
        BY <3>4, CheckEffect
      <4>2. call' = call /\ pc'[r] \in {"done", "save"}
        BY <2>2, <4>1 DEF CheckOutcome, Grant, Reply, Assign, Answer, Goto
      <4>3. CASE pc'[r] = "done"
        BY <4>3 DEF BackedCall
      <4>4. CASE pc'[r] = "save"
        <5>0. pc'[r] # "done"
          BY <4>4
        <5>1. /\ call[r].op = "reset" => ValidTokenFor(call[r].tok, "reset", call[r].who)
              /\ call[r].op = "verify" => ValidTokenFor(call[r].tok, "verify", call[r].who)
              /\ call[r].op = "change" => Found(r) /\ HasherCheck(call[r].pw, user[r].password)
          BY <2>2, <4>1, <5>0 DEF CheckOutcome, Grant, Reply, Answer, Goto
        <5>2. /\ call[r].op = "reset" => call[r].who \in Holders({"reset"})
              /\ call[r].op = "verify" => call[r].who \in Holders({"verify"})
          BY <5>1 DEF ValidTokenFor, ValidToken, Holders
        <5>3. ASSUME call[r].op = "change"
              PROVE  call[r].pw \in Password /\ HasherMake(call[r].pw) \in Had(call[r].who)
          BY <2>2, <4>1, <5>1, <5>3, Opens DEF BackedCall, Found
        <5> QED
          BY <2>0, <2>1, <2>2, <4>1, <4>2, <5>2, <5>3 DEF BackedCall, HasherMake
      <4> QED
        BY <4>2, <4>3, <4>4
    <3> QED
      BY <1>2, <3>1, <3>2, <3>3, <3>4, MoveKinds
  <2> QED
    BY <1>2, <2>3, OthersBacked DEF Backed
<1> QED
  BY <1>1, <1>2, <1>3, StepMoves DEF Next, IInv

\* A call that sets no password leaves alone what each account has had.
LEMMA NothingSet ==
  ASSUME IInv, NEW r \in Request, Moves(r),
         \A op \in {"reset", "change"} : \A u : ~ Took(r, op, u)'
  PROVE  [u \in User |-> Had(u)]' = [u \in User |-> Had(u)]
<1>1. \A u : r \notin Setters(u)'
  BY DEF Setters
<1>2. \A u \in User : Had(u)' = Had(u)
  BY <1>1, HadMoves
<1> QED
  BY <1>2

\* save() of a new password: what was stored and what was ever stored.
LEMMA SaveSets ==
  ASSUME IInv, NEW r \in Request, Moves(r), Save(r), call[r].op \in {"reset", "change"},
         NEW who \in User, NEW w \in Password, call[r].who = who, call[r].new = w
  PROVE  Kept!Set(who, w)
<1>1. /\ pc[r] = "save"
      /\ rows \in [User -> RowType] /\ rows' = [rows EXCEPT ![who] = Saved(r, @)]
      /\ call' = call /\ pc'[r] = "hook"
  BY DEF Save, Goto, IInv, TInv, TypeOK
<1>2. user[r].password = HasherMake(w)
  BY <1>1 DEF IInv, RequestsAccounted, RequestAccounted, SaveAccounted
<1>3. \A u : r \in Setters(u)' <=> u = who
  BY <1>1 DEF Setters, Took, Effective
<1>4. /\ Had(who)' = Had(who) \cup {HasherMake(w)}
      /\ \A u \in User : u # who => Had(u)' = Had(u)
  BY <1>1, <1>3, HadMoves
<1>5. [u \in User |-> rows[u].password]'
        = [[u \in User |-> rows[u].password] EXCEPT ![who] = HasherMake(w)]
  <2>1. rows'[who].password = HasherMake(w)
    BY <1>1, <1>2 DEF Saved, RowType
  <2>2. \A u \in User : u # who => rows'[u] = rows[u]
    BY <1>1
  <2> HIDE DEF HasherMake
  <2> QED
    BY <2>1, <2>2
<1>6. [u \in User |-> Had(u)]' = [[u \in User |-> Had(u)] EXCEPT ![who] = @ \cup {HasherMake(w)}]
  <2> HIDE DEF HasherMake
  <2> QED
    BY <1>4
<1> QED
  BY <1>1, <1>5, <1>6 DEF Kept!Set

LEMMA SaveKeeps ==
  ASSUME IInv, Backed, NEW r \in Request, Moves(r), Save(r),
         NEW who \in User, call[r].who = who
  PROVE  Kept!Next
<1>1. /\ pc[r] = "save" /\ issued' = issued /\ call' = call
      /\ rows \in [User -> RowType] /\ rows' = [rows EXCEPT ![who] = Saved(r, @)]
      /\ pc'[r] = "hook"
  BY DEF Save, Goto, IInv, TInv, TypeOK
<1>2. \A kinds : Holders(kinds)' = Holders(kinds)
  BY <1>1 DEF Holders
<1>3. SaveAccounted(r) /\ BackedCall(r)
  BY DEF IInv, RequestsAccounted, RequestAccounted, Backed
<1>4. r \in Openers' <=> call[r].op = "change"
  BY <1>1, <1>3 DEF Openers, SaveAccounted, Effective
<1>5. CASE call[r].op \in {"reset", "change"}
  <2>1. PICK w \in Password : w = call[r].new
    BY <1>1, <1>5 DEF IInv, TInv, LoadedIsUser
  <2>5. Kept!Set(who, w)
    BY <1>5, <2>1, SaveSets
  <2>2. {u \in User : rows[u].verifiedAt # Null}' = {u \in User : rows[u].verifiedAt # Null}
    BY <1>1, <1>5 DEF Saved, RowType, Null
  <2>3. CASE call[r].op = "reset"
    <3>1. Used' = Used
      BY <1>4, <2>3, UsedMoves
    <3>2. Kept!Reset(who, w)
      BY <1>1, <1>2, <1>3, <2>2, <2>3, <2>5, <3>1 DEF Kept!Reset, BackedCall
    <3> QED
      BY <3>2 DEF Kept!Next
  <2>4. CASE call[r].op = "change"
    <3>1. PICK old \in Password : old = call[r].pw
      BY <1>1, <1>3, <2>4 DEF BackedCall
    <3>2. Used' = Used \cup {<<who, old>>}
      BY <1>1, <1>4, <2>4, <3>1, UsedMoves
    <3>3. HasherMake(old) \in [u \in User |-> Had(u)][who]
      BY <1>1, <1>3, <2>4, <3>1 DEF BackedCall
    <3>4. who \in Holders({"access", "refresh"})
      BY <1>1, <1>3, <2>4 DEF BackedCall
    <3>5. Kept!Change(who, old, w)
      BY <1>2, <2>2, <2>5, <3>2, <3>3, <3>4 DEF Kept!Change, Kept!Use
    <3> QED
      BY <3>5 DEF Kept!Next
  <2> QED
    BY <1>5, <2>3, <2>4
<1>6. CASE call[r].op = "verify"
  <2>1. Used' = Used
    BY <1>4, <1>6, UsedMoves
  <2>2. [u \in User |-> Had(u)]' = [u \in User |-> Had(u)]
    BY <1>1, <1>6, NothingSet DEF Took, Effective
  <2>3. [u \in User |-> rows[u].password]' = [u \in User |-> rows[u].password]
    BY <1>1, <1>6 DEF Saved, RowType
  <2>4. {u \in User : rows[u].verifiedAt # Null}'
          = {u \in User : rows[u].verifiedAt # Null} \cup {who}
    BY <1>1, <1>3, <1>6 DEF Saved, RowType, SaveAccounted
  <2>5. who \in Holders({"verify"})
    BY <1>1, <1>3, <1>6 DEF BackedCall
  <2>6. Kept!Verify(who)
    BY <1>2, <2>1, <2>2, <2>3, <2>4, <2>5 DEF Kept!Verify
  <2> QED
    BY <2>6 DEF Kept!Next
<1> QED
  BY <1>1, <1>3, <1>5, <1>6 DEF SaveAccounted

\* login, forgot and send: what an answer grants.
LEMMA GrantKeeps ==
  ASSUME IInv, Backed, NEW r \in Request, Moves(r), pc[r] = "check", Found(r),
         NEW T, Grant(r, T)
  PROVE  /\ call[r].op = "login" /\ T = TokenPair(call[r].who)
              /\ HasherCheck(call[r].pw, user[r].password) => Kept!Next
         /\ call[r].op = "forgot" /\ T = {NewToken("reset", call[r].who)} => Kept!Next
         /\ call[r].op = "send" /\ T = {NewToken("verify", call[r].who)} => Kept!Next
<1> DEFINE who == call[r].who
<1>1. /\ who \in User /\ issued' = issued \cup T /\ rows' = rows /\ call' = call
      /\ status'[r] = 200
  BY DEF Grant, Answer, IInv, TInv, TypeOK, LoadedIsUser, Found
<1>2. r \in Openers' <=> call[r].op \in {"login", "change"}
  BY <1>1 DEF Openers, Effective
<1>3. BackedCall(r)
  BY DEF Backed
<1>5. /\ [u \in User |-> rows[u].password]' = [u \in User |-> rows[u].password]
      /\ {u \in User : rows[u].verifiedAt # Null}' = {u \in User : rows[u].verifiedAt # Null}
  BY <1>1 DEF Null
<1>6. call[r].op \in {"login", "forgot", "send"}
        => [u \in User |-> Had(u)]' = [u \in User |-> Had(u)]
  BY <1>1, NothingSet DEF Took, Effective
<1>7. ASSUME call[r].op = "login", T = TokenPair(who),
             HasherCheck(call[r].pw, user[r].password)
      PROVE  Kept!Next
  <2>1. /\ Holders({"access", "refresh"})' = Holders({"access", "refresh"}) \cup {who}
        /\ Holders({"reset"})' = Holders({"reset"}) /\ Holders({"verify"})' = Holders({"verify"})
    BY <1>1, <1>7, PairMore
  <2>2. Used' = Used \cup {<<who, call[r].pw>>}
    BY <1>1, <1>2, <1>7, UsedMoves
  <2>3. call[r].pw \in Password /\ HasherMake(call[r].pw) = user[r].password
    BY <1>7, Opens DEF IInv
  <2>4. HasherMake(call[r].pw) \in [u \in User |-> Had(u)][who]
    BY <1>1, <1>3, <2>3 DEF BackedCall
  <2>5. Kept!LogIn(who, call[r].pw)
    BY <1>5, <1>6, <1>7, <2>1, <2>2, <2>4 DEF Kept!LogIn, Kept!Use
  <2> QED
    BY <1>1, <2>3, <2>5 DEF Kept!Next
<1>8. ASSUME call[r].op = "forgot", T = {NewToken("reset", who)} PROVE Kept!Next
  <2>1. /\ Holders({"reset"})' = Holders({"reset"}) \cup {who}
        /\ Holders({"access", "refresh"})' = Holders({"access", "refresh"})
        /\ Holders({"verify"})' = Holders({"verify"})
    <3>1. issued' = issued \cup {NewToken("reset", who)}
      BY <1>1, <1>8
    <3>2. \A kinds : Holders(kinds)' = Holders(kinds) \cup (IF "reset" \in kinds THEN {who} ELSE {})
      BY <3>1, OneMore
    <3> QED
      BY <3>2
  <2>2. Used' = Used
    BY <1>2, <1>8, UsedMoves
  <2>3. Kept!AskReset(who)
    BY <1>5, <1>6, <1>8, <2>1, <2>2 DEF Kept!AskReset
  <2> QED
    BY <1>1, <2>3 DEF Kept!Next
<1>9. ASSUME call[r].op = "send", T = {NewToken("verify", who)} PROVE Kept!Next
  <2>1. /\ Holders({"verify"})' = Holders({"verify"}) \cup {who}
        /\ Holders({"access", "refresh"})' = Holders({"access", "refresh"})
        /\ Holders({"reset"})' = Holders({"reset"})
    <3>1. issued' = issued \cup {NewToken("verify", who)}
      BY <1>1, <1>9
    <3>2. \A kinds : Holders(kinds)' = Holders(kinds) \cup (IF "verify" \in kinds THEN {who} ELSE {})
      BY <3>1, OneMore
    <3> QED
      BY <3>2
  <2>2. Used' = Used
    BY <1>2, <1>9, UsedMoves
  <2>3. who \in Holders({"access", "refresh"})
    BY <1>3, <1>9 DEF BackedCall
  <2>4. Kept!OfferVerification(who)
    BY <1>5, <1>6, <1>9, <2>1, <2>2, <2>3 DEF Kept!OfferVerification
  <2> QED
    BY <1>1, <2>4 DEF Kept!Next
<1> QED
  BY <1>7, <1>8, <1>9

\* A step that opens and sets nothing, and hands out nothing to anybody new, is
\* none that matters.
LEMMA QuietKeeps ==
  ASSUME IInv, NEW r \in Request, Moves(r), rows' = rows,
         \A kinds \in {{"access", "refresh"}, {"reset"}, {"verify"}} :
           Holders(kinds)' = Holders(kinds),
         Effective(r)' => call'[r].op \notin {"login", "reset", "change"}
  PROVE  UNCHANGED Kept!vars
<1>1. Used' = Used
  BY UsedMoves DEF Openers
<1>2. [u \in User |-> Had(u)]' = [u \in User |-> Had(u)]
  BY NothingSet DEF Took, Effective
<1>3. /\ [u \in User |-> rows[u].password]' = [u \in User |-> rows[u].password]
      /\ {u \in User : rows[u].verifiedAt # Null}' = {u \in User : rows[u].verifiedAt # Null}
  BY DEF Null
<1> QED
  BY <1>1, <1>2, <1>3 DEF Kept!vars

LEMMA CheckKeeps ==
  ASSUME IInv, Backed, NEW r \in Request, Moves(r), Check(r)
  PROVE  Kept!Next \/ UNCHANGED Kept!vars
<1>1. pc[r] = "check" /\ CheckOutcome(r)
  BY CheckEffect
<1>2. status[r] = 0 /\ TInv /\ TypeOK
  BY <1>1 DEF IInv, AnsweredLast, TInv
<1>3. ASSUME issued' = issued, rows' = rows,
             Effective(r)' => call'[r].op \notin {"login", "reset", "change"}
      PROVE  UNCHANGED Kept!vars
  BY <1>3, QuietKeeps DEF Holders
<1>4. ASSUME NEW code, Reply(r, code), code = 200 => call[r].op = "verify"
      PROVE  UNCHANGED Kept!vars
  <2>1. /\ issued' = issued /\ rows' = rows /\ call' = call
        /\ Effective(r)' => code = 200
    BY <1>2, <1>4 DEF Reply, Answer, Goto, TypeOK, Effective
  <2> QED
    BY <1>3, <1>4, <2>1
<1>5. ASSUME NEW row, Assign(r, row) PROVE UNCHANGED Kept!vars
  <2>1. issued' = issued /\ rows' = rows /\ ~ Effective(r)'
    BY <1>2, <1>5 DEF Assign, Goto, TypeOK, Effective
  <2> QED
    BY <1>3, <2>1
<1>6. ASSUME NEW T, Grant(r, T), T = {}, call[r].op \in {"forgot", "send"}
      PROVE  UNCHANGED Kept!vars
  BY <1>3, <1>6 DEF Grant
<1> QED
  BY <1>1, <1>4, <1>5, <1>6, GrantKeeps DEF CheckOutcome

\* Arriving, looking, checking, saving and answering, of any number of calls
\* about one account, refine accounts whose passwords, sessions and
\* verifications move in single steps.
THEOREM AuthImplementsCredentials == Spec => ImplementsCredentials
<1>1. Init => Kept!Init
  <2> SUFFICES ASSUME Init PROVE Kept!Init
    OBVIOUS
  <2>1. /\ rows = [u \in User |-> [password |-> Stored[u], verifiedAt |-> Null]]
        /\ issued = {} /\ \A r \in Request : ~ Effective(r)
    BY DEF Init, Effective
  <2>2. [u \in User |-> rows[u].password] = Stored
    BY <2>1, AuthAssumption
  <2>3. \A u \in User : Had(u) = {Stored[u]}
    BY <2>1 DEF Had, Took, Effective
  <2>4. Used = {} /\ \A kinds : Holders(kinds) = {}
    BY <2>1 DEF Used, Holders
  <2>5. {u \in User : rows[u].verifiedAt # Null} = {}
    BY <2>1
  <2> QED
    BY <2>2, <2>3, <2>4, <2>5 DEF Kept!Init
<1>2. Init => Backed
  BY DEF Init, Backed, BackedCall
<1>3. IInv /\ Backed /\ [Next]_vars => [Kept!Next]_(Kept!vars)
  <2> SUFFICES ASSUME IInv, Backed, [Next]_vars PROVE Kept!Next \/ UNCHANGED Kept!vars
    OBVIOUS
  <2>1. CASE UNCHANGED vars \/ Tick
    BY <2>1 DEF vars, Tick, Kept!vars, Had, Used, Holders, Took, Effective, HasherMake, Null
  <2>3. ASSUME NEW r \in Request, UpdatedHook(r) PROVE UNCHANGED Kept!vars
    <3>1. /\ UNCHANGED <<rows, issued, call>>
          /\ \A q \in Request : Effective(q)' <=> Effective(q)
      BY <2>3, HookEffect
    <3>2. \A u : Had(u)' = Had(u)
      BY <3>1 DEF Had, Took, HasherMake
    <3>3. Used' = Used /\ \A kinds : Holders(kinds)' = Holders(kinds)
      BY <3>1 DEF Used, Holders
    <3> QED
      BY <3>1, <3>2, <3>3 DEF Kept!vars, Null
  <2>2. ASSUME NEW r \in Request, Moves(r) PROVE Kept!Next \/ UNCHANGED Kept!vars
    <3>1. ASSUME Arrives(r) \/ Read(r) \/ SaveFails(r) PROVE UNCHANGED Kept!vars
      <4>1. issued' = issued /\ rows' = rows /\ ~ Effective(r)'
        BY <3>1, ArrivesEffect
           DEF ArriveEffect, Read, SaveFails, Reply, Answer, Goto, Effective, IInv, AnsweredLast,
               TInv, TypeOK
      <4> QED
        BY <2>2, <4>1, QuietKeeps DEF Holders
    <3>2. ASSUME AnsweredAtOnce(r) PROVE UNCHANGED Kept!vars
      <4>1. PICK c \in CallType, code \in {200, 401}, t \in issued : AtOnce(r, c, code, t)
        BY <3>2, AtOnceEffect DEF IInv
      <4>2. /\ rows' = rows /\ call'[r] = c
            /\ Effective(r)' => c.op \notin {"login", "reset", "change"}
        BY <4>1 DEF AtOnce, IInv, TInv, TypeOK, Effective
      <4>3. \A kinds \in {{"access", "refresh"}, {"reset"}, {"verify"}} :
              Holders(kinds)' = Holders(kinds)
        <5>1. CASE issued' = issued
          BY <5>1 DEF Holders
        <5>2. CASE t.kind = "refresh" /\ issued' = issued \cup TokenPair(t.sub)
          <6>1. t.sub \in Holders({"access", "refresh"})
            BY <5>2 DEF Holders
          <6> QED
            BY <5>2, <6>1, PairMore
        <5> QED
          BY <4>1, <5>1, <5>2 DEF AtOnce
      <4> QED
        BY <2>2, <4>2, <4>3, QuietKeeps
    <3>3. ASSUME Save(r) PROVE Kept!Next
      <4>1. PICK who \in User : who = call[r].who
        BY <3>3 DEF Save, IInv, TInv, TypeOK
      <4> QED
        BY <2>2, <3>3, <4>1, SaveKeeps
    <3> QED
      BY <2>2, <3>1, <3>2, <3>3, CheckKeeps, MoveKinds
  <2> QED
    BY <2>1, <2>2, <2>3, StepMoves DEF Next, IInv
<1> QED
  BY IInit, IStep, BackedStep, <1>1, <1>2, <1>3, PTL DEF Spec, ImplementsCredentials, Kept!Spec

=============================================================================
