-------------------------------- MODULE Auth --------------------------------
(***************************************************************************)
(* AuthController: login, refresh, forgotten and changed passwords, e-mail *)
(* verification and logout, behind the middleware that guards the          *)
(* protected paths.                                                        *)
(*                                                                         *)
(* Every call is one request that is made once; its pc, its arguments, the *)
(* ORM instance it loaded and its answer stay in the state, so the history *)
(* can be read from it.  A handler that awaits the database does so in     *)
(* steps of its own: the SELECT, the synchronous code after it, the UPDATE *)
(* of save(), and the `updated` hook that save() awaits before the answer. *)
(* Requests that stop half-way, also between the UPDATE and the answer,    *)
(* are those that take no further step.                                    *)
(*                                                                         *)
(* Tokens are signed and kept nowhere: a token is good when the service    *)
(* issued it, it is of the kind and for the subject asked for, and it has  *)
(* not expired.  save() writes the columns the handler assigned, as the    *)
(* ORM's unit of work does.                                                *)
(***************************************************************************)
EXTENDS Naturals

CONSTANTS
  Request,   \* the calls that may be made
  User,      \* the addresses that have a row, which the row is named by
  Stranger,  \* addresses that have none, wrong spellings included
  Password,  \* the plain passwords clients submit
  Stored,    \* what users.password holds at first: hashed or not, and of what
  Ttl,       \* the lifetime of each kind of token
  MaxTime,   \* bound: the clock stops here
  None       \* Python's None, and an argument a call does not have

Kind == {"access", "refresh", "reset", "verify"}
Address == User \cup Stranger
Token   == [kind : Kind, sub : User, exp : Nat]
PasswordColumn == [hashed : BOOLEAN, word : Password]
RowType == [password : PasswordColumn, verifiedAt : Nat]
Op      == {"login", "refresh", "forgot", "reset", "change", "send", "verify", "logout"}
CallType == [op : Op, who : Address, pw : Password \cup {None},
             new : Password \cup {None}, tok : Token \cup {None}]

ASSUME AuthAssumption ==
  /\ User \cap Stranger = {}
  /\ Stored \in [User -> PasswordColumn]
  /\ Ttl \in [Kind -> Nat]
  /\ MaxTime \in Nat \ {0}
  /\ None \notin RowType \cup CallType \cup Token \cup Password

VARIABLES
  now,     \* the clock, from 1 on
  rows,    \* the users table
  issued,  \* the tokens handed out so far
  pc,      \* where each request is in its handler
  call,    \* what each request asks for
  loaded,  \* the row as each handler's SELECT returned it
  user,    \* the instance made of it, which the handler assigns to
  status   \* the status code answered

vars == <<now, rows, issued, pc, call, loaded, user, status>>

Null == 0   \* email_verified_at of an address not yet verified

Init ==
  /\ now = 1
  /\ rows = [u \in User |-> [password |-> Stored[u], verifiedAt |-> Null]]
  /\ issued = {}
  /\ pc = [r \in Request |-> "new"]
  /\ call = [r \in Request |-> None]
  /\ loaded = [r \in Request |-> None]
  /\ user = [r \in Request |-> None]
  /\ status = [r \in Request |-> 0]

-----------------------------------------------------------------------------
(* The token services, the hasher and the guard.                           *)

NewToken(kind, sub) == [kind |-> kind, sub |-> sub, exp |-> now + Ttl[kind]]

\* create_token_pair
TokenPair(sub) == {NewToken("access", sub), NewToken("refresh", sub)}

Unexpired(t) == t.exp > now

\* Variant with a bug: decode_token does not look at the type.
ValidTokenOfAnyKind(t, kind) == t \in issued /\ Unexpired(t)

\* decode_token(expected_type), and validate_..._token for a subject
ValidToken(t, kind)         == t \in issued /\ t.kind = kind /\ Unexpired(t)
ValidTokenFor(t, kind, sub) == ValidToken(t, kind) /\ t.sub = sub

\* Variant with a bug: an unhashed column is compared as it is.
HasherCheckPlain(w, column) == column.word = w

\* hasher.make and hasher.check: a password stored as it was sent matches
\* nothing.
HasherMake(w)         == [hashed |-> TRUE, word |-> w]
HasherCheck(w, column) == column.hashed /\ column.word = w

\* The guard in front of _PROTECTED_PATH_PREFIXES.
GuardAdmits(t) == ValidToken(t, "access")

-----------------------------------------------------------------------------
(* Steps of a handler.                                                     *)

Goto(r, step) == pc' = [pc EXCEPT ![r] = step]

Answer(r, code) ==
  /\ status' = [status EXCEPT ![r] = code]
  /\ Goto(r, "done")

Begin(r, c, step) ==
  /\ pc[r] = "new"
  /\ call' = [call EXCEPT ![r] = c]
  /\ Goto(r, step)
  /\ UNCHANGED <<now, rows, issued, loaded, user, status>>

Args(op, who, pw, new, tok) ==
  [op |-> op, who |-> who, pw |-> pw, new |-> new, tok |-> tok]

Login(r) ==
  \E e \in Address, w \in Password :
    Begin(r, Args("login", e, w, None, None), "read")

ForgotPassword(r) ==
  \E e \in Address : Begin(r, Args("forgot", e, None, None, None), "read")

ResetPassword(r) ==
  \E e \in Address, t \in issued, w \in Password :
    Begin(r, Args("reset", e, None, w, t), "read")

VerifyEmail(r) ==
  \E e \in Address, t \in issued :
    Begin(r, Args("verify", e, None, None, t), "read")

\* The protected calls reach their handler with the subject of the token.
ChangePassword(r) ==
  \E t \in issued, cur, w \in Password :
    GuardAdmits(t) /\ Begin(r, Args("change", t.sub, cur, w, t), "read")

SendVerification(r) ==
  \E t \in issued :
    GuardAdmits(t) /\ Begin(r, Args("send", t.sub, None, None, t), "read")

\* logout reads the authentication context and answers.
Logout(r) ==
  \E t \in issued :
    /\ pc[r] = "new"
    /\ GuardAdmits(t)
    /\ call' = [call EXCEPT ![r] = Args("logout", t.sub, None, None, t)]
    /\ Answer(r, 200)
    /\ UNCHANGED <<now, rows, issued, loaded, user>>

\* Without a good token (a missing or forged one is treated like one that
\* expired or is of another kind) the guard answers and no handler runs.
GuardRefuses(r) ==
  /\ pc[r] = "new"
  /\ \E t \in issued, op \in {"change", "send", "logout"} :
       /\ ~ GuardAdmits(t)
       /\ call' = [call EXCEPT ![r] = Args(op, t.sub, None, None, t)]
  /\ Answer(r, 401)
  /\ UNCHANGED <<now, rows, issued, loaded, user>>

\* refresh asks nobody but the token.
Refresh(r) ==
  \E t \in issued :
    /\ pc[r] = "new"
    /\ call' = [call EXCEPT ![r] = Args("refresh", t.sub, None, None, t)]
    /\ \/ /\ ValidToken(t, "refresh")
          /\ issued' = issued \cup TokenPair(t.sub)
          /\ Answer(r, 200)
       \/ /\ ~ ValidToken(t, "refresh")
          /\ Answer(r, 401)
          /\ UNCHANGED issued
    /\ UNCHANGED <<now, rows, loaded, user>>

\* User.query().where(User.email == ...).first(): exact match, or None.
Read(r) ==
  /\ pc[r] = "read"
  /\ loaded' = [loaded EXCEPT ![r] = IF call[r].who \in User THEN rows[call[r].who] ELSE None]
  /\ user' = [user EXCEPT ![r] = loaded'[r]]
  /\ Goto(r, "check")
  /\ UNCHANGED <<now, rows, issued, call, status>>

-----------------------------------------------------------------------------
(* The synchronous code of each handler, between its SELECT and its end or *)
(* its save().                                                             *)

Checks(r, op) == pc[r] = "check" /\ call[r].op = op

Found(r) == user[r] # None

Reply(r, code) ==
  /\ Answer(r, code)
  /\ UNCHANGED <<now, rows, issued, call, loaded, user>>

Grant(r, tokens) ==
  /\ issued' = issued \cup tokens
  /\ Answer(r, 200)
  /\ UNCHANGED <<now, rows, call, loaded, user>>

Assign(r, instance) ==
  /\ user' = [user EXCEPT ![r] = instance]
  /\ Goto(r, "save")
  /\ UNCHANGED <<now, rows, issued, call, loaded, status>>

LoginCheck(r) ==
  LET good == Found(r) /\ HasherCheck(call[r].pw, user[r].password)
  IN  /\ Checks(r, "login")
      /\ \/ good /\ Grant(r, TokenPair(call[r].who))
         \/ ~ good /\ Reply(r, 401)

\* The same answer whether the address is known or not.
ForgotCheck(r) ==
  /\ Checks(r, "forgot")
  /\ Grant(r, IF Found(r) THEN {NewToken("reset", call[r].who)} ELSE {})

\* Variant with a bug: a field of another request is hashed.
ResetCheckWrongField(r) ==
  LET good == Found(r) /\ ValidTokenFor(call[r].tok, "reset", call[r].who)
  IN  /\ Checks(r, "reset")
      /\ \/ good /\ Assign(r, [user[r] EXCEPT !.password = HasherMake(call[r].pw)])
         \/ ~ good /\ Reply(r, 400)

\* Variant with a bug: the reset token is not validated.
ResetCheckNothing(r) ==
  /\ Checks(r, "reset")
  /\ \/ Found(r) /\ Assign(r, [user[r] EXCEPT !.password = HasherMake(call[r].new)])
     \/ ~ Found(r) /\ Reply(r, 400)

ResetCheck(r) ==
  LET good == Found(r) /\ ValidTokenFor(call[r].tok, "reset", call[r].who)
  IN  /\ Checks(r, "reset")
      /\ \/ good /\ Assign(r, [user[r] EXCEPT !.password = HasherMake(call[r].new)])
         \/ ~ good /\ Reply(r, 400)

\* Variant with a bug: the current password is not asked for.
ChangeCheckNothing(r) ==
  /\ Checks(r, "change")
  /\ \/ ~ Found(r) /\ Reply(r, 404)
     \/ Found(r) /\ Assign(r, [user[r] EXCEPT !.password = HasherMake(call[r].new)])

ChangeCheck(r) ==
  /\ Checks(r, "change")
  /\ \/ ~ Found(r) /\ Reply(r, 404)
     \/ /\ Found(r)
        /\ ~ HasherCheck(call[r].pw, user[r].password)
        /\ Reply(r, 400)
     \/ /\ Found(r)
        /\ HasherCheck(call[r].pw, user[r].password)
        /\ Assign(r, [user[r] EXCEPT !.password = HasherMake(call[r].new)])

SendCheck(r) ==
  /\ Checks(r, "send")
  /\ \/ ~ Found(r) /\ Reply(r, 404)
     \/ /\ Found(r)
        /\ Grant(r, IF user[r].verifiedAt = Null
                    THEN {NewToken("verify", call[r].who)} ELSE {})

\* Variant with a bug: a verified address is stamped again.
VerifyCheckAgain(r) ==
  LET good == Found(r) /\ ValidTokenFor(call[r].tok, "verify", call[r].who)
  IN  /\ Checks(r, "verify")
      /\ \/ ~ good /\ Reply(r, 400)
         \/ good /\ Assign(r, [user[r] EXCEPT !.verifiedAt = now])

VerifyCheck(r) ==
  LET good == ValidTokenFor(call[r].tok, "verify", call[r].who)
  IN  /\ Checks(r, "verify")
      /\ \/ ~ Found(r) /\ Reply(r, 400)
         \/ Found(r) /\ user[r].verifiedAt # Null /\ Reply(r, 200)
         \/ Found(r) /\ user[r].verifiedAt = Null /\ ~ good /\ Reply(r, 400)
         \/ /\ Found(r) /\ user[r].verifiedAt = Null /\ good
            /\ Assign(r, [user[r] EXCEPT !.verifiedAt = now])

-----------------------------------------------------------------------------
\* Variant with a bug: every column of the instance is written.
SavedWhole(r, row) == user[r]

\* save() updates the column the handler assigned and leaves the others as
\* they are in the table by now.
Saved(r, row) ==
  IF call[r].op = "verify"
  THEN [row EXCEPT !.verifiedAt = user[r].verifiedAt]
  ELSE [row EXCEPT !.password = user[r].password]

Save(r) ==
  /\ pc[r] = "save"
  /\ rows' = [rows EXCEPT ![call[r].who] = Saved(r, @)]
  /\ Goto(r, "hook")
  /\ UNCHANGED <<now, issued, call, loaded, user, status>>

SaveFails(r) ==
  /\ pc[r] = "save"
  /\ Reply(r, 500)

\* The updated hook's upsert succeeds, or fails and is logged: either way the
\* handler goes on to its answer.
UpdatedHook(r) ==
  /\ pc[r] = "hook"
  /\ Reply(r, 200)

Tick ==
  /\ now < MaxTime
  /\ now' = now + 1
  /\ UNCHANGED <<rows, issued, pc, call, loaded, user, status>>

-----------------------------------------------------------------------------
RequestStep(r) ==
  \/ Login(r) \/ Refresh(r) \/ ForgotPassword(r) \/ ResetPassword(r)
  \/ ChangePassword(r) \/ SendVerification(r) \/ VerifyEmail(r)
  \/ Logout(r) \/ GuardRefuses(r)
  \/ Read(r)
  \/ LoginCheck(r) \/ ForgotCheck(r) \/ ResetCheck(r)
  \/ ChangeCheck(r) \/ SendCheck(r) \/ VerifyCheck(r)
  \/ Save(r) \/ SaveFails(r) \/ UpdatedHook(r)

Next == Tick \/ \E r \in Request : RequestStep(r)

Spec == Init /\ [][Next]_vars

-----------------------------------------------------------------------------
(* Properties.                                                             *)

TypeOK ==
  /\ now \in 1..MaxTime
  /\ rows \in [User -> RowType]
  /\ issued \subseteq Token
  /\ pc \in [Request -> {"new", "read", "check", "save", "hook", "done"}]
  /\ call \in [Request -> CallType \cup {None}]
  /\ loaded \in [Request -> RowType \cup {None}]
  /\ user \in [Request -> RowType \cup {None}]
  /\ \A r \in Request :
       /\ pc[r] # "new" => call[r] \in CallType
       /\ pc[r] \in {"save", "hook"} => user[r] \in RowType /\ call[r].who \in User
  /\ status \in [Request -> {0, 200, 400, 401, 404, 500}]

\* Request r asked for op on behalf of u and was answered 200.
Succeeded(r, op, u) ==
  status[r] = 200 /\ call[r].op = op /\ call[r].who = u

\* It took effect: it was answered 200, or its UPDATE is committed and the
\* answer has yet to come, or never will.
Effective(r)   == pc[r] = "hook" \/ status[r] = 200
Took(r, op, u) == Effective(r) /\ call[r].op = op /\ call[r].who = u

SomeoneDid(op, u) == \E r \in Request : Took(r, op, u)

\* No session without a password: every access and refresh token, however
\* many times it was renewed, goes back to a login of its subject.
SessionsStartWithLogin ==
  \A t \in issued : t.kind \in {"access", "refresh"} => SomeoneDid("login", t.sub)

\* A password differs from the one first stored only because a call that took
\* effect, answered or not, set it: a reset that somebody asked for, or a change by
\* somebody who was logged in.
PasswordAccountedFor ==
  \A u \in User : rows[u].password # Stored[u] =>
    \E r \in Request :
      /\ \/ Took(r, "reset", u) /\ SomeoneDid("forgot", u)
         \/ Took(r, "change", u) /\ SomeoneDid("login", u)
      /\ rows[u].password = HasherMake(call[r].new)

\* An account whose password was stored as it was sent (POST /api/users does
\* not hash it) has no session before its password was reset.
PlainPasswordNeedsReset ==
  \A u \in User :
    ~ Stored[u].hashed /\ SomeoneDid("login", u) => SomeoneDid("reset", u)

\* A verified address was verified with a token sent to a logged-in user.
VerifiedNeedsSession ==
  \A u \in User : rows[u].verifiedAt # Null =>
    SomeoneDid("verify", u) /\ SomeoneDid("send", u) /\ SomeoneDid("login", u)

\* An update that was acknowledged is not undone by another request that had
\* loaded the row before it: the row holds what some committed update wrote.
NoLostUpdate ==
  \A u \in User, r \in Request :
    /\ Succeeded(r, "verify", u) => rows[u].verifiedAt # Null
    /\ Succeeded(r, "reset", u) \/ Succeeded(r, "change", u) =>
         \E q \in Request :
           /\ Took(q, "reset", u) \/ Took(q, "change", u)
           /\ rows[u].password = HasherMake(call[q].new)

\* A verification is never undone, and its time is stamped again only by a
\* request that had loaded the row before it was first stamped.
StampedAgainOnlyByRace ==
  [][\A u \in User :
       rows[u].verifiedAt # Null /\ rows'[u].verifiedAt # rows[u].verifiedAt =>
         /\ rows'[u].verifiedAt # Null
         /\ \E r \in Request :
              pc[r] = "save" /\ Took(r, "verify", u)' /\ loaded[r].verifiedAt = Null]_vars

\* How the endpoints keep what Credentials promises: an account had the
\* passwords that committed updates set, whether they were answered or not,
\* tokens stand for what they were issued for, and a call that updates takes
\* effect at its commit.
Had(u) ==
  {Stored[u]} \cup
  {HasherMake(call[r].new) :
     r \in {q \in Request : Took(q, "reset", u) \/ Took(q, "change", u)}}

Used ==
  {<<call[r].who, call[r].pw>> :
     r \in {q \in Request : Effective(q) /\ call[q].op \in {"login", "change"}}}

Holders(kinds) == {t.sub : t \in {i \in issued : i.kind \in kinds}}

Kept == INSTANCE Credentials WITH
  Hash <- HasherMake,
  password <- [u \in User |-> rows[u].password],
  had <- [u \in User |-> Had(u)],
  used <- Used,
  sessions <- Holders({"access", "refresh"}),
  resets <- Holders({"reset"}),
  offers <- Holders({"verify"}),
  verified <- {u \in User : rows[u].verifiedAt # Null}

\* login, reset_password, change_password, verify_email: whatever the handlers'
\* awaits are interleaved with, each call takes effect in one step, one that
\* the account's past allows.
ImplementsCredentials == Kept!Spec

\* What the summary of POST /api/auth/logout says ("invalidate session"):
\* a token that was logged out is not accepted any more.
LogoutInvalidates ==
  [][\A r \in Request, t \in issued :
       Succeeded(r, "logout", t.sub) /\ call[r].tok = t =>
         \A q \in Request :
           /\ pc[q] = "new" /\ pc'[q] # "new"
           /\ call'[q].op \in {"change", "send", "logout"} /\ call'[q].tok = t
             => status'[q] = 401]_vars

=============================================================================
