---------------------------- MODULE Registration ----------------------------
(***************************************************************************)
(* Creating an account.  POST /api/users (store) and POST                  *)
(* /api/users/validated (store_validated) both end in User.create(), which *)
(* runs the UserObserver hooks: `creating` before the INSERT, and          *)
(* `created` after it, which awaits three services one after the other.    *)
(*                                                                         *)
(* A request is a process: every await of the handler and of the hooks is  *)
(* a step of its own, so requests interleave the way coroutines of one     *)
(* worker, and workers of one server, do.  A new row is identified by the  *)
(* request that inserted it (users.id is a fresh autoincrement value).     *)
(*                                                                         *)
(* The framework commits the INSERT before it runs the `created` hooks.    *)
(* The search engines of config/search.py acknowledge a document and apply *)
(* it later; the behaviours of one that applies it at once are those here  *)
(* in which Apply directly follows.                                        *)
(***************************************************************************)
EXTENDS FiniteSets

CONSTANTS
  Request,    \* the requests that may be made
  RawEmail,   \* the spellings of an address a client may send
  Canon,      \* str.strip().lower() of each spelling
  Reliable,   \* the services of `created` that are wired and never fail
  FormSession \* UserCreateFormRequest is given a session: FALSE in the code

Service == {"search", "broadcast", "events"}

ASSUME CanonAssumption ==
  /\ Canon \in [RawEmail -> RawEmail]
  /\ \A e \in RawEmail : Canon[Canon[e]] = Canon[e]

ASSUME ReliableAssumption == Reliable \subseteq Service

ASSUME FormSessionAssumption == FormSession \in BOOLEAN

VARIABLES
  pc,         \* where each request is in its handler
  email,      \* the spelling the handler holds, NoEmail before the request
  status,     \* the status code answered, NoStatus until then
  users,      \* the committed rows of the users table
  accepted,   \* the documents the search engine acknowledged and did not apply
  index,      \* the documents that searches of the users index find
  channel,    \* the user.created broadcasts on the "users" channel
  dispatched  \* the SendWelcomeEmailJob handed to the queue so far

vars == <<pc, email, status, users, accepted, index, channel, dispatched>>
engine == <<accepted, index>>
effects == <<engine, channel, dispatched>>

NoEmail  == "no email"
NoStatus == 0

Mailbox == {Canon[e] : e \in RawEmail}
Row     == [id : Request, email : RawEmail]

Init ==
  /\ pc = [r \in Request |-> "idle"]
  /\ email = [r \in Request |-> NoEmail]
  /\ status = [r \in Request |-> NoStatus]
  /\ users = {}
  /\ accepted = {}
  /\ index = {}
  /\ channel = {}
  /\ dispatched = {}

Goto(r, step) == pc' = [pc EXCEPT ![r] = step]

Answer(r, code) ==
  /\ status' = [status EXCEPT ![r] = code]
  /\ Goto(r, "done")

-----------------------------------------------------------------------------
(* The handlers, up to User.create().                                      *)

\* store: the typed body goes straight to User.create().
Store(r) ==
  /\ pc[r] = "idle"
  /\ \E raw \in RawEmail : email' = [email EXCEPT ![r] = raw]
  /\ Goto(r, "insert")
  /\ UNCHANGED <<status, users, effects>>

\* Variant with a bug: the body is never read.
StoreValidatedUnread(r) ==
  /\ pc[r] = "idle"
  /\ Goto(r, "validate")
  /\ UNCHANGED <<email, status, users, effects>>

\* store_validated: the JSON body is handed to UserCreateFormRequest().
StoreValidated(r) ==
  /\ pc[r] = "idle"
  /\ \E raw \in RawEmail : email' = [email EXCEPT ![r] = raw]
  /\ Goto(r, "validate")
  /\ UNCHANGED <<status, users, effects>>

\* rules() adds Unique only when the form was given a session, and it looks
\* the address up as the client spelt it.  store_validated gives it none.
UniqueRulePasses(e) == FormSession => \A u \in users : u.email # e

\* The rules pass and after_validation spells the address canonically.
Validate(r) ==
  /\ pc[r] = "validate"
  /\ UniqueRulePasses(email[r])
  /\ email' = [email EXCEPT ![r] = Canon[@]]
  /\ Goto(r, "insert")
  /\ UNCHANGED <<status, users, effects>>

\* A field breaks a rule: 422, from the typed body before store runs, or from
\* the form.  JSON that store_validated cannot read raises in request.json().
RejectBody(r) ==
  /\ pc[r] = "idle"
  /\ \E code \in {422, 500} : Answer(r, code)
  /\ UNCHANGED <<email, users, effects>>

FormFails(r) ==
  /\ pc[r] = "validate"
  /\ Answer(r, 422)
  /\ UNCHANGED <<email, users, effects>>

-----------------------------------------------------------------------------
(* User.create() and the observer's hooks.                                 *)

\* Variant with a bug: the address is stored as the client spelt it.
CreatingAsSpelt(e) == e

\* UserObserver.creating
Creating(e) == Canon[e]

RowOf(r) == [id |-> r, email |-> Creating(email[r])]

\* The unique constraint of users.email.
EmailTaken(e) == \E u \in users : u.email = e

\* Variant with a bug: a duplicate takes the existing row over.
InsertOrReplace(r) ==
  /\ pc[r] = "insert"
  /\ users' = {u \in users : u.email # Creating(email[r])} \cup {RowOf(r)}
  /\ Goto(r, "index")
  /\ UNCHANGED <<email, status, effects>>

\* The INSERT is committed, then the `created` hook starts.
Insert(r) ==
  /\ pc[r] = "insert"
  /\ ~ EmailTaken(Creating(email[r]))
  /\ users' = users \cup {RowOf(r)}
  /\ Goto(r, "index")
  /\ UNCHANGED <<email, status, effects>>

\* Variant with a bug: an error after the row was committed.
InsertFailsLate(r) ==
  /\ pc[r] = "insert"
  /\ ~ EmailTaken(Creating(email[r]))
  /\ users' = users \cup {RowOf(r)}
  /\ Answer(r, 500)
  /\ UNCHANGED <<email, effects>>

\* Variant with a bug: the error is swallowed and the hooks run.
InsertFailsSilently(r) ==
  /\ pc[r] = "insert"
  /\ Goto(r, "index")
  /\ UNCHANGED <<email, status, users, effects>>

\* Variant with a bug: the insert is tried again and again.
InsertFailsRetry(r) ==
  /\ pc[r] = "insert"
  /\ UNCHANGED vars

\* An IntegrityError, or any other database error: nothing is persisted, no
\* `created` hook runs and the exception handler answers 500.
InsertFails(r) ==
  /\ pc[r] = "insert"
  /\ Answer(r, 500)
  /\ UNCHANGED <<email, users, effects>>

\* A service takes the new row, or is not wired or raises: both are
\* swallowed and the next hook step runs all the same.
Deliver(svc, store, newStore, r) ==
  \/ newStore = store \cup {RowOf(r)}
  \/ svc \notin Reliable /\ newStore = store

\* Variant with a bug: the index is written in the background.
IndexUserUnawaited(r) ==
  /\ pc[r] = "index"
  /\ accepted' \in {accepted, accepted \cup {RowOf(r)}}
  /\ Goto(r, "broadcast")
  /\ UNCHANGED <<email, status, users, index, channel, dispatched>>

IndexUser(r) ==
  /\ pc[r] = "index"
  /\ Deliver("search", accepted, accepted', r)
  /\ Goto(r, "broadcast")
  /\ UNCHANGED <<email, status, users, index, channel, dispatched>>

\* The engine applies a document, in any order; one that is not reliable may
\* fail at it, and nobody is told.
Apply ==
  /\ \E d \in accepted :
       /\ accepted' = accepted \ {d}
       /\ \/ index' = index \cup {d}
          \/ "search" \notin Reliable /\ UNCHANGED index
  /\ UNCHANGED <<pc, email, status, users, channel, dispatched>>

\* Variant with a bug: a failed broadcast ends the hook.
BroadcastUserCreatedOrStop(r) ==
  /\ pc[r] = "broadcast"
  /\ Deliver("broadcast", channel, channel', r)
  /\ Goto(r, IF RowOf(r) \in channel' THEN "dispatch" ELSE "respond")
  /\ UNCHANGED <<email, status, users, engine, dispatched>>

BroadcastUserCreated(r) ==
  /\ pc[r] = "broadcast"
  /\ Deliver("broadcast", channel, channel', r)
  /\ Goto(r, "dispatch")
  /\ UNCHANGED <<email, status, users, engine, dispatched>>

\* The dispatcher runs SendWelcomeEmailListener, which queues the job.
DispatchUserCreatedEvent(r) ==
  /\ pc[r] = "dispatch"
  /\ Deliver("events", dispatched, dispatched', r)
  /\ Goto(r, "respond")
  /\ UNCHANGED <<email, status, users, engine, channel>>

Respond(r) ==
  /\ pc[r] = "respond"
  /\ Answer(r, 201)
  /\ UNCHANGED <<email, users, effects>>

\* The worker dies, or the client disconnects and the task is cancelled.
InHandler == {"validate", "insert", "index", "broadcast", "dispatch", "respond"}

Crash(r) ==
  /\ pc[r] \in InHandler
  /\ Goto(r, "crashed")
  /\ UNCHANGED <<email, status, users, effects>>

-----------------------------------------------------------------------------
HandlerStep(r) ==
  \/ Validate(r) \/ FormFails(r)
  \/ Insert(r) \/ InsertFails(r)
  \/ IndexUser(r) \/ BroadcastUserCreated(r) \/ DispatchUserCreatedEvent(r)
  \/ Respond(r)

RequestStep(r) ==
  \/ Store(r) \/ StoreValidated(r) \/ RejectBody(r)
  \/ HandlerStep(r)
  \/ Crash(r)

Next == Apply \/ \E r \in Request : RequestStep(r)

Spec == Init /\ [][Next]_vars

-----------------------------------------------------------------------------
(* Properties.                                                             *)

Steps == InHandler \cup {"idle", "done", "crashed"}

TypeOK ==
  /\ pc \in [Request -> Steps]
  /\ email \in [Request -> RawEmail \cup {NoEmail}]
  /\ \A r \in Request : pc[r] \in InHandler => email[r] \in RawEmail
  /\ status \in [Request -> {NoStatus, 201, 422, 500}]
  /\ users \subseteq Row
  /\ accepted \subseteq Row
  /\ index \subseteq Row
  /\ channel \subseteq Row
  /\ dispatched \subseteq Row

\* However requests spell and race it, a mailbox has at most one account:
\* the hook normalises before the constraint compares.
OneAccountPerMailbox ==
  \A u, v \in users : Canon[u.email] = Canon[v.email] => u = v

\* The answer tells the truth about the table: 201 exactly when the account
\* of this request is there under the address it asked for; an error means
\* nothing was created, so the client may safely try again.
AnswerMatchesStore ==
  \A r \in Request :
    LET mine == {u \in users : u.id = r}
    IN  /\ status[r] = 201 => mine = {[id |-> r, email |-> Canon[email[r]]]}
        /\ status[r] \in {422, 500} => mine = {}

\* Nothing is indexed, announced or mailed about an account that was not
\* persisted, whichever sibling request or service failed in between.
EffectsFollowPersistence ==
  accepted \cup index \cup channel \cup dispatched \subseteq users

\* One service failing does not keep the others from being told: after a
\* 201 every service that works has the account.
EffectsIndependent ==
  \A u \in users : status[u.id] = 201 =>
    /\ "search"    \in Reliable => u \in accepted \cup index
    /\ "broadcast" \in Reliable => u \in channel
    /\ "events"    \in Reliable => u \in dispatched

\* Whoever learns of an account from the channel or from the event need not
\* wait for the request that made it: the search engine has its document, to
\* be found now or as soon as the engine applied what it acknowledged, because
\* `created` awaits the index before it announces.
AnnouncedIsIndexed ==
  "search" \in Reliable => channel \cup dispatched \subseteq accepted \cup index

\* Every request whose worker survives is answered, whatever the services
\* do and whoever else is registering the same address.
Answered ==
  \A r \in Request : pc[r] \in InHandler ~> pc[r] \in {"done", "crashed"}

\* What the description of POST /api/users/validated promises: an address
\* that is taken when the form validates it does not pass the form.
ValidatedDuplicateRejected ==
  [][\A r \in Request :
       pc[r] = "validate" /\ pc'[r] = "insert" => ~ EmailTaken(Canon[email[r]])]_vars

-----------------------------------------------------------------------------
(* What registration promises, seen from outside: see Claims.              *)

ASSUME NobodyAssumption == "nobody" \notin Request

Owner == [m \in Mailbox |->
           IF \E u \in users : u.email = m
           THEN (CHOOSE u \in users : u.email = m).id
           ELSE "nobody"]

Told(code) ==
  IF code = 201 THEN "won" ELSE IF code = NoStatus THEN "open" ELSE "lost"

Verdict == [r \in Request |-> Told(status[r])]

Claim == INSTANCE Claims
           WITH Party <- Request, Nobody <- "nobody",
                owner <- Owner, verdict <- Verdict

\* Registration hands out mailboxes the way Claims does: first come first
\* served, never taken back, and each request told the truth once.
ImplementsClaims == Claim!Spec

=============================================================================
