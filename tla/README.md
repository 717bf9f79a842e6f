# Verification of arvel-starter

TLA+ specifications of the starter application in `src/`, the TLC runs that
check them on small instances, and the TLAPS proofs of their main properties
for any instance. Paths below are relative to `src/`.

## The system

One ASGI application, started as several worker processes
(`Dockerfile:40`, `--workers 4`), each running coroutines that interleave at
every `await`. The processes share the database and, depending on settings, a
Redis for locks and queues. The Arvel framework (ORM, tokens, hasher, guard,
queue, locks) is not part of the repository; it is modelled as the code here
uses it.

| Component | Keeps | Operations | Talks to |
|---|---|---|---|
| Registration (`user_controller.py` `store`, `store_validated`; `user_create_request.py`; `user_observer.py`) | `users` rows | `POST /api/users`, `POST /api/users/validated`, hooks `creating`, `created` | database; then search engine, broadcaster, event dispatcher, one after the other |
| Welcome job (`send_welcome_email_listener.py`, `send_welcome_email_job.py`) | jobs of the queue | `handle` (listener), `handle`, `on_failure` (job) | queue, mail server |
| Notification trigger (`user_controller.py` `notify`) | a lock per user | `POST /api/users/{id}/notify` | lock store, database, mail channel |
| Lock demo (`infra_controller.py`) | locks under any key | `POST`, `DELETE`, `GET /api/infra/lock/{key}` | the same lock store |
| Authentication (`auth_controller.py`, `auth_provider.py`) | password and verification columns; tokens are signed and stored nowhere | login, refresh, forgot, reset, change, send, verify, logout; the guard on protected paths | database, token services, hasher |
| Search index (`user_controller.py` `search`, `user_observer.py` `created`, `updated`) | the index | search, upsert | search engine, database |
| Listing (`user_controller.py` `index`, `show`, `me`, `hierarchy`) | nothing | reads | database |
| Profile image (`user_controller.py`) | media items | upload | media, storage |
| Cache and storage demo (`infra_controller.py`) | keys, files | put, get, delete | cache, storage |
| Pruning (`prune_expired_tokens_job.py`, scheduler of `event_provider.py`) | nothing | hourly delete | database, in-memory scheduler lock |
| Boot (`*_provider.py`, `bootstrap/`) | observers, middleware, schema | `boot` of each provider | all |
| Seeder (`database_seeder.py`) | five rows | look up, then insert | database |
| Health (`health_controller.py`) | nothing | reports | all |

What is hard: requests race between a check and an INSERT or UPDATE; three
services are told about a row that is committed already, and any of them may
fail; a worker may die between any two of these steps; a lock expires while
its holder is still at work, or is kept by a process nobody else sees; a mail
is sent and then reported as failed; tokens tie together calls that share no
state; an index outlives the table it was made from; worker processes that boot
together create the same tables. `PROJECT.json` lists each hazard at its line,
with the properties that watch it.

What makes each component correct: a mailbox has one account and a client is
told the truth about it; effects are only of committed rows and do not depend
on each other; a user is notified by one request at a time and a lock never
stays for ever; sessions, passwords and verifications are accounted for by
earlier calls, and acknowledged updates are not lost; a search shows users that
exist and finds whoever was indexed; a file described is one that was there; a
worker serves only when its tables and services are there.

## Modules

| Module | Models | EXTENDS / INSTANCE |
|---|---|---|
| `Registration` | sign-up requests and the observer hooks | |
| `Claims` | abstract: a first-come-first-served register of names | instantiated by `Registration` |
| `WelcomeJob` | the queue's workers on SendWelcomeEmailJob | |
| `Onboarding` | sign-up, event, queue and mail together | extends `Registration`, instantiates `WelcomeJob` |
| `Notify` | notify, its lock, the demo lock endpoints, processes and leases | |
| `Mutex` | abstract: a critical section per key | instantiated by `Notify` |
| `Auth` | the eight authentication endpoints and the guard | |
| `Credentials` | abstract: accounts whose passwords, sessions and verifications move in single steps | instantiated by `Auth` |
| `SearchIndex` | search beside the requests that write users and the engine that lags | |
| `Listing` | `GET /api/users`, walked page by page while users sign up | |
| `Infra` | the storage and cache endpoints and the profile image | |
| `Boot` | worker processes that boot, create tables, and race the migrations | |
| `Seeder` | runs of the seeder, racing with each other and with sign-ups | |
| `Seeding` | abstract: a tree whose missing users are added in one step | instantiated by `Seeder` |
| `Registration_proofs` | theorems about `Registration` and `Onboarding` | extends `Onboarding` |
| `Notify_proofs`, `Auth_proofs`, `SearchIndex_proofs`, `Listing_proofs`, `Infra_proofs`, `Boot_proofs`, `Seeder_proofs` | theorems | extend the module they are about |
| `MCRegistration`, `MCOnboarding`, `MCNotify`, `MCAuth`, `MCSearchIndex`, `MCInfra`, `MCBoot` | small instances | extend the module they are about |

Definitions marked *Variant with a bug* are not used by a specification. They
are plausible mistakes, each replacing the definition after it, that the
property named beside it in `PROJECT.json` is known to find.

### Registration

A request is a process with a `pc`; each `await` of the handler or of a hook is
one action. `Store` and `StoreValidated` are the two endpoints; `Validate` and
`FormFails` the two ways out of `UserCreateFormRequest.validate_request`;
`Insert` runs the `creating` hook and the INSERT, `InsertFails` any database
error; `IndexUser`, `BroadcastUserCreated` and `DispatchUserCreatedEvent` are
the three calls of the `created` hook. `Deliver` says what they have in common:
a service that is not wired or that raises is swallowed and the hook goes on.
`Reliable` names the services that work; the others may fail at any call.
The search engine acknowledges a document (`accepted`) and `Apply` makes it
searchable later, in any order, or loses it if the engine is not reliable; an
engine that applies at once is the case where `Apply` follows directly. So a user
who is announced can have been accepted and not yet be found, and
`AnnouncedIsIndexed` claims no more than that the engine has the document.
`Crash` ends a request at any await. `RejectBody` is a body that is not JSON
(500) or breaks a rule (422). Addresses are strings up to
`strip().lower()`, which is the constant `Canon`. `FormSession` is whether the
form was given a session: `store_validated` gives it none, the form's own tests
do. An account's password, name and parent are left out.

`Claims` says what this is for: each mailbox is taken once and never changes
hands, and each request learns `won` or `lost` once, `won` only if it owns the
mailbox. The mapping reads owners off `users` and verdicts off the status codes.
A lost verdict may come without a reason, as a database error does.

### Onboarding

A job is identified with the row it greets, so its payload is modelled.
`HandleRaises` leaves open whether the mail server took the message.
`WorkerDies` ends a job with the worker that runs it: `dispatch` handed it over
and keeps nothing, so the job is "lost" and nobody is told. The `sync` queue
driver runs the job inside `dispatch()`: those behaviours are
among the ones here. The `null` driver is an unreliable "events" service.

### Notify

`left` is what remains of each lease, in ticks; `age` how long a request has
been in the locked section. `SharedLocks` chooses between one store (redis) and
one per process (memory). `release(key)` carries no owner, so it frees whatever
lease is there. `CrashWorker` ends every request of a process that is inside the
section, without its `finally`. A skipped request is a step of its own. The
lookup may raise, and so may the release, which then leaves the lease behind.

Time passes whatever the handlers do: a send may outlast the lease, and a client
of the demo endpoints may name any key, that of a user's notifications included.
Either way the lock is gone while its holder is at work, somebody else may
enter, and the first one's `finally` then frees the second one's lock. The
history variable `disturbed` holds, for each store, the users to whom this has
happened, until nobody is inside any more. Three properties say what is left:
behind one store nobody is inside together with a request whose section is
undisturbed (`ExclusivePerStore`); whoever is in an undisturbed section holds a
lease of his own (`LeaseCoversHolder`); and a section is disturbed only because
some request has been in it for as long as the lease, or because a demo client
freed the key (`DisturbedForCause`). None has a hypothesis about how long a send
takes or which keys are named.

The refinement maps a request to `Mutex` under a key that is a lock store with a
user. `Mutex` is a lock that may be disturbed and protects again once nobody is
inside. With redis all requests are behind one store. With the memory driver each
process keeps its own promise and there is none between them: `NotifyExclusive`,
the exclusion the endpoint's summary speaks of, fails there without any
disturbance.

### Auth

A call is one request made once; its arguments, the instance it loaded and its
answer stay in the state, so "accounted for by earlier calls" is a state
predicate. The steps are: arrival (with the guard, for protected paths),
`Read` (the SELECT), the synchronous code after it (`LoginCheck`, ...,
`VerifyCheck`), `Save`, which commits the UPDATE, and `UpdatedHook`, the
`updated` hook's await after it, which ends in the answer. A call may stay in
its hook for ever. An earlier call is therefore one that took effect
(`Effective`, `Took`): its update is committed, answered or not, or it wrote
nothing and was answered with success. `Saved` writes only the assigned column, as the ORM's
unit of work does. A row is named by its address; reset and verification tokens
name the user by id in the code, which is the same row. `Stranger` holds
addresses without a row, among them other spellings: the lookups are exact,
although sign-up normalises. A password column remembers whether it was hashed:
`POST /api/users` stores it as it was sent. `save()` also runs the `updating`
hook, which rewrites an address that is normalised already; what `updated` tells
the search engine is modelled in `SearchIndex`.

In `VerifyCheck` and the others a handler works on the instance it loaded, which
later updates do not refresh; `loaded` keeps the row as the SELECT returned it,
so that `StampedAgainOnlyByRace` can tell a race from a repeated stamp.

`Credentials` says what all of this adds up to for an account, with no requests,
no clock and no tokens: what opens it is a password that it has, or has had,
hashed; what sets one is a session together with such a password, or a reset that
was asked for; what verifies it was offered to somebody with a session. "Has had"
is the weakness of handlers that check a row they read earlier: a call that began
before a password was replaced may be accepted after it. The mapping needs no
history of its own: what an account had (`Had`) and with what it was opened
(`Used`) is read off the calls that took effect, and who holds a token of some
kind (`Holders`) off what was issued. A call's arrival, look-up and check are
stutters unless they issue something or answer with success; an update is the
abstract step when it is committed, and its answer is a stutter.

### Listing

`index` counts and then reads a page: `Count` and `Query`. One client asks for
page after page while answers say `has_more`; sign-ups insert, commit and roll
back in between. `inOrder` is a property of the database, chosen at the start:
SQLite, the default driver, has one writer at a time and commits ids in their
order, the other drivers need not. Where they do not, a row that commits late
moves the pages behind it, and a walk may miss or repeat users. `WalkSeesAll` and
`PagesAscend` are about the first kind; `WalkMissesFew` bounds the damage for
either: who is missed was pushed behind the last page by a row that was committed
after the walk's last count. Names are left out, and so is a client that asks for
arbitrary pages. `last_page` and `has_more` are computed by the framework and
taken to be what their names say.

### SearchIndex

A user's name and address are one text, up to what the creating hook normalises
(`Canon`). `Create` is the hook and the INSERT, `Save` the save of a password or
a verification, and `IndexUser` the `created` or `updated` hook after it: one
upsert of the row as it is, or `IndexFails`, or `Crash`. The engine is a service
of its own: `waits` says whether an upsert returns when the document can be
found, otherwise it becomes a task that `Apply` takes in order; `keeps` whether
it refuses documents. `Search` asks the engine for at most `Limit` ids, any of
those that match; each `LookUp` is one `find_or_none`, an await, and a hit
without a row is dropped while `total` still counts it. `Seed` writes a row
without a hook, as the seeder does. `Fresh` is `make fresh`: the table starts
again from id 1 and the engine is not told, so its documents may name users that
are somebody else by now. `sure` remembers, for each search, the answered writers
whose users match. What counts as a match is the engine's; here it is equality.
`LastWordIs` looks at what is under way and at what was applied together: what the
engine was told last about an id is what searches will find.

### Infra

Every await on the storage or the cache is a step. A file or a value is named by
the request that brought it. `Store` is the put or the `media.add`, `Url` the
second call after it, and with a storage that fails (`up` is FALSE) either may
fail, the first with or without the file left behind. `InfoExists` and `InfoSize`
are the calls of `storage_info`; `Remember`, `Compute` and `Has` those of
`cache_remember`: look, store what was computed, ask where it came from.
With failing storage `InfoExists` may fail as well.
`accounts` gives the row id of each subject that has one. `SignUp` adds a row
under an id that is free, and `Fresh` is `make fresh`: the table is empty, ids
are handed out anew, and the files stay. `UploadProfileImage` looks for the row
and `StoreImage` stores the file after another await, wherever the look-up said:
`ImagePath` is by the row's id if there was a row, by the token's subject if
there was none. A sign-up or an emptying can come between the two. `found` is
which filling of the table an upload looked at. `OwnImage` says that the file
behind an image URL is the subject's own, or a client of the storage endpoints
touched its path, or another subject with the same id in another filling of the
table uploaded there: the last is what the code does after `make fresh`, and
while the table is not emptied it does not happen. `seen` and `known` remember
what a request could have seen.

### Boot

A worker boots its providers in the order of their `Priority`; `Needs`, `Gives`
and `Adds` are what each `boot` resolves, makes resolvable, and adds to the
middleware. What a process has yet to create is a set of places in its `Order`,
the tables of the models or the migrations. `BootData` builds the observer with
what can be resolved by then and `LookForTables` is the first half of
`create_all`, which looks for all tables and then creates, one `Execute` each.
The migrations (`Migrate`, `Execute`, `Record`) create without looking.
`transactional` is whether the database can roll back a created table: then what
a process created is its own until `Commit`, another that wants it waits
(`Blocked`), two may wait for each other (`Deadlock`), and whoever comes second
fails (`Conflict`). `perMigration` is whether each upgrade commits for itself. A
process that fails or is killed goes `down`, and the server's supervisor starts
workers again. `OneWorkerCreates` is why `Deadlock` is about two processes:
workers never wait for each other in a circle, which the migrations are needed for.

### Seeder

`Call` lists the five calls of `_ensure_user`; `Find`, `Miss` and `Insert` are
its branches. The whole run is one transaction, seen by others at `Commit` only.
An INSERT waits while another transaction holds the address and fails when that
commits. `Crash` stands for any other error and for a killed process; `Begin` is
not fair, a run may never be started. An address that signed up before is
adopted as it is, so the tree is claimed for rows the seeder made.

`Seeding` is what a run should look like from outside: in one step it adds exactly
the users of the tree that are missing, each under its parent, or nothing. The
mapping is the committed rows and the runs that are `seeded`. `WaitsForward`
orders the runs that wait: each waits for one that is further on.

## Runs

| Run | Instance | Shows |
|---|---|---|
| `Registration` | 3 requests, 2 spellings of one mailbox and a second one, broadcaster unreliable | six invariants |
| `Onboarding` | 2 requests, 1 retry, form with a session, broadcaster unreliable | bounded mails, each job ends, every surviving request is answered, refinement of `Claims` |
| `NotifyRedis` | 3 requests on 2 processes, 2 users, demo clients that use the key of one, TTL 2, demo TTL 3 | refinement of `Mutex`, a lock lost only for cause, and locks freed |
| `Auth` | 4 calls, one account with a hashed and one with a plain password, one stranger, 2 passwords, clock up to 2 | refinement of `Credentials`, no lost updates, verification races |
| `SearchIndex` | 2 writers, 1 search, 3 ids, 2 texts in 3 spellings, limit 2, one emptying of the table, any engine | hits are users and match, writers are found, the last word about a user is his row, the index catches up |
| `Listing` | up to 3 rows, 3 sign-ups, pages of 1 or 2, either kind of database | walks miss and repeat nobody, or few |
| `Infra` | 3 requests, 2 subjects, 2 ids, one emptying of the table, a note and one image path for the storage endpoints, storage that works or not | file descriptions, own images, puts kept |
| `Boot` | 2 workers, migrations run twice, 3 tables in another order than theirs, 1 killed process, either kind of database | serving workers are ready, one worker creates tables, all workers serve in the end |
| `Seeder` | 3 runs, sign-ups under `root` and under an unrelated address | refinement of `Seeding`, no circular waiting, every run ends |
| `ValidatedDuplicate`, `NotifyTwoWorkers`, `AuthLogout` | small | what the repository says and the code does not do, see below |

Why these bounds are enough to be interesting:

- Registration: two requests suffice for any race on one mailbox and the third
  sees its outcome.
- Notify: three requests give a holder, a skipped one and one that enters after
  an expiry or a crash. TTL 2 lets a lease outlive its crashed holder and a send
  outlast its lease; the first one out then frees the lock of the second while a
  third may enter. A demo lease is longer than one of `notify`.
- Auth: four calls are the longest chain of the endpoints (login, send and two
  racing verify calls); clock value 2 lets access and reset tokens expire
  (lifetime 1) but not refresh and verification tokens (lifetime 2).
- SearchIndex: two writers race on one user; three ids with limit 2 let a search
  be cut off; with two texts an id can change hands over an emptied table, and
  two documents of one id can be under way at once.
- Listing: three rows and three sign-ups make walks of up to six pages with an
  insertion between any two; `MaxPages` (8) is never reached.
- Infra: a request that asks twice needs a second that deletes and a third that
  puts again; an upload needs a rival and somebody else who writes the path. Two
  ids and one emptying let an id change hands between two uploads.
- Boot: two workers and the migrator make every kind of pair; the order of
  `create_all` differs from that of the migrations, so they can deadlock;
  migrations run twice meet their own leftovers; one death can hit any of the
  steps, and conflicts and deadlocks bring further restarts.
- Seeder: three runs are two that race and one that comes after.

Other bounds are in the `.cfg` files. Symmetry is used in runs that state no
liveness.

Deadlock is not checked: a run ends when every request was made and answered.

### Where the repository says something else

- `ValidatedDuplicate`: `user_controller.py:113` promises a unique-address rule;
  line 118 builds the form without the session the rule needs. The duplicate is
  still refused, by the constraint, with 500.
- `NotifyTwoWorkers`: the default lock driver is in memory (`config/lock.py:18`)
  and the production image has four processes, so the lock of
  `user_controller.py:194` does not exclude requests served by different ones.
  The lock also says nothing over time: it is released after the send, and a
  second trigger sends again.
- `AuthLogout`: `auth_controller.py:235` says "invalidate session"; logout
  changes no state and the token keeps working until it expires.

## Fairness

- `OnboardingSpec`: weak fairness of each handler's
  next step: the event loop resumes every coroutine whose await is over, and
  database, services and mailer end with a result, an error or their drivers'
  time-outs. Arrival and crashes are not fair. Some queue worker lives and keeps
  taking jobs; that one dies is not fair.
- `Notify!FairSpec`: the same for handlers, and time passes. `LockFreed` needs
  it: a crashed holder's lock goes by expiry alone.
- `SearchIndex!FairSpec`: the engine works its tasks off. Requests are not fair:
  `IndexCatchesUp` is about writers that were answered.
- `Boot!Spec`: processes go on and are started again. The server keeps its four
  workers (`--workers 4`) and replaces one that exits; databases resolve
  deadlocks. The migrations are run by somebody, or never. `AllServe` holds
  because each conflict shows a table that is there for good, and deaths are
  bounded.
- `Seeder!FairSpec`: a run that waits for no other transaction goes on. `RunsEnd`
  holds because all runs take the addresses in one order: who waits, waits for a
  run that is further on (`WaitsForward`), and the furthest waits for nobody.
- `Auth`, `Listing` and `Infra` state no liveness.

## Proofs

All for any sets of requests, users, spellings, paths, workers and tables, and any
lifetimes, limits and page sizes. Each module proves the type invariant and every
safety property its runs check, from the assumptions at its head.

- `Registration_proofs`. The invariant ties each `pc` to the rows: a request past
  `insert` has its row and one before it has none; rows carry the canonical
  spelling, which makes the constraint decide for all spellings at once; what was
  delivered is given by how far each request is. From it: one account per
  mailbox, truthful answers, effects only of accounts, independent services,
  accepted by the search engine before announced, and the refinement of `Claims`. Assumes that
  `Canon` is idempotent. `Onboarding` inherits all of it, because the workers only
  read what was dispatched; with a count of tries (`MailsCounted`) it gives the
  bound on mails: jobs with mails are rows, and a mailbox has one row.
- `Notify_proofs`. Nothing is assumed about how long a send takes, which keys
  demo clients name, or the driver. The invariant is that whoever is inside an
  undisturbed section has a lease with `left + age >= TTL` on its key, in its own
  store, and shares the section with nobody; and that only sections with somebody
  inside are disturbed. When a lease runs out, the sum leaves its holder with
  `age = TTL`: he has overstayed, which is `DisturbedForCause`. A `finally` that
  frees a lock in an undisturbed section frees its own.
- `Auth_proofs`. `IInv` adds to the properties: every token of each kind is
  accounted for, a change or send in flight comes from somebody who logged in, a
  handler about to save has its token's history behind it, and what a handler has
  loaded was true of the table. The last part is needed because a handler works
  on a row it read earlier: a hashed password, once read, stays accounted for
  although the row may have changed since. `Monotone` carries all of it over the
  steps of others: what took effect has taken effect, from its commit on, whether
  or not it is answered.
  `StampedAgainOnlyByRace` follows from the part that says what was loaded.
  The refinement of `Credentials` adds `Backed`: the password in a row that a
  handler has loaded is one the account has had (`Had`), and whoever is about to
  save was given a token for it, or knew such a password. What accounts had and
  who holds tokens only grows (`HadMoves`, `HoldersStay`), so the steps of other
  calls leave it true, and each commit or answer finds the guard of its abstract step.
- `SearchIndex_proofs`. Rows stay as they are unless the table is emptied
  (`OnlyFreshDropsRows`), and emptying it ends the searches: so a hit that was
  looked up stays true. While it never was, documents and tasks repeat the table
  (`IndexFaithful`), no hit is dropped, and hits and ids still to look up add up
  to what will be shown (`MatchAccount`). With an engine that waits and keeps,
  no task is ever under way and an answered writer's document is his row
  (`AnsweredIndexed`); a search that the limit did not cut has him (`SureAccount`).
  With one that only keeps, his row is the last word about him (`LastWordRight`):
  applying a task moves the word from the tasks to the index and an upsert
  replaces it, for its own id only. Assumes that nobody is both a writer and a
  searcher.
- `Listing_proofs`. A row's place in a listing is its rank, the number of smaller
  ids. With one writer at a time a new id is the largest (`OneWriter`), so ranks
  never change (`RanksStay`); page p holds ranks `(p-1)*perPage` to `p*perPage-1`
  (`PagesByRank`), and a walk has seen every rank below the pages it read
  (`WalkByRank`). A page is no longer than `perPage` because ranks number the rows.
  In any order of commits ranks do not fall (`RankNeverFalls`), so whoever stands
  before the pages that were read has been seen (`SeenBelow`); those missed stand
  behind the last count, and no two rows have one rank: there are no more of them
  than rows came after that count (`WalkMissesOnlyPushed`).
- `Infra_proofs`. `InfoAccount`: between its calls a description has seen the file
  that is there now. `ImageOfSubject`: an image's path names its subject, or an id that is the
  subject's for as long as the table is not emptied again. `OneOwner`: of two
  uploads that looked at one filling of the table, those with one path have one
  subject, so whoever overwrites an image uploads for the same subject, looked at
  another filling, or is a client of the storage endpoints (`ImageAccount`).
  `PutAccount`: a value about to be overwritten is none that `remember()` knew.
- `Boot_proofs`. For the wiring, that providers which are not left have given what
  they give (`WiringInv`), and that `DataProvider` is the last one left when its
  turn comes; what is added to the middleware is further out, so guard and
  container keep their order. For the tables, that nothing is dropped and each
  table is there, created by this worker, or still to do (`TablesInv`). A worker
  that has created tables has the first one that was missing (`HasFirstMissing`),
  which two cannot have; with the migrations as the only other process, whoever
  waits in a circle waits in a circle of two (`DeadlocksArePairs`).
- `Seeder_proofs`. `Progress` ties what a run holds to how far it is; `GotVisible`
  says that each id it got is a user it can see, which others' commits keep; the
  tree then holds of pending rows first and of committed ones after (`TreeHolds`).
  That a later run only finds (`IdempotentRerun`) holds from the moment the users
  are there (`OnlyFinds`): nobody takes one away. What a run has pending is what
  its calls so far were about (`PendingKnown`), so a run that is waited for has
  made more calls (`RunsWaitForward`). No two rows share an address, pending ones
  included (`RowsDistinct`): at its commit a run's rows are exactly what is
  missing, which is the step of `Seeding`.

Only model-checked: `Answered`, `Welcomed`, `LockFreed`, `RunsEnd`,
`IndexCatchesUp` and `AllServe`, liveness under fairness, which is beyond the
prover. Only proved, as they follow from what the runs check: that a lease covers
its holder (`LeaseCoversHolder`) and that requests behind one lock store exclude
each other while undisturbed (`ExclusivePerStore`: what the refinement of `Mutex`
says); the four properties
of accounts that the refinement of `Credentials` contains
(`SessionsStartWithLogin`, `PasswordAccountedFor`, `PlainPasswordNeedsReset`,
`VerifiedNeedsSession`) and the two of the seeder's rows that are in the one of
`Seeding` (`AllOrNothing`, `SeededTree`); and that processes which wait in a
circle while the tables are created are two. No run checks `IdempotentRerun`, that
a seeding which begins when all users are there never comes to an INSERT; it is
proved. The memory lock driver has no
passing run: `NotifyTwoWorkers` shows what it lacks, the theorems what it gives.

## Assumptions about what is not in the repository

- The INSERT is committed before the `created` hooks run, and a database error
  leaves nothing behind.
- save() writes changed columns only.
- A hasher refuses a column that is not a hash. If it raises instead, the answer
  is 500 where the model says 401 or 400, and no state changes either way.
- Tokens are accepted exactly when issued here, of the right kind and subject and
  unexpired; signatures are not modelled.
- A queue keeps what it accepted until a worker takes it, and does not give a job
  out twice.
- The ids named in notify requests and their rows do not change: no endpoint
  deletes a user.
- The search engine is one service that all workers share, and applies documents
  in the order it accepted them. `Registration`, where every document has an id of
  its own, leaves the order open. The default driver keeps its documents in the
  process or the database; where each worker has its own, what `WriterFindsUser`
  claims holds for the worker that indexed.
- `remember()` looks and then stores; `url()` does not look at the file; `size()`
  raises when the file is gone; a media item's file is named by the user's id,
  and emptying the tables leaves the files where they are.
- The framework's providers have the priorities that the docstrings of ours
  give, and container lookups of what is not bound fail as the code here
  expects. `create_all` looks for all tables first. MySQL has no transactional
  DDL.

## Not modelled

- Pruning: one DELETE of rows that have expired, on a table that nothing in the
  repository writes. Runs that overlap do what one does.
- Health and the configuration values: reports and settings without state.
  Settings that matter are constants or initial choices of the modules.
- The repository class: a read-only lookup no endpoint uses. `show`, `me` and
  `hierarchy` are single reads.
- Migrations' downgrades; translations and exception handlers that the providers
  register; generated names and passwords of the factory; response layouts.
- The framework, beyond what the code here relies on.

## Plan

Done: the modules, runs and theorems above. What could follow:

- abstract specifications for the parts that have none: a search engine's index as
  a register for each user, which `SearchIndex` would refine with an engine that
  waits and keeps; a file with atomic descriptions for `Infra`;
- the safety half of the liveness properties, where it is more than a type: what a
  worker that fails to boot has gained, that each conflict brings one table more.
