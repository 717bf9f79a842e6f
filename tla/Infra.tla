------------------------------- MODULE Infra -------------------------------
(***************************************************************************)
(* Requests that share files and a cache: the storage and cache endpoints  *)
(* of InfraController, and POST /api/users/me/profile-image.  Each await   *)
(* on the database, the storage or the cache is a step; other requests,    *)
(* sign-ups and "make fresh" run in between.                               *)
(*                                                                         *)
(* A file or cached value is named by the request that brought it.  The    *)
(* storage endpoints take any path, those of profile images included.      *)
(***************************************************************************)
EXTENDS Naturals, FiniteSets

CONSTANTS
  Request,  \* requests; each is one call
  Subject,  \* whom access tokens name
  Id,       \* the ids of rows
  DemoPath, \* the paths clients use with the storage endpoints
  MaxFresh  \* bound: how often the table is emptied

None == "nothing"
Computed == "computed-value"
NoPath == <<"", None>>

\* What requests bring is told from what they find.
ASSUME InfraAssumption ==
  /\ {None, Computed} \cap Request = {} /\ None \notin Id
  /\ DemoPath \subseteq {"note", "media", "profile"} \X (Subject \cup Id \cup {None})
  /\ MaxFresh \in Nat

VARIABLES
  up,       \* whether storage calls never fail
  accounts, \* the id of each subject's row, if it has one
  emptied,  \* how often the table was emptied
  disk,     \* the file at each path
  entry,    \* the value of the cache key
  pc,       \* where each request is
  kind,     \* what each request is for
  path,     \* the path each request works on
  who,      \* the subject of an upload
  found,    \* how often the table was emptied before an upload looked
  code,     \* the status answered
  answer,   \* the file an answer describes, or the source of a cached value
  seen,     \* the files there were at the path since an info request began
  known     \* the values put before a remember() looked

vars ==
  <<up, accounts, emptied, disk, entry, pc, kind, path, who, found, code, answer, seen, known>>
table == <<accounts, emptied>>
request == <<kind, path, who, found>>
cacheVars == <<entry, known>>
diskVars == <<disk, seen>>

\* The file names hold the user's id, or the subject when it has no row.
ImagePath(s) == IF accounts[s] # None THEN <<"media", accounts[s]>> ELSE <<"profile", s>>

Path == DemoPath \cup {"media"} \X Id \cup {"profile"} \X Subject

OneRowEach ==
  \A s, t \in Subject : accounts[s] = accounts[t] /\ accounts[s] # None => s = t

Init ==
  /\ up \in BOOLEAN
  /\ accounts \in [Subject -> Id \cup {None}] /\ OneRowEach
  /\ emptied = 0
  /\ disk = [p \in Path |-> None]
  /\ entry = None
  /\ pc = [r \in Request |-> "new"]
  /\ kind = [r \in Request |-> None]
  /\ path = [r \in Request |-> NoPath]
  /\ who = [r \in Request |-> None]
  /\ found = [r \in Request |-> 0]
  /\ code = [r \in Request |-> 0]
  /\ answer = [r \in Request |-> None]
  /\ seen = [r \in Request |-> {}]
  /\ known = [r \in Request |-> {}]

-----------------------------------------------------------------------------
(* Steps of requests. *)

Begin(r, k, p, s) ==
  /\ pc[r] = "new"
  /\ kind' = [kind EXCEPT ![r] = k]
  /\ path' = [path EXCEPT ![r] = p]
  /\ who' = [who EXCEPT ![r] = s]

Goto(r, step) == pc' = [pc EXCEPT ![r] = step] /\ UNCHANGED <<code, answer>>

Answer(r, status, what) ==
  /\ pc' = [pc EXCEPT ![r] = "done"]
  /\ code' = [code EXCEPT ![r] = status]
  /\ answer' = [answer EXCEPT ![r] = what]

\* p holds f from now on; those asking about p may have seen that.
Write(p, f) ==
  /\ disk' = [disk EXCEPT ![p] = f]
  /\ seen' = [q \in Request |-> IF pc[q] = "size" /\ path[q] = p THEN seen[q] \cup {f}
                                ELSE seen[q]]

\* A call that fails did its work or not.
MayWrite(p, f) == Write(p, f) \/ UNCHANGED diskVars

\* Somebody signs up, again perhaps, and gets an id that no row has.
SignUp(s) ==
  /\ accounts[s] = None
  /\ \E i \in Id : (\A t \in Subject : accounts[t] # i) /\ accounts' = [accounts EXCEPT ![s] = i]
  /\ UNCHANGED <<up, emptied, diskVars, cacheVars, pc, request, code, answer>>

\* "make fresh": the table is made anew, and its ids with it; the files stay.
Fresh ==
  /\ emptied < MaxFresh
  /\ emptied' = emptied + 1
  /\ accounts' = [s \in Subject |-> None]
  /\ UNCHANGED <<up, diskVars, cacheVars, pc, request, code, answer>>

\* Bad base64, or a content type that is no image.
Refuse(r) ==
  /\ \/ Begin(r, "put", NoPath, None)
     \/ \E s \in Subject : Begin(r, "image", NoPath, s)
  /\ Answer(r, 400, None)
  /\ UNCHANGED <<up, table, found, diskVars, cacheVars>>

\* storage.put() or media.add() at p: the URL is next, unless it fails.
Store(r, p) ==
  \/ Write(p, r) /\ Goto(r, "url")
  \/ ~ up /\ MayWrite(p, r) /\ Answer(r, 500, None)

StoragePut(r) ==
  /\ \E p \in DemoPath : Begin(r, "put", p, None) /\ Store(r, p)
  /\ UNCHANGED <<up, table, found, cacheVars>>

\* Variant with a bug: the query takes the first row, whosever it is.
UploadAnyRow(r) ==
  /\ \E s, t \in Subject : Begin(r, "image", ImagePath(t), s)
  /\ found' = [found EXCEPT ![r] = emptied]
  /\ Goto(r, "store")
  /\ UNCHANGED <<up, table, diskVars, cacheVars>>

\* The row is looked for, which tells the path; or the query fails.
UploadProfileImage(r) ==
  /\ found' = [found EXCEPT ![r] = emptied]
  /\ \E s \in Subject :
       \/ Begin(r, "image", ImagePath(s), s) /\ Goto(r, "store")
       \/ Begin(r, "image", NoPath, s) /\ Answer(r, 500, None)
  /\ UNCHANGED <<up, table, diskVars, cacheVars>>

StoreImage(r) ==
  /\ pc[r] = "store"
  /\ Store(r, path[r])
  /\ UNCHANGED <<up, table, cacheVars, request>>

\* storage.url(): nothing is looked up, and yet the service may fail.
Url(r) ==
  /\ pc[r] = "url"
  /\ \/ Answer(r, IF kind[r] = "put" THEN 201 ELSE 200, r)
     \/ ~ up /\ Answer(r, 500, None)
  /\ UNCHANGED <<up, table, diskVars, cacheVars, request>>

Look(r, p) == seen' = [seen EXCEPT ![r] = {disk[p]}] /\ UNCHANGED disk

\* Variant with a bug: the size is asked for without asking for the file.
InfoExistsAssumed(r) ==
  /\ \E p \in DemoPath : Begin(r, "info", p, None) /\ Look(r, p)
  /\ Goto(r, "size")
  /\ UNCHANGED <<up, table, found, cacheVars>>

InfoExists(r) ==
  /\ \E p \in DemoPath :
       /\ Begin(r, "info", p, None)
       /\ Look(r, p)
       /\ \/ IF disk[p] = None THEN Answer(r, 200, None) ELSE Goto(r, "size")
          \/ ~ up /\ Answer(r, 500, None)
  /\ UNCHANGED <<up, table, found, cacheVars>>

\* storage.size() raises when the file is gone by now.
InfoSize(r) ==
  /\ pc[r] = "size"
  /\ \/ disk[path[r]] # None /\ Answer(r, 200, disk[path[r]])
     \/ (disk[path[r]] = None \/ ~ up) /\ Answer(r, 500, None)
  /\ UNCHANGED <<up, table, diskVars, cacheVars, request>>

StorageDelete(r) ==
  /\ \E p \in DemoPath :
       /\ Begin(r, "delete", p, None)
       /\ \/ Write(p, None) /\ Answer(r, 200, disk[p])
          \/ ~ up /\ MayWrite(p, None) /\ Answer(r, 500, None)
  /\ UNCHANGED <<up, table, found, cacheVars>>

-----------------------------------------------------------------------------
(* The cache, at one key. *)

CacheGet(r) ==
  /\ Begin(r, "get", NoPath, None)
  /\ Answer(r, 200, entry)
  /\ UNCHANGED <<up, table, found, diskVars, cacheVars>>

CachePut(r) ==
  /\ Begin(r, "store", NoPath, None)
  /\ entry' = r
  /\ Answer(r, 201, "stored")
  /\ UNCHANGED <<up, table, found, diskVars, known>>

PutsDone == {q \in Request : kind[q] = "store"}

\* Variant with a bug: the value is computed whatever the cache holds.
RememberAlways(r) ==
  /\ Begin(r, "remember", NoPath, None)
  /\ known' = [known EXCEPT ![r] = PutsDone]
  /\ Goto(r, "compute")
  /\ UNCHANGED <<up, table, found, diskVars, entry>>

\* remember() looks; the callback is next if the key has no value.
Remember(r) ==
  /\ Begin(r, "remember", NoPath, None)
  /\ known' = [known EXCEPT ![r] = PutsDone]
  /\ Goto(r, IF entry = None THEN "compute" ELSE "has")
  /\ UNCHANGED <<up, table, found, diskVars, entry>>

\* The computed value is stored, whatever was put meanwhile.
Compute(r) ==
  /\ pc[r] = "compute"
  /\ entry' = Computed
  /\ Goto(r, "has")
  /\ UNCHANGED <<up, table, diskVars, request, known>>

\* Variant with a bug: the handler ends without an answer.
HasUnanswered(r) ==
  /\ pc[r] = "has"
  /\ Goto(r, "done")
  /\ UNCHANGED <<up, table, diskVars, cacheVars, request>>

\* The source in the answer is what has() says afterwards.
Has(r) ==
  /\ pc[r] = "has"
  /\ Answer(r, 200, IF entry = None THEN "computed" ELSE "cache")
  /\ UNCHANGED <<up, table, diskVars, cacheVars, request>>

\* The value's ttl is over.
Expire ==
  /\ entry # None
  /\ entry' = None
  /\ UNCHANGED <<up, table, diskVars, pc, request, code, answer, known>>

-----------------------------------------------------------------------------
Next ==
  \/ \E s \in Subject : SignUp(s)
  \/ Fresh
  \/ Expire
  \/ \E r \in Request :
       \/ Refuse(r) \/ StoragePut(r) \/ UploadProfileImage(r) \/ StoreImage(r) \/ Url(r)
       \/ InfoExists(r) \/ InfoSize(r) \/ StorageDelete(r)
       \/ CacheGet(r) \/ CachePut(r) \/ Remember(r) \/ Compute(r) \/ Has(r)

Spec == Init /\ [][Next]_vars

-----------------------------------------------------------------------------
(* Properties *)

\* Every variable has its type, and a request is over when it was answered.
TypeOK ==
  /\ up \in BOOLEAN
  /\ accounts \in [Subject -> Id \cup {None}] /\ OneRowEach
  /\ emptied \in 0..MaxFresh
  /\ disk \in [Path -> Request \cup {None}]
  /\ entry \in Request \cup {Computed, None}
  /\ pc \in [Request -> {"new", "store", "url", "size", "compute", "has", "done"}]
  /\ kind \in [Request -> {None, "put", "image", "info", "delete", "get", "store", "remember"}]
  /\ path \in [Request -> Path \cup {NoPath}]
  /\ who \in [Request -> Subject \cup {None}]
  /\ found \in [Request -> 0..MaxFresh]
  /\ code \in [Request -> {0, 200, 201, 400, 500}]
  /\ answer \in [Request -> Request \cup {None, Computed, "cache", "stored", "computed"}]
  /\ seen \in [Request -> SUBSET (Request \cup {None})]
  /\ known \in [Request -> SUBSET Request]
  /\ \A r \in Request : pc[r] = "done" <=> code[r] # 0

\* GET /infra/storage asks twice and yet describes a file that was there, or
\* says there is none when there was none; with a storage that works it fails
\* only if the file was there and went away while it was asking.
InfoFitsFile ==
  \A r \in Request : kind[r] = "info" /\ pc[r] = "done" =>
    /\ code[r] = 200 => answer[r] \in seen[r]
    /\ code[r] = 500 /\ up => None \in seen[r] /\ seen[r] # {None}

\* The URL answered to an upload leads to an image of that user, his last or
\* one that raced it, whoever uploads beside him and whether he has a row or
\* not.  Two things take it from him: a client of the storage endpoints who
\* wrote, or tried to, at that very path, and somebody who got his id when the table was
\* emptied, if it was between their uploads looking for a row.
OwnImage ==
  \A r \in Request : kind[r] = "image" /\ code[r] = 200 =>
    \/ \E q \in Request :
         /\ disk[path[r]] = q
         /\ kind[q] = "image" /\ who[q] = who[r]
    \/ \E q \in Request : kind[q] \in {"put", "delete"} /\ path[q] = path[r]
    \/ \E q \in Request :
         /\ kind[q] = "image" /\ path[q] = path[r] /\ pc[q] # "store"
         /\ who[q] # who[r] /\ found[q] # found[r]

\* A remember() replaces a value that was put only if it looked before the put.
RememberKeepsPut ==
  [][entry' = Computed /\ entry \in Request =>
       \E r \in Request : entry \notin known[r] /\ pc[r] = "compute" /\ pc'[r] = "has"]_vars

=============================================================================
