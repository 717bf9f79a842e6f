---------------------------- MODULE Infra_proofs ----------------------------
(***************************************************************************)
(* Proofs about Infra, for any requests, subjects, ids and paths, with a   *)
(* storage that works or not and a table emptied any number of times.      *)
(***************************************************************************)
EXTENDS Infra, TLAPS

FileStep(r) ==
  StoragePut(r) \/ UploadProfileImage(r) \/ StoreImage(r) \/ Url(r) \/ InfoExists(r)
    \/ InfoSize(r) \/ StorageDelete(r)
TableStep == (\E s \in Subject : SignUp(s)) \/ Fresh
CacheStep(r) == CacheGet(r) \/ CachePut(r) \/ Remember(r) \/ Compute(r) \/ Has(r)

-----------------------------------------------------------------------------
(* Type correctness, with what each step of a request goes with.           *)

StepFitsKind ==
  \A r \in Request :
    /\ pc[r] = "new" => kind[r] = None
    /\ pc[r] = "store" => kind[r] = "image" /\ path[r] \in Path
    /\ pc[r] = "url" => kind[r] \in {"put", "image"} /\ path[r] \in Path
    /\ pc[r] = "size" => kind[r] = "info" /\ path[r] \in Path
    /\ pc[r] \in {"compute", "has"} => kind[r] = "remember"

TInv == TypeOK /\ StepFitsKind

LEMMA TypeInit == Init => TInv
BY InfraAssumption DEF Init, TInv, TypeOK, StepFitsKind, None

LEMMA ImagePathType == TInv => \A s \in Subject : ImagePath(s) \in Path
BY DEF ImagePath, Path, TInv, TypeOK

LEMMA DemoPathType == DemoPath \subseteq Path
BY DEF Path

\* A write keeps the types of the disk and of what requests saw.
LEMMA WriteType ==
  ASSUME TInv, NEW p \in Path, NEW f \in Request \cup {None}, MayWrite(p, f)
  PROVE  /\ disk' \in [Path -> Request \cup {None}]
         /\ seen' \in [Request -> SUBSET (Request \cup {None})]
<1>1. CASE Write(p, f)
  BY <1>1 DEF Write, TInv, TypeOK
<1>2. CASE UNCHANGED diskVars
  BY <1>2 DEF diskVars, TInv, TypeOK
<1> QED
  BY <1>1, <1>2 DEF MayWrite

LEMMA LookType ==
  ASSUME TInv, NEW r \in Request, NEW p \in Path, Look(r, p)
  PROVE  /\ disk' \in [Path -> Request \cup {None}]
         /\ seen' \in [Request -> SUBSET (Request \cup {None})]
BY DEF Look, TInv, TypeOK

\* Storing leaves the other requests where they are.
LEMMA StoreType ==
  ASSUME TInv, NEW r \in Request, NEW p \in Path, Store(r, p)
  PROVE  /\ disk' \in [Path -> Request \cup {None}]
         /\ seen' \in [Request -> SUBSET (Request \cup {None})]
         /\ \/ pc' = [pc EXCEPT ![r] = "url"] /\ UNCHANGED <<code, answer>>
            \/ /\ pc' = [pc EXCEPT ![r] = "done"]
               /\ code' = [code EXCEPT ![r] = 500]
               /\ answer' = [answer EXCEPT ![r] = None]
BY WriteType DEF Store, MayWrite, Goto, Answer

\* A request that stores keeps all types.
LEMMA StoredType ==
  ASSUME TInv, NEW r \in Request, NEW k \in {"put", "image"}, NEW p \in Path,
         NEW s \in Subject \cup {None}, pc[r] \in {"new", "store"}, Store(r, p),
         kind' = [kind EXCEPT ![r] = k], path' = [path EXCEPT ![r] = p],
         who' = [who EXCEPT ![r] = s],
         UNCHANGED <<up, accounts, emptied, found, entry, known>>
  PROVE  TInv'
<1>1. /\ disk' \in [Path -> Request \cup {None}]
      /\ seen' \in [Request -> SUBSET (Request \cup {None})]
  BY StoreType
<1>2. OneRowEach'
  BY DEF OneRowEach, TInv, TypeOK
<1>3. CASE pc' = [pc EXCEPT ![r] = "url"] /\ UNCHANGED <<code, answer>>
  <2>1. TypeOK'
    BY <1>1, <1>2, <1>3 DEF TInv, TypeOK
  <2>2. StepFitsKind'
    BY <1>3 DEF TInv, TypeOK, StepFitsKind
  <2> QED
    BY <2>1, <2>2 DEF TInv
<1>4. CASE /\ pc' = [pc EXCEPT ![r] = "done"]
           /\ code' = [code EXCEPT ![r] = 500]
           /\ answer' = [answer EXCEPT ![r] = None]
  <2>1. TypeOK'
    BY <1>1, <1>2, <1>4 DEF TInv, TypeOK
  <2>2. StepFitsKind'
    BY <1>4 DEF TInv, TypeOK, StepFitsKind
  <2> QED
    BY <2>1, <2>2 DEF TInv
<1> QED
  BY <1>3, <1>4, StoreType

LEMMA StoreImageType ==
  ASSUME TInv, NEW r \in Request, StoreImage(r)
  PROVE  TInv'
<1>1. /\ path[r] \in Path /\ who[r] \in Subject \cup {None}
      /\ kind' = [kind EXCEPT ![r] = "image"] /\ path' = [path EXCEPT ![r] = path[r]]
      /\ who' = [who EXCEPT ![r] = who[r]] /\ pc[r] = "store" /\ Store(r, path[r])
      /\ UNCHANGED <<up, accounts, emptied, found, entry, known>>
  BY DEF StoreImage, table, request, cacheVars, TInv, TypeOK, StepFitsKind
<1> DEFINE p == path[r]
           s == who[r]
<1>2. /\ p \in Path /\ s \in Subject \cup {None}
      /\ path' = [path EXCEPT ![r] = p] /\ who' = [who EXCEPT ![r] = s] /\ Store(r, p)
  BY <1>1
<1> HIDE DEF p, s
<1> QED
  BY <1>1, <1>2, StoredType

LEMMA InfoExistsType ==
  ASSUME TInv, NEW r \in Request, InfoExists(r)
  PROVE  TInv'
<1>1. PICK p \in Path :
        /\ Begin(r, "info", p, None) /\ Look(r, p)
        /\ \/ Answer(r, 200, None) \/ Goto(r, "size") \/ Answer(r, 500, None)
  BY DemoPathType DEF InfoExists
<1>2. /\ path' = [path EXCEPT ![r] = p]
      /\ kind' = [kind EXCEPT ![r] = "info"] /\ who' = [who EXCEPT ![r] = None]
      /\ UNCHANGED <<up, accounts, emptied, found, disk, entry, known>>
      /\ seen' \in [Request -> SUBSET (Request \cup {None})]
  BY <1>1, LookType DEF InfoExists, Begin, Look, table, cacheVars
<1>3. OneRowEach'
  BY <1>2 DEF OneRowEach, TInv, TypeOK
<1>4. PICK st \in {"size", "done"}, c \in {0, 200, 500} :
        /\ pc' = [pc EXCEPT ![r] = st] /\ code' = [code EXCEPT ![r] = c]
        /\ answer' = [answer EXCEPT ![r] = None] \/ answer' = answer
        /\ st = "done" <=> c # 0
  <2>1. pc[r] = "new" /\ code = [code EXCEPT ![r] = 0]
    BY <1>1 DEF Begin, TInv, TypeOK
  <2> QED
    BY <1>1, <2>1 DEF Goto, Answer
<1>5. TypeOK'
  BY <1>2, <1>3, <1>4 DEF TInv, TypeOK
<1>6. StepFitsKind'
  BY <1>2, <1>4 DEF TInv, TypeOK, StepFitsKind, None
<1> QED
  BY <1>5, <1>6 DEF TInv

\* The table keeps its type, with one row for each id.
LEMMA TableType ==
  ASSUME TInv, TableStep
  PROVE  /\ accounts' \in [Subject -> Id \cup {None}] /\ OneRowEach'
         /\ emptied' \in 0..MaxFresh
<1>1. CASE Fresh
  BY <1>1, InfraAssumption DEF Fresh, OneRowEach, TInv, TypeOK
<1>2. CASE \E s \in Subject : SignUp(s)
  <2>1. PICK s \in Subject, i \in Id :
          /\ \A t \in Subject : accounts[t] # i
          /\ accounts' = [accounts EXCEPT ![s] = i] /\ emptied' = emptied
    BY <1>2 DEF SignUp
  <2> QED
    BY <2>1 DEF OneRowEach, TInv, TypeOK
<1> QED
  BY <1>1, <1>2 DEF TableStep

LEMMA TypeStep == TInv /\ [Next]_vars => TInv'
<1> SUFFICES ASSUME TInv, [Next]_vars PROVE TInv'
  OBVIOUS
<1>a. accounts' = accounts => OneRowEach'
  BY DEF OneRowEach, TInv, TypeOK
<1> USE InfraAssumption, ImagePathType, DemoPathType, <1>a
    DEF TInv, TypeOK, StepFitsKind, Begin, Goto, Answer, None, Computed
<1>1. CASE UNCHANGED vars
  BY <1>1 DEF vars, request, cacheVars, diskVars
<1>2. CASE TableStep \/ Expire
  <2>1. CASE TableStep
    <3>1. UNCHANGED <<up, disk, seen, entry, known, pc, kind, path, who, found, code, answer>>
      BY <2>1 DEF TableStep, SignUp, Fresh, request, cacheVars, diskVars
    <3> QED
      BY <2>1, <3>1, TableType
  <2>2. CASE Expire
    BY <2>2 DEF Expire, table, request, cacheVars, diskVars
  <2> QED
    BY <1>2, <2>1, <2>2
<1>3. ASSUME NEW r \in Request, Refuse(r) PROVE TInv'
  BY <1>3 DEF Refuse, table, cacheVars, diskVars
<1>4. ASSUME NEW r \in Request, StoragePut(r) PROVE TInv'
  <2>1. PICK p \in DemoPath : Begin(r, "put", p, None) /\ Store(r, p)
    BY <1>4 DEF StoragePut
  <2> QED
    BY <1>4, <2>1, StoredType DEF StoragePut, table, cacheVars
<1>5. ASSUME NEW r \in Request, UploadProfileImage(r) PROVE TInv'
  <2>1. PICK s \in Subject :
          \/ Begin(r, "image", ImagePath(s), s) /\ Goto(r, "store")
          \/ Begin(r, "image", NoPath, s) /\ Answer(r, 500, None)
    BY <1>5 DEF UploadProfileImage
  <2>2. /\ found' \in [Request -> 0..MaxFresh]
        /\ UNCHANGED <<up, accounts, emptied, disk, seen, entry, known>>
    BY <1>5 DEF UploadProfileImage, table, cacheVars, diskVars
  <2>3. PICK p \in Path \cup {NoPath} :
          /\ Begin(r, "image", p, s)
          /\ (p \in Path /\ Goto(r, "store")) \/ Answer(r, 500, None)
    BY <2>1
  <2>4. CASE p \in Path /\ Goto(r, "store")
    BY <2>2, <2>3, <2>4
  <2>5. CASE Answer(r, 500, None)
    BY <2>2, <2>3, <2>5
  <2> QED
    BY <2>3, <2>4, <2>5
<1>5a. ASSUME NEW r \in Request, StoreImage(r) PROVE TInv'
  BY <1>5a, StoreImageType
<1>6. ASSUME NEW r \in Request, Url(r) PROVE TInv'
  BY <1>6 DEF Url, table, request, cacheVars, diskVars
<1>7. ASSUME NEW r \in Request, InfoExists(r) PROVE TInv'
  BY <1>7, InfoExistsType
<1>8. ASSUME NEW r \in Request, InfoSize(r) PROVE TInv'
  BY <1>8 DEF InfoSize, table, request, cacheVars, diskVars
<1>9. ASSUME NEW r \in Request, StorageDelete(r) PROVE TInv'
  <2>1. PICK p \in DemoPath :
          /\ Begin(r, "delete", p, None)
          /\ MayWrite(p, None)
          /\ Answer(r, 200, disk[p]) \/ Answer(r, 500, None)
    BY <1>9 DEF StorageDelete, MayWrite
  <2>2. /\ disk' \in [Path -> Request \cup {None}]
        /\ seen' \in [Request -> SUBSET (Request \cup {None})]
    BY <2>1, WriteType
  <2>3. PICK c \in {200, 500}, a \in Request \cup {None} :
          code' = [code EXCEPT ![r] = c] /\ answer' = [answer EXCEPT ![r] = a]
    BY <2>1
  <2>4. /\ pc' = [pc EXCEPT ![r] = "done"]
        /\ kind' = [kind EXCEPT ![r] = "delete"] /\ who' = [who EXCEPT ![r] = None]
        /\ \E q \in Path : path' = [path EXCEPT ![r] = q]
        /\ UNCHANGED <<up, accounts, emptied, found, entry, known>>
    BY <1>9, <2>1 DEF StorageDelete, table, cacheVars
  <2>5. TypeOK'
    BY <2>2, <2>3, <2>4
  <2>6. StepFitsKind'
    BY <2>4
  <2> QED
    BY <2>5, <2>6
<1>10. ASSUME NEW r \in Request, CacheGet(r) \/ CachePut(r) PROVE TInv'
  BY <1>10 DEF CacheGet, CachePut, table, cacheVars, diskVars
<1>11. ASSUME NEW r \in Request, Remember(r) PROVE TInv'
  BY <1>11 DEF Remember, PutsDone, table, diskVars
<1>12. ASSUME NEW r \in Request, Compute(r) \/ Has(r) PROVE TInv'
  BY <1>12 DEF Compute, Has, table, request, cacheVars, diskVars
<1> QED
  BY <1>1, <1>2, <1>3, <1>4, <1>5, <1>5a, <1>6, <1>7, <1>8, <1>9, <1>10, <1>11, <1>12
  DEF Next, TableStep

\* Every variable of Infra keeps its type, and a request is over when it was
\* answered.
THEOREM TypeCorrect == Spec => []TypeOK
<1>1. TInv => TypeOK
  BY DEF TInv
<1> QED
  BY TypeInit, TypeStep, <1>1, PTL DEF Spec

-----------------------------------------------------------------------------
(* What a step does to the requests that have begun.                       *)

\* f is written to p by r, which works on p.
Writes(r, p, f) ==
  /\ Write(p, f)
  /\ pc[r] \in {"new", "store"} /\ path' = [path EXCEPT ![r] = p]

\* The disk stays as it is, unless a request begins and writes, or an upload
\* stores its image.
LEMMA DiskStep ==
  ASSUME TInv, [Next]_vars
  PROVE  \/ UNCHANGED diskVars
         \/ \E r \in Request, p \in Path : pc[r] = "new" /\ Look(r, p)
         \/ \E r \in Request, p \in Path : Writes(r, p, r) /\ kind'[r] = "put"
         \/ \E r \in Request, p \in Path : Writes(r, p, None) /\ kind'[r] = "delete"
         \/ \E r \in Request :
              /\ pc[r] = "store" /\ pc'[r] # "store" /\ path[r] \in Path
              /\ Writes(r, path[r], r)
<1> USE DEF TInv, TypeOK
<1>1. ASSUME NEW r \in Request, StoragePut(r)
      PROVE  \/ UNCHANGED diskVars
             \/ \E p \in Path : Writes(r, p, r) /\ kind'[r] = "put"
  <2>1. PICK p \in DemoPath : Begin(r, "put", p, None) /\ Store(r, p)
    BY <1>1 DEF StoragePut
  <2>2. pc[r] = "new" /\ kind'[r] = "put" /\ path' = [path EXCEPT ![r] = p] /\ p \in Path
    BY <2>1, DemoPathType DEF Begin
  <2> QED
    BY <2>1, <2>2 DEF Store, MayWrite, Writes
<1>2. ASSUME NEW r \in Request, StoreImage(r)
      PROVE  \/ UNCHANGED diskVars
             \/ /\ pc[r] = "store" /\ pc'[r] # "store" /\ path[r] \in Path
                /\ Writes(r, path[r], r)
  <2>1. /\ pc[r] = "store" /\ pc'[r] # "store" /\ path[r] \in Path
        /\ path' = [path EXCEPT ![r] = path[r]]
    BY <1>2 DEF StoreImage, Store, Goto, Answer, request, StepFitsKind
  <2> QED
    BY <1>2, <2>1 DEF StoreImage, Store, MayWrite, Writes
<1>3. ASSUME NEW r \in Request, InfoExists(r)
      PROVE  \E p \in Path : pc[r] = "new" /\ Look(r, p)
  BY <1>3, DemoPathType DEF InfoExists, Begin
<1>4. ASSUME NEW r \in Request, StorageDelete(r)
      PROVE  \/ UNCHANGED diskVars
             \/ \E p \in Path : Writes(r, p, None) /\ kind'[r] = "delete"
  <2>1. PICK p \in DemoPath : Begin(r, "delete", p, None) /\ MayWrite(p, None)
    BY <1>4 DEF StorageDelete, MayWrite
  <2>2. pc[r] = "new" /\ kind'[r] = "delete" /\ path' = [path EXCEPT ![r] = p] /\ p \in Path
    BY <2>1, DemoPathType DEF Begin
  <2> QED
    BY <2>1, <2>2 DEF MayWrite, Writes
<1>5. ASSUME NEW r \in Request,
             Refuse(r) \/ UploadProfileImage(r) \/ Url(r) \/ InfoSize(r) \/ CacheStep(r)
      PROVE  UNCHANGED diskVars
  BY <1>5 DEF Refuse, UploadProfileImage, Url, InfoSize, CacheStep, CacheGet, CachePut,
              Remember, Compute, Has
<1>6. ASSUME TableStep \/ Expire \/ UNCHANGED vars
      PROVE  UNCHANGED diskVars
  BY <1>6 DEF TableStep, SignUp, Fresh, Expire, vars, diskVars
<1> QED
  <2>1. \/ \E r \in Request : StoragePut(r)
        \/ \E r \in Request : StoreImage(r)
        \/ \E r \in Request : InfoExists(r)
        \/ \E r \in Request : StorageDelete(r)
        \/ \E r \in Request :
             Refuse(r) \/ UploadProfileImage(r) \/ Url(r) \/ InfoSize(r) \/ CacheStep(r)
        \/ TableStep \/ Expire \/ UNCHANGED vars
    BY DEF Next, CacheStep, TableStep
  <2>2. CASE \E r \in Request : StoragePut(r)
    BY <1>1, <2>2
  <2>3. CASE \E r \in Request : StoreImage(r)
    BY <1>2, <2>3
  <2>4. CASE \E r \in Request : InfoExists(r)
    BY <1>3, <2>4
  <2>5. CASE \E r \in Request : StorageDelete(r)
    BY <1>4, <2>5
  <2>6. CASE \E r \in Request :
               Refuse(r) \/ UploadProfileImage(r) \/ Url(r) \/ InfoSize(r) \/ CacheStep(r)
    BY <1>5, <2>6
  <2> QED
    BY <1>6, <2>1, <2>2, <2>3, <2>4, <2>5, <2>6

\* A request that has begun keeps what it is for, and one that is over its
\* answer.
LEMMA BegunKeeps ==
  ASSUME TInv, [Next]_vars, NEW q \in Request, pc[q] # "new"
  PROVE  /\ kind'[q] = kind[q] /\ path'[q] = path[q] /\ who'[q] = who[q]
         /\ found'[q] = found[q] /\ pc'[q] # "new"
         /\ pc[q] = "done" => pc'[q] = "done" /\ code'[q] = code[q] /\ answer'[q] = answer[q]
         /\ pc[q] = "size" => pc'[q] = "size" \/ InfoSize(q)
         /\ pc[q] = "url" => pc'[q] = "url" \/ Url(q)
         /\ pc[q] = "store" => pc'[q] = "store" \/ StoreImage(q)
         /\ pc'[q] = "store" => pc[q] = "store"
<1> USE DEF TInv, TypeOK, Begin, Goto, Answer
<1>1. ASSUME NEW r \in Request, StoragePut(r)
      PROVE  /\ kind'[q] = kind[q] /\ path'[q] = path[q] /\ who'[q] = who[q]
             /\ found'[q] = found[q]
             /\ pc'[q] = pc[q] /\ code'[q] = code[q] /\ answer'[q] = answer[q]
  BY <1>1 DEF StoragePut, Store
<1>2. ASSUME NEW r \in Request, Refuse(r) \/ UploadProfileImage(r) \/ InfoExists(r)
                                \/ StorageDelete(r)
                                \/ CacheGet(r) \/ CachePut(r) \/ Remember(r)
      PROVE  /\ kind'[q] = kind[q] /\ path'[q] = path[q] /\ who'[q] = who[q]
             /\ found'[q] = found[q]
             /\ pc'[q] = pc[q] /\ code'[q] = code[q] /\ answer'[q] = answer[q]
  BY <1>2 DEF Refuse, UploadProfileImage, InfoExists, StorageDelete, CacheGet, CachePut, Remember
<1>3. ASSUME NEW r \in Request, Url(r) \/ InfoSize(r) \/ Compute(r) \/ Has(r)
      PROVE  /\ kind'[q] = kind[q] /\ path'[q] = path[q] /\ who'[q] = who[q]
             /\ found'[q] = found[q]
             /\ pc'[q] \notin {"new", "store"} \/ pc'[q] = pc[q]
             /\ pc[r] \notin {"done", "store"}
             /\ r # q => pc'[q] = pc[q] /\ code'[q] = code[q] /\ answer'[q] = answer[q]
             /\ r = q /\ pc[q] = "size" => InfoSize(q)
             /\ r = q /\ pc[q] = "url" => Url(q)
  BY <1>3 DEF Url, InfoSize, Compute, Has, request
<1>4. ASSUME NEW r \in Request, StoreImage(r)
      PROVE  /\ kind'[q] = kind[q] /\ path'[q] = path[q] /\ who'[q] = who[q]
             /\ found'[q] = found[q] /\ pc[r] = "store"
             /\ pc'[q] \in {"url", "done"} \/ pc'[q] = pc[q]
             /\ r # q => pc'[q] = pc[q] /\ code'[q] = code[q] /\ answer'[q] = answer[q]
  BY <1>4 DEF StoreImage, Store, request
<1>5. ASSUME TableStep \/ Expire \/ UNCHANGED vars
      PROVE  UNCHANGED <<request, pc, code, answer>>
  BY <1>5 DEF TableStep, SignUp, Fresh, Expire, vars, request
<1> QED
  BY <1>1, <1>2, <1>3, <1>4, <1>5 DEF Next, TableStep, request

\* While a request asks about a file, what there is is among what it has seen.
LEMMA BegunSees ==
  ASSUME TInv, [Next]_vars, NEW q \in Request, pc[q] # "new"
  PROVE  /\ pc[q] = "done" => seen'[q] = seen[q]
         /\ seen[q] \subseteq seen'[q]
         /\ pc[q] = "size" /\ disk[path[q]] \in seen[q] => disk'[path[q]] \in seen'[q]
<1> USE DEF TInv, TypeOK
<1>1. ASSUME NEW r \in Request, NEW p \in Path, pc[r] = "new", Look(r, p)
      PROVE  seen'[q] = seen[q] /\ disk' = disk
  BY <1>1 DEF Look
<1>2. ASSUME NEW p \in Path, NEW f \in Request \cup {None}, Write(p, f)
      PROVE  /\ pc[q] = "done" => seen'[q] = seen[q]
             /\ seen[q] \subseteq seen'[q]
             /\ pc[q] = "size" /\ disk[path[q]] \in seen[q] => disk'[path[q]] \in seen'[q]
  <2>1. /\ disk' = [disk EXCEPT ![p] = f]
        /\ seen'[q] = IF pc[q] = "size" /\ path[q] = p THEN seen[q] \cup {f} ELSE seen[q]
    BY <1>2 DEF Write
  <2> QED
    BY <2>1 DEF StepFitsKind
<1> QED
  <2>1. CASE UNCHANGED diskVars
    BY <2>1 DEF diskVars
  <2>2. CASE \E r \in Request, p \in Path : pc[r] = "new" /\ Look(r, p)
    BY <1>1, <2>2
  <2>3. CASE \E r \in Request, p \in Path : Write(p, r) \/ Write(p, None)
    BY <1>2, <2>3
  <2> QED
    BY <2>1, <2>2, <2>3, DiskStep DEF Writes

-----------------------------------------------------------------------------
(* What storage_info describes.                                            *)

InfoAccount ==
  \A r \in Request :
    /\ pc[r] = "size" => disk[path[r]] \in seen[r] /\ \E f \in seen[r] : f # None
    /\ kind[r] = "info" /\ pc[r] = "done" =>
         /\ code[r] = 200 => answer[r] \in seen[r]
         /\ code[r] = 500 /\ up => None \in seen[r] /\ \E f \in seen[r] : f # None

LEMMA InfoInit == Init => InfoAccount
BY DEF Init, InfoAccount

LEMMA InfoStep == TInv /\ InfoAccount /\ [Next]_vars => InfoAccount'
<1> SUFFICES ASSUME TInv, TInv', InfoAccount, [Next]_vars, NEW q \in Request
             PROVE  (/\ pc[q] = "size" => /\ disk[path[q]] \in seen[q]
                                          /\ \E f \in seen[q] : f # None
                     /\ kind[q] = "info" /\ pc[q] = "done" =>
                          /\ code[q] = 200 => answer[q] \in seen[q]
                          /\ code[q] = 500 /\ up =>
                               None \in seen[q] /\ \E f \in seen[q] : f # None)'
  BY TypeStep DEF InfoAccount
<1>1. UNCHANGED up
  BY DEF Next, vars, SignUp, Fresh, Expire, Refuse, StoragePut, UploadProfileImage, StoreImage, Url, InfoExists,
         InfoSize, StorageDelete, CacheGet, CachePut, Remember, Compute, Has
<1>2. CASE pc[q] = "new" /\ InfoExists(q)
  <2>1. PICK p \in DemoPath :
          /\ Begin(q, "info", p, None) /\ Look(q, p)
          /\ \/ IF disk[p] = None THEN Answer(q, 200, None) ELSE Goto(q, "size")
             \/ ~ up /\ Answer(q, 500, None)
    BY <1>2 DEF InfoExists
  <2>2. /\ seen'[q] = {disk[p]} /\ path'[q] = p /\ UNCHANGED disk
        /\ \/ disk[p] = None /\ pc'[q] = "done" /\ code'[q] = 200 /\ answer'[q] = None
           \/ disk[p] # None /\ pc'[q] = "size"
           \/ ~ up /\ pc'[q] = "done" /\ code'[q] = 500
    BY <2>1 DEF Begin, Look, Answer, Goto, TInv, TypeOK
  <2> QED
    BY <1>1, <2>2
<1>3. CASE pc[q] = "new" /\ ~ InfoExists(q)
  <2>1. kind[q] = None
    BY <1>3 DEF TInv, StepFitsKind
  <2>2. kind'[q] # "info"
    <3>1. ASSUME NEW r \in Request, InfoExists(r) PROVE kind'[q] # "info"
      <4>1. r # q
        BY <1>3, <3>1
      <4>2. kind' = [kind EXCEPT ![r] = "info"]
        BY <3>1 DEF InfoExists, Begin
      <4> QED
        BY <2>1, <4>1, <4>2 DEF TInv, TypeOK, None
    <3>2. ASSUME NEW r \in Request, Refuse(r) \/ StoragePut(r) \/ UploadProfileImage(r)
                                    \/ StorageDelete(r) \/ CacheStep(r)
          PROVE  kind'[q] # "info"
      <4>1. \/ UNCHANGED kind
            \/ \E k \in {"put", "image", "delete", "get", "store", "remember"} :
                 kind' = [kind EXCEPT ![r] = k]
        BY <3>2 DEF Refuse, StoragePut, UploadProfileImage, StorageDelete, CacheStep,
                    CacheGet, CachePut, Remember, Compute, Has, Begin, request
      <4> QED
        <5>1. ASSUME NEW k \in {"put", "image", "delete", "get", "store", "remember"},
                     kind' = [kind EXCEPT ![r] = k]
              PROVE  kind'[q] = kind[q] \/ kind'[q] = k
          BY <5>1 DEF TInv, TypeOK
        <5> QED
          BY <2>1, <4>1, <5>1 DEF None
    <3>3. ASSUME NEW r \in Request, StoreImage(r) \/ Url(r) \/ InfoSize(r)
          PROVE  kind'[q] # "info"
      BY <2>1, <3>3 DEF StoreImage, Url, InfoSize, request, None
    <3>4. ASSUME TableStep \/ Expire \/ UNCHANGED vars
          PROVE  kind'[q] # "info"
      BY <2>1, <3>4 DEF TableStep, SignUp, Fresh, Expire, vars, request, None
    <3> QED
      BY <3>1, <3>2, <3>3, <3>4 DEF Next, TableStep, CacheStep
  <2> QED
    BY <2>2 DEF TInv, StepFitsKind
<1>4. CASE pc[q] = "size" /\ InfoSize(q)
  <2>1. /\ UNCHANGED <<disk, seen, path>> /\ pc'[q] = "done"
        /\ \/ code'[q] = 200 /\ answer'[q] = disk[path[q]]
           \/ code'[q] = 500 /\ (disk[path[q]] = None \/ ~ up)
    BY <1>4 DEF InfoSize, Answer, diskVars, request, TInv, TypeOK
  <2> QED
    BY <1>1, <1>4, <2>1 DEF InfoAccount
<1>5. CASE pc[q] = "size" /\ ~ InfoSize(q)
  <2>1. pc'[q] = "size" /\ path'[q] = path[q] /\ path[q] \in Path
    BY <1>5, BegunKeeps DEF TInv, StepFitsKind
  <2> QED
    BY <1>5, <2>1, BegunSees DEF InfoAccount
<1>6. CASE pc[q] = "done"
  BY <1>1, <1>6, BegunKeeps, BegunSees DEF InfoAccount
<1>7. CASE pc[q] \in {"store", "url", "compute", "has"}
  <2>1. kind'[q] # "info"
    BY <1>7, BegunKeeps DEF TInv, StepFitsKind
  <2> QED
    BY <2>1 DEF TInv, StepFitsKind
<1> QED
  BY <1>2, <1>3, <1>4, <1>5, <1>6, <1>7 DEF TInv, TypeOK

\* GET /infra/storage asks twice and yet describes a file that was there, or
\* says there is none when there was none; with a storage that works it fails
\* only if the file went away while it was asking.
THEOREM InfoFits == Spec => []InfoFitsFile
<1>1. InfoAccount => InfoFitsFile
  BY DEF InfoAccount, InfoFitsFile
<1> QED
  BY TypeInit, TypeStep, InfoInit, InfoStep, <1>1, PTL DEF Spec

-----------------------------------------------------------------------------
(* Whose image an upload's URL leads to.                                   *)

Image(r) == kind[r] = "image" /\ path[r] \in Path

\* The path of an image says whose it is: by his subject, or by the id that
\* his row had, and has while the table is not emptied.
ImageOfSubject ==
  \A r \in Request : Image(r) =>
    /\ who[r] \in Subject /\ found[r] <= emptied
    /\ \/ path[r] = <<"profile", who[r]>>
       \/ \E i \in Id :
            path[r] = <<"media", i>> /\ (found[r] = emptied => accounts[who[r]] = i)

\* An id has one owner until the table is emptied.
OneOwner ==
  \A q, r \in Request :
    Image(q) /\ Image(r) /\ path[q] = path[r] /\ found[q] = found[r] => who[q] = who[r]

OwnThere(r) ==
  \E q \in Request : disk[path[r]] = q /\ kind[q] = "image" /\ who[q] = who[r]

Touched(r) == \E q \in Request : kind[q] \in {"put", "delete"} /\ path[q] = path[r]

TakenOver(r) ==
  \E q \in Request : /\ kind[q] = "image" /\ path[q] = path[r] /\ pc[q] # "store"
                     /\ who[q] # who[r] /\ found[q] # found[r]

Uploaded(r) == kind[r] = "image" /\ (pc[r] = "url" \/ code[r] = 200)

ImageAccount ==
  /\ ImageOfSubject
  /\ OneOwner
  /\ \A r \in Request : Uploaded(r) =>
       path[r] \in Path /\ (OwnThere(r) \/ Touched(r) \/ TakenOver(r))

LEMMA ImageInit == Init => ImageAccount
BY DEF Init, ImageAccount, ImageOfSubject, OneOwner, Image, Uploaded, None

LEMMA PathKept == Path' = Path /\ NoPath \notin Path
BY InfraAssumption DEF Path, NoPath

\* How a request becomes an upload.
LEMMA ImageBegins ==
  ASSUME TInv, [Next]_vars, NEW q \in Request, pc[q] = "new", kind'[q] = "image"
  PROVE  /\ \/ path'[q] = NoPath /\ pc'[q] = "done" /\ code'[q] \in {400, 500}
            \/ \E s \in Subject :
                 /\ who'[q] = s /\ path'[q] = ImagePath(s) /\ found'[q] = emptied
                 /\ pc'[q] = "store"
         /\ UNCHANGED table /\ code'[q] # 200
         /\ \A r \in Request : r # q =>
              /\ kind'[r] = kind[r] /\ path'[r] = path[r] /\ who'[r] = who[r]
              /\ found'[r] = found[r]
<1>1. kind[q] # "image"
  BY DEF TInv, StepFitsKind, None
<1>2. ASSUME NEW r \in Request, r # q \/ ~ (Refuse(q) \/ UploadProfileImage(q)),
             \/ Refuse(r) \/ StoragePut(r) \/ UploadProfileImage(r) \/ InfoExists(r)
             \/ StorageDelete(r) \/ CacheGet(r) \/ CachePut(r) \/ Remember(r)
      PROVE  FALSE
  <2>1. \E k \in {"put", "image", "info", "delete", "get", "store", "remember"} :
          /\ kind' = [kind EXCEPT ![r] = k]
          /\ k = "image" => Refuse(r) \/ UploadProfileImage(r)
    BY <1>2 DEF Refuse, StoragePut, UploadProfileImage, InfoExists, StorageDelete,
                CacheGet, CachePut, Remember, Begin
  <2> QED
    BY <1>1, <1>2, <2>1 DEF TInv, TypeOK
<1>3. ASSUME NEW r \in Request, StoreImage(r) \/ Url(r) \/ InfoSize(r) \/ Compute(r) \/ Has(r)
      PROVE  FALSE
  BY <1>1, <1>3 DEF StoreImage, Url, InfoSize, Compute, Has, request
<1>4. ASSUME TableStep \/ Expire \/ UNCHANGED vars PROVE FALSE
  BY <1>1, <1>4 DEF TableStep, SignUp, Fresh, Expire, vars, request
<1>5. Refuse(q) \/ UploadProfileImage(q)
  BY <1>2, <1>3, <1>4 DEF Next, TableStep
<1>6. CASE Refuse(q)
  <2>1. PICK k \in {"put", "image"}, p \in DemoPath \cup {NoPath}, s \in Subject \cup {None} :
          Begin(q, k, p, s) /\ (k = "image" => p = NoPath)
    BY <1>6 DEF Refuse
  <2>2. k = "image" /\ path'[q] = NoPath
    BY <2>1 DEF Begin, TInv, TypeOK
  <2> QED
    BY <1>6, <2>1, <2>2 DEF Refuse, Begin, Answer, TInv, TypeOK
<1>7. CASE UploadProfileImage(q)
  <2>1. PICK s \in Subject :
          \/ Begin(q, "image", ImagePath(s), s) /\ Goto(q, "store")
          \/ Begin(q, "image", NoPath, s) /\ Answer(q, 500, None)
    BY <1>7 DEF UploadProfileImage
  <2>2. found'[q] = emptied /\ UNCHANGED table /\ \A r \in Request : r # q => found'[r] = found[r]
    BY <1>7 DEF UploadProfileImage, TInv, TypeOK
  <2>3. CASE Begin(q, "image", ImagePath(s), s) /\ Goto(q, "store")
    <3>1. code[q] = 0
      BY <2>3 DEF Begin, TInv, TypeOK
    <3> QED
      BY <2>2, <2>3, <3>1 DEF Begin, Goto, TInv, TypeOK
  <2>4. CASE Begin(q, "image", NoPath, s) /\ Answer(q, 500, None)
    BY <2>2, <2>4 DEF Begin, Answer, TInv, TypeOK
  <2> QED
    BY <2>1, <2>3, <2>4
<1> QED
  BY <1>5, <1>6, <1>7

\* How an upload gets its file there.
LEMMA ImageStored ==
  ASSUME TInv, [Next]_vars, NEW q \in Request, pc[q] = "store", Uploaded(q)'
  PROVE  path'[q] \in Path /\ disk'[path'[q]] = q
<1>1. kind[q] = "image" /\ path[q] \in Path /\ code[q] = 0 /\ path'[q] = path[q]
  BY BegunKeeps DEF TInv, TypeOK, StepFitsKind
<1>2. CASE StoreImage(q)
  <2>1. \/ Write(path[q], q)
        \/ Answer(q, 500, None)
    BY <1>2 DEF StoreImage, Store
  <2>2. CASE Answer(q, 500, None)
    BY <2>2 DEF Answer, Uploaded, TInv, TypeOK
  <2>3. CASE Write(path[q], q)
    BY <1>1, <2>3 DEF Write, TInv, TypeOK
  <2> QED
    BY <2>1, <2>2, <2>3
<1>3. CASE ~ StoreImage(q)
  <2>1. pc'[q] = "store"
    BY <1>3, BegunKeeps
  <2>2. code'[q] = 0
    BY <2>1, TypeStep DEF TInv, TypeOK
  <2> QED
    BY <2>1, <2>2 DEF Uploaded
<1> QED
  BY <1>2, <1>3

\* Rows keep their ids until the table is emptied.
LEMMA RowsKept ==
  ASSUME TInv, [Next]_vars
  PROVE  /\ emptied' \in {emptied, emptied + 1} /\ emptied \in Nat
         /\ emptied' = emptied =>
              \A s \in Subject : accounts[s] # None => accounts'[s] = accounts[s]
<1>0. emptied \in Nat
  BY InfraAssumption DEF TInv, TypeOK
<1>1. CASE UNCHANGED table
  BY <1>0, <1>1 DEF table
<1>2. CASE Fresh
  BY <1>0, <1>2 DEF Fresh
<1>3. CASE \E s \in Subject : SignUp(s)
  BY <1>0, <1>3 DEF SignUp, TInv, TypeOK
<1>4. ASSUME NEW r \in Request, FileStep(r) \/ CacheStep(r) \/ Refuse(r)
      PROVE  UNCHANGED table
  BY <1>4 DEF FileStep, CacheStep, Refuse, StoragePut, UploadProfileImage, StoreImage, Url,
              InfoExists, InfoSize, StorageDelete, CacheGet, CachePut, Remember, Compute, Has
<1>5. ASSUME Expire \/ UNCHANGED vars PROVE UNCHANGED table
  BY <1>5 DEF Expire, vars, table
<1> QED
  BY <1>1, <1>2, <1>3, <1>4, <1>5 DEF Next, FileStep, CacheStep

LEMMA SubjectStep == TInv /\ ImageOfSubject /\ [Next]_vars => ImageOfSubject'
<1> SUFFICES ASSUME TInv, ImageOfSubject, [Next]_vars, NEW q \in Request,
                    kind'[q] = "image", path'[q] \in Path
             PROVE  /\ who'[q] \in Subject /\ found'[q] <= emptied'
                    /\ \/ path'[q] = <<"profile", who'[q]>>
                       \/ \E i \in Id :
                            path'[q] = <<"media", i>> /\ (found'[q] = emptied' => accounts'[who'[q]] = i)
  BY PathKept DEF ImageOfSubject, Image
<1>1. CASE pc[q] = "new"
  <2>1. PICK s \in Subject : who'[q] = s /\ path'[q] = ImagePath(s)
                         /\ UNCHANGED table /\ found'[q] = emptied
    BY <1>1, ImageBegins, PathKept
  <2>2. accounts[s] \in Id \cup {None} /\ accounts' = accounts
    BY <2>1 DEF table, TInv, TypeOK
  <2> QED
    BY <2>1, <2>2, RowsKept DEF ImagePath, table
<1>2. CASE pc[q] # "new"
  <2>1. kind[q] = "image" /\ path'[q] = path[q] /\ who'[q] = who[q] /\ found'[q] = found[q]
    BY <1>2, BegunKeeps
  <2>2. /\ who[q] \in Subject /\ found[q] <= emptied
        /\ found[q] \in Nat /\ emptied \in Nat /\ emptied' \in {emptied, emptied + 1}
        /\ \/ path[q] = <<"profile", who[q]>>
           \/ \E i \in Id :
                path[q] = <<"media", i>> /\ (found[q] = emptied => accounts[who[q]] = i)
    BY <2>1, RowsKept, InfraAssumption DEF ImageOfSubject, Image, TInv, TypeOK
  <2>2a. found'[q] <= emptied'
    BY <2>1, <2>2
  <2>3. CASE path[q] = <<"profile", who[q]>>
    BY <2>1, <2>2, <2>2a, <2>3
  <2>4. ASSUME NEW i \in Id, path[q] = <<"media", i>>, found[q] = emptied => accounts[who[q]] = i
        PROVE  found'[q] = emptied' => accounts'[who'[q]] = i
    <3> SUFFICES ASSUME found[q] = emptied' PROVE accounts'[who[q]] = i
      BY <2>1
    <3>1. emptied' = emptied /\ found[q] = emptied
      BY <2>2
    <3>2. accounts[who[q]] # None
      BY <2>4, <3>1, InfraAssumption
    <3> QED
      BY <2>2, <2>4, <3>1, <3>2, RowsKept
  <2> QED
    BY <2>1, <2>2, <2>2a, <2>3, <2>4
<1> QED
  BY <1>1, <1>2

LEMMA OwnerStep == TInv /\ ImageOfSubject /\ OneOwner /\ [Next]_vars => OneOwner'
<1> SUFFICES ASSUME TInv, ImageOfSubject, OneOwner, [Next]_vars,
                    NEW q \in Request, NEW r \in Request, Image(q)', Image(r)',
                    path'[q] = path'[r], found'[q] = found'[r]
             PROVE  who'[q] = who'[r]
  BY DEF OneOwner
\* t's row was found just now, and u's since the table was emptied.
<1>1. ASSUME NEW t \in Request, NEW u \in Request, t # u, pc[t] = "new",
             Image(t)', Image(u)', path'[t] = path'[u], found'[t] = found'[u]
      PROVE  who'[t] = who'[u]
  <2>1. PICK s \in Subject :
          who'[t] = s /\ path'[t] = ImagePath(s) /\ found'[t] = emptied /\ UNCHANGED table
    BY <1>1, ImageBegins, PathKept DEF Image
  <2>2. /\ kind[u] = "image" /\ path[u] \in Path
        /\ path[u] = ImagePath(s) /\ who'[u] = who[u] /\ found[u] = emptied
    <3>1. kind'[t] = "image" /\ kind'[u] = "image" /\ path'[u] \in Path
      BY <1>1, PathKept DEF Image
    <3>2. /\ kind'[u] = kind[u] /\ path'[u] = path[u] /\ who'[u] = who[u]
          /\ found'[u] = found[u]
      BY <1>1, <3>1, ImageBegins
    <3> QED
      BY <1>1, <2>1, <3>1, <3>2
  <2>3. /\ who[u] \in Subject
        /\ \/ path[u] = <<"profile", who[u]>>
           \/ \E i \in Id : path[u] = <<"media", i>> /\ accounts[who[u]] = i
    <3>1. /\ who[u] \in Subject
          /\ \/ path[u] = <<"profile", who[u]>>
             \/ \E i \in Id :
                  path[u] = <<"media", i>> /\ (found[u] = emptied => accounts[who[u]] = i)
      BY <2>2 DEF ImageOfSubject, Image
    <3> QED
      BY <2>2, <3>1
  <2>4. CASE accounts[s] # None
    <3>1. accounts[who[u]] = accounts[s]
      BY <2>2, <2>3, <2>4 DEF ImagePath
    <3> QED
      BY <2>1, <2>2, <2>3, <2>4, <3>1 DEF OneRowEach, TInv, TypeOK
  <2>5. CASE accounts[s] = None
    BY <2>1, <2>2, <2>3, <2>5 DEF ImagePath
  <2> QED
    BY <2>4, <2>5
<1>2. CASE pc[q] = "new" \/ pc[r] = "new"
  BY <1>1, <1>2
<1>3. CASE pc[q] # "new" /\ pc[r] # "new"
  BY <1>3, BegunKeeps, PathKept DEF OneOwner, Image
<1> QED
  BY <1>2, <1>3

\* Once there, an own image is replaced by another, by a client of the storage
\* endpoints or by somebody who has the id now, or had it before.
LEMMA OwnStays ==
  ASSUME TInv, TInv', OneOwner, [Next]_vars,
         NEW q \in Request, pc[q] # "new", Image(q),
         OwnThere(q) \/ Touched(q) \/ TakenOver(q)
  PROVE  (OwnThere(q) \/ Touched(q) \/ TakenOver(q))'
<1>1. kind'[q] = "image" /\ path'[q] = path[q] /\ who'[q] = who[q] /\ found'[q] = found[q]
  BY BegunKeeps DEF Image
<1>2. ASSUME NEW t \in Request, kind[t] \in {"put", "delete", "image"}
      PROVE  /\ kind'[t] = kind[t] /\ path'[t] = path[t] /\ who'[t] = who[t]
             /\ found'[t] = found[t] /\ (pc'[t] = "store" => pc[t] = "store")
  <2>1. pc[t] # "new"
    BY <1>2 DEF TInv, StepFitsKind, None
  <2> QED
    BY <2>1, BegunKeeps
<1>3. CASE Touched(q)
  BY <1>1, <1>2, <1>3 DEF Touched
<1>4. CASE TakenOver(q)
  BY <1>1, <1>2, <1>4 DEF TakenOver
<1>5. ASSUME OwnThere(q), disk'[path[q]] = disk[path[q]]
      PROVE  OwnThere(q)'
  BY <1>1, <1>2, <1>5 DEF OwnThere
<1>6. ASSUME NEW r \in Request, NEW p \in Path, NEW f \in Request \cup {None}, Writes(r, p, f)
      PROVE  /\ path[q] # p => disk'[path[q]] = disk[path[q]]
             /\ path'[r] = p /\ disk'[p] = f
  BY <1>6 DEF Writes, Write, Image, TInv, TypeOK
<1>7. CASE OwnThere(q) /\ UNCHANGED disk
  BY <1>5, <1>7
<1>8. ASSUME OwnThere(q), NEW r \in Request, NEW p \in Path,
             \/ Writes(r, p, r) /\ kind'[r] = "put"
             \/ Writes(r, p, None) /\ kind'[r] = "delete"
      PROVE  (OwnThere(q) \/ Touched(q))'
  <2>1. path'[r] = p /\ kind'[r] \in {"put", "delete"}
    BY <1>6, <1>8
  <2>2. CASE path[q] = p
    BY <1>1, <2>1, <2>2 DEF Touched
  <2>3. CASE path[q] # p
    BY <1>5, <1>6, <1>8, <2>3
  <2> QED
    BY <2>2, <2>3
<1>9. ASSUME OwnThere(q), NEW r \in Request, pc[r] = "store", pc'[r] # "store",
             path[r] \in Path, Writes(r, path[r], r)
      PROVE  (OwnThere(q) \/ TakenOver(q))'
  <2>1. kind[r] = "image" /\ kind'[r] = "image" /\ path'[r] = path[r] /\ who'[r] = who[r]
        /\ found'[r] = found[r]
    BY <1>2, <1>9 DEF TInv, StepFitsKind
  <2>2. CASE path[q] # path[r]
    BY <1>5, <1>6, <1>9, <2>2
  <2>3. CASE path[q] = path[r] /\ who[q] = who[r]
    <3>1. disk'[path'[q]] = r
      BY <1>1, <1>6, <1>9, <2>3
    <3> QED
      BY <1>1, <2>1, <2>3, <3>1 DEF OwnThere
  <2>4. CASE path[q] = path[r] /\ who[q] # who[r]
    <3>1. found[q] # found[r]
      BY <1>9, <2>1, <2>4 DEF OneOwner, Image
    <3> QED
      BY <1>1, <1>9, <2>1, <2>4, <3>1 DEF TakenOver
  <2> QED
    BY <2>2, <2>3, <2>4
<1>10. ASSUME NEW r \in Request, NEW p \in Path, Look(r, p) PROVE UNCHANGED disk
  BY <1>10 DEF Look
<1> QED
  BY <1>3, <1>4, <1>7, <1>8, <1>9, <1>10, DiskStep DEF diskVars

LEMMA ImageStep == TInv /\ ImageAccount /\ [Next]_vars => ImageAccount'
<1> SUFFICES ASSUME TInv, ImageAccount, [Next]_vars PROVE ImageAccount'
  OBVIOUS
<1>1. TInv' /\ ImageOfSubject' /\ OneOwner'
  BY TypeStep, SubjectStep, OwnerStep DEF ImageAccount
<1>2. ASSUME NEW q \in Request, Uploaded(q)'
      PROVE  path'[q] \in Path /\ (OwnThere(q) \/ Touched(q) \/ TakenOver(q))'
  <2>1. CASE pc[q] = "new"
    BY <1>2, <2>1, ImageBegins DEF Uploaded
  <2>2. CASE pc[q] = "store"
    <3>1. path'[q] \in Path /\ disk'[path'[q]] = q
      BY <1>2, <2>2, ImageStored
    <3> QED
      BY <1>2, <3>1 DEF OwnThere, Uploaded
  <2>3. CASE pc[q] \notin {"new", "store"}
    <3>1. kind[q] = "image" /\ path'[q] = path[q]
      BY <1>2, <2>3, BegunKeeps DEF Uploaded
    <3>2. pc[q] \in {"url", "done"}
      BY <2>3, <3>1 DEF TInv, TypeOK, StepFitsKind
    <3>3. Uploaded(q)
      BY <1>1, <1>2, <3>1, <3>2, BegunKeeps DEF Uploaded, TInv, TypeOK
    <3>4. Image(q) /\ (OwnThere(q) \/ Touched(q) \/ TakenOver(q))
      BY <3>1, <3>3 DEF ImageAccount, Image
    <3> QED
      BY <1>1, <2>3, <3>1, <3>4, OwnStays DEF ImageAccount, Image
  <2> QED
    BY <2>1, <2>2, <2>3
<1> QED
  BY <1>1, <1>2, PathKept DEF ImageAccount

\* The URL answered to an upload leads to an image of that user, whoever
\* uploads beside him and whether he has a row or not, unless a client of the
\* storage endpoints wrote to that very path, or somebody had his id before or
\* after the table was emptied.
THEOREM ImageIsOwn == Spec => []OwnImage
<1>1. ImageAccount => OwnImage
  BY DEF ImageAccount, OwnImage, Uploaded, OwnThere, Touched, TakenOver
<1> QED
  BY TypeInit, TypeStep, ImageInit, ImageStep, <1>1, PTL DEF Spec

-----------------------------------------------------------------------------
(* What remember() may overwrite.                                          *)

\* What a remember() knew was put, and a value it is about to overwrite was not.
PutAccount ==
  /\ \A r \in Request : known[r] \subseteq PutsDone
  /\ \A r \in Request : pc[r] = "compute" => entry \notin known[r]

LEMMA PutInit == Init => PutAccount
BY DEF Init, PutAccount, PutsDone

LEMMA PutStep == TInv /\ PutAccount /\ [Next]_vars => PutAccount'
<1> SUFFICES ASSUME TInv, PutAccount, [Next]_vars, NEW q \in Request
             PROVE  known'[q] \subseteq PutsDone' /\ (pc'[q] = "compute" => entry' \notin known'[q])
  BY DEF PutAccount
<1>1. PutsDone \subseteq PutsDone'
  <2> SUFFICES ASSUME NEW t \in Request, kind[t] = "store" PROVE kind'[t] = "store"
    BY DEF PutsDone
  <2>1. pc[t] # "new"
    BY DEF TInv, StepFitsKind, None
  <2> QED
    BY <2>1, BegunKeeps
<1>2. CASE Remember(q)
  <2>1. known'[q] = PutsDone /\ UNCHANGED entry /\ (pc'[q] = "compute" => entry = None)
    BY <1>2 DEF Remember, Goto, TInv, TypeOK
  <2> QED
    BY <1>1, <2>1, InfraAssumption DEF PutsDone
<1>3. ASSUME ~ Remember(q)
      PROVE  known'[q] = known[q] /\ (pc'[q] = "compute" => pc[q] = "compute")
  <2>1. ASSUME NEW r \in Request, FileStep(r) \/ Refuse(r)
        PROVE  UNCHANGED known /\ (pc'[q] = "compute" => pc[q] = "compute")
    BY <2>1 DEF FileStep, Refuse, StoragePut, UploadProfileImage, StoreImage, Store, Url,
                InfoExists, InfoSize, StorageDelete, Goto, Answer, cacheVars, TInv, TypeOK
  <2>2. ASSUME NEW r \in Request, CacheStep(r)
        PROVE  known'[q] = known[q] /\ (pc'[q] = "compute" => pc[q] = "compute")
    BY <1>3, <2>2 DEF CacheStep, CacheGet, CachePut, Remember, Compute, Has, Goto, Answer,
                      cacheVars, TInv, TypeOK
  <2>3. ASSUME TableStep \/ Expire \/ UNCHANGED vars
        PROVE  UNCHANGED <<known, pc>>
    BY <2>3 DEF TableStep, SignUp, Fresh, Expire, vars, cacheVars
  <2> QED
    BY <2>1, <2>2, <2>3 DEF Next, TableStep, FileStep, CacheStep
<1>4. ASSUME entry' # entry PROVE entry' \notin PutsDone
  <2>1. ASSUME NEW r \in Request, CachePut(r) PROVE entry' \notin PutsDone
    BY <2>1 DEF CachePut, Begin, PutsDone, TInv, StepFitsKind, None
  <2>2. ASSUME NEW r \in Request, Compute(r) PROVE entry' \notin PutsDone
    BY <2>2, InfraAssumption DEF Compute, PutsDone
  <2>3. ASSUME Expire PROVE entry' \notin PutsDone
    BY <2>3, InfraAssumption DEF Expire, PutsDone
  <2>4. ASSUME NEW r \in Request, ~ CachePut(r), ~ Compute(r), CacheStep(r)
        PROVE  UNCHANGED entry
    BY <2>4 DEF CacheStep, CacheGet, Remember, Has, cacheVars
  <2>5. ASSUME NEW r \in Request, FileStep(r) \/ Refuse(r) PROVE UNCHANGED entry
    BY <2>5 DEF FileStep, Refuse, StoragePut, UploadProfileImage, StoreImage, Url, InfoExists,
                InfoSize, StorageDelete, cacheVars
  <2>6. ASSUME TableStep \/ UNCHANGED vars PROVE UNCHANGED entry
    BY <2>6 DEF TableStep, SignUp, Fresh, vars, cacheVars
  <2> QED
    BY <1>4, <2>1, <2>2, <2>3, <2>4, <2>5, <2>6 DEF Next, TableStep, FileStep, CacheStep
<1>5. CASE ~ Remember(q)
  BY <1>1, <1>3, <1>4, <1>5 DEF PutAccount
<1> QED
  BY <1>2, <1>5

\* A remember() replaces a value that was put only if it looked before the put.
THEOREM PutKept == Spec => RememberKeepsPut
<1>1. TInv /\ PutAccount /\ [Next]_vars =>
        [entry' = Computed /\ entry \in Request =>
           \E r \in Request : entry \notin known[r] /\ pc[r] = "compute" /\ pc'[r] = "has"]_vars
  <2> SUFFICES ASSUME TInv, PutAccount, Next, entry' = Computed, entry \in Request
               PROVE  \E r \in Request : entry \notin known[r] /\ pc[r] = "compute" /\ pc'[r] = "has"
    OBVIOUS
  <2>1. Computed \notin Request /\ None # Computed
    BY InfraAssumption DEF None, Computed
  <2>2. \E r \in Request : Compute(r)
    BY <2>1 DEF Next, SignUp, Fresh, Expire, Refuse, StoragePut, UploadProfileImage, StoreImage, Url, InfoExists,
                InfoSize, StorageDelete, CacheGet, CachePut, Remember, Has, cacheVars
  <2> QED
    BY <2>2 DEF Compute, Goto, PutAccount, TInv, TypeOK
<1> QED
  BY TypeInit, TypeStep, PutInit, PutStep, <1>1, PTL DEF Spec, RememberKeepsPut

=============================================================================
