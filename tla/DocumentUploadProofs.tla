------------------------ MODULE DocumentUploadProofs ------------------------
(***************************************************************************)
(* What DocumentUpload keeps for every set of users and sessions, every    *)
(* number of chunks and every bound.                                       *)
(***************************************************************************)
EXTENDS DocumentUpload, FiniteSetTheorems, TLAPS

(***************************************************************************)
(* Choices and counts.                                                     *)
(***************************************************************************)
(* A set of natural numbers that is not empty has a least one.             *)
LEMMA Least ==
  ASSUME NEW S \in SUBSET Nat, S # {}
  PROVE  \E x \in S : \A y \in S : x <= y
<1> DEFINE R == OpToRel(<, Nat)
<1>1. IsWellFoundedOn(R, Nat)
  BY NatLessThanWellFounded
<1>2. \A x, y \in Nat : y < x => <<y, x>> \in R
  BY DEF OpToRel
<1> HIDE DEF R
<1>3. PICK x \in S : \A y \in S : ~(<<y, x>> \in R)
  BY <1>1, WFMin
<1>4. ASSUME NEW y \in S
      PROVE  x <= y
  <2>1. x \in Nat /\ y \in Nat
    OBVIOUS
  <2>2. ~(y < x)
    BY <1>2, <1>3, <2>1, Zenon
  <2> QED
    BY <2>1, <2>2
<1> QED
  BY <1>4

(* The least chunk of a set that is not empty is one of them.              *)
LEMMA MinIn ==
  ASSUME NEW S \in SUBSET Index, S # {}
  PROVE  Min(S) \in S
<1>1. S \in SUBSET Nat
  BY UploadAssumption DEF Index
<1>2. \E x \in S : \A y \in S : x <= y
  BY <1>1, Least
<1> QED
  BY <1>2 DEF Min

(* There is a newest among rows, and it is one of them.                    *)
LEMMA NewestIn ==
  ASSUME NEW rs \in SUBSET Row, rs # {}
  PROVE  Newest(rs) \in rs
<1> DEFINE S == {MaxRows - r.id : r \in rs}
<1>1. S \in SUBSET Nat /\ S # {}
  BY UploadAssumption DEF Row
<1> HIDE DEF S
<1>2. PICK x \in S : \A y \in S : x <= y
  BY <1>1, Least
<1>3. PICK r \in rs : x = MaxRows - r.id
  BY <1>2 DEF S
<1>4. ASSUME NEW q \in rs
      PROVE  q.id <= r.id
  <2>1. x <= MaxRows - q.id
    BY <1>2 DEF S
  <2>2. q.id \in Nat /\ r.id \in Nat
    BY DEF Row
  <2> QED
    BY <1>3, <2>1, <2>2, UploadAssumption
<1> QED
  BY <1>4 DEF Newest

(* As many chunk rows as the content has chunks are all of them.           *)
LEMMA CompleteIsAll ==
  ASSUME NEW s \in Session, snap[s] \in Snapshot, Complete(s)
  PROVE  snap[s].chunks = Index
<1>1. IsFiniteSet(Index) /\ Cardinality(Index) = TotalChunks
  BY FS_Interval, UploadAssumption DEF Index
<1>2. snap[s].chunks \in SUBSET Index
  BY DEF Snapshot
<1>3. /\ IsFiniteSet(snap[s].chunks)
      /\ Cardinality(snap[s].chunks) <= TotalChunks
      /\ Cardinality(snap[s].chunks) = TotalChunks => snap[s].chunks = Index
  BY <1>1, <1>2, FS_Subset
<1>4. Cardinality(snap[s].chunks) \in Nat
  BY <1>3, FS_CardinalityType
<1> QED
  BY <1>3, <1>4, UploadAssumption DEF Complete

(***************************************************************************)
(* What a step of request s leaves to the others.                          *)
(***************************************************************************)
Others(s) ==
  \A r \in Session \ {s} :
    /\ pc'[r] = pc[r] /\ who'[r] = who[r] /\ snap'[r] = snap[r]
    /\ arg'[r] = arg[r] /\ todo'[r] = todo[r]

(* A lock is kept or taken when nobody else has it.                        *)
Holds(s) ==
  pc'[s] \in Merging =>
    /\ pc[s] # "idle" /\ who'[s] = who[s] /\ snap'[s] = snap[s] /\ arg'[s] = arg[s]
    /\ CanUpdate(s, arg[s])

(* Rows are new or were there; a committed one stays unless nobody holds   *)
(* it, and only a merge about to commit completes one.                     *)
RowsKept(s) ==
  /\ nextId <= nextId'
  /\ \A r \in rows' :
       \/ nextId <= r.id /\ r.status # "COMPLETED"
       \/ \E q \in WithId(rows, r.id) :
            /\ q.user = r.user
            /\ q.by = Committed => r.by = Committed
            /\ r.status = "COMPLETED" => q.status = "COMPLETED" \/ pc[s] = "commit"
  /\ \A q \in rows : q.by = Committed /\ ~CanUpdate(s, q.id) =>
       \E r \in WithId(rows', q.id) : r.by = Committed /\ r.user = q.user

(* Objects are removed by those that sweep them, chunk rows come of those  *)
(* that stored the object, and a chunk stored while it is swept is marked. *)
StoreKept(s) ==
  /\ \A i \in objects \ objects' : pc[s] \in {"sweep", "sweepAll"} /\ i \in todo[s]
  /\ chunks' \subseteq chunks \cup Stored
  /\ \A i \in Stored' \ Stored : Removing(i) => i \in exposed'
  /\ exposed \subseteq exposed'
  /\ merged' \in {merged, Index} \/ (deleted /\ merged' = {})
  /\ deleted => deleted'

(* Then what holds of another request still holds of it.                   *)
LEMMA OthersKept ==
  ASSUME Inv, NEW s \in Session, Others(s), Holds(s), RowsKept(s), StoreKept(s),
         TypeOK', NEW r \in Session \ {s}
  PROVE  RequestOK(r)'
<1>1. /\ pc'[r] = pc[r] /\ who'[r] = who[r] /\ snap'[r] = snap[r]
      /\ arg'[r] = arg[r] /\ todo'[r] = todo[r]
  BY DEF Others
<1>2. RequestOK(r) /\ RequestOK(s)
  BY DEF Inv
<1>3. LocalsOK(r)'
  BY <1>1, <1>2 DEF RequestOK, LocalsOK, WithId
<1>4. SnapOK(r)'
  <2>1. SUFFICES ASSUME pc[r] # "idle", NEW q \in snap[r].rows
                 PROVE  /\ q.id < nextId'
                        /\ \A x \in WithId(rows', q.id) : x.by = Committed /\ x.user = q.user
    BY <1>1 DEF SnapOK
  <2>2. /\ q.id < nextId
        /\ \A x \in WithId(rows, q.id) : x.by = Committed /\ x.user = q.user
    BY <1>2, <2>1 DEF RequestOK, SnapOK
  <2>3. q.id \in Nat /\ nextId \in Nat /\ nextId' \in Nat
    BY <1>2, <2>1 DEF RequestOK, LocalsOK, Snapshot, Row, Inv, TypeOK
  <2>4. q.id < nextId'
    BY <2>2, <2>3 DEF RowsKept
  <2>5. ASSUME NEW x \in WithId(rows', q.id)
        PROVE  x.by = Committed /\ x.user = q.user
    <3>1. x \in rows' /\ x.id = q.id
      BY <2>5 DEF WithId
    <3>2. PICK y \in WithId(rows, q.id) : y.user = x.user /\ (y.by = Committed => x.by = Committed)
      BY <2>2, <2>3, <3>1 DEF RowsKept
    <3> QED
      BY <2>2, <3>2
  <2> QED
    BY <2>4, <2>5
<1>5. LockOK(r)'
  <2>1. SUFFICES ASSUME pc[r] \in Merging
                 PROVE  LockOK(r)'
    BY <1>1 DEF LockOK
  <2>2. \E q \in WithId(rows', arg[r]) : q.by = Committed /\ q.user = who[r]
    BY <1>2, <2>1 DEF RequestOK, LockOK, CanUpdate, RowsKept, WithId
  <2>3. ASSUME NEW t \in Session \ {r}, pc'[t] \in Merging, arg'[t] = arg[r]
        PROVE  FALSE
    BY <1>1, <1>2, <2>1, <2>3 DEF RequestOK, LockOK, CanUpdate, Others, Holds
  <2> QED
    BY <1>1, <2>2, <2>3 DEF LockOK, CanUpdate
<1>6. FileOK(r)'
  BY <1>1, <1>2 DEF RequestOK, FileOK, StoreKept
<1>7. ChunksOK(r)'
  <2>1. pc[r] = "save" => arg[r] \in objects' \cup exposed'
    BY <1>2 DEF RequestOK, ChunksOK, StoreKept, Stored
  <2>2. ASSUME pc[r] \in {"sweep", "sweepAll"}, NEW i \in todo[r],
               i \in chunks' \cup Stored'
        PROVE  i \in exposed'
    <3>1. i \in chunks \cup Stored => i \in exposed
      BY <1>2, <2>2 DEF RequestOK, ChunksOK
    <3>2. Removing(i)
      BY <2>2 DEF Removing
    <3> QED
      BY <2>2, <3>1, <3>2 DEF StoreKept
  <2> QED
    BY <1>1, <2>1, <2>2 DEF ChunksOK
<1> QED
  BY <1>3, <1>4, <1>5, <1>6, <1>7 DEF RequestOK

(* A step like this keeps the invariant when it keeps the types, the ids   *)
(* and what is said of its own request.                                    *)
LEMMA StepKeeps ==
  ASSUME Inv, NEW s \in Session, Others(s), Holds(s), RowsKept(s), StoreKept(s),
         TypeOK', IdsOK', RequestOK(s)'
  PROVE  Inv'
<1>1. \A r \in Session : RequestOK(r)'
  BY OthersKept
<1>2. MergedWhole'
  BY DEF Inv, MergedWhole, StoreKept
<1>3. CompletedHasFile'
  <2>1. ASSUME NEW r \in rows', r.status = "COMPLETED"
        PROVE  merged = Index \/ deleted
    BY <2>1 DEF Inv, CompletedHasFile, RowsKept, RequestOK, FileOK, WithId
  <2> QED
    BY <2>1 DEF CompletedHasFile, StoreKept
<1>4. ChunkRowHasObject'
  <2>1. ASSUME NEW i \in chunks', i \notin objects'
        PROVE  i \in exposed'
    <3>1. i \in objects \cup exposed
      BY DEF Inv, ChunkRowHasObject, RequestOK, ChunksOK, StoreKept, Stored
    <3>2. CASE i \in exposed
      BY <3>2 DEF StoreKept
    <3>3. CASE i \in objects
      <4>1. pc[s] \in {"sweep", "sweepAll"} /\ i \in todo[s]
        BY <2>1, <3>3 DEF StoreKept
      <4> QED
        BY <4>1 DEF Inv, RequestOK, ChunksOK, StoreKept
    <3> QED
      BY <3>1, <3>2, <3>3
  <2> QED
    BY <2>1 DEF ChunkRowHasObject
<1> QED
  BY <1>1, <1>2, <1>3, <1>4 DEF Inv

(***************************************************************************)
(* The steps.                                                              *)
(***************************************************************************)
(* Nobody who is not about to insert becomes one, and no row is new.       *)
LEMMA IdsKept ==
  ASSUME Inv, TypeOK', NEW s \in Session, Others(s), pc'[s] # "ensure",
         nextId' = nextId, \A r \in rows' : \E q \in rows : q.id = r.id
  PROVE  IdsOK'
<1>1. Ensuring' \subseteq Ensuring /\ Ensuring \subseteq Session
  BY DEF Ensuring, Others
<1>2. IsFiniteSet(Ensuring) /\ IsFiniteSet(Ensuring')
  BY <1>1, FS_Subset, UploadAssumption
<1>3. /\ Cardinality(Ensuring') <= Cardinality(Ensuring)
      /\ Cardinality(Ensuring') \in Nat /\ Cardinality(Ensuring) \in Nat
  BY <1>1, <1>2, FS_Subset, FS_CardinalityType
<1> QED
  BY <1>3, UploadAssumption DEF IdsOK, Inv, TypeOK

(* Rows of which some were taken away, marked as committed or marked as    *)
(* not completed.                                                          *)
Reduced(rs, s) ==
  /\ rs \subseteq Row
  /\ \A q, r \in rs : q.user = r.user \/ q.id = r.id => q = r
  /\ \A r \in rs : \E q \in WithId(rows, r.id) :
       /\ q.user = r.user
       /\ q.by = Committed => r.by = Committed
       /\ r.status = "COMPLETED" => q.status = "COMPLETED" \/ pc[s] = "commit"
  /\ \A q \in rows : q.by = Committed =>
       \E r \in WithId(rs, q.id) : r.by = Committed /\ r.user = q.user

LEMMA ReducedSame ==
  ASSUME Inv, NEW s
  PROVE  Reduced(rows, s)
BY DEF Inv, TypeOK, Reduced, WithId

LEMMA ReducedRollback ==
  ASSUME Inv, NEW s \in Session, Rollback(s)
  PROVE  Reduced(rows', s)
BY UploadAssumption DEF Inv, TypeOK, Reduced, WithId, Rollback

LEMMA ReducedCommit ==
  ASSUME Inv, NEW s \in Session, Commit(s, rows)
  PROVE  Reduced(rows', s)
<1> DEFINE f(r) == IF r.by = s THEN [r EXCEPT !.by = Committed] ELSE r
<1>1. \A r \in rows : r \in Row
  BY DEF Inv, TypeOK
<1>2. \A r \in Row : /\ f(r) \in Row /\ f(r).id = r.id /\ f(r).user = r.user
                     /\ f(r).status = r.status
                     /\ r.by = Committed => f(r).by = Committed
  BY UploadAssumption DEF Row
<1>3. rows' = {f(r) : r \in rows}
  BY DEF Commit
<1>4. \A q, r \in rows : q.user = r.user \/ q.id = r.id => q = r
  BY DEF Inv, TypeOK
<1> HIDE DEF f
<1> QED
  BY <1>1, <1>2, <1>3, <1>4 DEF Reduced, WithId

LEMMA ReducedStatus ==
  ASSUME Inv, NEW s \in Session, NEW status \in {"UPLOADING", "COMPLETED"},
         status = "COMPLETED" => pc[s] = "commit",
         NEW id, SetStatus(id, status)
  PROVE  Reduced(rows', s)
<1> DEFINE f(r) == IF r.id = id THEN [r EXCEPT !.status = status] ELSE r
<1>1. \A r \in rows : r \in Row
  BY DEF Inv, TypeOK
<1>2. \A r \in Row : /\ f(r) \in Row /\ f(r).id = r.id /\ f(r).user = r.user
                     /\ f(r).by = r.by
                     /\ f(r).status = "COMPLETED" =>
                          r.status = "COMPLETED" \/ pc[s] = "commit"
  BY DEF Row
<1>3. rows' = {f(r) : r \in rows}
  BY DEF SetStatus
<1>4. \A q, r \in rows : q.user = r.user \/ q.id = r.id => q = r
  BY DEF Inv, TypeOK
<1> HIDE DEF f
<1> QED
  BY <1>1, <1>2, <1>3, <1>4 DEF Reduced, WithId

(* The end of a request, whatever it takes back or commits.                *)
LEMMA EndKeeps ==
  ASSUME Inv, NEW s \in Session, pc[s] # "idle", EndRequest(s), Reduced(rows', s),
         nextId' = nextId, chunks' \subseteq chunks \cup Stored,
         objects' = objects, merged' = merged \/ (deleted /\ merged' = {}),
         UNCHANGED history, faults' \in 0..MaxFaults
  PROVE  Inv'
<1>1. /\ pc'[s] = "idle" /\ who'[s] = NoUser /\ snap'[s] = NoSnap
      /\ arg'[s] = 0 /\ todo'[s] = {}
  BY DEF EndRequest, Goto, Inv, TypeOK
<1>2. Others(s)
  BY DEF Others, EndRequest, Goto, Inv, TypeOK
<1>3. TypeOK'
  <2>1. /\ pc' \in [Session -> Place] /\ who' \in [Session -> User \cup {NoUser}]
        /\ snap' \in [Session -> Snapshot \cup {NoSnap}]
        /\ arg' \in [Session -> Nat] /\ todo' \in [Session -> SUBSET Index]
    BY DEF EndRequest, Goto, Inv, TypeOK, Place
  <2>2. \A r \in Session : pc[r] = "save" => arg[r] \in Index
    BY DEF Inv, RequestOK, LocalsOK
  <2>3. Stored \subseteq Index
    BY <2>2 DEF Stored
  <2>4. /\ chunks' \subseteq Index /\ objects' \subseteq Index /\ merged' \subseteq Index
        /\ deleted' \in BOOLEAN /\ exposed' \subseteq Index
        /\ nextId' \in 1..(MaxRows + 1)
    BY <2>3 DEF Inv, TypeOK, history
  <2> QED
    BY <2>1, <2>4 DEF TypeOK, Reduced
<1>4. RowsKept(s)
  BY DEF Reduced, RowsKept, Inv, TypeOK
<1>5. StoreKept(s)
  <2>1. Stored' \subseteq Stored
    BY <1>1, <1>2 DEF Stored, Others
  <2> QED
    BY <2>1 DEF StoreKept, history
<1>6. IdsOK'
  BY <1>1, <1>2, <1>3, IdsKept DEF Reduced, WithId
<1>7. RequestOK(s)'
  BY <1>1 DEF RequestOK, LocalsOK, SnapOK, LockOK, FileOK, ChunksOK, Merging
<1>8. Holds(s)
  BY <1>1 DEF Holds, Merging
<1> QED
  BY <1>2, <1>3, <1>4, <1>5, <1>6, <1>7, <1>8, StepKeeps

(* A request goes on and leaves the tables and the store as they are.      *)
LEMMA MoveKeeps ==
  ASSUME Inv, TypeOK', NEW s \in Session, Others(s), Holds(s), RequestOK(s)',
         pc'[s] \notin {"ensure", "save"}, UNCHANGED <<tables, store, history>>
  PROVE  Inv'
<1>1. RowsKept(s)
  BY DEF RowsKept, WithId, tables, Inv, TypeOK
<1>2. StoreKept(s)
  <2>1. Stored' \subseteq Stored
    BY DEF Stored, Others
  <2>2. /\ chunks' = chunks /\ objects' = objects /\ merged' = merged
        /\ deleted' = deleted /\ exposed' = exposed
    BY DEF tables, store, history
  <2> QED
    BY <2>1, <2>2 DEF StoreKept
<1>3. IdsOK'
  BY IdsKept DEF tables
<1> QED
  BY <1>1, <1>2, <1>3, StepKeeps

LEMMA BeginKeeps ==
  ASSUME Inv, NEW s \in Session, Begin(s)
  PROVE  Inv'
<1> DEFINE seen == {r \in rows : r.by = Committed}
<1>1. PICK u \in User : who' = [who EXCEPT ![s] = u]
  BY DEF Begin
<1>2. [rows |-> seen, chunks |-> chunks] \in Snapshot
  BY DEF Snapshot, Inv, TypeOK
<1>3. /\ pc'[s] = "open" /\ who'[s] \in User
      /\ snap'[s] = [rows |-> seen, chunks |-> chunks]
  BY <1>1 DEF Begin, Goto, Inv, TypeOK
<1>4. Others(s)
  BY <1>1 DEF Others, Begin, Goto, Inv, TypeOK
<1>5. TypeOK'
  BY <1>1, <1>2 DEF TypeOK, Begin, Goto, Inv, Place, tables, store, history
<1>6. RequestOK(s)'
  <2>1. LocalsOK(s)'
    BY <1>2, <1>3 DEF LocalsOK, Merging
  <2>2. SnapOK(s)'
    BY <1>3 DEF SnapOK, WithId, Begin, tables, Inv, TypeOK, IdsOK
  <2> QED
    BY <1>3, <2>1, <2>2 DEF RequestOK, LockOK, FileOK, ChunksOK, Merging
<1>7. Holds(s)
  BY <1>3 DEF Holds, Merging
<1> QED
  BY <1>3, <1>4, <1>5, <1>6, <1>7, MoveKeeps DEF Begin

LEMMA CloseKeeps ==
  ASSUME Inv, NEW s \in Session, Close(s)
  PROVE  Inv'
<1>1. /\ pc[s] # "idle" /\ EndRequest(s) /\ Rollback(s)
      /\ nextId' = nextId /\ chunks' = chunks /\ objects' = objects /\ merged' = merged
      /\ UNCHANGED history /\ faults' = faults
  BY DEF Close, store
<1>2. faults' \in 0..MaxFaults
  BY <1>1 DEF Inv, TypeOK
<1> QED
  BY <1>1, <1>2, ReducedRollback, EndKeeps

LEMMA AbortKeeps ==
  ASSUME Inv, NEW s \in Session, Abort(s)
  PROVE  Inv'
<1>1. faults' \in 0..MaxFaults
  BY UploadAssumption DEF Abort, Fail, Inv, TypeOK
<1>2. /\ pc[s] # "idle" /\ EndRequest(s) /\ Rollback(s)
      /\ nextId' = nextId /\ chunks' = chunks /\ objects' = objects /\ merged' = merged
      /\ UNCHANGED history
  BY DEF Abort, store
<1> QED
  BY <1>1, <1>2, ReducedRollback, EndKeeps

LEMMA UploadStartKeeps ==
  ASSUME Inv, NEW s \in Session, UploadStart(s)
  PROVE  Inv'
<1>1. PICK i \in Index : arg' = [arg EXCEPT ![s] = i]
  BY DEF UploadStart
<1>2. i \in Nat
  BY UploadAssumption DEF Index
<1>3. pc[s] = "open" /\ pc'[s] = "ensure" /\ arg'[s] = i
  BY <1>1 DEF UploadStart, Goto, Inv, TypeOK
<1>4. Others(s)
  BY <1>1 DEF Others, UploadStart, Goto, Inv, TypeOK
<1>5. TypeOK'
  BY <1>1, <1>2 DEF TypeOK, UploadStart, Goto, Inv, Place, tables, store, history
<1>6. RequestOK(s)'
  BY <1>1, <1>3 DEF Inv, RequestOK, LocalsOK, SnapOK, LockOK, FileOK, ChunksOK,
                    Merging, WithId, UploadStart, tables
<1>7. Holds(s)
  BY <1>3 DEF Holds, Merging
<1>8. IdsOK'
  <2>1. Ensuring' = Ensuring \cup {s} /\ s \notin Ensuring
    BY <1>3, <1>4 DEF Ensuring, Others
  <2>2. Ensuring \subseteq Session
    BY DEF Ensuring
  <2>3. IsFiniteSet(Ensuring) /\ Cardinality(Ensuring) \in Nat
    BY <2>2, FS_Subset, FS_CardinalityType, UploadAssumption
  <2>4. Cardinality(Ensuring') = Cardinality(Ensuring) + 1
    BY <2>1, <2>3, FS_AddElement
  <2>5. nextId + Cardinality(Ensuring) <= MaxRows
    BY DEF UploadStart, Ensuring
  <2>6. nextId + Cardinality(Ensuring') <= MaxRows + 1
    BY <2>3, <2>4, <2>5, UploadAssumption DEF Inv, TypeOK
  <2> QED
    BY <2>6 DEF IdsOK, Inv, UploadStart, tables
<1>9. RowsKept(s)
  BY DEF RowsKept, WithId, UploadStart, tables, Inv, TypeOK
<1>10. StoreKept(s)
  <2>1. Stored' \subseteq Stored
    BY <1>3, <1>4 DEF Stored, Others
  <2>2. /\ chunks' = chunks /\ objects' = objects /\ merged' = merged
        /\ deleted' = deleted /\ exposed' = exposed
    BY DEF UploadStart, tables, store, history
  <2> QED
    BY <2>1, <2>2 DEF StoreKept
<1> QED
  BY <1>4, <1>5, <1>6, <1>7, <1>8, <1>9, <1>10, StepKeeps

LEMMA EnsureKeeps ==
  ASSUME Inv, NEW s \in Session, Ensure(s)
  PROVE  Inv'
<1> DEFINE new == [id |-> nextId, user |-> who[s], status |-> "UPLOADING", by |-> s]
<1>1. pc[s] = "ensure" /\ pc'[s] = "read"
  BY DEF Ensure, Goto, Inv, TypeOK
<1>2. Others(s)
  BY DEF Others, Ensure, Goto, Inv, TypeOK
<1>3. s \in Ensuring /\ Ensuring' = Ensuring \ {s}
  BY <1>1, <1>2 DEF Ensuring, Others
<1>4. /\ IsFiniteSet(Ensuring) /\ Cardinality(Ensuring) \in Nat
      /\ Cardinality(Ensuring') \in Nat
      /\ Cardinality(Ensuring') = Cardinality(Ensuring) - 1
  <2>1. Ensuring \subseteq Session
    BY DEF Ensuring
  <2>2. IsFiniteSet(Ensuring)
    BY <2>1, FS_Subset, UploadAssumption
  <2> QED
    BY <1>3, <2>2, FS_RemoveElement, FS_CardinalityType
<1>5. nextId \in 1..MaxRows
  BY <1>4, UploadAssumption DEF Inv, IdsOK, TypeOK
<1>6. new \in Row
  BY <1>1, <1>5 DEF Row, Inv, RequestOK, LocalsOK
<1>7. \/ rows' = rows /\ nextId' = nextId
      \/ /\ rows' = rows \cup {new} /\ nextId' = nextId + 1
         /\ \A r \in rows : r.user # who[s]
  BY DEF Ensure, InsertRow, RowsOf
<1> HIDE DEF new
<1>8. new.id = nextId /\ new.user = who[s] /\ new.status = "UPLOADING"
  BY DEF new
<1>9. \A r \in rows : r.id < nextId /\ r \in Row
  BY DEF Inv, IdsOK, TypeOK
<1>10. TypeOK'
  <2>1. /\ rows' \subseteq Row
        /\ nextId' \in 1..(MaxRows + 1)
    BY <1>5, <1>6, <1>7, UploadAssumption DEF Inv, TypeOK
  <2>2. \A q, r \in rows' : q.user = r.user \/ q.id = r.id => q = r
    BY <1>7, <1>8, <1>9, <1>5 DEF Inv, TypeOK, Row
  <2> QED
    BY <2>1, <2>2 DEF TypeOK, Ensure, Goto, Inv, Place, store, history
<1>11. IdsOK'
  BY <1>4, <1>5, <1>6, <1>7, <1>8, <1>9, UploadAssumption DEF IdsOK, Inv, Row
<1>12. RowsKept(s)
  BY <1>5, <1>7, <1>8 DEF RowsKept, WithId
<1>13. StoreKept(s)
  <2>1. Stored' \subseteq Stored
    BY <1>1, <1>2 DEF Stored, Others
  <2>2. /\ chunks' = chunks /\ objects' = objects /\ merged' = merged
        /\ deleted' = deleted /\ exposed' = exposed
    BY DEF Ensure, store, history
  <2> QED
    BY <2>1, <2>2 DEF StoreKept
<1>14. RequestOK(s)'
  <2>1. LocalsOK(s)'
    BY <1>1 DEF Inv, RequestOK, LocalsOK, Merging, Ensure
  <2>2. SnapOK(s)'
    <3>1. ASSUME NEW q \in snap[s].rows
          PROVE  /\ q.id < nextId'
                 /\ \A r \in WithId(rows', q.id) : r.by = Committed /\ r.user = q.user
      <4>1. /\ q.id < nextId
            /\ \A r \in WithId(rows, q.id) : r.by = Committed /\ r.user = q.user
        BY <1>1 DEF Inv, RequestOK, SnapOK
      <4>2. q.id \in Nat
        BY <1>1 DEF Inv, RequestOK, LocalsOK, Snapshot, Row
      <4> QED
        BY <1>5, <1>7, <1>8, <4>1, <4>2 DEF WithId
    <3> QED
      BY <1>1, <3>1 DEF SnapOK, Ensure
  <2> QED
    BY <1>1, <2>1, <2>2 DEF RequestOK, LockOK, FileOK, ChunksOK, Merging
<1>15. Holds(s)
  BY <1>1 DEF Holds, Merging
<1> QED
  BY <1>2, <1>10, <1>11, <1>12, <1>13, <1>14, <1>15, StepKeeps

LEMMA ReadRowKeeps ==
  ASSUME Inv, NEW s \in Session, ReadRow(s)
  PROVE  Inv'
<1>1. /\ pc[s] = "read" /\ nextId' = nextId /\ chunks' = chunks
      /\ objects' = objects /\ merged' = merged
      /\ UNCHANGED <<store, history>> /\ faults' = faults
  BY DEF ReadRow, store
<1>2. CASE EndRequest(s) /\ Rollback(s)
  <2>1. faults' \in 0..MaxFaults
    BY <1>1 DEF Inv, TypeOK
  <2> QED
    BY <1>1, <1>2, <2>1, ReducedRollback, EndKeeps
<1>3. CASE (Goto(s, "noRecord") \/ Goto(s, "put")) /\ UNCHANGED <<rows, who, snap, arg, todo>>
  <2>1. pc'[s] \in {"noRecord", "put"}
    BY <1>3 DEF Goto, Inv, TypeOK
  <2>2. Others(s)
    BY <1>3 DEF Others, Goto, Inv, TypeOK
  <2>3. TypeOK'
    BY <1>1, <1>3 DEF TypeOK, Inv, Goto, Place, history
  <2>4. RequestOK(s)'
    BY <1>1, <1>3, <2>1 DEF Inv, RequestOK, LocalsOK, SnapOK, LockOK, FileOK, ChunksOK, Merging
  <2>5. Holds(s)
    BY <2>1 DEF Holds, Merging
  <2> QED
    BY <1>1, <1>3, <2>1, <2>2, <2>3, <2>4, <2>5, MoveKeeps DEF tables
<1> QED
  BY <1>2, <1>3 DEF ReadRow

LEMMA PutChunkKeeps ==
  ASSUME Inv, NEW s \in Session, PutChunk(s)
  PROVE  Inv'
<1>1. /\ pc[s] = "put" /\ pc'[s] = "save" /\ arg'[s] = arg[s] /\ arg[s] \in Index
      /\ objects' = objects \cup {arg[s]}
      /\ exposed' \in {exposed, exposed \cup {arg[s]}}
      /\ Removing(arg[s]) => arg[s] \in exposed'
      /\ rows' = rows /\ nextId' = nextId /\ chunks' = chunks
      /\ merged' = merged /\ deleted' = deleted
  BY DEF PutChunk, Goto, tables, Inv, TypeOK, RequestOK, LocalsOK
<1>2. Others(s)
  BY DEF Others, PutChunk, Goto, Inv, TypeOK
<1>3. TypeOK'
  BY <1>1 DEF TypeOK, PutChunk, Goto, Inv, Place
<1>4. Stored' \subseteq Stored \cup {arg[s]}
  BY <1>1, <1>2 DEF Stored, Others
<1>5. RowsKept(s)
  BY <1>1 DEF RowsKept, WithId, Inv, TypeOK
<1>6. StoreKept(s)
  BY <1>1, <1>4 DEF StoreKept
<1>7. IdsOK'
  BY <1>1, <1>2, <1>3, IdsKept
<1>8. RequestOK(s)'
  BY <1>1 DEF Inv, RequestOK, LocalsOK, SnapOK, LockOK, FileOK, ChunksOK, Merging, PutChunk
<1>9. Holds(s)
  BY <1>1 DEF Holds, Merging
<1> QED
  BY <1>2, <1>3, <1>5, <1>6, <1>7, <1>8, <1>9, StepKeeps

LEMMA SaveChunkKeeps ==
  ASSUME Inv, NEW s \in Session, SaveChunk(s)
  PROVE  Inv'
<1>1. /\ pc[s] = "save" /\ EndRequest(s) /\ Commit(s, rows)
      /\ nextId' = nextId /\ chunks' = chunks \cup {arg[s]}
      /\ objects' = objects /\ merged' = merged
      /\ UNCHANGED history /\ faults' = faults
  BY DEF SaveChunk, store
<1>2. faults' \in 0..MaxFaults
  BY <1>1 DEF Inv, TypeOK
<1>3. chunks' \subseteq chunks \cup Stored
  BY <1>1 DEF Stored
<1> QED
  BY <1>1, <1>2, <1>3, ReducedCommit, EndKeeps

LEMMA MergeStartKeeps ==
  ASSUME Inv, NEW s \in Session, MergeStart(s)
  PROVE  Inv'
<1> DEFINE mine == RowsOf(snap[s].rows, who[s])
           row == Newest(mine)
<1>1. pc[s] = "open" /\ snap[s] \in Snapshot
  BY DEF MergeStart, Inv, RequestOK, LocalsOK
<1>2. snap[s].chunks = Index
  BY <1>1, CompleteIsAll DEF MergeStart
<1>3. mine \in SUBSET Row /\ mine # {}
  BY <1>1 DEF MergeStart, RowsOf, Snapshot
<1>4. row \in mine
  BY <1>3, NewestIn
<1>5. row \in snap[s].rows /\ row \in Row /\ row.user = who[s]
  BY <1>3, <1>4 DEF RowsOf
<1>6. row.status = "UPLOADING" /\ row.id \in Nat
  BY <1>5 DEF MergeStart, MayMerge, Row
<1>7. pc'[s] = "lock" /\ arg'[s] = row.id
  BY <1>6 DEF MergeStart, Goto, Inv, TypeOK
<1>8. Others(s)
  BY DEF Others, MergeStart, Goto, Inv, TypeOK
<1> HIDE DEF row
<1>9. TypeOK'
  <2>1. arg' = [arg EXCEPT ![s] = row.id]
    BY DEF MergeStart, row
  <2> QED
    BY <1>6, <2>1 DEF TypeOK, MergeStart, Goto, Inv, Place, tables, store, history
<1>10. RequestOK(s)'
  <2>1. LocalsOK(s)'
    BY <1>1, <1>2, <1>5, <1>6, <1>7 DEF LocalsOK, Inv, RequestOK, WithId, MergeStart, Merging
  <2>2. SnapOK(s)'
    BY <1>1 DEF SnapOK, Inv, RequestOK, WithId, MergeStart, tables
  <2> QED
    BY <1>7, <2>1, <2>2 DEF RequestOK, LockOK, FileOK, ChunksOK, Merging
<1>11. Holds(s)
  BY <1>7 DEF Holds, Merging
<1> QED
  BY <1>7, <1>8, <1>9, <1>10, <1>11, MoveKeeps DEF MergeStart

LEMMA MergeLockKeeps ==
  ASSUME Inv, NEW s \in Session, MergeLock(s)
  PROVE  Inv'
<1>1. /\ pc[s] = "lock" /\ CanUpdate(s, arg[s])
      /\ UNCHANGED <<tables, store, history, faults>>
  BY DEF MergeLock
<1>2. CASE EndRequest(s)
  <2>1. /\ nextId' = nextId /\ chunks' = chunks /\ rows' = rows
        /\ objects' = objects /\ merged' = merged /\ UNCHANGED history
        /\ faults' \in 0..MaxFaults
    BY <1>1 DEF tables, store, Inv, TypeOK
  <2> QED
    BY <1>1, <1>2, <2>1, ReducedSame, EndKeeps
<1>3. CASE /\ WithId(rows, arg[s]) # {} /\ Goto(s, "check")
           /\ todo' = [todo EXCEPT ![s] = snap[s].chunks]
           /\ UNCHANGED <<who, snap, arg>>
  <2>1. /\ snap[s] \in Snapshot /\ snap[s].chunks = Index
        /\ pc'[s] = "check"
    BY <1>1, <1>3 DEF Goto, Inv, TypeOK, RequestOK, LocalsOK
  <2>2. Others(s)
    BY <1>3 DEF Others, Goto, Inv, TypeOK
  <2>3. TypeOK'
    BY <1>1, <1>3, <2>1 DEF TypeOK, Inv, Goto, Place, tables, store, history
  <2>4. \E r \in WithId(rows, arg[s]) : r.by = Committed /\ r.user = who[s]
    <3>1. PICK q \in snap[s].rows : q.id = arg[s] /\ q.user = who[s]
      BY <1>1 DEF Inv, RequestOK, LocalsOK, WithId
    <3>2. \A r \in WithId(rows, arg[s]) : r.by = Committed /\ r.user = who[s]
      BY <1>1, <3>1 DEF Inv, RequestOK, SnapOK
    <3> QED
      BY <1>3, <3>2
  <2>5. RequestOK(s)'
    <3>1. LocalsOK(s)' /\ SnapOK(s)'
      BY <1>1, <1>3, <2>1 DEF Inv, RequestOK, LocalsOK, SnapOK, WithId, tables, Merging
    <3>2. LockOK(s)'
      BY <1>1, <1>3, <2>2, <2>4 DEF LockOK, CanUpdate, WithId, tables, Others
    <3> QED
      BY <2>1, <3>1, <3>2 DEF RequestOK, FileOK, ChunksOK
  <2>6. Holds(s)
    BY <1>1, <1>3 DEF Holds
  <2> QED
    BY <1>1, <2>1, <2>2, <2>3, <2>5, <2>6, MoveKeeps
<1> QED
  BY <1>2, <1>3 DEF MergeLock

(* The status goes back and the request ends.                              *)
LEMMA RestoreKeeps ==
  ASSUME Inv, NEW s \in Session, pc[s] # "idle", Restore(s),
         nextId' = nextId, chunks' \subseteq chunks, UNCHANGED <<store, history>>,
         faults' \in 0..MaxFaults
  PROVE  Inv'
<1>1. Reduced(rows', s) /\ EndRequest(s)
  BY ReducedStatus DEF Restore
<1>2. objects' = objects /\ merged' = merged /\ UNCHANGED history
  BY DEF store
<1> QED
  BY <1>1, <1>2, EndKeeps

LEMMA CheckChunkKeeps ==
  ASSUME Inv, NEW s \in Session, CheckChunk(s)
  PROVE  Inv'
<1>1. /\ pc[s] = "check" /\ nextId' = nextId /\ chunks' = chunks
      /\ UNCHANGED <<store, history>> /\ faults' = faults
      /\ faults' \in 0..MaxFaults
  BY DEF CheckChunk, Inv, TypeOK
<1>2. CASE Restore(s)
  BY <1>1, <1>2, RestoreKeeps
<1>3. CASE /\ UNCHANGED <<rows, who, snap, arg>>
           /\ \/ Goto(s, "compose") /\ UNCHANGED todo
              \/ todo' = [todo EXCEPT ![s] = @ \ {Min(@)}] /\ UNCHANGED pc
  <2>1. pc'[s] \in {"check", "compose"}
    BY <1>1, <1>3 DEF Goto, Inv, TypeOK
  <2>2. Others(s)
    BY <1>3 DEF Others, Goto, Inv, TypeOK
  <2>3. TypeOK'
    <3>1. todo' \in [Session -> SUBSET Index]
      BY <1>3 DEF Inv, TypeOK
    <3> QED
      BY <1>1, <1>3, <3>1 DEF TypeOK, Inv, Goto, Place, store, history
  <2>4. RequestOK(s)'
    <3>1. LocalsOK(s)' /\ SnapOK(s)'
      BY <1>1, <1>3, <2>1 DEF Inv, RequestOK, LocalsOK, SnapOK, WithId, Merging
    <3>2. LockOK(s)'
      BY <1>1, <1>3, <2>1, <2>2 DEF Inv, RequestOK, LockOK, CanUpdate, WithId, Merging, Others
    <3> QED
      BY <2>1, <3>1, <3>2 DEF RequestOK, FileOK, ChunksOK
  <2>5. Holds(s)
    BY <1>1, <1>3 DEF Holds, Inv, RequestOK, LockOK, Merging
  <2> QED
    BY <1>1, <1>3, <2>1, <2>2, <2>3, <2>4, <2>5, MoveKeeps DEF tables
<1> QED
  BY <1>2, <1>3 DEF CheckChunk

LEMMA ComposeKeeps ==
  ASSUME Inv, NEW s \in Session, Compose(s)
  PROVE  Inv'
<1>1. /\ pc[s] = "compose" /\ nextId' = nextId /\ chunks' = chunks
      /\ objects' = objects /\ UNCHANGED history /\ faults' = faults
      /\ faults' \in 0..MaxFaults
  BY DEF Compose, Inv, TypeOK
<1>2. CASE Restore(s) /\ UNCHANGED merged
  BY <1>1, <1>2, RestoreKeeps DEF store
<1>3. CASE /\ merged' = snap[s].chunks /\ Goto(s, "commit")
           /\ UNCHANGED <<rows, who, snap, arg, todo>>
  <2>1. merged' = Index
    BY <1>1, <1>3 DEF Inv, RequestOK, LocalsOK, Merging
  <2>2. pc'[s] = "commit"
    BY <1>3 DEF Goto, Inv, TypeOK
  <2>3. Others(s)
    BY <1>3 DEF Others, Goto, Inv, TypeOK
  <2>4. TypeOK'
    BY <1>1, <1>3, <2>1 DEF TypeOK, Inv, Goto, Place, history
  <2>5. RowsKept(s)
    BY <1>1, <1>3 DEF RowsKept, WithId, Inv, TypeOK
  <2>6. StoreKept(s)
    <3>1. Stored' \subseteq Stored
      BY <2>2, <2>3 DEF Stored, Others
    <3> QED
      BY <1>1, <2>1, <3>1 DEF StoreKept, history
  <2>7. IdsOK'
    BY <1>1, <1>3, <2>2, <2>3, <2>4, IdsKept
  <2>8. RequestOK(s)'
    <3>1. LocalsOK(s)' /\ SnapOK(s)'
      BY <1>1, <1>3, <2>2 DEF Inv, RequestOK, LocalsOK, SnapOK, WithId, Merging
    <3>2. LockOK(s)'
      BY <1>1, <1>3, <2>2, <2>3 DEF Inv, RequestOK, LockOK, CanUpdate, WithId, Merging, Others
    <3> QED
      BY <2>1, <2>2, <3>1, <3>2 DEF RequestOK, FileOK, ChunksOK
  <2>9. Holds(s)
    BY <1>1, <1>3 DEF Holds, Inv, RequestOK, LockOK, Merging
  <2> QED
    BY <2>3, <2>4, <2>5, <2>6, <2>7, <2>8, <2>9, StepKeeps
<1> QED
  BY <1>2, <1>3 DEF Compose

LEMMA MergeFailKeeps ==
  ASSUME Inv, NEW s \in Session, MergeFail(s)
  PROVE  Inv'
<1>1. faults' \in 0..MaxFaults
  BY UploadAssumption DEF MergeFail, Fail, Inv, TypeOK
<1>2. chunks' \subseteq chunks
  BY DEF MergeFail
<1> QED
  BY <1>1, <1>2, RestoreKeeps DEF MergeFail

LEMMA MergeRestoreKeeps ==
  ASSUME Inv, NEW s \in Session, MergeRestore(s)
  PROVE  Inv'
<1>1. faults' \in 0..MaxFaults
  BY DEF MergeRestore, Inv, TypeOK
<1> QED
  BY <1>1, RestoreKeeps DEF MergeRestore

LEMMA MergeCommitKeeps ==
  ASSUME Inv, NEW s \in Session, MergeCommit(s)
  PROVE  Inv'
<1>1. /\ pc[s] = "commit" /\ pc'[s] = "sweep" /\ SetStatus(arg[s], "COMPLETED")
      /\ chunks' = {} /\ todo'[s] = snap[s].chunks
      /\ exposed' = exposed \cup (Stored \cap snap[s].chunks)
      /\ nextId' = nextId /\ objects' = objects /\ merged' = merged
      /\ UNCHANGED <<who, snap, arg, deleted, faults>>
  BY DEF MergeCommit, Goto, store, Inv, TypeOK
<1>2. Others(s)
  BY DEF Others, MergeCommit, Goto, Inv, TypeOK
<1>3. Reduced(rows', s)
  BY <1>1, ReducedStatus
<1>4. snap[s] \in Snapshot /\ snap[s].chunks \in SUBSET Index
  BY <1>1 DEF Inv, RequestOK, LocalsOK, Snapshot
<1>5. TypeOK'
  <2>1. /\ pc' \in [Session -> Place] /\ todo' \in [Session -> SUBSET Index]
        /\ exposed' \subseteq Index
    BY <1>1, <1>4 DEF MergeCommit, Goto, Inv, TypeOK, Place
  <2> QED
    BY <1>1, <1>3, <2>1 DEF TypeOK, Inv, Reduced
<1>6. Stored' \subseteq Stored
  BY <1>1, <1>2 DEF Stored, Others
<1>7. RowsKept(s)
  BY <1>1, <1>3 DEF RowsKept, Reduced, Inv, TypeOK
<1>8. StoreKept(s)
  BY <1>1, <1>6 DEF StoreKept
<1>9. IdsOK'
  BY <1>1, <1>2, <1>3, <1>5, IdsKept DEF Reduced, WithId
<1>10. RequestOK(s)'
  <2>1. LocalsOK(s)'
    BY <1>1 DEF Inv, RequestOK, LocalsOK, Merging
  <2>2. SnapOK(s)'
    BY <1>1, <1>3 DEF Inv, RequestOK, SnapOK, Reduced, WithId
  <2>3. ChunksOK(s)'
    BY <1>1, <1>6 DEF ChunksOK
  <2> QED
    BY <1>1, <2>1, <2>2, <2>3 DEF RequestOK, LockOK, FileOK, Merging
<1>11. Holds(s)
  BY <1>1 DEF Holds, Merging
<1> QED
  BY <1>2, <1>5, <1>7, <1>8, <1>9, <1>10, <1>11, StepKeeps

(* One object of those to remove is removed, or its removal fails.         *)
LEMMA RemoveFirstKeeps ==
  ASSUME Inv, NEW s \in Session, pc[s] \in {"sweep", "sweepAll"}, todo[s] # {},
         RemoveFirst(s), UNCHANGED <<pc, who, snap, arg, tables, merged, history>>
  PROVE  Inv'
<1> DEFINE first == Min(todo[s])
<1>1. todo[s] \in SUBSET Index
  BY DEF Inv, TypeOK
<1>2. first \in todo[s]
  BY <1>1, MinIn
<1> HIDE DEF first
<1>3. /\ todo' = [todo EXCEPT ![s] = @ \ {first}]
      /\ objects' \in {objects, objects \ {first}}
      /\ faults' \in 0..MaxFaults
  BY UploadAssumption DEF RemoveFirst, Fail, first, Inv, TypeOK
<1>4. /\ todo'[s] \subseteq todo[s]
      /\ todo' \in [Session -> SUBSET Index]
  BY <1>3 DEF Inv, TypeOK
<1>5. Others(s)
  BY <1>3 DEF Others, Inv, TypeOK
<1>6. TypeOK'
  BY <1>3, <1>4 DEF TypeOK, Inv, tables, history
<1>7. Stored' = Stored
  BY DEF Stored
<1>8. RowsKept(s)
  BY DEF RowsKept, WithId, tables, Inv, TypeOK
<1>9. StoreKept(s)
  BY <1>2, <1>3, <1>7 DEF StoreKept, tables, history
<1>10. IdsOK'
  BY <1>5, <1>6, IdsKept DEF tables
<1>11. RequestOK(s)'
  <2>1. LocalsOK(s)' /\ SnapOK(s)'
    BY DEF Inv, RequestOK, LocalsOK, SnapOK, WithId, tables, Merging
  <2>2. ChunksOK(s)'
    BY <1>4, <1>7 DEF Inv, RequestOK, ChunksOK, tables, history
  <2> QED
    BY <2>1, <2>2 DEF RequestOK, LockOK, FileOK, Merging, Inv, history
<1>12. Holds(s)
  BY DEF Holds, Merging
<1> QED
  BY <1>5, <1>6, <1>8, <1>9, <1>10, <1>11, <1>12, StepKeeps

LEMMA SweepKeeps ==
  ASSUME Inv, NEW s \in Session, Sweep(s)
  PROVE  Inv'
<1>1. pc[s] = "sweep" /\ UNCHANGED <<tables, merged, history>>
  BY DEF Sweep
<1>2. CASE todo[s] # {}
  BY <1>1, <1>2, RemoveFirstKeeps DEF Sweep
<1>3. CASE todo[s] = {}
  <2>1. /\ EndRequest(s) /\ objects' = objects /\ merged' = merged
        /\ rows' = rows /\ nextId' = nextId /\ chunks' = chunks
        /\ UNCHANGED history /\ faults' \in 0..MaxFaults
    BY <1>1, <1>3 DEF Sweep, tables, Inv, TypeOK
  <2> QED
    BY <1>1, <2>1, ReducedSame, EndKeeps
<1> QED
  BY <1>2, <1>3

LEMMA SweepAllKeeps ==
  ASSUME Inv, NEW s \in Session, SweepAll(s)
  PROVE  Inv'
<1>1. pc[s] = "sweepAll" /\ UNCHANGED <<tables, history>>
  BY DEF SweepAll
<1>2. CASE todo[s] # {}
  BY <1>1, <1>2, RemoveFirstKeeps DEF SweepAll
<1>3. CASE todo[s] = {}
  <2>1. /\ EndRequest(s) /\ objects' = objects
        /\ merged' = merged \/ (deleted /\ merged' = {})
        /\ rows' = rows /\ nextId' = nextId /\ chunks' = chunks
        /\ UNCHANGED history
    BY <1>1, <1>3 DEF SweepAll, tables, Inv, RequestOK, FileOK
  <2>2. faults' \in 0..MaxFaults
    BY <1>3, UploadAssumption DEF SweepAll, Fail, Inv, TypeOK
  <2> QED
    BY <1>1, <2>1, <2>2, ReducedSame, EndKeeps
<1> QED
  BY <1>2, <1>3

LEMMA DeleteStartKeeps ==
  ASSUME Inv, NEW s \in Session, DeleteStart(s)
  PROVE  Inv'
<1> DEFINE row == Newest(snap[s].rows)
<1>1. pc[s] = "open" /\ snap[s] \in Snapshot /\ snap[s].rows # {}
  BY DEF DeleteStart, Inv, RequestOK, LocalsOK
<1>2. row \in Row
  BY <1>1, NewestIn DEF Snapshot
<1>3. row.id \in Nat /\ arg' = [arg EXCEPT ![s] = row.id]
  BY <1>2 DEF DeleteStart, Row
<1> HIDE DEF row
<1>4. pc'[s] = "delete"
  BY DEF DeleteStart, Goto, Inv, TypeOK
<1>5. Others(s)
  BY <1>3 DEF Others, DeleteStart, Goto, Inv, TypeOK
<1>6. TypeOK'
  BY <1>3 DEF TypeOK, DeleteStart, Goto, Inv, Place, tables, store, history
<1>7. RequestOK(s)'
  BY <1>1, <1>4 DEF Inv, RequestOK, LocalsOK, SnapOK, LockOK, FileOK, ChunksOK, WithId,
                    Merging, DeleteStart, tables
<1>8. Holds(s)
  BY <1>4 DEF Holds, Merging
<1> QED
  BY <1>4, <1>5, <1>6, <1>7, <1>8, MoveKeeps DEF DeleteStart

LEMMA DeleteChunksKeeps ==
  ASSUME Inv, NEW s \in Session, DeleteChunks(s)
  PROVE  Inv'
<1>1. pc[s] = "delete" /\ pc'[s] = "deleteRow"
  BY DEF DeleteChunks, Goto, Inv, TypeOK
<1>2. Others(s)
  BY DEF Others, DeleteChunks, Goto, Inv, TypeOK
<1>3. TypeOK'
  BY DEF TypeOK, DeleteChunks, Goto, Inv, Place, tables, store, history
<1>4. RequestOK(s)'
  BY <1>1 DEF Inv, RequestOK, LocalsOK, SnapOK, LockOK, FileOK, ChunksOK, WithId,
              Merging, DeleteChunks, tables
<1>5. Holds(s)
  BY <1>1 DEF Holds, Merging
<1> QED
  BY <1>1, <1>2, <1>3, <1>4, <1>5, MoveKeeps DEF DeleteChunks

LEMMA DeleteRowKeeps ==
  ASSUME Inv, NEW s \in Session, DeleteRow(s)
  PROVE  Inv'
<1>1. /\ pc[s] = "deleteRow" /\ pc'[s] = "sweepAll" /\ CanUpdate(s, arg[s])
      /\ rows' = {r \in rows : r.id # arg[s]}
      /\ chunks' = {} /\ todo'[s] = snap[s].chunks /\ deleted' = TRUE
      /\ exposed' = exposed \cup (Stored \cap snap[s].chunks)
      /\ nextId' = nextId /\ objects' = objects /\ merged' = merged
      /\ UNCHANGED <<who, snap, arg, faults>>
  BY DEF DeleteRow, CanDelete, WithId, Goto, store, Inv, TypeOK
<1>2. Others(s)
  BY DEF Others, DeleteRow, Goto, Inv, TypeOK
<1>3. snap[s] \in Snapshot /\ snap[s].chunks \in SUBSET Index
  BY <1>1 DEF Inv, RequestOK, LocalsOK, Snapshot
<1>4. TypeOK'
  <2>1. /\ pc' \in [Session -> Place] /\ todo' \in [Session -> SUBSET Index]
        /\ exposed' \subseteq Index
    BY <1>1, <1>3 DEF DeleteRow, Goto, Inv, TypeOK, Place
  <2> QED
    BY <1>1, <2>1 DEF TypeOK, Inv
<1>5. Stored' \subseteq Stored
  BY <1>1, <1>2 DEF Stored, Others
<1>6. RowsKept(s)
  BY <1>1 DEF RowsKept, WithId, Inv, TypeOK
<1>7. StoreKept(s)
  BY <1>1, <1>5 DEF StoreKept
<1>8. IdsOK'
  BY <1>1, <1>2, <1>4, IdsKept
<1>9. RequestOK(s)'
  <2>1. LocalsOK(s)' /\ SnapOK(s)'
    BY <1>1 DEF Inv, RequestOK, LocalsOK, SnapOK, WithId, Merging
  <2>2. ChunksOK(s)'
    BY <1>1, <1>5 DEF ChunksOK
  <2> QED
    BY <1>1, <2>1, <2>2 DEF RequestOK, LockOK, FileOK, Merging
<1>10. Holds(s)
  BY <1>1 DEF Holds, Merging
<1> QED
  BY <1>2, <1>4, <1>6, <1>7, <1>8, <1>9, <1>10, StepKeeps

LEMMA DeadlockKeeps ==
  ASSUME Inv, NEW d \in Session, NEW s \in Session, Deadlock(d, s)
  PROVE  Inv'
<1>1. /\ pc[d] = "deleteRow" /\ pc[s] \in {"commit", "save"}
      /\ UNCHANGED <<tables, store, history, faults>>
  BY DEF Deadlock, Deadlocked
<1>2. ASSUME NEW r \in {d, s}, EndRequest(r)
      PROVE  Inv'
  <2>1. /\ pc[r] # "idle" /\ rows' = rows /\ nextId' = nextId /\ chunks' = chunks
        /\ objects' = objects /\ merged' = merged /\ UNCHANGED history
        /\ faults' \in 0..MaxFaults
    BY <1>1 DEF tables, store, Inv, TypeOK
  <2> QED
    BY <1>2, <2>1, ReducedSame, EndKeeps
<1>3. CASE pc[s] = "commit" /\ Goto(s, "restore") /\ UNCHANGED <<who, snap, arg, todo>>
  <2>1. pc'[s] = "restore"
    BY <1>3 DEF Goto, Inv, TypeOK
  <2>2. Others(s)
    BY <1>3 DEF Others, Goto, Inv, TypeOK
  <2>3. TypeOK'
    BY <1>1, <1>3 DEF TypeOK, Inv, Goto, Place, tables, store, history
  <2>4. RequestOK(s)'
    BY <1>1, <1>3, <2>1 DEF Inv, RequestOK, LocalsOK, SnapOK, LockOK, FileOK, ChunksOK, WithId,
                            Merging, tables
  <2>5. Holds(s)
    BY <2>1 DEF Holds, Merging
  <2> QED
    BY <1>1, <2>1, <2>2, <2>3, <2>4, <2>5, MoveKeeps
<1> QED
  BY <1>2, <1>3 DEF Deadlock

(***************************************************************************)
(* The theorems.                                                           *)
(***************************************************************************)
LEMMA InitInv == Init => Inv
<1> SUFFICES ASSUME Init
             PROVE  Inv
  OBVIOUS
<1>1. TypeOK
  <2>1. /\ pc \in [Session -> Place] /\ who \in [Session -> User \cup {NoUser}]
        /\ snap \in [Session -> Snapshot \cup {NoSnap}]
        /\ arg \in [Session -> Nat]
    BY DEF Init, Place
  <2>2. todo \in [Session -> SUBSET Index]
    BY DEF Init
  <2>3. nextId \in 1..(MaxRows + 1) /\ faults \in 0..MaxFaults
    BY UploadAssumption DEF Init
  <2> QED
    BY <2>1, <2>2, <2>3 DEF Init, TypeOK
<1>2. IdsOK
  <2>1. Ensuring = {}
    BY DEF Init, Ensuring
  <2>2. Cardinality(Ensuring) = 0
    BY <2>1, FS_EmptySet
  <2> QED
    BY <2>2, UploadAssumption DEF Init, IdsOK
<1>3. \A s \in Session : RequestOK(s)
  BY DEF Init, RequestOK, LocalsOK, SnapOK, LockOK, FileOK, ChunksOK, Merging
<1> QED
  BY <1>1, <1>2, <1>3 DEF Inv, Init, MergedWhole, CompletedHasFile, ChunkRowHasObject

LEMMA NextInv == Inv /\ [Next]_vars => Inv'
<1> SUFFICES ASSUME Inv, [Next]_vars
             PROVE  Inv'
  OBVIOUS
<1>1. CASE UNCHANGED vars
  BY <1>1 DEF vars, Inv, TypeOK, IdsOK, Ensuring, RequestOK, LocalsOK, SnapOK, LockOK, FileOK,
              ChunksOK, Stored, CanUpdate, MergedWhole, CompletedHasFile, ChunkRowHasObject
<1>2. CASE Deadlocks
  BY <1>2, DeadlockKeeps DEF Deadlocks
<1>3. ASSUME NEW s \in Session, Begin(s) \/ Serve(s) \/ MergeFail(s) \/ Abort(s)
      PROVE  Inv'
  <2>1. CASE Begin(s)
    BY <2>1, BeginKeeps
  <2>2. CASE MergeFail(s)
    BY <2>2, MergeFailKeeps
  <2>3. CASE Abort(s)
    BY <2>3, AbortKeeps
  <2>4. CASE Serve(s)
    BY <2>4, CloseKeeps, UploadStartKeeps, EnsureKeeps, ReadRowKeeps, PutChunkKeeps,
       SaveChunkKeeps, MergeStartKeeps, MergeLockKeeps, CheckChunkKeeps, ComposeKeeps,
       MergeCommitKeeps, SweepKeeps, MergeRestoreKeeps, DeleteStartKeeps,
       DeleteChunksKeeps, DeleteRowKeeps, SweepAllKeeps DEF Serve
  <2> QED
    BY <1>3, <2>1, <2>2, <2>3, <2>4
<1> QED
  BY <1>1, <1>2, <1>3 DEF Next

(* Uploads, merges and deletes keep the inductive invariant, however many  *)
(* of them cross, fail or are broken off.                                  *)
THEOREM Invariance == Spec => []Inv
<1> QED
  BY InitInv, NextInv, PTL DEF Spec

(* The merged object is never composed of a part of the chunks             *)
(* (merge_file).                                                           *)
THEOREM WholeMerged == Spec => []MergedWhole
<1>1. Inv => MergedWhole
  BY DEF Inv
<1> QED
  BY <1>1, Invariance, PTL

(* A completed document has its merged object unless somebody deleted a    *)
(* document of the same content (merge_file, delete_document).             *)
THEOREM CompletedFile == Spec => []CompletedHasFile
<1>1. Inv => CompletedHasFile
  BY DEF Inv
<1> QED
  BY <1>1, Invariance, PTL

(* A chunk reported as uploaded is in the store unless its upload crossed  *)
(* a removal of chunk objects (upload_chunk, _remove_chunk_objects).       *)
THEOREM ChunkStored == Spec => []ChunkRowHasObject
<1>1. Inv => ChunkRowHasObject
  BY DEF Inv
<1> QED
  BY <1>1, Invariance, PTL

(* Two merges never work on one row at once, nor does a delete take away   *)
(* the row a merge works on: the row locks of merge_file and               *)
(* delete_document.                                                        *)
MergesApart ==
  \A s, t \in Session :
    pc[s] \in Merging =>
      /\ WithId(rows, arg[s]) # {}
      /\ pc[t] \in Merging /\ arg[t] = arg[s] => t = s

(* The row lock of a merge holds against other merges and deletes.         *)
THEOREM RowLocks == Spec => []MergesApart
<1>1. Inv => MergesApart
  BY DEF Inv, RequestOK, LockOK, CanUpdate, MergesApart
<1> QED
  BY <1>1, Invariance, PTL

(* Rows of which each was there with its status, or is new.                *)
StatusKept ==
  \A q \in rows' :
    \/ q.status # "COMPLETED" /\ q.id >= nextId
    \/ \E r \in WithId(rows, q.id) : r.status = q.status

LEMMA StatusKeptStays ==
  ASSUME Inv, StatusKept, NEW r \in rows, NEW q \in rows', q.id = r.id,
         r.status = "COMPLETED"
  PROVE  q.status = "COMPLETED"
BY DEF Inv, TypeOK, IdsOK, StatusKept, WithId, Row

(* A status goes back only in a merge that read it before it was complete. *)
LEMMA RestoreIsLate ==
  ASSUME Inv, NEW s \in Session, pc[s] \in Merging \cup {"restore"},
         SetStatus(arg[s], "UPLOADING"),
         NEW r \in rows, NEW q \in rows', q.id = r.id,
         r.status = "COMPLETED", q.status # "COMPLETED"
  PROVE  LateMerge(s, r)
<1>1. PICK p \in rows : q = IF p.id = arg[s] THEN [p EXCEPT !.status = "UPLOADING"] ELSE p
  BY DEF SetStatus
<1>2. p \in Row /\ r \in Row
  BY DEF Inv, TypeOK
<1>3. q.id = p.id
  BY <1>1, <1>2 DEF Row
<1>4. p = r
  BY <1>3 DEF Inv, TypeOK
<1>5. r.id = arg[s]
  BY <1>1, <1>4
<1> QED
  BY <1>5 DEF LateMerge, Inv, RequestOK, LocalsOK, WithId

LEMMA CompleteStays ==
  ASSUME Inv, [Next]_vars, NEW r \in rows, NEW q \in rows', q.id = r.id,
         r.status = "COMPLETED", q.status # "COMPLETED"
  PROVE  \E s \in Session : LateMerge(s, r)
<1>1. rows \subseteq Row
  BY DEF Inv, TypeOK
<1>2. ~StatusKept
  BY StatusKeptStays
<1>3. rows' # rows
  BY <1>2 DEF StatusKept, WithId
<1>4. ~Deadlocks /\ ~UNCHANGED vars
  BY <1>3 DEF Deadlocks, Deadlock, tables, vars
<1>5. PICK s \in Session : Begin(s) \/ Serve(s) \/ MergeFail(s) \/ Abort(s)
  BY <1>4 DEF Next
<1>6. ~Rollback(s)
  BY <1>2 DEF Rollback, StatusKept, WithId
<1>7. ~Commit(s, rows)
  <2>1. SUFFICES ASSUME Commit(s, rows)
                 PROVE  StatusKept
    BY <1>2
  <2>2. SUFFICES ASSUME NEW x \in rows'
                 PROVE  \E y \in WithId(rows, x.id) : y.status = x.status
    BY DEF StatusKept
  <2>3. PICK y \in rows : x = IF y.by = s THEN [y EXCEPT !.by = Committed] ELSE y
    BY <2>1 DEF Commit
  <2>4. y.id = x.id /\ y.status = x.status
    BY <1>1, <2>3 DEF Row
  <2> QED
    BY <2>4 DEF WithId
<1>8. ~SetStatus(arg[s], "COMPLETED")
  <2>1. SUFFICES ASSUME SetStatus(arg[s], "COMPLETED")
                 PROVE  FALSE
    OBVIOUS
  <2>2. PICK y \in rows : q = IF y.id = arg[s] THEN [y EXCEPT !.status = "COMPLETED"] ELSE y
    BY <2>1 DEF SetStatus
  <2>3. y.id = q.id /\ (y.status = "COMPLETED" => q.status = "COMPLETED")
    BY <1>1, <2>2 DEF Row
  <2> QED
    BY <2>3 DEF Inv, TypeOK
<1>9. ~Ensure(s) /\ ~DeleteRow(s)
  <2>1. ~DeleteRow(s)
    BY <1>2 DEF DeleteRow, StatusKept, WithId
  <2>2. ~InsertRow(s)
    <3>1. SUFFICES ASSUME InsertRow(s)
                   PROVE  StatusKept
      BY <1>2
    <3>2. nextId \in Nat
      BY DEF Inv, TypeOK
    <3> QED
      BY <3>1, <3>2 DEF InsertRow, StatusKept, WithId
  <2> QED
    BY <1>3, <2>1, <2>2 DEF Ensure
<1>10. pc[s] \in Merging \cup {"restore"} /\ SetStatus(arg[s], "UPLOADING")
  BY <1>3, <1>5, <1>6, <1>7, <1>8, <1>9 DEF
     Begin, Serve, MergeFail, Abort, Close, UploadStart, ReadRow, PutChunk, SaveChunk,
     MergeStart, MergeLock, CheckChunk, Compose, MergeCommit, Sweep, MergeRestore,
     DeleteStart, DeleteChunks, SweepAll, Restore, Merging, tables
<1> QED
  BY <1>10, RestoreIsLate

(* A completed document becomes incomplete again only through a merge that *)
(* read it before it was completed (merge_file's check of the status).     *)
THEOREM StaysComplete == Spec => CompletedStays
<1>1. Inv /\ [Next]_vars =>
        [\A r \in rows, q \in rows' :
           q.id = r.id /\ r.status = "COMPLETED" /\ q.status # "COMPLETED"
             => \E s \in Session : LateMerge(s, r)]_vars
  BY CompleteStays
<1> QED
  BY <1>1, Invariance, PTL DEF Spec, CompletedStays
=============================================================================
