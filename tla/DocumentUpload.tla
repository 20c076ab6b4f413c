--------------------------- MODULE DocumentUpload ---------------------------
(***************************************************************************)
(* One content on its way into the object store: chunk uploads, merge and  *)
(* delete (app/services/file_upload_service.py over                        *)
(* app/repositories/file_upload_repository.py).                            *)
(*                                                                         *)
(* Every row, object and lock is named by the MD5 of the content, so one   *)
(* content stands for all.  Each user has an upload row of its own; the    *)
(* chunk rows, the chunk objects and the merged object are shared by all   *)
(* who upload the content.                                                 *)
(*                                                                         *)
(* As in TokenLedger a request works in one repeatable-read transaction    *)
(* whose snapshot is taken when the bearer of the token is looked up,      *)
(* before the service runs.  INSERT IGNORE, UPDATE and DELETE work on the  *)
(* latest rows and wait for locks; objects are changed at once and are not *)
(* rolled back.                                                            *)
(***************************************************************************)
EXTENDS Integers, FiniteSets, FiniteSetsExt

CONSTANTS
  User, Session,
  Admin,         \* users who may delete any document
  TotalChunks,   \* chunks of the content
  MaxRows,       \* upload rows ever inserted
  MaxFaults,     \* failures of storage, Redis and processes
  NoUser, NoSnap,
  Committed      \* the writer of a row that is committed

ASSUME UploadAssumption ==
  /\ Admin \subseteq User
  /\ TotalChunks \in Nat \ {0}
  /\ MaxRows \in Nat
  /\ MaxFaults \in Nat
  /\ NoUser \notin User
  /\ Committed \notin Session
  /\ IsFiniteSet(Session)

Index == 0..(TotalChunks - 1)
Row == [id : 1..MaxRows, user : User, status : {"UPLOADING", "COMPLETED"},
        by : Session \cup {Committed}]
Snapshot == [rows : SUBSET Row, chunks : SUBSET Index]

VARIABLES
  rows,      \* file_upload: the rows of the content, of any user
  nextId,    \* its auto-increment counter
  chunks,    \* chunk_info: the chunks with a row
  objects,   \* MinIO chunks/<md5>/<index>
  merged,    \* MinIO merged/<md5>: the chunks it was composed of, {} if none
  pc, who, snap,
  arg,       \* the chunk index, or the id of the row to merge or delete
  todo,      \* the chunks still to look at or to remove
  deleted,   \* history: was a document of this content deleted?
  exposed,   \* history: chunks stored while somebody was removing them
  faults

tables == <<rows, nextId, chunks>>
store == <<objects, merged>>
request == <<pc, who, snap, arg, todo>>
history == <<deleted, exposed>>
vars == <<rows, nextId, chunks, objects, merged, pc, who, snap, arg, todo,
          deleted, exposed, faults>>

Init ==
  /\ rows = {} /\ nextId = 1 /\ chunks = {}
  /\ objects = {} /\ merged = {}
  /\ pc = [s \in Session |-> "idle"]
  /\ who = [s \in Session |-> NoUser]
  /\ snap = [s \in Session |-> NoSnap]
  /\ arg = [s \in Session |-> 0]
  /\ todo = [s \in Session |-> {}]
  /\ deleted = FALSE /\ exposed = {} /\ faults = 0

(***************************************************************************)
(* Transactions and locks.                                                 *)
(***************************************************************************)
Goto(s, label) == pc' = [pc EXCEPT ![s] = label]

(* The request is over; what it has not committed is rolled back.          *)
EndRequest(s) ==
  /\ Goto(s, "idle")
  /\ who' = [who EXCEPT ![s] = NoUser]
  /\ snap' = [snap EXCEPT ![s] = NoSnap]
  /\ arg' = [arg EXCEPT ![s] = 0]
  /\ todo' = [todo EXCEPT ![s] = {}]

Rollback(s) == rows' = {r \in rows : r.by # s}

(* The bound on failures.                                                  *)
Fail == faults < MaxFaults /\ faults' = faults + 1

(* ORDER BY created_at DESC, id DESC; the first.                           *)
Newest(rs) == CHOOSE r \in rs : \A q \in rs : q.id <= r.id
RowsOf(rs, u) == {r \in rs : r.user = u}
WithId(rs, id) == {r \in rs : r.id = id}

(* What a session reads: its snapshot and its own insert.                  *)
Visible(s) == snap[s].rows \cup {r \in rows : r.by = s}

(* A merge holds the row it updated.                                       *)
Merging == {"check", "compose", "commit"}
CanUpdate(s, id) ==
  ~\E r \in Session \ {s} : pc[r] \in Merging /\ arg[r] = id

(* INSERT IGNORE waits for an insert of the same row that is not committed *)
(* and keeps a shared lock on the unique key of the row it finds, which    *)
(* an UPDATE of other columns does not touch and a DELETE waits for.       *)
CanInsert(s) ==
  ~\E r \in rows : r.user = who[s] /\ r.by \notin {s, Committed}
Shares(s, row) ==
  /\ pc[s] \in {"read", "noRecord", "put", "save"}
  /\ who[s] = row.user /\ row.by = Committed
CanDelete(s, id) ==
  /\ CanUpdate(s, id)
  /\ \A row \in WithId(rows, id) : ~\E r \in Session \ {s} : Shares(r, row)

(* A delete holds all chunk rows of the content, and the gap around them:  *)
(* gap locks let each other pass but no insert.                            *)
ChunksLocked(s) == \E r \in Session \ {s} : pc[r] = "deleteRow"
CanDeleteChunks(s) == chunks = {} \/ ~ChunksLocked(s)

Begin(s) ==
  /\ pc[s] = "idle"
  /\ \E u \in User : who' = [who EXCEPT ![s] = u]
  /\ snap' = [snap EXCEPT ![s] =
       [rows |-> {r \in rows : r.by = Committed}, chunks |-> chunks]]
  /\ Goto(s, "open")
  /\ UNCHANGED <<tables, store, arg, todo, history, faults>>

(* A refusal (403, 404, 409, 400), an answer that changes nothing, or the  *)
(* error of ensure_upload.                                                 *)
Close(s) ==
  /\ pc[s] \in {"open", "noRecord"}
  /\ EndRequest(s)
  /\ Rollback(s)
  /\ UNCHANGED <<nextId, chunks, store, history, faults>>

(* The storage fails outside a try block (the local copy of a chunk that a *)
(* merge cleans away included), the database gives up on the inserters     *)
(* that waited for a rolled back insert, the client goes, or the process.  *)
Abort(s) ==
  /\ pc[s] \notin {"idle", "open", "noRecord"}
  /\ Fail
  /\ EndRequest(s)
  /\ Rollback(s)
  /\ UNCHANGED <<nextId, chunks, store, history>>

(***************************************************************************)
(* upload_chunk.                                                           *)
(***************************************************************************)
UploadStart(s) ==
  /\ pc[s] = "open"
  /\ nextId + Cardinality({r \in Session : pc[r] = "ensure"}) <= MaxRows
  /\ \E i \in Index : arg' = [arg EXCEPT ![s] = i]
  /\ Goto(s, "ensure")
  /\ UNCHANGED <<tables, store, who, snap, todo, history, faults>>

InsertRow(s) ==
  /\ rows' = rows \cup {[id |-> nextId, user |-> who[s],
                         status |-> "UPLOADING", by |-> s]}
  /\ nextId' = nextId + 1

(* Mutant: a plain INSERT of a table without the unique key.               *)
EnsureAgain(s) ==
  /\ pc[s] = "ensure"
  /\ InsertRow(s)
  /\ Goto(s, "read")
  /\ UNCHANGED <<chunks, store, who, snap, arg, todo, history, faults>>

(* INSERT IGNORE of the row ...                                            *)
Ensure(s) ==
  /\ pc[s] = "ensure"
  /\ CanInsert(s)
  /\ IF RowsOf(rows, who[s]) = {} THEN InsertRow(s) ELSE UNCHANGED <<rows, nextId>>
  /\ Goto(s, "read")
  /\ UNCHANGED <<chunks, store, who, snap, arg, todo, history, faults>>

(* ... and the SELECT that looks for it.                                   *)
ReadRow(s) ==
  /\ pc[s] = "read"
  /\ LET mine == RowsOf(Visible(s), who[s])
     IN  IF mine = {}
         THEN /\ Goto(s, "noRecord")
              /\ UNCHANGED <<rows, who, snap, arg, todo>>
         ELSE IF Newest(mine).status = "COMPLETED"
         THEN EndRequest(s) /\ Rollback(s)
         ELSE /\ Goto(s, "put")
              /\ UNCHANGED <<rows, who, snap, arg, todo>>
  /\ UNCHANGED <<nextId, chunks, store, history, faults>>

(* Some request is about to remove the object of chunk i.                  *)
Removing(i) ==
  \E s \in Session : pc[s] \in {"sweep", "sweepAll"} /\ i \in todo[s]

PutChunk(s) ==
  /\ pc[s] = "put"
  /\ objects' = objects \cup {arg[s]}
  /\ exposed' = IF Removing(arg[s]) THEN exposed \cup {arg[s]} ELSE exposed
  /\ Goto(s, "save")
  /\ UNCHANGED <<tables, merged, who, snap, arg, todo, deleted, faults>>

Commit(s, rs) ==
  rows' = {IF r.by = s THEN [r EXCEPT !.by = Committed] ELSE r : r \in rs}

(* Mutant: the row is inserted before the object is there.                 *)
SaveBeforePut(s) ==
  /\ pc[s] \in {"put", "save"}
  /\ chunks' = chunks \cup {arg[s]}
  /\ Commit(s, rows)
  /\ EndRequest(s)
  /\ UNCHANGED <<nextId, store, history, faults>>

(* INSERT IGNORE of the chunk, the bit in Redis (which nothing reads), and *)
(* the commit.                                                             *)
SaveChunk(s) ==
  /\ pc[s] = "save"
  /\ ~ChunksLocked(s)
  /\ chunks' = chunks \cup {arg[s]}
  /\ Commit(s, rows)
  /\ EndRequest(s)
  /\ UNCHANGED <<nextId, store, history, faults>>

(***************************************************************************)
(* merge_file.  MERGING is written and overwritten in one transaction:     *)
(* nobody else ever reads it, and the row keeps its committed status here  *)
(* until the end.                                                          *)
(***************************************************************************)
(* Mutant: a completed document is merged again.                           *)
MayMergeAgain(row) == row.status \in {"UPLOADING", "COMPLETED"}
MayMerge(row) == row.status # "COMPLETED"

Complete(s) == Cardinality(snap[s].chunks) >= TotalChunks

MergeStart(s) ==
  /\ pc[s] = "open"
  /\ LET mine == RowsOf(snap[s].rows, who[s])
     IN  /\ mine # {}
         /\ MayMerge(Newest(mine))
         /\ arg' = [arg EXCEPT ![s] = Newest(mine).id]
  /\ Complete(s)
  /\ Goto(s, "lock")
  /\ UNCHANGED <<tables, store, who, snap, todo, history, faults>>

(* flush: the row is locked; StaleDataError if it is gone.                 *)
MergeLock(s) ==
  /\ pc[s] = "lock"
  /\ CanUpdate(s, arg[s])
  /\ IF WithId(rows, arg[s]) = {} THEN EndRequest(s)
     ELSE /\ Goto(s, "check")
          /\ todo' = [todo EXCEPT ![s] = snap[s].chunks]
          /\ UNCHANGED <<who, snap, arg>>
  /\ UNCHANGED <<tables, store, history, faults>>

SetStatus(id, status) ==
  rows' = {IF r.id = id THEN [r EXCEPT !.status = status] ELSE r : r \in rows}

(* except: the status goes back, and what has been written is committed.   *)
Restore(s) == SetStatus(arg[s], "UPLOADING") /\ EndRequest(s)

(* Mutant: a missing chunk is waited for.                                  *)
CheckChunkWaits(s) ==
  /\ pc[s] = "check"
  /\ \/ todo[s] = {} /\ Goto(s, "compose") /\ UNCHANGED todo
     \/ /\ todo[s] # {} /\ Min(todo[s]) \in objects
        /\ todo' = [todo EXCEPT ![s] = @ \ {Min(@)}]
        /\ UNCHANGED pc
  /\ UNCHANGED <<tables, store, who, snap, arg, history, faults>>

CheckChunk(s) ==
  /\ pc[s] = "check"
  /\ IF todo[s] = {} THEN Goto(s, "compose") /\ UNCHANGED <<rows, who, snap, arg, todo>>
     ELSE IF Min(todo[s]) \in objects
     THEN /\ todo' = [todo EXCEPT ![s] = @ \ {Min(@)}]
          /\ UNCHANGED <<rows, pc, who, snap, arg>>
     ELSE Restore(s)
  /\ UNCHANGED <<nextId, chunks, store, history, faults>>

(* Mutant: the error of the storage is swallowed.                          *)
ComposeQuietly(s) ==
  /\ pc[s] = "compose"
  /\ \/ merged' = snap[s].chunks /\ UNCHANGED faults
     \/ Fail /\ UNCHANGED merged
  /\ Goto(s, "commit")
  /\ UNCHANGED <<tables, objects, who, snap, arg, todo, history>>

Compose(s) ==
  /\ pc[s] = "compose"
  /\ IF snap[s].chunks \subseteq objects
     THEN /\ merged' = snap[s].chunks
          /\ Goto(s, "commit")
          /\ UNCHANGED <<rows, who, snap, arg, todo>>
     ELSE Restore(s) /\ UNCHANGED merged
  /\ UNCHANGED <<nextId, chunks, objects, history, faults>>

(* The storage fails, or Redis after the chunk rows were deleted.          *)
MergeFail(s) ==
  /\ pc[s] \in {"check", "compose", "commit"}
  /\ Fail
  /\ \/ UNCHANGED chunks
     \/ pc[s] = "commit" /\ CanDeleteChunks(s) /\ chunks' = {}
  /\ Restore(s)
  /\ UNCHANGED <<nextId, store, history>>

(* Chunks of which an upload has stored the object and not yet the row.    *)
Stored == {arg[r] : r \in {q \in Session : pc[q] = "save"}}

MergeCommit(s) ==
  /\ pc[s] = "commit"
  /\ CanDeleteChunks(s)
  /\ SetStatus(arg[s], "COMPLETED")
  /\ chunks' = {}
  /\ todo' = [todo EXCEPT ![s] = snap[s].chunks]
  /\ exposed' = exposed \cup (Stored \cap snap[s].chunks)
  /\ Goto(s, "sweep")
  /\ UNCHANGED <<nextId, store, who, snap, arg, deleted, faults>>

RemoveFirst(s) ==
  /\ todo' = [todo EXCEPT ![s] = @ \ {Min(@)}]
  /\ \/ objects' = objects \ {Min(todo[s])} /\ UNCHANGED faults
     \/ Fail /\ UNCHANGED objects

(* _remove_chunk_objects: a removal that fails is passed over.             *)
Sweep(s) ==
  /\ pc[s] = "sweep"
  /\ IF todo[s] # {}
     THEN RemoveFirst(s) /\ UNCHANGED <<pc, who, snap, arg>>
     ELSE EndRequest(s) /\ UNCHANGED <<objects, faults>>
  /\ UNCHANGED <<tables, merged, history>>

(* except, for a merge that lost a deadlock and its lock: the UPDATE is a  *)
(* transaction of its own and finds the row or does not.                   *)
MergeRestore(s) ==
  /\ pc[s] = "restore"
  /\ CanUpdate(s, arg[s])
  /\ Restore(s)
  /\ UNCHANGED <<nextId, chunks, store, history, faults>>

(***************************************************************************)
(* delete_document: the newest row of the content, whoever's it is.        *)
(***************************************************************************)
can_delete_document(u, row) == u \in Admin \/ row.user = u

DeleteStart(s) ==
  /\ pc[s] = "open"
  /\ snap[s].rows # {}
  /\ LET row == Newest(snap[s].rows)
     IN  /\ can_delete_document(who[s], row)
         /\ arg' = [arg EXCEPT ![s] = row.id]
  /\ Goto(s, "delete")
  /\ UNCHANGED <<tables, store, who, snap, todo, history, faults>>

(* DELETE of the chunk rows, not committed yet.                            *)
DeleteChunks(s) ==
  /\ pc[s] = "delete"
  /\ CanDeleteChunks(s)
  /\ Goto(s, "deleteRow")
  /\ UNCHANGED <<tables, store, who, snap, arg, todo, history, faults>>

DeleteRow(s) ==
  /\ pc[s] = "deleteRow"
  /\ CanDelete(s, arg[s])
  /\ rows' = rows \ WithId(rows, arg[s])
  /\ chunks' = {}
  /\ deleted' = TRUE
  /\ todo' = [todo EXCEPT ![s] = snap[s].chunks]
  /\ exposed' = exposed \cup (Stored \cap snap[s].chunks)
  /\ Goto(s, "sweepAll")
  /\ UNCHANGED <<nextId, store, who, snap, arg, faults>>

SweepAll(s) ==
  /\ pc[s] = "sweepAll"
  /\ IF todo[s] # {}
     THEN RemoveFirst(s) /\ UNCHANGED <<merged, pc, who, snap, arg>>
     ELSE /\ \/ merged' = {} /\ UNCHANGED faults
             \/ Fail /\ UNCHANGED merged
          /\ EndRequest(s)
          /\ UNCHANGED objects
  /\ UNCHANGED <<tables, history>>

(***************************************************************************)
(* A delete holds the chunk rows and waits for the row, the other holds    *)
(* the row and waits for the chunk rows: InnoDB rolls one of them back.    *)
(***************************************************************************)
Deadlocked(d, s) ==
  /\ pc[d] = "deleteRow"
  /\ \/ pc[s] = "commit" /\ arg[s] = arg[d] /\ ~CanDeleteChunks(s)
     \/ pc[s] = "save" /\ \E row \in WithId(rows, arg[d]) : Shares(s, row)

Deadlock(d, s) ==
  /\ Deadlocked(d, s)
  /\ \/ EndRequest(d)
     \/ pc[s] = "save" /\ EndRequest(s)
     \/ /\ pc[s] = "commit" /\ Goto(s, "restore")
        /\ UNCHANGED <<who, snap, arg, todo>>
  /\ UNCHANGED <<tables, store, history, faults>>

(***************************************************************************)
(* The specification.                                                      *)
(***************************************************************************)
Serve(s) ==
  \/ Close(s)
  \/ UploadStart(s) \/ Ensure(s) \/ ReadRow(s) \/ PutChunk(s) \/ SaveChunk(s)
  \/ MergeStart(s) \/ MergeLock(s) \/ CheckChunk(s) \/ Compose(s)
  \/ MergeCommit(s) \/ Sweep(s) \/ MergeRestore(s)
  \/ DeleteStart(s) \/ DeleteChunks(s) \/ DeleteRow(s) \/ SweepAll(s)

Deadlocks == \E d, s \in Session : Deadlock(d, s)

Next ==
  \/ \E s \in Session : Begin(s) \/ Serve(s) \/ MergeFail(s) \/ Abort(s)
  \/ Deadlocks

Spec == Init /\ [][Next]_vars

(* Clients need not come.  The event loop serves every request, InnoDB     *)
(* hands a lock to those that wait in turn and breaks deadlocks.           *)
FairSpec ==
  /\ Spec
  /\ \A s \in Session : SF_vars(Serve(s))
  /\ WF_vars(Deadlocks)

(***************************************************************************)
(* Properties.                                                             *)
(***************************************************************************)
Place == {"idle", "open", "ensure", "read", "noRecord", "put", "save", "lock",
          "check", "compose", "commit", "sweep", "restore", "delete",
          "deleteRow", "sweepAll"}

(* Every variable has its type; each user has at most one row, the key     *)
(* uk_file_upload_md5_user.                                                *)
TypeOK ==
  /\ rows \subseteq Row
  /\ \A q, r \in rows : q.user = r.user \/ q.id = r.id => q = r
  /\ nextId \in 1..(MaxRows + 1)
  /\ chunks \subseteq Index /\ objects \subseteq Index /\ merged \subseteq Index
  /\ pc \in [Session -> Place]
  /\ who \in [Session -> User \cup {NoUser}]
  /\ snap \in [Session -> Snapshot \cup {NoSnap}]
  /\ arg \in [Session -> Nat]
  /\ todo \in [Session -> SUBSET Index]
  /\ deleted \in BOOLEAN /\ exposed \subseteq Index /\ faults \in 0..MaxFaults

(* The merged object is never composed of a part of the chunks, whatever   *)
(* others upload, merge or delete between the count of the chunk rows and  *)
(* the composition (merge_file).                                           *)
MergedWhole == merged \in {{}, Index}

(* A document shown as completed has its merged object, unless somebody    *)
(* deleted a document with the same content: delete_document removes the   *)
(* object all of them share.                                               *)
CompletedHasFile ==
  \A r \in rows : r.status = "COMPLETED" => merged = Index \/ deleted

(* A chunk reported as uploaded is in the store, so that it can be merged, *)
(* unless its upload crossed a request that was removing chunk objects.    *)
ChunkRowHasObject == chunks \ objects \subseteq exposed

(***************************************************************************)
(* The inductive invariant.                                                *)
(***************************************************************************)
(* Ids are given once and stay within their bound.                         *)
Ensuring == {s \in Session : pc[s] = "ensure"}
IdsOK ==
  /\ nextId + Cardinality(Ensuring) <= MaxRows + 1
  /\ \A r \in rows : r.id < nextId

(* What a request has read and chosen at each of its places.               *)
LocalsOK(s) ==
  /\ pc[s] # "idle" => who[s] \in User /\ snap[s] \in Snapshot
  /\ pc[s] \in {"ensure", "read", "noRecord", "put", "save"} => arg[s] \in Index
  /\ pc[s] \in Merging \cup {"lock", "restore"} =>
       /\ snap[s].chunks = Index
       /\ \E q \in WithId(snap[s].rows, arg[s]) :
            q.user = who[s] /\ q.status = "UPLOADING"

(* A row that a snapshot shows stays committed, and its user's, for as     *)
(* long as it exists; its id is not given again.                           *)
SnapOK(s) ==
  pc[s] # "idle" =>
    \A q \in snap[s].rows :
      /\ q.id < nextId
      /\ \A r \in WithId(rows, q.id) : r.by = Committed /\ r.user = q.user

(* The row lock of a merge: the row is there until the merge has marked    *)
(* it, whoever deletes, and no other merge works on it.                    *)
LockOK(s) ==
  pc[s] \in Merging =>
    /\ \E r \in WithId(rows, arg[s]) : r.by = Committed /\ r.user = who[s]
    /\ CanUpdate(s, arg[s])

(* A merge about to commit has its file, a delete about to remove the file *)
(* has deleted its row.                                                    *)
FileOK(s) ==
  /\ pc[s] = "commit" => merged = Index \/ deleted
  /\ pc[s] = "sweepAll" => deleted

(* A chunk whose row is about to be saved is in the store, and no chunk    *)
(* with a row, now or soon, is about to be removed, but for those exposed. *)
ChunksOK(s) ==
  /\ pc[s] = "save" => arg[s] \in objects \cup exposed
  /\ pc[s] \in {"sweep", "sweepAll"} =>
       todo[s] \cap (chunks \cup Stored) \subseteq exposed

RequestOK(s) == LocalsOK(s) /\ SnapOK(s) /\ LockOK(s) /\ FileOK(s) /\ ChunksOK(s)

(* Inductive: the invariants above with what they rest on.                 *)
Inv ==
  /\ TypeOK /\ IdsOK
  /\ \A s \in Session : RequestOK(s)
  /\ MergedWhole /\ CompletedHasFile /\ ChunkRowHasObject

(* A completed document becomes incomplete again only through a merge that *)
(* read it before it was completed, the second of two that ran at once.    *)
LateMerge(s, r) ==
  /\ pc[s] \in Merging \cup {"restore"} /\ arg[s] = r.id
  /\ \E q \in WithId(snap[s].rows, r.id) : q.status = "UPLOADING"
CompletedStays ==
  [][\A r \in rows, q \in rows' :
       q.id = r.id /\ r.status = "COMPLETED" /\ q.status # "COMPLETED"
         => \E s \in Session : LateMerge(s, r)]_vars

(* Every request ends, the ones that wait for the rows of others included. *)
RequestEnds == \A s \in Session : pc[s] # "idle" ~> pc[s] = "idle"

(* ensure_upload finds the row it made sure of.                            *)
RecordCreated == \A s \in Session : pc[s] # "noRecord"
=============================================================================
