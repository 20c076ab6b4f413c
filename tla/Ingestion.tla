------------------------------ MODULE Ingestion ------------------------------
(***************************************************************************)
(* From a merged document to its searchable chunks: the requests that set  *)
(* a document to PROCESSING and send a task, the Kafka topic, and the      *)
(* worker that parses, embeds, indexes, charges and marks                  *)
(* (app/workers/file_processing_worker.py, app/rag/pipeline.py).           *)
(*                                                                         *)
(* compose.yaml runs one worker over one partition and restarts it when it *)
(* dies.  The consumer commits its offset after each task; a task that     *)
(* raises ends the process before that.  A group that never committed      *)
(* starts at the end of the partition, aiokafka's default.                 *)
(*                                                                         *)
(* A document is named by the MD5 of its content.  Each user who uploads   *)
(* it has a row; vectors, indexed chunks and the merged file are shared,   *)
(* and so is the status the worker writes: it goes to the newest row.      *)
(***************************************************************************)
EXTENDS Integers, Sequences, FiniteSets, FiniteSetsExt, SequencesExt

CONSTANTS
  User, Doc, Session,
  Chunk,        \* the chunks of a document that has text
  Blank,        \* documents without text
  Unparsable,   \* documents no parser takes, as .doc files
  Deletable,    \* documents users delete
  MaxRows, MaxTasks, MaxFaults,
  None

ASSUME IngestionAssumption ==
  /\ Blank \subseteq Doc /\ Unparsable \subseteq Doc /\ Deletable \subseteq Doc
  /\ MaxRows \in Nat /\ MaxTasks \in Nat /\ MaxFaults \in Nat
  /\ None \notin User \cup Nat
  /\ IsFiniteSet(Session)

VectorizationStatus == {"NULL", "PROCESSING", "COMPLETED", "FAILED"}
Row == [id : 1..MaxRows, doc : Doc, user : User, merged : BOOLEAN,
        vectorization : VectorizationStatus]
Chosen == [id : 1..MaxRows, doc : Doc, user : User]
Task == [doc : Doc, user : User]

(* What the chunker makes of a document.                                   *)
Chunks(d) == IF d \in Blank THEN {} ELSE Chunk

VARIABLES
  rows,       \* file_upload, committed
  nextId,     \* its auto-increment counter
  file,       \* documents with a merged object in MinIO
  vectors,    \* document_vectors, committed: the chunks of each document
  index,      \* the chunks of each document in Elasticsearch
  queue,      \* the partition, oldest message first
  committed,  \* the group's offset, or None
  position,   \* messages the running consumer has passed
  pc, snap, chosen,   \* requests: place, rows seen, row the commit was about
  wpc, wsnap, wmarked, wvec,
              \* worker: place, rows seen, row marked, vectors to be committed
  forgotten,  \* history: documents whose task was never sent or was skipped
  shared,     \* history: documents that more than one row had
  charges,    \* history: times the tokens of each message were charged
  redone,     \* history: times the offset of a finished message was lost
  faults

table == <<rows, nextId>>
search == <<vectors, index>>
topic == <<queue, committed, position>>
request == <<pc, snap, chosen>>
worker == <<wpc, wsnap, wmarked, wvec>>
history == <<forgotten, shared, charges, redone>>
vars == <<rows, nextId, file, vectors, index, queue, committed, position,
          pc, snap, chosen, wpc, wsnap, wmarked, wvec,
          forgotten, shared, charges, redone, faults>>

Init ==
  /\ rows = {} /\ nextId = 1 /\ file = {}
  /\ vectors = [d \in Doc |-> {}] /\ index = [d \in Doc |-> {}]
  /\ queue = <<>> /\ committed = None /\ position = 0
  /\ pc = [s \in Session |-> "idle"]
  /\ snap = [s \in Session |-> {}]
  /\ chosen = [s \in Session |-> None]
  /\ wpc = "down" /\ wsnap = None /\ wmarked = None /\ wvec = {}
  /\ forgotten = {} /\ shared = {}
  /\ charges = [n \in 1..MaxTasks |-> 0]
  /\ redone = [n \in 1..MaxTasks |-> 0]
  /\ faults = 0

Fail == faults < MaxFaults /\ faults' = faults + 1

RowsOf(rs, d) == {r \in rs : r.doc = d}
WithId(rs, id) == {r \in rs : r.id = id}

(* get_by_file_md5: ORDER BY created_at DESC, id DESC; the first, if any.  *)
Newest(rs, d) == {r \in RowsOf(rs, d) : \A q \in RowsOf(rs, d) : q.id <= r.id}

(* The UPDATE of a row as it was read.  An attribute that is set to the    *)
(* value it was read with is not written.                                  *)
SetVectorization(seen, status) ==
  rows' = {IF r.id = seen.id /\ seen.vectorization # status
           THEN [r EXCEPT !.vectorization = status] ELSE r : r \in rows}

(***************************************************************************)
(* Requests.  A snapshot of the rows is taken when the user is looked up.  *)
(***************************************************************************)
Goto(s, label) == pc' = [pc EXCEPT ![s] = label]
EndRequest(s) ==
  /\ Goto(s, "idle")
  /\ snap' = [snap EXCEPT ![s] = {}]
  /\ chosen' = [chosen EXCEPT ![s] = None]

(* After its commit a request needs of the rows only which one it was.     *)
GoOn(s, label, r) ==
  /\ Goto(s, label)
  /\ snap' = [snap EXCEPT ![s] = {}]
  /\ chosen' = [chosen EXCEPT ![s] = [id |-> r.id, doc |-> r.doc, user |-> r.user]]

(* Messages sent or about to be sent.                                      *)
Sending == {"send", "resend"}
Senders == {s \in Session : pc[s] \in Sending}
Room == Len(queue) + Cardinality(Senders) < MaxTasks

Begin(s) ==
  /\ pc[s] = "idle"
  /\ Goto(s, "open")
  /\ snap' = [snap EXCEPT ![s] = rows]
  /\ UNCHANGED <<table, file, search, topic, chosen, worker, history, faults>>

(* Any refusal, or a request that does not concern the documents.          *)
Close(s) ==
  /\ pc[s] = "open"
  /\ EndRequest(s)
  /\ UNCHANGED <<table, file, search, topic, worker, history, faults>>

(* The first chunk of an upload makes the row (DocumentUpload!Ensure).     *)
Upload(s) ==
  /\ pc[s] = "open" /\ nextId <= MaxRows
  /\ \E u \in User, d \in Doc :
       /\ \A r \in RowsOf(rows, d) : r.user # u
       /\ rows' = rows \cup {[id |-> nextId, doc |-> d, user |-> u,
                              merged |-> FALSE, vectorization |-> "NULL"]}
       /\ shared' = IF RowsOf(rows, d) = {} THEN shared ELSE shared \cup {d}
  /\ nextId' = nextId + 1
  /\ EndRequest(s)
  /\ UNCHANGED <<file, search, topic, worker, forgotten, charges, redone, faults>>

(* The UPDATE of a merge of a row as it was read: where the upload stands  *)
(* now and, when the merge came to set it, PROCESSING.                     *)
SetMerge(seen, merged, reached) ==
  rows' = {IF r.id # seen.id THEN r
           ELSE IF reached /\ seen.vectorization # "PROCESSING"
           THEN [r EXCEPT !.merged = merged, !.vectorization = "PROCESSING"]
           ELSE [r EXCEPT !.merged = merged] : r \in rows}

(* The commit of merge_file (DocumentUpload!MergeCommit).                  *)
Merge(s) ==
  /\ pc[s] = "open" /\ Room
  /\ \E r \in snap[s] :
       /\ ~r.merged /\ WithId(rows, r.id) # {}
       /\ SetMerge(r, TRUE, TRUE)
       /\ file' = file \cup {r.doc}
       /\ GoOn(s, "send", r)
  /\ UNCHANGED <<nextId, search, topic, worker, history, faults>>

(* except: the row goes back to UPLOADING.  A chunk is missing, as when    *)
(* another merge was faster; or Redis fails once the object is composed,   *)
(* and PROCESSING is committed with the UPLOADING; or the database fails   *)
(* and nothing is.  No task is sent.                                       *)
MergeFails(s) ==
  /\ pc[s] = "open"
  /\ Fail
  /\ \E r \in snap[s] :
       /\ ~r.merged /\ WithId(rows, r.id) # {}
       /\ \/ SetMerge(r, FALSE, FALSE) /\ UNCHANGED file
          \/ /\ file' = file \cup {r.doc}
             /\ SetMerge(r, FALSE, TRUE) \/ UNCHANGED rows
  /\ EndRequest(s)
  /\ UNCHANGED <<nextId, search, topic, worker, history>>

(* The chunks' objects cannot be removed: the same, after the commit.      *)
MergeUndone(s) ==
  /\ pc[s] = "send"
  /\ Fail
  /\ rows' = {IF r.id = chosen[s].id THEN [r EXCEPT !.merged = FALSE] ELSE r : r \in rows}
  /\ EndRequest(s)
  /\ UNCHANGED <<nextId, file, search, topic, worker, history>>

(* retry_vectorization, by anybody who may see the document.  The page     *)
(* offers it for documents that are merged.                                *)
Retry(s) ==
  /\ pc[s] = "open" /\ Room
  /\ \E d \in Doc : \E r \in Newest(snap[s], d) :
       /\ \E q \in RowsOf(snap[s], d) : q.merged
       /\ r.vectorization = "PROCESSING" \/ WithId(rows, r.id) # {}
       /\ SetVectorization(r, "PROCESSING")
       /\ GoOn(s, "resend", r)
  /\ UNCHANGED <<nextId, file, search, topic, worker, history, faults>>

Publish(s) == queue' = Append(queue, [doc |-> chosen[s].doc, user |-> chosen[s].user])

(* enqueue_processing_task.                                                *)
Send(s) ==
  /\ pc[s] \in Sending
  /\ Publish(s)
  /\ EndRequest(s)
  /\ UNCHANGED <<table, file, search, committed, position, worker, history, faults>>

MarkFailed(s) ==
  IF pc[s] = "send"
  THEN rows' = {IF r \in Newest(rows, chosen[s].doc)
                THEN [r EXCEPT !.vectorization = "FAILED"] ELSE r : r \in rows}
  ELSE rows' = {IF r.id = chosen[s].id
                THEN [r EXCEPT !.vectorization = "FAILED"] ELSE r : r \in rows}

(* The broker does not answer, whether it has the message or not.  A merge *)
(* marks the newest row of the document, a retry the row it chose.         *)
SendFail(s) ==
  /\ pc[s] \in Sending
  /\ Fail
  /\ Publish(s) \/ UNCHANGED queue
  /\ MarkFailed(s)
  /\ EndRequest(s)
  /\ UNCHANGED <<nextId, file, search, committed, position, worker, history>>

(* The request dies between its commit and its message.                    *)
Abort(s) ==
  /\ pc[s] \in Sending
  /\ Fail
  /\ forgotten' = forgotten \cup {chosen[s].doc}
  /\ EndRequest(s)
  /\ UNCHANGED <<table, file, search, topic, worker, shared, charges, redone>>

(* The commit of delete_document; vectors and index stay.                  *)
Delete(s) ==
  /\ pc[s] = "open"
  /\ \E d \in Deletable : \E r \in Newest(snap[s], d) :
       /\ rows' = rows \ WithId(rows, r.id)
       /\ GoOn(s, "remove", r)
  /\ UNCHANGED <<nextId, file, search, topic, worker, history, faults>>

RemoveFile(s) ==
  /\ pc[s] = "remove"
  /\ \/ file' = file \ {chosen[s].doc} /\ UNCHANGED faults
     \/ Fail /\ UNCHANGED file
  /\ EndRequest(s)
  /\ UNCHANGED <<table, search, topic, worker, history>>

(***************************************************************************)
(* The worker.                                                             *)
(***************************************************************************)
Current == queue[position].doc
Enter(label) == wpc' = label
Down == wpc' = "down" /\ wsnap' = None /\ wmarked' = None /\ wvec' = {}

(* The process starts, and the consumer at the group's offset.             *)
Start ==
  /\ wpc = "down"
  /\ position' = IF committed = None THEN Len(queue) ELSE committed
  /\ forgotten' = IF committed = None
                  THEN forgotten \cup {queue[n].doc : n \in DOMAIN queue}
                  ELSE forgotten
  /\ Enter("idle")
  /\ UNCHANGED <<table, file, search, queue, committed, request, wsnap, wmarked,
                 wvec, shared, charges, redone, faults>>

(* Mutant: the offset is committed when the message is fetched.            *)
FetchAndCommit ==
  /\ wpc = "idle"
  /\ position < Len(queue)
  /\ position' = position + 1 /\ committed' = position + 1
  /\ Enter("mark")
  /\ UNCHANGED <<table, file, search, queue, request, wsnap, wmarked, wvec,
                 history, faults>>

Fetch ==
  /\ wpc = "idle"
  /\ position < Len(queue)
  /\ position' = position + 1
  /\ Enter("mark")
  /\ UNCHANGED <<table, file, search, queue, committed, request, wsnap, wmarked,
                 wvec, history, faults>>

(* mark_vectorization_processing and its commit.                           *)
Mark ==
  /\ wpc = "mark"
  /\ rows' = {IF r \in Newest(rows, Current)
              THEN [r EXCEPT !.vectorization = "PROCESSING"] ELSE r : r \in rows}
  /\ wmarked' = IF RowsOf(rows, Current) = {} THEN None
                ELSE Max({r.id : r \in RowsOf(rows, Current)})
  /\ wvec' = vectors[Current]
  /\ Enter("parse")
  /\ UNCHANGED <<nextId, file, search, topic, request, wsnap, history, faults>>

(* Download, parse and split.                                              *)
Parse ==
  /\ wpc = "parse"
  /\ \/ /\ Current \in file \ Unparsable
        /\ Enter("purge") /\ UNCHANGED faults
     \/ /\ Current \notin file \/ Current \in Unparsable
        /\ Enter("failed") /\ UNCHANGED faults
     \/ Fail /\ Enter("failed")
  /\ UNCHANGED <<table, file, search, topic, request, wsnap, wmarked, wvec, history>>


(* The old vectors are deleted in the transaction, the indexed chunks at   *)
(* once.                                                                   *)
Purge ==
  /\ wpc = "purge"
  /\ wvec' = {}
  /\ \/ /\ index' = [index EXCEPT ![Current] = {}]
        /\ Enter(IF Chunks(Current) = {} THEN "complete" ELSE "ensure")
        /\ UNCHANGED faults
     \/ /\ Fail
        /\ \E left \in SUBSET index[Current] : index' = [index EXCEPT ![Current] = left]
        /\ Enter("failed")
  /\ UNCHANGED <<table, file, vectors, topic, request, wsnap, wmarked, history>>

(* ensure_enough: the first read takes the snapshot of the transaction, of *)
(* which the worker looks at the rows of its document.                     *)
Ensure ==
  /\ wpc = "ensure"
  /\ wsnap' = RowsOf(rows, Current)
  /\ \/ Enter("embed") /\ UNCHANGED faults
     \/ Fail /\ Enter("failed")
  /\ UNCHANGED <<table, file, search, topic, request, wmarked, wvec, history>>

(* embed_texts and save_chunks.                                            *)
Embed ==
  /\ wpc = "embed"
  /\ \/ wvec' = Chunks(Current) /\ Enter("index") /\ UNCHANGED faults
     \/ Fail /\ Enter("failed") /\ UNCHANGED wvec
  /\ UNCHANGED <<table, file, search, topic, request, wsnap, wmarked, history>>

(* Mutant: the errors in the bulk response are not looked at.              *)
BulkIndexUnchecked ==
  /\ wpc = "index"
  /\ \E done \in SUBSET Chunks(Current) :
       /\ index' = [index EXCEPT ![Current] = @ \cup done]
       /\ Enter("charge")
       /\ IF done = Chunks(Current) THEN UNCHANGED faults ELSE Fail
  /\ UNCHANGED <<table, file, vectors, topic, request, wsnap, wmarked, wvec, history>>

BulkIndex ==
  /\ wpc = "index"
  /\ \E done \in SUBSET Chunks(Current) :
       /\ index' = [index EXCEPT ![Current] = @ \cup done]
       /\ \/ done = Chunks(Current) /\ Enter("charge") /\ UNCHANGED faults
          \/ Fail /\ Enter("failed")
  /\ UNCHANGED <<table, file, vectors, topic, request, wsnap, wmarked, wvec, history>>

(* Mutant: the charge is committed at once.                                *)
ChargeAndCommit ==
  /\ wpc = "charge"
  /\ charges' = [charges EXCEPT ![position] = @ + 1]
  /\ Enter("complete")
  /\ UNCHANGED <<table, file, search, topic, request, wsnap, wmarked, wvec,
                 forgotten, shared, redone, faults>>

(* consume_tokens, in the transaction that Complete commits.               *)
Charge ==
  /\ wpc = "charge"
  /\ \/ Enter("complete") /\ UNCHANGED faults
     \/ Fail /\ Enter("failed")
  /\ UNCHANGED <<table, file, search, topic, request, wsnap, wmarked, wvec, history>>

(* The row get_by_file_md5 finds in this transaction, with what the        *)
(* session remembers of the row it marked.                                 *)
Seen == {IF r.id = wmarked THEN [r EXCEPT !.vectorization = "PROCESSING"] ELSE r :
           r \in Newest(IF wsnap = None THEN rows ELSE wsnap, Current)}

(* The row was deleted since: the flush raises and nothing can be          *)
(* committed any more.                                                     *)
Stale == \E r \in Seen : WithId(rows, r.id) = {}

SetSeen(status) ==
  IF Seen = {} THEN UNCHANGED rows
  ELSE \E r \in Seen : SetVectorization(r, status)

SaveVectors == vectors' = [vectors EXCEPT ![Current] = wvec]

Complete ==
  /\ wpc = "complete" /\ ~Stale
  /\ SetSeen("COMPLETED")
  /\ SaveVectors
  /\ charges' = IF Chunks(Current) = {} THEN charges
                ELSE [charges EXCEPT ![position] = @ + 1]
  /\ Enter("offset")
  /\ UNCHANGED <<nextId, file, index, topic, request, wsnap, wmarked, wvec,
                 forgotten, shared, redone, faults>>

CommitOffset ==
  /\ wpc = "offset"
  /\ committed' = position
  /\ wpc' = "idle" /\ wsnap' = None /\ wmarked' = None /\ wvec' = {}
  /\ UNCHANGED <<table, file, search, queue, position, request, history, faults>>

(* except: FAILED is committed with whatever the transaction has done so   *)
(* far, and the exception ends the process.                                *)
Failed ==
  /\ wpc = "failed" /\ ~Stale
  /\ SetSeen("FAILED")
  /\ SaveVectors
  /\ Down
  /\ UNCHANGED <<nextId, file, index, topic, request, history, faults>>

GiveUp ==
  /\ wpc \in {"complete", "failed"} /\ Stale
  /\ Down
  /\ UNCHANGED <<table, file, search, topic, request, history, faults>>

(* The process is killed, or the database or the broker is away.           *)
Crash ==
  /\ wpc # "down"
  /\ Fail
  /\ redone' = IF wpc = "offset" THEN [redone EXCEPT ![position] = @ + 1] ELSE redone
  /\ Down
  /\ UNCHANGED <<table, file, search, topic, request, forgotten, shared, charges>>

(***************************************************************************)
(* The specification.                                                      *)
(***************************************************************************)
Serve(s) ==
  \/ Close(s) \/ Upload(s) \/ Merge(s) \/ Retry(s) \/ Send(s)
  \/ Delete(s) \/ RemoveFile(s)

Work ==
  \/ Start \/ Fetch \/ Mark \/ Parse \/ Purge \/ Ensure \/ Embed
  \/ BulkIndex \/ Charge \/ Complete \/ CommitOffset \/ Failed \/ GiveUp

Next ==
  \/ \E s \in Session : \/ Begin(s) \/ Serve(s) \/ MergeFails(s)
                         \/ MergeUndone(s) \/ SendFail(s) \/ Abort(s)
  \/ Work \/ Crash

Spec == Init /\ [][Next]_vars

(* Docker restarts the worker, which works as long as there are messages.  *)
FairSpec == Spec /\ WF_vars(Work)

(***************************************************************************)
(* Properties.                                                             *)
(***************************************************************************)
TypeOK ==
  /\ rows \subseteq Row /\ nextId \in 1..(MaxRows + 1)
  /\ \A q, r \in rows : q.id = r.id \/ (q.doc = r.doc /\ q.user = r.user) => q = r
  /\ file \subseteq Doc
  /\ vectors \in [Doc -> SUBSET Chunk] /\ index \in [Doc -> SUBSET Chunk]
  /\ queue \in Seq(Task) /\ Len(queue) <= MaxTasks
  /\ position \in 0..Len(queue) /\ committed \in {None} \cup 1..Len(queue)
  /\ pc \in [Session -> {"idle", "open", "send", "resend", "remove"}]
  /\ snap \in [Session -> SUBSET Row]
  /\ chosen \in [Session -> Chosen \cup {None}]
  /\ wpc \in {"down", "idle", "mark", "parse", "purge", "ensure", "embed", "index",
              "charge", "complete", "offset", "failed"}
  /\ wsnap = None \/ wsnap \subseteq Row
  /\ wmarked \in {None} \cup 1..MaxRows /\ wvec \subseteq Chunk
  /\ forgotten \subseteq Doc /\ shared \subseteq Doc
  /\ charges \in [1..MaxTasks -> Nat] /\ redone \in [1..MaxTasks -> Nat]
  /\ faults \in 0..MaxFaults

(* A document shown as COMPLETED has all its chunks in the database and in *)
(* the search index, whatever failed, was retried, was redelivered or was  *)
(* deleted and uploaded again in between, as long as one user has it.      *)
CompletedIsSearchable ==
  \A r \in rows : r.vectorization = "COMPLETED" /\ r.doc \notin shared
     => index[r.doc] = Chunks(r.doc) /\ vectors[r.doc] = Chunks(r.doc)

(* Messages up to here will not be delivered again.                        *)
Passed == IF wpc = "down" THEN IF committed = None THEN 0 ELSE committed
          ELSE IF wpc = "idle" THEN position ELSE position - 1

(* A merged document shown as PROCESSING has a message to come or a        *)
(* request about to send one, unless that request died, or a worker that   *)
(* had never committed began after the message.  (One whose merge failed   *)
(* may be PROCESSING with nothing to come until it is merged again.)       *)
ProcessingHasTask ==
  \A r \in rows : /\ r.merged /\ r.vectorization = "PROCESSING"
                 /\ r.doc \notin shared \cup forgotten
     => \/ \E n \in (Passed + 1)..Len(queue) : queue[n].doc = r.doc
        \/ \E s \in Session : pc[s] \in Sending /\ chosen[s].doc = r.doc

(* A message is charged once, and once more only for each time its offset  *)
(* was lost after the work was done: failed attempts cost nothing.         *)
ChargedOnce == \A n \in 1..MaxTasks : charges[n] <= 1 + redone[n]

(***************************************************************************)
(* The inductive invariant.                                                *)
(***************************************************************************)
(* A row some transaction has seen: its id stays its document's.           *)
Agrees(x) ==
  /\ x.id < nextId
  /\ \A r \in WithId(rows, x.id) : r.doc = x.doc

(* Ids are given once, and a document that is not shared has one row.      *)
RowsOK ==
  /\ \A r \in rows : r.id < nextId
  /\ \A q, r \in rows : q.doc = r.doc /\ r.doc \notin shared => q = r

RequestOK(s) ==
  /\ \A x \in snap[s] : Agrees(x)
  /\ pc[s] \in Sending \cup {"remove"} => chosen[s] \in Chosen /\ Agrees(chosen[s])

(* The topic has room for what is about to be sent, and what the worker is *)
(* at was not committed.                                                   *)
TopicOK ==
  /\ Len(queue) + Cardinality(Senders) <= MaxTasks
  /\ wpc \notin {"down", "idle"} => position >= 1
  /\ committed # None /\ wpc # "down" =>
       committed <= (IF wpc = "idle" THEN position ELSE position - 1)

(* What the worker remembers of the rows: the snapshot shows the row it    *)
(* marked, if that is still there, and only one of an unshared document.   *)
Working == {"parse", "purge", "ensure", "embed", "index", "charge", "complete", "failed"}
MemoryOK ==
  /\ wpc \in {"down", "idle", "mark", "parse", "purge"} => wsnap = None
  /\ wsnap # None =>
       /\ \A x \in wsnap : Agrees(x)
       /\ \A x, y \in wsnap : x.doc = y.doc /\ x.doc \notin shared => x = y
       /\ WithId(rows, wmarked) # {} => WithId(wsnap, wmarked) # {}
  /\ wmarked # None => wmarked < nextId
  /\ wpc \in Working => \A r \in WithId(rows, wmarked) : r.doc = Current

(* Its chunks of the document at each step.                                *)
DataOK ==
  /\ wpc \in {"ensure", "embed", "index", "charge"} => Chunks(Current) = Chunk
  /\ wpc \in {"index", "charge", "complete"} => wvec = Chunks(Current)
  /\ wpc \in {"charge", "complete"} => index[Current] = Chunks(Current)

(* Somebody will deal with a row: a message behind the n-th one, or the    *)
(* request that is about to send one for this row.                         *)
DueAfter(n, r) ==
  \/ \E k \in (n + 1)..Len(queue) : queue[k].doc = r.doc
  \/ \E s \in Session : pc[s] \in Sending /\ chosen[s].id = r.id

(* Merged rows that wait, of documents the exceptions do not concern.      *)
Waiting == {r \in rows : /\ r.merged /\ r.vectorization = "PROCESSING"
                        /\ r.doc \notin shared \cup forgotten}

(* While the worker is at a document nobody sees it as completed, and it   *)
(* leaves no row waiting but the one it marked.                            *)
WorkOK ==
  /\ \A r \in Waiting : DueAfter(Passed, r)
  /\ \A r \in rows : wpc \in Working /\ r.doc = Current /\ r.doc \notin shared
       => r.vectorization # "COMPLETED"
  /\ \A r \in Waiting : wpc \in Working /\ r.doc = Current
       => r.id = wmarked \/ DueAfter(position, r)
  /\ \A r \in Waiting : wpc = "offset" /\ r.doc = Current => DueAfter(position, r)

(* A message whose work is not committed has been charged only as often as *)
(* its offset was lost.                                                    *)
Finished(n) == (committed # None /\ n <= committed) \/ (wpc = "offset" /\ n = position)
ChargesOK ==
  \A n \in 1..MaxTasks : charges[n] <= redone[n] + (IF Finished(n) THEN 1 ELSE 0)

(* Inductive: the invariants above with what they rest on.                 *)
Inv ==
  /\ TypeOK /\ RowsOK
  /\ \A s \in Session : RequestOK(s)
  /\ TopicOK /\ MemoryOK /\ DataOK /\ WorkOK /\ ChargesOK
  /\ CompletedIsSearchable /\ ProcessingHasTask /\ ChargedOnce

=============================================================================
