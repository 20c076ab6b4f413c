------------------------ MODULE KnowledgeBaseClient ------------------------
(***************************************************************************)
(* The upload queue of the page and the document table over it.            *)
(*                                                                         *)
(* The store keeps the list of tasks, which files are being uploaded and   *)
(* one upload per file: a few chunks at a time, then the merge.  The table *)
(* fetches the documents, writes what it learns into the same list, polls  *)
(* while something is being vectorized, and removes rows.  Every request   *)
(* is on its way for a while, and the list moves under it.                 *)
(*                                                                         *)
(* One user, one tab; File is the order in which the server lists rows.    *)
(***************************************************************************)
EXTENDS Naturals, FiniteSets, SequencesExt, FiniteSetsExt

CONSTANTS
  File,         \* the files, in the order of the server's list
  TotalChunks,  \* chunks of a file
  MaxUploads,   \* files uploaded at a time (3)
  Parallel,     \* maxConcurrentChunksPerFile (4)
  PageSize,     \* rows of a page of the table
  MaxActs,      \* bound: what the user does
  MaxFails,     \* bound: requests that fail
  MaxLists,     \* bound: lists on their way when the user asks for one
  None

Files == ToSet(File)
Chunk == 0..(TotalChunks - 1)
Pages == {1} \cup {p \in 1..Len(File) : (p - 1) * PageSize < Len(File)}
Status == {"Pending", "Uploading", "Completed", "Break"}
Vec == {None, "PROCESSING", "FINISHED"}   \* FINISHED: COMPLETED or FAILED

(* A row of the list, the upload of a file, a document of the server, a    *)
(* row of an answer, a list on its way, a deletion on its way.             *)
Tasks == [f : Files, file : BOOLEAN, got : SUBSET Chunk, st : Status, vec : Vec]
Jobs == [ph : {"none", "chunks", "merging", "merged", "refused"},
         queue : SUBSET Chunk, work : SUBSET Chunk, bad : BOOLEAN]
Docs == [row : {"none", "uploading", "completed"}, chunks : SUBSET Chunk, vec : Vec]
Rows == [f : Files, row : {"uploading", "completed"}, vec : Vec]
Lists == [p : Pages, by : {"list", "poll", "data"}, old : BOOLEAN, served : BOOLEAN,
          rows : SUBSET Rows]
Deletions == [f : Files, i : Nat, got : {"no", "ok"}]
Slips == {"revived", "demoted", "stale", "unwatched", "deleted", "wrongRow"}

ASSUME KnowledgeBaseAssumption ==
  /\ File \in Seq(Files) /\ None \notin Files
  /\ \A i, k \in DOMAIN File : File[i] = File[k] => i = k
  /\ {TotalChunks, MaxUploads, Parallel, PageSize, MaxLists} \subseteq Nat \ {0}
  /\ {MaxActs, MaxFails} \subseteq Nat

VARIABLES
  tasks,     \* the store's list
  active,    \* activeUploads
  job,       \* the upload of each active file
  hashing,   \* the file the upload dialog is reading
  resuming,  \* rows whose upload status is asked for, with the file at hand
  deleting,  \* deletions under way: the file, the index noted, and the answer
  lists,     \* document lists under way
  shown,     \* data: the files of the table's rows
  page,      \* searchParams.page
  mounted,   \* whether the page is on the screen
  timer,     \* vectorizationPollingTimer is running
  orphans,   \* polls that go on for a page that was left
  docs,      \* the server's documents and chunks
  acts, fails,
  slips      \* history: what went wrong between a request and its answer

store == <<tasks, active, job>>
table == <<lists, shown, page, mounted, timer, orphans>>
vars == <<store, hashing, resuming, deleting, table, docs, acts, fails, slips>>

NoJob == [ph |-> "none", queue |-> {}, work |-> {}, bad |-> FALSE]

----------------------------------------------------------------------------
(* The list of tasks.                                                      *)

Find(ts, f) == {i \in DOMAIN ts : ts[i].f = f}
Has(ts, f) == Find(ts, f) # {}
Row(ts, f) == ts[Min(Find(ts, f))]
Put(ts, f, field, v) ==
  [i \in DOMAIN ts |-> IF ts[i].f = f THEN [ts[i] EXCEPT ![field] = v] ELSE ts[i]]
Set(ts, f, st) == Put(ts, f, "st", st)
NewTask(f) == [f |-> f, file |-> TRUE, got |-> {}, st |-> "Pending", vec |-> None]

(* The elements of a sequence whose places are in I, in their order.       *)
Rank(i, I) == Cardinality({x \in I : x <= i})
Picked(s, I) == [j \in 1..Cardinality(I) |-> s[CHOOSE i \in I : Rank(i, I) = j]]

(* A row that has its file and is queued or on its way.                    *)
isLocalUploading(t) == t.file /\ t.st \in {"Pending", "Uploading"}

isVectorizationProcessing(t) == t.st = "Completed" /\ t.vec = "PROCESSING"

(* scheduleVectorizationPolling: the timer runs while a row is processing. *)
Polling(ts) == \E i \in DOMAIN ts : isVectorizationProcessing(ts[i])

(* The watch of the rows' files and vectorization schedules the poll anew. *)
Watched(ts) == [i \in DOMAIN ts |-> <<ts[i].f, ts[i].vec>>]
Watch(ts, m, t) == IF m /\ Watched(ts) # Watched(tasks) THEN Polling(ts) ELSE t

----------------------------------------------------------------------------
(* The upload queue.  s is the store: the tasks, the active files, the     *)
(* uploads.                                                                *)

(* mergeFile is called: its request is on its way.                         *)
Merging == [NoJob EXCEPT !.ph = "merging"]

(* uploadChunksInParallel: the first workers take the first chunks.        *)
Workers(todo) ==
  LET first == {c \in todo : Cardinality({d \in todo : d < c}) < Parallel}
  IN [ph |-> "chunks", queue |-> todo \ first, work |-> first, bad |-> FALSE]

Waiting(ts, act) == {i \in DOMAIN ts : ts[i].st = "Pending" /\ ts[i].f \notin act}

(* startUpload takes the first waiting row.  A row without its file fails  *)
(* at its first chunk, before anything is sent, is broken off, and the     *)
(* next is taken.                                                          *)
startUpload(s) ==
  LET w == Waiting(s.ts, s.act)
      real == {i \in w : s.ts[i].file}
      first == IF real = {} THEN Len(s.ts) + 1 ELSE Min(real)
      empty == {i \in w : i < first}
      cleaned == [i \in DOMAIN s.ts |->
                    IF i \in empty THEN [s.ts[i] EXCEPT !.st = "Break"] ELSE s.ts[i]]
  IN IF Cardinality(s.act) >= MaxUploads \/ w = {} THEN s
     ELSE IF real = {} THEN [s EXCEPT !.ts = cleaned]
     ELSE LET t == s.ts[first] IN
          [ts |-> Set(cleaned, t.f, "Uploading"), act |-> s.act \cup {t.f},
           jb |-> [s.jb EXCEPT ![t.f] = IF t.got = Chunk THEN Merging ELSE Workers(Chunk \ t.got)]]

(* Mutant: the next file is not started after an upload that failed.       *)
EndedAlone(s, f, st) ==
  [ts |-> Set(s.ts, f, st), act |-> s.act \ {f}, jb |-> [s.jb EXCEPT ![f] = NoJob]]

(* The end of an upload, finally: the row, if it is still there, gets its  *)
(* status, the file is no longer active, the next one starts.              *)
Ended(s, f, st) ==
  startUpload([ts |-> Set(s.ts, f, st), act |-> s.act \ {f},
               jb |-> [s.jb EXCEPT ![f] = NoJob]])

(* The workers are done: Promise.all returns, and the rest of startUpload  *)
(* runs up to the merge request.                                           *)
ChunksDone(s, f) ==
  IF s.jb[f].bad THEN Ended(s, f, "Break")
  ELSE IF ~Has(s.ts, f) THEN Ended(s, f, "Break")
  ELSE IF Row(s.ts, f).got # Chunk THEN Ended(s, f, "Break")
  ELSE [s EXCEPT !.jb[f] = Merging]

Store == [ts |-> tasks, act |-> active, jb |-> job]
SetStore(s) == tasks' = s.ts /\ active' = s.act /\ job' = s.jb

----------------------------------------------------------------------------
(* The server.                                                             *)

NoDoc == [row |-> "none", chunks |-> {}, vec |-> None]

(* A chunk creates the row; a completed document refuses it.               *)
Stored(d, c) ==
  IF d.row = "completed" THEN d ELSE [d EXCEPT !.row = "uploading", !.chunks = @ \cup c]

(* The page p of the rows a list finds, in the order of the files.         *)
PageOf(p) ==
  LET found == {i \in DOMAIN File : docs[File[i]].row # "none"}
      part == {i \in found : /\ (p - 1) * PageSize < Rank(i, found)
                             /\ Rank(i, found) <= p * PageSize}
  IN {[f |-> File[i], row |-> docs[File[i]].row, vec |-> docs[File[i]].vec] : i \in part}

(* A list on its way; served: the server has read its rows.                *)
List(p, by, old) == [p |-> p, by |-> by, old |-> old, served |-> FALSE, rows |-> {}]

----------------------------------------------------------------------------
Init ==
  /\ tasks = <<>> /\ active = {} /\ job = [f \in Files |-> NoJob]
  /\ hashing = None /\ resuming = {} /\ deleting = {}
  /\ shown = {} /\ page = 1 /\ mounted = TRUE /\ timer = FALSE /\ orphans = FALSE
  /\ lists = {List(1, "list", FALSE)}
  /\ docs \in [Files -> {NoDoc, Stored(NoDoc, {0}),   \* an upload that was broken off
                          [NoDoc EXCEPT !.row = "completed", !.vec = "FINISHED"]}]
  /\ acts = 0 /\ fails = 0 /\ slips = {}

Act == acts < MaxActs /\ acts' = acts + 1
Fail == fails < MaxFails /\ fails' = fails + 1

(* A list is asked for: by getList, a poll, or getData alone.              *)
Ask(by) ==
  /\ Cardinality(lists) < MaxLists
  /\ lists' = lists \cup {List(page, by, FALSE)}

Same(d) == Watch(d, mounted, timer)

----------------------------------------------------------------------------
(* The upload dialog: the file is read, then the task is queued.           *)
Submit(f) ==
  /\ Act /\ mounted /\ hashing = None
  /\ hashing' = f
  /\ UNCHANGED <<store, resuming, deleting, table, docs, fails, slips>>

enqueueUpload ==
  /\ hashing # None /\ hashing' = None
  /\ LET f == hashing IN
     IF Has(tasks, f)
     THEN IF Row(tasks, f).st = "Break"
          THEN SetStore(startUpload([Store EXCEPT !.ts = Set(tasks, f, "Pending")]))
          ELSE UNCHANGED store
     ELSE SetStore(startUpload([Store EXCEPT !.ts = Append(tasks, NewTask(f))]))
  /\ timer' = Same(tasks')
  /\ UNCHANGED <<resuming, deleting, lists, shown, page, mounted, orphans, docs, acts, fails, slips>>

(* uploadChunk answers: the row of the file learns what the server has,    *)
(* and the worker takes the next chunk.                                    *)
ChunkUploaded(f, c) ==
  /\ job[f].ph = "chunks" /\ c \in job[f].work /\ docs[f].row # "completed"
  /\ docs' = [docs EXCEPT ![f] = Stored(@, {c})]
  /\ LET j == job[f]
         next == IF j.bad \/ j.queue = {} THEN {} ELSE {Min(j.queue)}
         j2 == [j EXCEPT !.work = (@ \ {c}) \cup next, !.queue = @ \ next]
         got == IF Has(tasks, f) THEN Row(tasks, f).got \cup docs'[f].chunks ELSE {}
         s == [ts |-> Put(tasks, f, "got", got), act |-> active, jb |-> [job EXCEPT ![f] = j2]]
     IN SetStore(IF j2.work = {} THEN ChunksDone(s, f) ELSE s)
  /\ UNCHANGED <<hashing, resuming, deleting, table, acts, fails, slips>>

(* A chunk fails; the server may have stored it all the same.              *)
ChunkFailed(f, c) ==
  /\ job[f].ph = "chunks" /\ c \in job[f].work
  /\ IF docs[f].row = "completed" THEN UNCHANGED fails ELSE Fail
  /\ docs' \in {docs, [docs EXCEPT ![f] = Stored(@, {c})]}
  /\ LET j2 == [job[f] EXCEPT !.work = @ \ {c}, !.bad = TRUE]
         s == [ts |-> tasks, act |-> active, jb |-> [job EXCEPT ![f] = j2]]
     IN SetStore(IF j2.work = {} THEN ChunksDone(s, f) ELSE s)
  /\ UNCHANGED <<hashing, resuming, deleting, table, acts, slips>>

(* The server merges, or refuses.                                          *)
ServeMerge(f) ==
  /\ job[f].ph = "merging"
  /\ \/ /\ docs[f].row = "completed"
        /\ job' = [job EXCEPT ![f].ph = "merged"]
        /\ UNCHANGED <<docs, fails>>
     \/ /\ docs[f].row = "uploading" /\ docs[f].chunks = Chunk
        /\ job' = [job EXCEPT ![f].ph = "merged"]
        /\ docs' = [docs EXCEPT ![f] = [row |-> "completed", chunks |-> {}, vec |-> "PROCESSING"]]
        /\ UNCHANGED fails
     \/ /\ docs[f].row = "none" \/ (docs[f].row = "uploading" /\ docs[f].chunks # Chunk)
        /\ job' = [job EXCEPT ![f].ph = "refused"]
        /\ UNCHANGED <<docs, fails>>
     \/ /\ Fail
        /\ job' = [job EXCEPT ![f].ph = "refused"]
        /\ UNCHANGED docs
  /\ UNCHANGED <<tasks, active, hashing, resuming, deleting, table, acts, slips>>

(* Mutant: a refused merge completes the row all the same.                 *)
mergeFileHopeful(f) ==
  /\ job[f].ph \in {"merged", "refused"}
  /\ SetStore(Ended([Store EXCEPT !.ts = Put(tasks, f, "vec", "PROCESSING")], f, "Completed"))
  /\ timer' = Same(tasks')
  /\ UNCHANGED <<hashing, resuming, deleting, lists, shown, page, mounted, orphans, docs, acts, fails, slips>>

(* mergeFile answers: the row of the file is completed.  A row removed in  *)
(* the meantime makes the write throw, which ends the upload all the same. *)
(* The answer may also mark a row that was queued after the removal.       *)
mergeFile(f) ==
  /\ job[f].ph \in {"merged", "refused"}
  /\ LET s == [Store EXCEPT !.ts = Put(tasks, f, "vec", "PROCESSING")] IN
     IF job[f].ph = "merged" THEN SetStore(Ended(s, f, "Completed"))
     ELSE SetStore(Ended(Store, f, "Break"))
  /\ slips' = IF job[f].ph = "merged" /\ Has(tasks, f) /\ docs[f].row # "completed"
              THEN slips \cup {"revived"} ELSE slips
  /\ timer' = Same(tasks')
  /\ UNCHANGED <<hashing, resuming, deleting, lists, shown, page, mounted, orphans, docs, acts, fails>>

----------------------------------------------------------------------------
(* The table.                                                              *)

(* The refresh button, and a page of the pager.                            *)
Refresh ==
  /\ Act /\ mounted /\ Ask("list")
  /\ UNCHANGED <<store, hashing, resuming, deleting, shown, page, mounted, timer, orphans, docs, fails, slips>>
ChangePage(p) ==
  /\ Act /\ mounted /\ p # page /\ page' = p
  /\ Cardinality(lists) < MaxLists
  /\ lists' = lists \cup {List(p, "data", FALSE)}
  /\ UNCHANGED <<store, hashing, resuming, deleting, shown, mounted, timer, orphans, docs, fails, slips>>

(* The server reads the documents; the answer comes later, or not at all.  *)
ServeList(l) ==
  /\ l \in lists /\ ~l.served
  /\ lists' = (lists \ {l}) \cup {[l EXCEPT !.served = TRUE, !.rows = PageOf(l.p)]}
  /\ UNCHANGED <<store, hashing, resuming, deleting, shown, page, mounted, timer, orphans, docs, acts, fails, slips>>

(* syncTaskFromServer: the status of the server, where an upload nobody    *)
(* here is making is a broken one.                                         *)
syncTaskFromServer(t, d) ==
  [t EXCEPT !.st = IF d.row = "completed" THEN "Completed"
                   ELSE IF isLocalUploading(t) THEN "Uploading" ELSE "Break",
            !.vec = d.vec]

(* A row of the list the store does not know.                              *)
Remote(d) ==
  [f |-> d.f, file |-> FALSE, got |-> IF d.row = "completed" THEN Chunk ELSE {},
   st |-> IF d.row = "completed" THEN "Completed" ELSE "Break", vec |-> d.vec]

(* getList after its data: every row of the page is synced or added.       *)
RowOf(rows, f) == CHOOSE r \in rows : r.f = f
Synced(rows) ==
  LET listed == {r.f : r \in rows}
      known == [i \in DOMAIN tasks |->
                  IF tasks[i].f \in listed
                  THEN syncTaskFromServer(tasks[i], RowOf(rows, tasks[i].f)) ELSE tasks[i]]
      fresh == Picked(File, {i \in DOMAIN File : File[i] \in listed /\ ~Has(tasks, File[i])})
  IN known \o [i \in DOMAIN fresh |-> Remote(RowOf(rows, fresh[i]))]

(* What a late list may do: show a waiting row as being uploaded, make a   *)
(* row one to poll for without the watch noticing, for the watch does not  *)
(* look at the status, and bring rows older than what the page has learnt. *)
Demoted(ts) ==
  \E i \in DOMAIN tasks : tasks[i].st = "Pending" /\ tasks[i].f \notin active
                            /\ ts[i].st = "Uploading"
Unwatched(ts) == Watched(ts) = Watched(tasks) /\ Polling(ts) /\ ~Polling(tasks)
Stale(rows) == \E r \in rows : r.row # docs[r.f].row

(* After a poll the next is scheduled; for a page that was left, too.      *)
Rescheduled(l, ts) ==
  LET t == Watch(ts, mounted, timer) IN
  /\ timer' = IF l.by = "poll" /\ ~l.old THEN Polling(ts) ELSE t
  /\ orphans' = IF l.by = "poll" /\ l.old THEN Polling(ts) ELSE orphans

(* A list answers.                                                         *)
getList(l) ==
  /\ l \in lists /\ l.served /\ lists' = lists \ {l}
  /\ LET ts == IF l.by = "data" THEN tasks ELSE Synced(l.rows)
     IN /\ shown' = IF l.old THEN shown ELSE {r.f : r \in l.rows}
        /\ tasks' = ts
        /\ slips' = slips \cup (IF Demoted(ts) THEN {"demoted"} ELSE {})
                          \cup (IF l.by # "data" /\ Stale(l.rows) THEN {"stale"} ELSE {})
                          \cup (IF Unwatched(ts) THEN {"unwatched"} ELSE {})
        /\ Rescheduled(l, ts)
  /\ UNCHANGED <<active, job, hashing, resuming, deleting, page, mounted, docs, acts, fails>>

(* A list fails: the table is empty, the tasks are as they were.           *)
ListFailed(l) ==
  /\ Fail /\ l \in lists /\ lists' = lists \ {l}
  /\ shown' = IF l.old THEN shown ELSE {}
  /\ Rescheduled(l, tasks)
  /\ UNCHANGED <<store, hashing, resuming, deleting, page, mounted, docs, acts, slips>>

(* The poll of the page, and one that outlives it.                         *)
Poll ==
  /\ timer /\ timer' = FALSE /\ lists' = lists \cup {List(page, "poll", FALSE)}
  /\ UNCHANGED <<store, hashing, resuming, deleting, shown, page, mounted, orphans, docs, acts, fails, slips>>
OrphanPoll ==
  /\ orphans /\ orphans' = FALSE /\ lists' = lists \cup {List(1, "poll", TRUE)}
  /\ UNCHANGED <<store, hashing, resuming, deleting, shown, page, mounted, timer, docs, acts, fails, slips>>

(* The page is left: its timer is cleared, its requests go on.             *)
Unmount ==
  /\ Act /\ mounted /\ mounted' = FALSE /\ timer' = FALSE /\ shown' = {} /\ page' = 1
  /\ lists' = {[l EXCEPT !.old = TRUE] : l \in lists}
  /\ UNCHANGED <<store, hashing, resuming, deleting, orphans, docs, fails, slips>>
Mount ==
  /\ ~mounted /\ mounted' = TRUE /\ Ask("list") /\ timer' = Polling(tasks)
  /\ UNCHANGED <<store, hashing, resuming, deleting, shown, page, orphans, docs, acts, fails, slips>>

----------------------------------------------------------------------------
(* The rows.                                                               *)

(* tableTasks: the rows of the page, and the local ones that are not done. *)
Displayed(f) ==
  /\ mounted
  /\ \/ f \in shown
     \/ Has(tasks, f) /\ Row(tasks, f).file /\ Row(tasks, f).st # "Completed"

(* renderResumeUploadButton: a row that was broken off can be resumed.     *)
Resumable(f) == Displayed(f) /\ Has(tasks, f) /\ Row(tasks, f).st = "Break"

(* The resume button of a row that has its file.                           *)
resumeUpload(f) ==
  /\ Act /\ Resumable(f) /\ Row(tasks, f).file
  /\ SetStore(startUpload([Store EXCEPT !.ts = Set(tasks, f, "Pending")]))
  /\ UNCHANGED <<hashing, resuming, deleting, table, docs, fails, slips>>

(* The resume button of a row without: the file is chosen and its upload   *)
(* status asked for; the answer queues the row.                            *)
onBeforeUpload(f) ==
  /\ Act /\ Resumable(f) /\ ~Row(tasks, f).file /\ f \notin resuming
  /\ resuming' = resuming \cup {f}
  /\ UNCHANGED <<store, hashing, deleting, table, docs, fails, slips>>
ResumeAnswered(f) ==
  /\ f \in resuming /\ resuming' = resuming \ {f}
  /\ LET i == Find(tasks, f)
         ts == [k \in DOMAIN tasks |->
                  IF k \in i THEN [tasks[k] EXCEPT !.file = TRUE, !.st = "Pending",
                                                   !.got = docs[f].chunks]
                  ELSE tasks[k]]
     IN SetStore(startUpload([Store EXCEPT !.ts = ts]))
  /\ UNCHANGED <<hashing, deleting, table, docs, acts, fails, slips>>
ResumeFailed(f) ==
  /\ Fail /\ f \in resuming /\ resuming' = resuming \ {f}
  /\ UNCHANGED <<store, hashing, deleting, table, docs, acts, slips>>

(* A row leaves the list; what was bound to it goes with it.               *)
Spliced(i) == IF i \in DOMAIN tasks THEN RemoveAt(tasks, i) ELSE tasks
Bound(i) == IF i \in DOMAIN tasks THEN {tasks[i].f} ELSE {}

(* handleDelete: the chunks on their way are cancelled, which breaks the   *)
(* upload off.  A row that got no chunk is dropped without a word to the   *)
(* server, any other is deleted there first.  A row of the table that is   *)
(* not in the list makes the handler throw, and nothing happens.           *)
handleDelete(f) ==
  /\ Act /\ Displayed(f) /\ Has(tasks, f)
  /\ LET i == Min(Find(tasks, f))
         cut == job[f].ph = "chunks" /\ job[f].work # {}
         drop == tasks[i].got = {}
         s == [Store EXCEPT !.ts = IF drop THEN Spliced(i) ELSE tasks]
     IN /\ SetStore(IF cut THEN Ended(s, f, "Break") ELSE s)
        /\ resuming' = IF drop THEN resuming \ {f} ELSE resuming
        /\ deleting' = IF drop THEN deleting ELSE deleting \cup {[f |-> f, i |-> i, got |-> "no"]}
        /\ IF cut THEN \E c \in SUBSET job[f].work : docs' = [docs EXCEPT ![f] = Stored(@, c)]
                  ELSE UNCHANGED docs
  /\ timer' = Same(tasks')
  /\ UNCHANGED <<hashing, lists, shown, page, mounted, orphans, fails, slips>>

ServeDelete(d) ==
  /\ d \in deleting /\ d.got = "no"
  /\ \/ /\ docs[d.f].row # "none"
        /\ docs' = [docs EXCEPT ![d.f] = NoDoc]
        /\ deleting' = (deleting \ {d}) \cup {[d EXCEPT !.got = "ok"]}
        /\ slips' = slips \cup {"deleted"}
        /\ UNCHANGED fails
     \/ /\ IF docs[d.f].row = "none" THEN UNCHANGED fails ELSE Fail
        /\ deleting' = deleting \ {d}
        /\ UNCHANGED <<docs, slips>>
  /\ UNCHANGED <<store, hashing, resuming, table, acts>>

(* The deletion answers: the row at the index noted before is removed,     *)
(* whichever it is now.                                                    *)
Deleted(d) ==
  /\ d \in deleting /\ d.got = "ok" /\ deleting' = deleting \ {d}
  /\ tasks' = Spliced(d.i)
  /\ resuming' = resuming \ Bound(d.i)
  /\ slips' = IF Bound(d.i) = {d.f} THEN slips ELSE slips \cup {"wrongRow"}
  /\ IF mounted THEN Ask("data") ELSE UNCHANGED lists
  /\ timer' = Same(tasks')
  /\ UNCHANGED <<active, job, hashing, shown, page, mounted, orphans, docs, acts, fails>>

canRetryVectorization(t) == t.vec = "FINISHED"
(* renderActualEmbeddingUsage: the rows that show a retry button.          *)
RetryOffered(t) == t.st = "Completed" /\ canRetryVectorization(t)

(* The retry: one request, answered at once, and the list again.           *)
handleRetryVectorization(f) ==
  /\ Act /\ Displayed(f) /\ Has(tasks, f) /\ docs[f].row = "completed"
  /\ RetryOffered(Row(tasks, f))
  /\ docs' = [docs EXCEPT ![f].vec = "PROCESSING"]
  /\ tasks' = Put(tasks, f, "vec", "PROCESSING")
  /\ Ask("list") /\ timer' = Same(tasks')
  /\ UNCHANGED <<active, job, hashing, resuming, deleting, shown, page, mounted, orphans, fails, slips>>

(* The worker of the server finishes a document.                           *)
Vectorized(f) ==
  /\ docs[f].vec = "PROCESSING"
  /\ docs' = [docs EXCEPT ![f].vec = "FINISHED"]
  /\ UNCHANGED <<store, hashing, resuming, deleting, table, acts, fails, slips>>

----------------------------------------------------------------------------
Chunks(f) == \E c \in Chunk : ChunkUploaded(f, c) \/ ChunkFailed(f, c)
Answers == \E l \in lists : ~l.old /\ (ServeList(l) \/ getList(l))
Upload(f) == Chunks(f) \/ ServeMerge(f) \/ mergeFile(f)

Next ==
  \/ enqueueUpload \/ Refresh \/ Poll \/ OrphanPoll \/ Unmount \/ Mount
  \/ \E p \in Pages : ChangePage(p)
  \/ \E f \in Files :
       \/ Submit(f) \/ Upload(f) \/ resumeUpload(f) \/ onBeforeUpload(f)
       \/ ResumeAnswered(f) \/ ResumeFailed(f)
       \/ handleDelete(f) \/ handleRetryVectorization(f) \/ Vectorized(f)
  \/ \E l \in lists : ServeList(l) \/ getList(l) \/ ListFailed(l)
  \/ \E d \in deleting : ServeDelete(d) \/ Deleted(d)

Spec == Init /\ [][Next]_vars

(* Requests are answered, the timer runs out, the worker finishes.  There  *)
(* are finitely many uploads and retries, so one WF serves all the files.  *)
FairSpec ==
  /\ Spec
  /\ WF_vars(Poll) /\ WF_vars(Answers)
  /\ WF_vars(\E f \in Files : Upload(f)) /\ WF_vars(\E f \in Files : Vectorized(f))

----------------------------------------------------------------------------
TypeOK ==
  /\ tasks \in Seq(Tasks) /\ active \subseteq Files /\ job \in [Files -> Jobs]
  /\ hashing \in Files \cup {None} /\ resuming \subseteq Files /\ deleting \subseteq Deletions
  /\ lists \subseteq Lists /\ shown \subseteq Files /\ page \in Pages
  /\ mounted \in BOOLEAN /\ timer \in BOOLEAN /\ orphans \in BOOLEAN
  /\ docs \in [Files -> Docs]
  /\ acts \in 0..MaxActs /\ fails \in 0..MaxFails /\ slips \subseteq Slips

(* There is one row a file, and at most MaxUploads files and Parallel      *)
(* chunks of each are on their way.                                        *)
RowsOnce == \A i, k \in DOMAIN tasks : tasks[i].f = tasks[k].f => i = k
JobsOK ==
  /\ active = {f \in Files : job[f].ph # "none"}
  /\ Cardinality(active) <= MaxUploads
  /\ \A f \in Files : Cardinality(job[f].work) <= Parallel

(* What a row has of its file is on the server, and what a list says is    *)
(* completed is, until a document is deleted.                              *)
GotOK ==
  "deleted" \notin slips =>
    /\ \A i \in DOMAIN tasks :
         docs[tasks[i].f].row = "completed" \/ tasks[i].got \subseteq docs[tasks[i].f].chunks
    /\ \A l \in lists : \A r \in l.rows :
         r.row = "completed" => docs[r.f].row = "completed"

(* A row that is shown as being uploaded from here is being uploaded: it   *)
(* is active, and its upload will end (startUpload, and its finally).      *)
(* The table can undo this: a list that has the row as uploading on the    *)
(* server takes it out of the queue while it waits (syncTaskFromServer).   *)
UploadingIsServed ==
  "demoted" \notin slips =>
    \A i \in DOMAIN tasks :
      tasks[i].file /\ tasks[i].st = "Uploading" => tasks[i].f \in active

(* A row shown as completed is a document of the server, or its deletion   *)
(* is done and about to be answered.  Undone by a list older than a        *)
(* deletion, by a deletion that removes another row, and by a merge        *)
(* answered for a row queued after it.                                     *)
CompletedIsStored ==
  slips \cap {"stale", "wrongRow", "revived"} = {} =>
    \A i \in DOMAIN tasks :
      tasks[i].st = "Completed" =>
        \/ docs[tasks[i].f].row = "completed"
        \/ \E d \in deleting : d.f = tasks[i].f /\ d.got = "ok"

(* A merge is asked for only when the server has every chunk of the file,  *)
(* whatever failed, was cancelled or was resumed before: what the page     *)
(* believes uploaded is there.  A document deleted meanwhile undoes it.    *)
MergeIsWhole ==
  "deleted" \notin slips =>
    \A f \in Files :
      job[f].ph = "merging" => docs[f].row = "completed" \/ docs[f].chunks = Chunk

(* A file in the queue gets its turn and an end: completed, broken off, or *)
(* removed.                                                                *)
QueueMoves ==
  \A f \in Files :
    []<>(\/ ~Has(tasks, f) \/ "demoted" \in slips
         \/ Row(tasks, f).st \in {"Completed", "Break"})

(* The polling never dies: a document shown as being vectorized, on the    *)
(* page of the table that is on the screen, is brought up to date.  Undone *)
(* by a change of a row's status alone, which the watch does not see.      *)
VectorizationShown ==
  \A f \in Files :
    []<>(\/ "unwatched" \in slips \/ ~mounted \/ ~Has(tasks, f) \/ f \notin shown
         \/ docs[f].row # "completed"
         \/ ~isVectorizationProcessing(Row(tasks, f)))

(* What the table says of an upload: one that is uploading is being served,  *)
(* one that is completed is stored, one that is merged was whole (the        *)
(* knowledge base store, views/knowledge-base).                              *)
TasksTrue ==
  /\ TypeOK /\ RowsOnce /\ JobsOK /\ GotOK
  /\ UploadingIsServed /\ CompletedIsStored /\ MergeIsWhole

(* A queue with room goes on, and the end of a vectorization gets shown.     *)
UploadsMove == QueueMoves /\ VectorizationShown
=============================================================================
