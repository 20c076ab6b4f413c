--------------------------- MODULE IngestionProofs ---------------------------
(***************************************************************************)
(* What Ingestion keeps for every set of users, documents and sessions,    *)
(* however the documents are chunked and whatever the bounds.              *)
(***************************************************************************)
EXTENDS Ingestion, FiniteSetTheorems, TLAPS

(***************************************************************************)
(* Rows.                                                                   *)
(***************************************************************************)
(* A set of natural numbers with an upper bound has a greatest one.        *)
LEMMA Greatest ==
  ASSUME NEW b \in Nat, NEW S \in SUBSET 0..b, S # {}
  PROVE  Max(S) \in S /\ \A y \in S : y <= Max(S)
<1> DEFINE R == OpToRel(<, Nat)
           T == {b - x : x \in S}
<1>1. IsWellFoundedOn(R, Nat)
  BY NatLessThanWellFounded
<1>2. \A x, y \in Nat : y < x => <<y, x>> \in R
  BY DEF OpToRel
<1>3. T \in SUBSET Nat /\ T # {}
  <2>1. \A x \in S : x \in Nat /\ x <= b
    OBVIOUS
  <2>2. \A x \in S : b - x \in Nat
    BY <2>1
  <2> QED
    BY <2>2
<1> HIDE DEF R
<1>4. PICK t \in T : \A u \in T : ~(<<u, t>> \in R)
  BY <1>1, <1>3, WFMin
<1>5. PICK x \in S : t = b - x
  BY <1>4
<1>6. ASSUME NEW y \in S
      PROVE  x >= y
  <2>1. b - y \in T /\ b - y \in Nat /\ t \in Nat /\ x \in Nat /\ y \in Nat
    BY <1>3, <1>4
  <2>2. ~(b - y < t)
    BY <1>2, <1>4, <2>1
  <2> QED
    BY <1>5, <2>1, <2>2
<1>7. Max(S) \in S /\ \A y \in S : Max(S) >= y
  BY <1>6 DEF Max
<1>8. \A y \in S : y \in Nat
  OBVIOUS
<1> QED
  BY <1>7, <1>8

(* The only row of a document is its newest.                               *)
LEMMA OnlyIsNewest ==
  ASSUME NEW rs \in SUBSET Row, NEW r \in rs,
         \A q \in rs : q.doc = r.doc => q = r
  PROVE  RowsOf(rs, r.doc) = {r} /\ Newest(rs, r.doc) = {r}
<1>1. RowsOf(rs, r.doc) = {r}
  BY DEF RowsOf
<1>2. r.id \in Nat
  BY IngestionAssumption DEF Row
<1> QED
  BY <1>1, <1>2 DEF Newest

(* Rows of which some were given a status.                                 *)
Restated(X, status) ==
  {IF r \in X THEN [r EXCEPT !.vectorization = status] ELSE r : r \in rows}

(* Rows taken from those there are: each as it was, but for its status.    *)
Reduced(rs) ==
  /\ rs \subseteq Row
  /\ \A q, r \in rs : q.id = r.id \/ (q.doc = r.doc /\ q.user = r.user) => q = r
  /\ \A r \in rs : \E q \in WithId(rows, r.id) : q.doc = r.doc

LEMMA RestatedReduced ==
  ASSUME TypeOK, NEW X, NEW status \in VectorizationStatus
  PROVE  /\ Reduced(Restated(X, status))
         /\ \A r \in Restated(X, status) :
              \E q \in rows :
                /\ q.id = r.id /\ q.doc = r.doc
                /\ q \in X => r.vectorization = status
                /\ q \notin X => r = q
<1> DEFINE f(r) == IF r \in X THEN [r EXCEPT !.vectorization = status] ELSE r
<1>1. \A r \in rows : r \in Row
  BY DEF TypeOK
<1>2. \A r \in Row : /\ f(r) \in Row /\ f(r).id = r.id /\ f(r).doc = r.doc
                     /\ f(r).user = r.user
                     /\ r \in X => f(r).vectorization = status
                     /\ r \notin X => f(r) = r
  BY DEF Row
<1>3. Restated(X, status) = {f(r) : r \in rows}
  BY DEF Restated
<1>4. \A q, r \in rows : q.id = r.id \/ (q.doc = r.doc /\ q.user = r.user) => q = r
  BY DEF TypeOK
<1> HIDE DEF f
<1> QED
  BY <1>1, <1>2, <1>3, <1>4 DEF Reduced, WithId

(* An UPDATE by id is one of these.                                        *)
LEMMA SetIsRestated ==
  ASSUME NEW seen, NEW status, SetVectorization(seen, status)
  PROVE  rows' = Restated({r \in rows : r.id = seen.id /\ seen.vectorization # status}, status)
BY DEF SetVectorization, Restated

(* What was said of ids goes on holding when rows are new or were there.   *)
RowsKept ==
  /\ nextId <= nextId' /\ shared \subseteq shared'
  /\ \A r \in rows' : nextId <= r.id \/ \E q \in WithId(rows, r.id) : q.doc = r.doc

LEMMA AgreesKept ==
  ASSUME TypeOK, TypeOK', RowsKept, NEW x \in Row \cup Chosen, Agrees(x)
  PROVE  Agrees(x)'
<1>1. x.id \in Nat /\ nextId \in Nat /\ nextId' \in Nat
  BY IngestionAssumption DEF Row, Chosen, TypeOK
<1>2. \A r \in rows' : r.id \in Nat
  BY IngestionAssumption DEF Row, TypeOK
<1> QED
  BY <1>1, <1>2 DEF Agrees, RowsKept, WithId

(* Rows that were there keep the ids and the documents apart.              *)
LEMMA ReducedRows ==
  ASSUME Inv, TypeOK', Reduced(rows'), nextId' = nextId, shared' = shared
  PROVE  RowsOK' /\ RowsKept
<1>1. RowsKept
  BY DEF RowsKept, Reduced, Inv, TypeOK
<1>2. \A r \in rows' : r.id < nextId'
  BY DEF Inv, RowsOK, Reduced, WithId
<1>3. ASSUME NEW q \in rows', NEW r \in rows', q.doc = r.doc, r.doc \notin shared'
      PROVE  q = r
  <2>1. PICK x \in WithId(rows, q.id) : x.doc = q.doc
    BY DEF Reduced
  <2>2. PICK y \in WithId(rows, r.id) : y.doc = r.doc
    BY DEF Reduced
  <2>3. x = y
    BY <1>3, <2>1, <2>2 DEF Inv, RowsOK, WithId
  <2>4. q.id = r.id
    BY <2>1, <2>2, <2>3 DEF WithId
  <2> QED
    BY <2>4 DEF Reduced
<1> QED
  BY <1>1, <1>2, <1>3 DEF RowsOK

(* The rest of the invariant follows from its parts.                       *)
LEMMA PartsSuffice ==
  ASSUME TypeOK', RowsOK', \A s \in Session : RequestOK(s)', TopicOK', MemoryOK', DataOK',
         WorkOK', ChargesOK', CompletedIsSearchable'
  PROVE  Inv'
<1>1. ProcessingHasTask'
  <2>1. SUFFICES ASSUME NEW r \in rows', r.merged, r.vectorization = "PROCESSING",
                        r.doc \notin (shared \cup forgotten)'
                 PROVE  \/ \E n \in (Passed' + 1)..Len(queue') : queue'[n].doc = r.doc
                        \/ \E s \in Session : pc'[s] \in Sending /\ chosen'[s].doc = r.doc
    BY DEF ProcessingHasTask
  <2>2. DueAfter(Passed, r)'
    BY <2>1 DEF WorkOK, Waiting
  <2>3. CASE \E s \in Session : pc'[s] \in Sending /\ chosen'[s].id = r.id
    BY <2>1, <2>3 DEF RequestOK, Agrees, WithId
  <2> QED
    BY <2>2, <2>3 DEF DueAfter
<1>2. ChargedOnce'
  <2>1. \A n \in 1..MaxTasks : charges'[n] \in Nat /\ redone'[n] \in Nat
    BY DEF TypeOK
  <2> QED
    BY <2>1 DEF ChargesOK, ChargedOnce
<1> QED
  BY <1>1, <1>2 DEF Inv

(***************************************************************************)
(* What a step of request s leaves alone.                                  *)
(***************************************************************************)
Others(s) ==
  \A t \in Session \ {s} : pc'[t] = pc[t] /\ snap'[t] = snap[t] /\ chosen'[t] = chosen[t]

WorkerKept ==
  UNCHANGED <<search, committed, position, worker, charges, redone>>

(* A row completed was completed, and a merged row that waits was so or is *)
(* the one whose message this request is about to send.                    *)
StatusKept(s) ==
  \A r \in rows' :
    \/ nextId <= r.id /\ r.vectorization = "NULL"
    \/ \E q \in WithId(rows, r.id) :
         /\ q.doc = r.doc
         /\ r.vectorization = "COMPLETED" => q.vectorization = "COMPLETED"
         /\ r.merged /\ r.vectorization = "PROCESSING" =>
              \/ q.merged /\ q.vectorization = "PROCESSING"
              \/ pc'[s] \in Sending /\ chosen'[s].id = r.id

(* Messages are only added.                                                *)
QueueKept == queue' = queue \/ \E m \in Task : queue' = Append(queue, m)

(* A request that gives up its message has sent it, or nobody waits for it *)
(* any more.                                                               *)
Served(s) ==
  pc[s] \in Sending =>
    \A r \in Waiting' : r.id = chosen[s].id =>
      Len(queue') = Len(queue) + 1 /\ queue'[Len(queue) + 1].doc = r.doc

LEMMA QueueGrows ==
  ASSUME TypeOK, QueueKept
  PROVE  /\ queue' \in Seq(Task) /\ Len(queue) \in Nat /\ Len(queue') \in Nat
         /\ Len(queue) <= Len(queue')
         /\ \A n \in 1..Len(queue) : queue'[n] = queue[n]
<1>1. queue \in Seq(Task)
  BY DEF TypeOK
<1> QED
  BY <1>1 DEF QueueKept

(* What was due stays due.                                                 *)
LEMMA DueKept ==
  ASSUME TypeOK, TypeOK', NEW s \in Session, Others(s), QueueKept, Served(s),
         pc[s] \in Sending => pc'[s] \notin Sending,
         NEW n \in 0..Len(queue), NEW r \in Waiting', NEW q \in rows,
         q.id = r.id, q.doc = r.doc, DueAfter(n, q)
  PROVE  DueAfter(n, r)'
<1>1. /\ Len(queue) \in Nat /\ Len(queue') \in Nat /\ Len(queue) <= Len(queue')
      /\ \A k \in 1..Len(queue) : queue'[k] = queue[k]
  BY QueueGrows
<1>2. CASE \E k \in (n + 1)..Len(queue) : queue[k].doc = q.doc
  <2>1. PICK k \in (n + 1)..Len(queue) : queue[k].doc = q.doc
    BY <1>2
  <2>2. k \in (n + 1)..Len(queue') /\ queue'[k].doc = r.doc
    BY <1>1, <2>1
  <2> QED
    BY <2>2 DEF DueAfter
<1>3. CASE \E t \in Session : pc[t] \in Sending /\ chosen[t].id = q.id
  <2>1. PICK t \in Session : pc[t] \in Sending /\ chosen[t].id = q.id
    BY <1>3
  <2>2. CASE t # s
    BY <2>1, <2>2 DEF Others, DueAfter
  <2>3. CASE t = s
    <3>1. Len(queue') = Len(queue) + 1 /\ queue'[Len(queue) + 1].doc = r.doc
      BY <2>1, <2>3 DEF Served
    <3>2. Len(queue) + 1 \in (n + 1)..Len(queue')
      BY <1>1, <3>1
    <3> QED
      BY <3>1, <3>2 DEF DueAfter
  <2> QED
    BY <2>2, <2>3
<1> QED
  BY <1>2, <1>3 DEF DueAfter

(* A request keeps the invariant when it keeps the types, the rows, the    *)
(* room in the topic and what is said of itself.                           *)
LEMMA RequestKeeps ==
  ASSUME Inv, NEW s \in Session, Others(s), WorkerKept, RowsKept, StatusKept(s), QueueKept,
         Served(s), pc[s] \in Sending => pc'[s] \notin Sending,
         forgotten \subseteq forgotten', TypeOK', RowsOK', RequestOK(s)',
         Len(queue') + Cardinality(Senders)' <= MaxTasks
  PROVE  Inv'
<1>1. TypeOK
  BY DEF Inv
<1>2. /\ Len(queue) \in Nat /\ Len(queue') \in Nat /\ Len(queue) <= Len(queue')
      /\ \A k \in 1..Len(queue) : queue'[k] = queue[k]
  BY <1>1, QueueGrows
<1>3. /\ vectors' = vectors /\ index' = index /\ committed' = committed
      /\ position' = position /\ wpc' = wpc /\ wsnap' = wsnap /\ wmarked' = wmarked
      /\ wvec' = wvec /\ charges' = charges /\ redone' = redone
  BY DEF WorkerKept, search, worker
<1>4. position \in 0..Len(queue) /\ (committed = None \/ committed \in 1..Len(queue))
  BY <1>1 DEF TypeOK
<1>5. wpc \notin {"down", "idle"} => position \in 1..Len(queue) /\ Current' = Current
  BY <1>2, <1>3, <1>4 DEF Inv, TopicOK, Current
<1>6. Passed' = Passed /\ Passed \in 0..Len(queue)
  BY <1>2, <1>3, <1>4, <1>5 DEF Passed
<1>7. \A t \in Session : RequestOK(t)'
  <2>1. SUFFICES ASSUME NEW t \in Session, t # s
                 PROVE  RequestOK(t)'
    OBVIOUS
  <2>2. RequestOK(t) /\ pc'[t] = pc[t] /\ snap'[t] = snap[t] /\ chosen'[t] = chosen[t]
    BY <2>1 DEF Inv, Others
  <2>3. snap[t] \subseteq Row
    BY <1>1 DEF TypeOK
  <2>4. \A x \in snap[t] : Agrees(x)'
    BY <1>1, <2>2, <2>3, AgreesKept DEF RequestOK
  <2>5. pc[t] \in Sending \cup {"remove"} => chosen[t] \in Chosen /\ Agrees(chosen[t])'
    BY <1>1, <2>2, AgreesKept DEF RequestOK
  <2> QED
    BY <2>2, <2>4, <2>5 DEF RequestOK, Agrees
<1>8. TopicOK'
  BY <1>3 DEF Inv, TopicOK
<1>9. MemoryOK'
  <2>1. wmarked # None => wmarked \in Nat
    BY <1>1 DEF TypeOK
  <2>2. nextId \in Nat /\ nextId' \in Nat
    BY <1>1 DEF TypeOK
  <2>3. wsnap # None => \A x \in wsnap : Agrees(x)'
    BY <1>1, AgreesKept DEF Inv, MemoryOK, TypeOK
  <2>4. ASSUME NEW r \in WithId(rows', wmarked)
        PROVE  \E q \in WithId(rows, wmarked) : q.doc = r.doc
    <3>1. r \in Row /\ r.id = wmarked
      BY <2>4 DEF WithId, TypeOK
    <3>2. wmarked \in Nat /\ wmarked < nextId
      BY <2>1, <3>1, IngestionAssumption DEF Row, Inv, MemoryOK
    <3> QED
      BY <2>2, <3>1, <3>2 DEF RowsKept, WithId
  <2>5. wsnap # None =>
          /\ \A x, y \in wsnap : x.doc = y.doc /\ x.doc \notin shared' => x = y
          /\ WithId(rows', wmarked) # {} => WithId(wsnap, wmarked) # {}
    BY <2>4 DEF Inv, MemoryOK, RowsKept
  <2>6. wmarked # None => wmarked < nextId'
    BY <2>1, <2>2 DEF Inv, MemoryOK, RowsKept
  <2>7. wpc \in Working => \A r \in WithId(rows', wmarked) : r.doc = Current'
    BY <1>5, <2>4 DEF Inv, MemoryOK, Working
  <2>8. wpc \in {"down", "idle", "mark", "parse", "purge"} => wsnap = None
    BY DEF Inv, MemoryOK
  <2> QED
    BY <1>3, <2>3, <2>5, <2>6, <2>7, <2>8 DEF MemoryOK, Agrees
<1>10. DataOK'
  BY <1>3, <1>5 DEF Inv, DataOK
<1>11. \A r \in rows' : r.vectorization = "COMPLETED" =>
         \E q \in rows : q.doc = r.doc /\ q.vectorization = "COMPLETED"
  BY DEF StatusKept, WithId
<1>12. CompletedIsSearchable'
  BY <1>3, <1>11 DEF Inv, CompletedIsSearchable, RowsKept
<1>13. WorkOK'
  <2>1. ASSUME NEW r \in Waiting'
        PROVE  \/ \A n \in 0..Len(queue) : DueAfter(n, r)'
               \/ \E q \in Waiting : q.id = r.id /\ q.doc = r.doc
    <3>1. /\ r \in rows' /\ r.merged /\ r.vectorization = "PROCESSING"
          /\ r.doc \notin shared \cup forgotten
      BY DEF Waiting, RowsKept
    <3>2. PICK q \in WithId(rows, r.id) :
            /\ q.doc = r.doc
            /\ \/ q.merged /\ q.vectorization = "PROCESSING"
               \/ pc'[s] \in Sending /\ chosen'[s].id = r.id
      BY <3>1 DEF StatusKept
    <3>3. q \in Waiting \/ (pc'[s] \in Sending /\ chosen'[s].id = r.id)
      BY <3>1, <3>2 DEF Waiting, WithId
    <3> QED
      BY <3>2, <3>3 DEF WithId, DueAfter
  <2>2. ASSUME NEW n \in 0..Len(queue), NEW r \in Waiting', NEW q \in Waiting,
               q.id = r.id, q.doc = r.doc, DueAfter(n, q)
        PROVE  DueAfter(n, r)'
    <3>1. q \in rows
      BY DEF Waiting
    <3> QED
      BY <1>1, <2>2, <3>1, DueKept
  <2>3. \A r \in Waiting' : DueAfter(Passed, r)'
    BY <1>6, <2>1, <2>2 DEF Inv, WorkOK
  <2>4. \A r \in rows' : wpc \in Working /\ r.doc = Current' /\ r.doc \notin shared'
          => r.vectorization # "COMPLETED"
    BY <1>5, <1>11 DEF Inv, WorkOK, Working, RowsKept
  <2>5. \A r \in Waiting' : wpc \in Working /\ r.doc = Current'
          => r.id = wmarked \/ DueAfter(position, r)'
    BY <1>3, <1>4, <1>5, <2>1, <2>2 DEF Inv, WorkOK, Working
  <2>6. \A r \in Waiting' : wpc = "offset" /\ r.doc = Current' => DueAfter(position, r)'
    BY <1>3, <1>4, <1>5, <2>1, <2>2 DEF Inv, WorkOK
  <2> QED
    BY <1>3, <1>6, <2>3, <2>4, <2>5, <2>6 DEF WorkOK, DueAfter
<1>14. ChargesOK'
  BY <1>3 DEF Inv, ChargesOK, Finished
<1> QED
  BY <1>7, <1>8, <1>9, <1>10, <1>12, <1>13, <1>14, PartsSuffice

(* Room in the topic: nobody more is about to send, *)
LEMMA RoomSame ==
  ASSUME Inv, NEW s \in Session, Others(s), pc'[s] \notin Sending, queue' = queue
  PROVE  Len(queue') + Cardinality(Senders)' <= MaxTasks
<1>1. Senders' \subseteq Senders /\ Senders \subseteq Session
  BY DEF Senders, Others
<1>2. IsFiniteSet(Senders) /\ IsFiniteSet(Senders')
  BY <1>1, FS_Subset, IngestionAssumption
<1>3. /\ Cardinality(Senders') <= Cardinality(Senders)
      /\ Cardinality(Senders') \in Nat /\ Cardinality(Senders) \in Nat
  BY <1>1, <1>2, FS_Subset, FS_CardinalityType
<1>4. Len(queue) \in Nat
  BY DEF Inv, TypeOK
<1> QED
  BY <1>3, <1>4, IngestionAssumption DEF Inv, TopicOK

(* a request begins to where there is some,                                *)
LEMMA RoomTaken ==
  ASSUME Inv, NEW s \in Session, Others(s), Room, queue' = queue
  PROVE  Len(queue') + Cardinality(Senders)' <= MaxTasks
<1>1. Senders' \subseteq Senders \cup {s} /\ Senders \subseteq Session
  BY DEF Senders, Others
<1>2. IsFiniteSet(Senders)
  BY <1>1, FS_Subset, IngestionAssumption
<1>3. /\ IsFiniteSet(Senders \cup {s})
      /\ Cardinality(Senders \cup {s}) <= Cardinality(Senders) + 1
      /\ Cardinality(Senders) \in Nat /\ Cardinality(Senders \cup {s}) \in Nat
  <2>1. IsFiniteSet(Senders \cup {s}) /\ Cardinality(Senders) \in Nat
    BY <1>2, FS_AddElement, FS_CardinalityType
  <2>2. Cardinality(Senders \cup {s}) \in {Cardinality(Senders), Cardinality(Senders) + 1}
    BY <1>2, FS_AddElement
  <2> QED
    BY <2>1, <2>2
<1>4. Cardinality(Senders') <= Cardinality(Senders \cup {s}) /\ Cardinality(Senders') \in Nat
  <2>1. IsFiniteSet(Senders')
    BY <1>1, <1>3, FS_Subset
  <2> QED
    BY <1>1, <1>3, <2>1, FS_Subset, FS_CardinalityType
<1>5. Len(queue) \in Nat
  BY DEF Inv, TypeOK
<1> QED
  BY <1>3, <1>4, <1>5, IngestionAssumption DEF Room

(* or a message takes the place of its sender.                             *)
LEMMA RoomSent ==
  ASSUME Inv, NEW s \in Session, Others(s), pc[s] \in Sending, pc'[s] \notin Sending,
         NEW m, queue' = Append(queue, m)
  PROVE  Len(queue') + Cardinality(Senders)' <= MaxTasks
<1>1. Senders' = Senders \ {s} /\ s \in Senders /\ Senders \subseteq Session
  BY DEF Senders, Others
<1>2. IsFiniteSet(Senders)
  BY <1>1, FS_Subset, IngestionAssumption
<1>3. /\ Cardinality(Senders') = Cardinality(Senders) - 1
      /\ Cardinality(Senders) \in Nat
  BY <1>1, <1>2, FS_RemoveElement, FS_CardinalityType
<1>4. Len(queue') = Len(queue) + 1 /\ Len(queue) \in Nat
  BY DEF Inv, TypeOK
<1> QED
  BY <1>3, <1>4, IngestionAssumption DEF Inv, TopicOK

(***************************************************************************)
(* The steps of requests.                                                  *)
(***************************************************************************)
Place == {"idle", "open", "send", "resend", "remove"}

LEMMA Ended ==
  ASSUME Inv, NEW s \in Session, EndRequest(s)
  PROVE  /\ pc'[s] = "idle" /\ snap'[s] = {} /\ chosen'[s] = None
         /\ Others(s) /\ RequestOK(s)'
         /\ pc' \in [Session -> Place] /\ snap' \in [Session -> SUBSET Row]
         /\ chosen' \in [Session -> Chosen \cup {None}]
<1>1. /\ pc \in [Session -> Place] /\ snap \in [Session -> SUBSET Row]
      /\ chosen \in [Session -> Chosen \cup {None}]
  BY DEF Inv, TypeOK, Place
<1>2. /\ pc' = [pc EXCEPT ![s] = "idle"] /\ snap' = [snap EXCEPT ![s] = {}]
      /\ chosen' = [chosen EXCEPT ![s] = None]
  BY DEF EndRequest, Goto
<1>3. pc'[s] = "idle" /\ snap'[s] = {} /\ chosen'[s] = None
  BY <1>1, <1>2
<1>4. Others(s)
  BY <1>1, <1>2 DEF Others
<1>5. RequestOK(s)'
  BY <1>3 DEF RequestOK, Sending
<1>6. pc' \in [Session -> Place]
  BY <1>1, <1>2 DEF Place
<1>7. snap' \in [Session -> SUBSET Row] /\ chosen' \in [Session -> Chosen \cup {None}]
  BY <1>1, <1>2
<1> QED
  BY <1>3, <1>4, <1>5, <1>6, <1>7

(* A request that touches neither rows nor topic.                          *)
LEMMA QuietKeeps ==
  ASSUME Inv, NEW s \in Session, Others(s), WorkerKept, UNCHANGED <<table, queue, history>>,
         pc[s] \notin Sending, pc'[s] \notin Sending, TypeOK', RequestOK(s)'
  PROVE  Inv'
<1>1. /\ rows' = rows /\ nextId' = nextId /\ queue' = queue
      /\ forgotten' = forgotten /\ shared' = shared
  BY DEF table, history
<1>2. RowsKept
  BY <1>1 DEF RowsKept, WithId, Inv, TypeOK
<1>3. StatusKept(s)
  BY <1>1 DEF StatusKept, WithId
<1>4. QueueKept /\ Served(s)
  BY <1>1 DEF QueueKept, Served
<1>5. RowsOK'
  BY <1>1 DEF RowsOK, Inv
<1>6. Len(queue') + Cardinality(Senders)' <= MaxTasks
  BY <1>1, RoomSame
<1> QED
  BY <1>1, <1>2, <1>3, <1>4, <1>5, <1>6, RequestKeeps

LEMMA BeginKeeps ==
  ASSUME Inv, NEW s \in Session, Begin(s)
  PROVE  Inv'
<1>1. pc[s] = "idle" /\ pc'[s] = "open" /\ snap'[s] = rows
  BY DEF Begin, Goto, Inv, TypeOK
<1>2. Others(s)
  BY DEF Begin, Goto, Others, Inv, TypeOK
<1>3. /\ UNCHANGED <<table, queue, history>> /\ WorkerKept
  BY DEF Begin, WorkerKept, topic, history
<1>4. TypeOK'
  <2>1. pc' \in [Session -> Place] /\ snap' \in [Session -> SUBSET Row]
    BY DEF Begin, Goto, Inv, TypeOK, Place
  <2> QED
    BY <2>1 DEF Begin, Inv, TypeOK, Place, table, search, topic, worker, history
<1>5. RequestOK(s)'
  <2>1. ASSUME NEW x \in rows
        PROVE  Agrees(x)'
    BY <1>3 DEF Agrees, Inv, RowsOK, TypeOK, WithId, table
  <2> QED
    BY <1>1, <2>1 DEF RequestOK, Sending, Agrees
<1> QED
  BY <1>1, <1>2, <1>3, <1>4, <1>5, QuietKeeps DEF Sending

LEMMA CloseKeeps ==
  ASSUME Inv, NEW s \in Session, Close(s)
  PROVE  Inv'
<1>1. pc[s] = "open" /\ EndRequest(s)
  BY DEF Close
<1>2. /\ UNCHANGED <<table, queue, history>> /\ WorkerKept
  BY DEF Close, WorkerKept, topic, history
<1>3. TypeOK'
  BY <1>1, Ended DEF Close, Inv, TypeOK, Place, table, search, topic, worker, history
<1> QED
  BY <1>1, <1>2, <1>3, Ended, QuietKeeps DEF Sending

LEMMA RemoveFileKeeps ==
  ASSUME Inv, NEW s \in Session, RemoveFile(s)
  PROVE  Inv'
<1>1. pc[s] = "remove" /\ EndRequest(s)
  BY DEF RemoveFile
<1>2. /\ UNCHANGED <<table, queue, history>> /\ WorkerKept
  BY DEF RemoveFile, WorkerKept, topic, history
<1>3. file' \subseteq Doc /\ faults' \in 0..MaxFaults
  BY IngestionAssumption DEF RemoveFile, Fail, Inv, TypeOK
<1>4. TypeOK'
  BY <1>1, <1>3, Ended DEF RemoveFile, Inv, TypeOK, Place, table, search, topic, worker, history
<1> QED
  BY <1>1, <1>2, <1>4, Ended, QuietKeeps DEF Sending

LEMMA UploadKeeps ==
  ASSUME Inv, NEW s \in Session, Upload(s)
  PROVE  Inv'
<1>1. PICK u \in User, d \in Doc :
        /\ \A r \in RowsOf(rows, d) : r.user # u
        /\ rows' = rows \cup {[id |-> nextId, doc |-> d, user |-> u,
                               merged |-> FALSE, vectorization |-> "NULL"]}
        /\ shared' = IF RowsOf(rows, d) = {} THEN shared ELSE shared \cup {d}
  BY DEF Upload
<1> DEFINE new == [id |-> nextId, doc |-> d, user |-> u,
                   merged |-> FALSE, vectorization |-> "NULL"]
<1>2. nextId \in 1..MaxRows /\ nextId' = nextId + 1 /\ pc[s] = "open" /\ EndRequest(s)
  BY IngestionAssumption DEF Upload, Inv, TypeOK
<1>3. /\ new \in Row /\ new.id = nextId /\ new.doc = d /\ new.user = u
      /\ new.vectorization = "NULL" /\ rows' = rows \cup {new}
  BY <1>1, <1>2 DEF Row, VectorizationStatus
<1> HIDE DEF new
<1>4. \A r \in rows : r \in Row /\ r.id \in Nat /\ r.id < nextId
  BY IngestionAssumption DEF Row, Inv, TypeOK, RowsOK
<1>5. WorkerKept /\ queue' = queue /\ forgotten' = forgotten
  BY DEF Upload, WorkerKept, topic
<1>6. shared \subseteq shared' /\ shared' \subseteq Doc
  BY <1>1 DEF Inv, TypeOK
<1>7. TypeOK'
  <2>1. rows' \subseteq Row /\ nextId' \in 1..(MaxRows + 1)
    BY <1>2, <1>3, <1>4, IngestionAssumption
  <2>2. \A q, r \in rows' : q.id = r.id \/ (q.doc = r.doc /\ q.user = r.user) => q = r
    BY <1>1, <1>2, <1>3, <1>4 DEF RowsOf, Inv, TypeOK
  <2> QED
    BY <1>2, <1>6, <2>1, <2>2, Ended DEF Upload, Inv, TypeOK, Place, search, topic, worker
<1>8. RowsOK'
  <2>1. \A r \in rows' : r.id < nextId'
    BY <1>2, <1>3, <1>4
  <2>2. ASSUME NEW q \in rows', NEW r \in rows', q.doc = r.doc, r.doc \notin shared'
        PROVE  q = r
    BY <1>1, <1>3, <1>6, <2>2 DEF RowsOf, Inv, RowsOK
  <2> QED
    BY <2>1, <2>2 DEF RowsOK
<1>9. RowsKept
  BY <1>2, <1>3, <1>6 DEF RowsKept, WithId
<1>10. StatusKept(s)
  BY <1>2, <1>3 DEF StatusKept, WithId
<1>11. Len(queue') + Cardinality(Senders)' <= MaxTasks
  BY <1>2, <1>5, Ended, RoomSame DEF Sending
<1> QED
  BY <1>2, <1>5, <1>7, <1>8, <1>9, <1>10, <1>11, Ended, RequestKeeps
     DEF QueueKept, Served, Sending

(* A request goes on with a row it has seen.                               *)
LEMMA ChoiceKeeps ==
  ASSUME Inv, NEW s \in Session, pc[s] = "open",
         NEW r \in snap[s], NEW label \in Sending \cup {"remove"}, GoOn(s, label, r),
         label \in Sending => Room,
         Reduced(rows'), StatusKept(s), file' \subseteq Doc,
         UNCHANGED <<nextId, search, topic, worker, history, faults>>
  PROVE  Inv'
<1> DEFINE c == [id |-> r.id, doc |-> r.doc, user |-> r.user]
<1>1. /\ pc'[s] = label /\ chosen'[s] = c /\ snap'[s] = {}
      /\ r \in Row /\ c \in Chosen /\ c.id = r.id /\ c.doc = r.doc
  <2>1. r \in Row
    BY DEF Inv, TypeOK
  <2> QED
    BY <2>1 DEF GoOn, Goto, Inv, TypeOK, Row, Chosen
<1>2. Others(s)
  BY DEF GoOn, Goto, Others, Inv, TypeOK
<1> HIDE DEF c
<1>3. /\ nextId' = nextId /\ shared' = shared /\ queue' = queue
      /\ forgotten' = forgotten /\ WorkerKept
  BY DEF history, topic, WorkerKept
<1>4. TypeOK'
  <2>1. /\ pc' \in [Session -> Place] /\ chosen' \in [Session -> Chosen \cup {None}]
        /\ snap' \in [Session -> SUBSET Row]
    BY <1>1 DEF GoOn, Goto, Inv, TypeOK, Place, Sending, c
  <2> QED
    BY <2>1 DEF Inv, TypeOK, Place, Reduced, search, topic, worker, history
<1>5. RowsOK' /\ RowsKept
  BY <1>3, <1>4, ReducedRows
<1>6. RequestOK(s)'
  <2>1. Agrees(r)
    BY DEF Inv, RequestOK
  <2>2. Agrees(c)
    BY <1>1, <2>1 DEF Agrees
  <2>3. Agrees(c)'
    BY <1>1, <1>4, <1>5, <2>2, AgreesKept DEF Inv
  <2> QED
    BY <1>1, <2>3 DEF RequestOK, Agrees
<1>7. Len(queue') + Cardinality(Senders)' <= MaxTasks
  BY <1>1, <1>2, <1>3, RoomSame, RoomTaken
<1>8. QueueKept /\ Served(s) /\ pc[s] \notin Sending
  BY <1>3 DEF QueueKept, Served, Sending
<1> QED
  BY <1>2, <1>3, <1>4, <1>5, <1>6, <1>7, <1>8, RequestKeeps

(* The UPDATE of a merge touches one row, and completes none.              *)
LEMMA MergeSet ==
  ASSUME Inv, NEW seen \in Row, NEW merged \in BOOLEAN, NEW reached \in BOOLEAN,
         SetMerge(seen, merged, reached)
  PROVE  /\ Reduced(rows')
         /\ \A x \in rows' :
              \E q \in rows :
                /\ q.id = x.id /\ q.doc = x.doc
                /\ x.vectorization = "COMPLETED" => q.vectorization = "COMPLETED"
                /\ x = q \/ (x.id = seen.id /\ x.merged = merged)
<1> DEFINE f(q) == IF q.id # seen.id THEN q
                   ELSE IF reached /\ seen.vectorization # "PROCESSING"
                   THEN [q EXCEPT !.merged = merged, !.vectorization = "PROCESSING"]
                   ELSE [q EXCEPT !.merged = merged]
<1>1. \A q \in rows : q \in Row
  BY DEF Inv, TypeOK
<1>2. \A q \in Row : /\ f(q) \in Row /\ f(q).id = q.id /\ f(q).doc = q.doc
                     /\ f(q).user = q.user
                     /\ f(q) = q \/ (q.id = seen.id /\ f(q).merged = merged)
                     /\ f(q).vectorization \in {q.vectorization, "PROCESSING"}
  BY DEF Row, VectorizationStatus
<1>3. rows' = {f(q) : q \in rows}
  BY DEF SetMerge
<1>4. \A p, q \in rows : p.id = q.id \/ (p.doc = q.doc /\ p.user = q.user) => p = q
  BY DEF Inv, TypeOK
<1> HIDE DEF f
<1>5. Reduced(rows')
  BY <1>1, <1>2, <1>3, <1>4 DEF Reduced, WithId
<1> QED
  BY <1>1, <1>2, <1>3, <1>5

LEMMA MergeKeeps ==
  ASSUME Inv, NEW s \in Session, Merge(s)
  PROVE  Inv'
<1>1. PICK r \in snap[s] :
        SetMerge(r, TRUE, TRUE) /\ file' = file \cup {r.doc} /\ GoOn(s, "send", r)
  BY DEF Merge
<1>2. /\ pc[s] = "open" /\ Room
      /\ UNCHANGED <<nextId, search, topic, worker, history, faults>>
  BY DEF Merge
<1>3. r \in Row
  BY DEF Inv, TypeOK
<1>4. pc'[s] = "send" /\ chosen'[s].id = r.id
  BY <1>1 DEF GoOn, Goto, Inv, TypeOK
<1>5. /\ Reduced(rows')
      /\ \A x \in rows' :
           \E q \in rows :
             /\ q.id = x.id /\ q.doc = x.doc
             /\ x.vectorization = "COMPLETED" => q.vectorization = "COMPLETED"
             /\ x = q \/ (x.id = r.id /\ x.merged = TRUE)
  BY <1>1, <1>3, MergeSet
<1>6. StatusKept(s)
  BY <1>4, <1>5 DEF StatusKept, WithId, Sending
<1>7. file' \subseteq Doc
  BY <1>1, <1>3 DEF Row, Inv, TypeOK
<1> QED
  BY <1>1, <1>2, <1>5, <1>6, <1>7, ChoiceKeeps DEF Sending

LEMMA RetryKeeps ==
  ASSUME Inv, NEW s \in Session, Retry(s)
  PROVE  Inv'
<1>1. PICK d \in Doc : \E r \in Newest(snap[s], d) :
        SetVectorization(r, "PROCESSING") /\ GoOn(s, "resend", r)
  BY Zenon DEF Retry
<1>2. PICK r \in Newest(snap[s], d) :
        SetVectorization(r, "PROCESSING") /\ GoOn(s, "resend", r)
  BY <1>1
<1>3. pc[s] = "open" /\ Room
  BY DEF Retry
<1>4. UNCHANGED <<nextId, search, topic, worker, history, faults>> /\ file' \subseteq Doc
  BY DEF Retry, Inv, TypeOK
<1>5. r \in snap[s]
  BY DEF Newest, RowsOf
<1>6. pc'[s] = "resend" /\ chosen'[s].id = r.id
  BY <1>2 DEF GoOn, Goto, Inv, TypeOK
<1> DEFINE X == {q \in rows : q.id = r.id /\ r.vectorization # "PROCESSING"}
<1>7. rows' = Restated(X, "PROCESSING")
  BY <1>2, SetIsRestated
<1>8. /\ Reduced(rows')
      /\ \A x \in rows' :
           \E q \in rows : /\ q.id = x.id /\ q.doc = x.doc
                           /\ q \in X => x.vectorization = "PROCESSING"
                           /\ q \notin X => x = q
  BY <1>7, RestatedReduced DEF VectorizationStatus, Inv
<1>9. StatusKept(s)
  BY <1>6, <1>8 DEF StatusKept, WithId, Sending
<1> QED
  BY <1>2, <1>3, <1>4, <1>5, <1>8, <1>9, ChoiceKeeps DEF Sending

LEMMA DeleteKeeps ==
  ASSUME Inv, NEW s \in Session, Delete(s)
  PROVE  Inv'
<1>1. PICK d \in Deletable : \E r \in Newest(snap[s], d) :
        rows' = rows \ WithId(rows, r.id) /\ GoOn(s, "remove", r)
  BY Zenon DEF Delete
<1>2. PICK r \in Newest(snap[s], d) :
        rows' = rows \ WithId(rows, r.id) /\ GoOn(s, "remove", r)
  BY <1>1
<1>3. pc[s] = "open"
  BY DEF Delete
<1>4. UNCHANGED <<nextId, search, topic, worker, history, faults>> /\ file' \subseteq Doc
  BY DEF Delete, Inv, TypeOK
<1>5. r \in snap[s]
  BY DEF Newest, RowsOf
<1>6. Reduced(rows')
  BY <1>2 DEF Reduced, WithId, Inv, TypeOK
<1>7. StatusKept(s)
  BY <1>2 DEF StatusKept, WithId
<1>8. "remove" \notin Sending
  BY DEF Sending
<1> QED
  BY <1>2, <1>3, <1>4, <1>5, <1>6, <1>7, <1>8, ChoiceKeeps

(* The message of a row is for its document.                               *)
LEMMA MessageServes ==
  ASSUME Inv, NEW s \in Session, pc[s] \in Sending, Publish(s), Reduced(rows')
  PROVE  QueueKept /\ Served(s)
<1>1. chosen[s] \in Chosen /\ Agrees(chosen[s])
  BY DEF Inv, RequestOK
<1>2. [doc |-> chosen[s].doc, user |-> chosen[s].user] \in Task
  BY <1>1 DEF Chosen, Task
<1>3. queue' = Append(queue, [doc |-> chosen[s].doc, user |-> chosen[s].user])
  BY DEF Publish
<1>4. queue \in Seq(Task)
  BY DEF Inv, TypeOK
<1>5. Len(queue') = Len(queue) + 1 /\ queue'[Len(queue) + 1].doc = chosen[s].doc
  BY <1>2, <1>3, <1>4
<1> QED
  BY <1>1, <1>2, <1>3, <1>5 DEF QueueKept, Served, Waiting, Agrees, WithId, Reduced

LEMMA RowsReduced ==
  ASSUME TypeOK, rows' = rows
  PROVE  Reduced(rows')
BY DEF Reduced, WithId, TypeOK

(* A request ends whose message is sent, or is given up for rows that no   *)
(* longer wait.                                                            *)
LEMMA GoneKeeps ==
  ASSUME Inv, NEW s \in Session, EndRequest(s), Reduced(rows'), StatusKept(s), QueueKept,
         file' \subseteq Doc, Served(s), Len(queue') + Cardinality(Senders)' <= MaxTasks,
         forgotten \subseteq forgotten', forgotten' \subseteq Doc, faults' \in 0..MaxFaults,
         UNCHANGED <<nextId, search, committed, position, worker, shared, charges, redone>>
  PROVE  Inv'
<1>1. /\ queue' \in Seq(Task) /\ Len(queue) \in Nat /\ Len(queue') \in Nat
      /\ Len(queue) <= Len(queue')
  BY QueueGrows DEF Inv
<1>2. Len(queue') <= MaxTasks
  <2>1. Senders' \subseteq Session
    BY DEF Senders
  <2>2. Cardinality(Senders') \in Nat
    BY <2>1, FS_Subset, FS_CardinalityType, IngestionAssumption
  <2> QED
    BY <1>1, <2>2, IngestionAssumption
<1>3. position' \in 0..Len(queue') /\ committed' \in {None} \cup 1..Len(queue')
  BY <1>1 DEF Inv, TypeOK
<1>4. TypeOK'
  BY <1>1, <1>2, <1>3, Ended DEF Inv, TypeOK, Place, Reduced, search, worker
<1>5. WorkerKept
  BY DEF WorkerKept
<1>6. RowsOK' /\ RowsKept
  BY <1>4, ReducedRows
<1>7. pc'[s] \notin Sending
  BY Ended DEF Sending
<1> QED
  BY <1>4, <1>5, <1>6, <1>7, Ended, RequestKeeps

LEMMA SendKeeps ==
  ASSUME Inv, NEW s \in Session, Send(s)
  PROVE  Inv'
<1>1. /\ pc[s] \in Sending /\ EndRequest(s) /\ Publish(s)
      /\ rows' = rows /\ forgotten' = forgotten
  BY DEF Send, table, history
<1>2. UNCHANGED <<nextId, search, committed, position, worker, shared, charges, redone>>
  BY DEF Send, table, history
<1>3. Reduced(rows')
  BY <1>1, RowsReduced DEF Inv
<1>4. StatusKept(s)
  BY <1>1 DEF StatusKept, WithId
<1>5. QueueKept /\ Served(s)
  BY <1>1, <1>3, MessageServes
<1>6. Len(queue') + Cardinality(Senders)' <= MaxTasks
  BY <1>1, Ended, RoomSent DEF Publish, Sending
<1>7. /\ forgotten \subseteq forgotten' /\ forgotten' \subseteq Doc
      /\ faults' \in 0..MaxFaults /\ file' \subseteq Doc
  BY <1>1 DEF Send, Inv, TypeOK
<1> QED
  BY <1>1, <1>2, <1>3, <1>4, <1>5, <1>6, <1>7, GoneKeeps

LEMMA AbortKeeps ==
  ASSUME Inv, NEW s \in Session, Abort(s)
  PROVE  Inv'
<1>1. /\ pc[s] \in Sending /\ EndRequest(s) /\ rows' = rows /\ queue' = queue
      /\ forgotten' = forgotten \cup {chosen[s].doc}
  BY DEF Abort, table, topic
<1>2. UNCHANGED <<nextId, search, committed, position, worker, shared, charges, redone>>
  BY DEF Abort, table, topic
<1>3. chosen[s] \in Chosen /\ Agrees(chosen[s])
  BY <1>1 DEF Inv, RequestOK
<1>4. StatusKept(s)
  BY <1>1 DEF StatusKept, WithId
<1>5. QueueKept /\ Served(s)
  BY <1>1, <1>3 DEF QueueKept, Served, Waiting, Agrees, WithId
<1>6. Len(queue') + Cardinality(Senders)' <= MaxTasks
  BY <1>1, Ended, RoomSame DEF Sending
<1>7. forgotten \subseteq forgotten' /\ forgotten' \subseteq Doc
  BY <1>1, <1>3 DEF Chosen, Inv, TypeOK
<1>8. faults' \in 0..MaxFaults /\ file' \subseteq Doc
  BY IngestionAssumption DEF Abort, Fail, Inv, TypeOK
<1> QED
  BY <1>1, <1>2, <1>4, <1>5, <1>6, <1>7, <1>8, RowsReduced, GoneKeeps DEF Inv

(* A merge whose message fails marks the newest row of its document, which *)
(* is the one that waits for it unless the document is shared.             *)
LEMMA FailedWaitsNot ==
  ASSUME Inv, NEW s \in Session, pc[s] \in Sending, MarkFailed(s),
         shared' = shared, forgotten' = forgotten
  PROVE  /\ Reduced(rows') /\ StatusKept(s)
         /\ \A r \in Waiting' : r.id # chosen[s].id
<1>1. chosen[s] \in Chosen /\ Agrees(chosen[s])
  BY DEF Inv, RequestOK
<1> DEFINE X == IF pc[s] = "send" THEN Newest(rows, chosen[s].doc)
                ELSE {r \in rows : r.id = chosen[s].id}
<1>2. rows' = Restated(X, "FAILED")
  BY DEF MarkFailed, Restated
<1>3. /\ Reduced(rows')
      /\ \A r \in rows' :
           \E q \in rows : /\ q.id = r.id /\ q.doc = r.doc
                           /\ q \in X => r.vectorization = "FAILED"
                           /\ q \notin X => r = q
  BY <1>2, RestatedReduced DEF VectorizationStatus, Inv
<1>4. StatusKept(s)
  BY <1>3 DEF StatusKept, WithId
<1>5. ASSUME NEW r \in Waiting', r.id = chosen[s].id
      PROVE  FALSE
  <2>1. r \in rows' /\ r.vectorization = "PROCESSING" /\ r.doc \notin shared
    BY DEF Waiting
  <2>2. PICK q \in rows : /\ q.id = r.id /\ q.doc = r.doc
                          /\ q \in X => r.vectorization = "FAILED"
    BY <1>3, <2>1
  <2>3. q.doc = chosen[s].doc
    BY <1>1, <1>5, <2>2 DEF Agrees, WithId
  <2>4. \A p \in rows : p.doc = q.doc => p = q
    BY <2>1, <2>2 DEF Inv, RowsOK
  <2>5. Newest(rows, q.doc) = {q}
    BY <2>4, OnlyIsNewest DEF Inv, TypeOK
  <2>6. q \in X
    BY <1>5, <2>2, <2>3, <2>5
  <2> QED
    BY <2>1, <2>2, <2>6
<1> QED
  BY <1>3, <1>4, <1>5

LEMMA SendFailKeeps ==
  ASSUME Inv, NEW s \in Session, SendFail(s)
  PROVE  Inv'
<1>1. /\ pc[s] \in Sending /\ EndRequest(s) /\ MarkFailed(s)
      /\ Publish(s) \/ queue' = queue
  BY DEF SendFail
<1>2. /\ UNCHANGED <<nextId, search, committed, position, worker, shared, charges, redone>>
      /\ shared' = shared /\ forgotten' = forgotten
  BY DEF SendFail, history
<1>3. Reduced(rows') /\ StatusKept(s) /\ \A r \in Waiting' : r.id # chosen[s].id
  BY <1>1, <1>2, FailedWaitsNot
<1>4. Served(s)
  BY <1>3 DEF Served
<1>5. QueueKept
  BY <1>1, <1>3, MessageServes DEF QueueKept
<1>6. Len(queue') + Cardinality(Senders)' <= MaxTasks
  BY <1>1, Ended, RoomSame, RoomSent DEF Publish, Sending
<1>7. /\ forgotten \subseteq forgotten' /\ forgotten' \subseteq Doc
      /\ faults' \in 0..MaxFaults /\ file' \subseteq Doc
  BY <1>2, IngestionAssumption DEF SendFail, Fail, Inv, TypeOK
<1> QED
  BY <1>1, <1>2, <1>3, <1>4, <1>5, <1>6, <1>7, GoneKeeps

(* A merge that fails leaves its row without a merge, so that it does not  *)
(* wait.                                                                   *)
LEMMA MergeFailsKeeps ==
  ASSUME Inv, NEW s \in Session, MergeFails(s)
  PROVE  Inv'
<1>1. /\ pc[s] = "open" /\ Fail /\ EndRequest(s)
      /\ UNCHANGED <<nextId, search, topic, worker, history>>
  BY DEF MergeFails
<1>2. PICK r \in snap[s] :
        /\ file' = file \/ file' = file \cup {r.doc}
        /\ SetMerge(r, FALSE, FALSE) \/ SetMerge(r, FALSE, TRUE) \/ rows' = rows
  BY DEF MergeFails
<1>3. r \in Row
  BY DEF Inv, TypeOK
<1>4. /\ Reduced(rows')
      /\ \A x \in rows' :
           \E q \in rows :
             /\ q.id = x.id /\ q.doc = x.doc
             /\ x.vectorization = "COMPLETED" => q.vectorization = "COMPLETED"
             /\ x = q \/ ~x.merged
  <2>1. CASE rows' = rows
    BY <2>1, RowsReduced DEF Inv
  <2>2. CASE SetMerge(r, FALSE, FALSE) \/ SetMerge(r, FALSE, TRUE)
    BY <1>3, <2>2, MergeSet
  <2> QED
    BY <1>2, <2>1, <2>2
<1>5. StatusKept(s)
  BY <1>4 DEF StatusKept, WithId
<1>6. /\ queue' = queue /\ forgotten' = forgotten
      /\ UNCHANGED <<nextId, search, committed, position, worker, shared, charges, redone>>
  BY <1>1 DEF topic, history
<1>7. Len(queue') + Cardinality(Senders)' <= MaxTasks
  BY <1>1, <1>6, Ended, RoomSame DEF Sending
<1>8. /\ forgotten \subseteq forgotten' /\ forgotten' \subseteq Doc
      /\ faults' \in 0..MaxFaults /\ file' \subseteq Doc
  BY <1>1, <1>2, <1>3, <1>6, IngestionAssumption DEF Fail, Inv, TypeOK, Row
<1>9. QueueKept /\ Served(s)
  BY <1>1, <1>6 DEF QueueKept, Served, Sending
<1> QED
  BY <1>1, <1>4, <1>5, <1>6, <1>7, <1>8, <1>9, GoneKeeps

LEMMA MergeUndoneKeeps ==
  ASSUME Inv, NEW s \in Session, MergeUndone(s)
  PROVE  Inv'
<1> DEFINE f(q) == IF q.id = chosen[s].id THEN [q EXCEPT !.merged = FALSE] ELSE q
<1>1. pc[s] = "send" /\ Fail /\ EndRequest(s) /\ rows' = {f(q) : q \in rows}
  BY DEF MergeUndone
<1>2. /\ queue' = queue /\ forgotten' = forgotten /\ file' = file
      /\ UNCHANGED <<nextId, search, committed, position, worker, shared, charges, redone>>
  BY DEF MergeUndone, topic, history
<1>3. \A q \in rows : q \in Row
  BY DEF Inv, TypeOK
<1>4. \A q \in Row : /\ f(q) \in Row /\ f(q).id = q.id /\ f(q).doc = q.doc
                     /\ f(q).user = q.user /\ f(q).vectorization = q.vectorization
                     /\ f(q) = q \/ ~f(q).merged
                     /\ q.id = chosen[s].id => ~f(q).merged
  BY DEF Row
<1>5. \A p, q \in rows : p.id = q.id \/ (p.doc = q.doc /\ p.user = q.user) => p = q
  BY DEF Inv, TypeOK
<1> HIDE DEF f
<1>6. Reduced(rows')
  BY <1>1, <1>3, <1>4, <1>5 DEF Reduced, WithId
<1>7. StatusKept(s)
  BY <1>1, <1>3, <1>4 DEF StatusKept, WithId
<1>8. \A r \in Waiting' : r.id # chosen[s].id
  BY <1>1, <1>3, <1>4 DEF Waiting
<1>9. QueueKept /\ Served(s)
  BY <1>2, <1>8 DEF QueueKept, Served
<1>10. Len(queue') + Cardinality(Senders)' <= MaxTasks
  BY <1>1, <1>2, Ended, RoomSame DEF Sending
<1>11. /\ forgotten \subseteq forgotten' /\ forgotten' \subseteq Doc
       /\ faults' \in 0..MaxFaults /\ file' \subseteq Doc
  BY <1>1, <1>2, IngestionAssumption DEF Fail, Inv, TypeOK
<1> QED
  BY <1>1, <1>2, <1>6, <1>7, <1>9, <1>10, <1>11, GoneKeeps

(***************************************************************************)
(* The steps of the worker.                                                *)
(***************************************************************************)
RequestsKept == UNCHANGED <<nextId, request, queue, shared>>

(* The worker at a message.                                                *)
LEMMA AtMessage ==
  ASSUME TypeOK, TopicOK, wpc \notin {"down", "idle"}
  PROVE  /\ position \in 1..Len(queue) /\ Current \in Doc /\ Passed = position - 1
         /\ committed = None \/ committed \in 1..(position - 1)
         /\ Chunks(Current) \in SUBSET Chunk
<1>1. position \in 1..Len(queue)
  BY DEF TypeOK, TopicOK
<1>2. Current \in Doc
  <2>1. queue \in Seq(Task)
    BY DEF TypeOK
  <2>2. queue[position] \in Task
    BY <1>1, <2>1
  <2> QED
    BY <2>2 DEF Current, Task
<1>3. committed = None \/ committed \in 1..(position - 1)
  BY <1>1 DEF TypeOK, TopicOK
<1> QED
  BY <1>1, <1>2, <1>3 DEF Passed, Chunks

(* A step of the worker keeps what is said of requests.                    *)
LEMMA WorkKeeps ==
  ASSUME Inv, RequestsKept, Reduced(rows'), TypeOK', TopicOK', MemoryOK', DataOK', WorkOK',
         ChargesOK', CompletedIsSearchable'
  PROVE  Inv'
<1>1. /\ nextId' = nextId /\ shared' = shared
      /\ pc' = pc /\ snap' = snap /\ chosen' = chosen
  BY DEF RequestsKept, request
<1>2. RowsOK' /\ RowsKept
  BY <1>1, ReducedRows
<1>3. ASSUME NEW s \in Session
      PROVE  RequestOK(s)'
  <2>1. snap[s] \subseteq Row
    BY DEF Inv, TypeOK
  <2>2. TypeOK /\ RequestOK(s)
    BY DEF Inv
  <2>3. \A x \in snap[s] : Agrees(x)'
    BY <1>2, <2>1, <2>2, AgreesKept DEF RequestOK
  <2>4. ASSUME pc[s] \in Sending \cup {"remove"}
        PROVE  chosen[s] \in Chosen /\ Agrees(chosen[s])'
    <3>1. chosen[s] \in Chosen /\ Agrees(chosen[s])
      BY <2>2, <2>4 DEF RequestOK
    <3> QED
      BY <1>1, <1>2, <2>2, <3>1, AgreesKept
  <2> QED
    BY <1>1, <2>3, <2>4 DEF RequestOK, Agrees
<1> QED
  BY <1>2, <1>3, PartsSuffice

(* The worker goes on with what it remembers, or forgets it.               *)
LEMMA MemoryKept ==
  ASSUME Inv, RequestsKept, Reduced(rows'), TypeOK',
         \/ wsnap' = None
         \/ wsnap' = wsnap /\ wmarked' = wmarked,
         wmarked' \in {None, wmarked},
         wpc' \in {"down", "idle", "mark", "parse", "purge"} => wsnap' = None,
         wpc' \in Working => wpc \in Working /\ position' = position
  PROVE  MemoryOK'
<1>1. nextId' = nextId /\ shared' = shared /\ queue' = queue
  BY DEF RequestsKept
<1>2. RowsKept
  BY <1>1, ReducedRows
<1>3. wsnap' # None => \A x \in wsnap' : Agrees(x)'
  BY <1>2, AgreesKept DEF Inv, MemoryOK, TypeOK
<1>4. wsnap' # None =>
        /\ \A x, y \in wsnap' : x.doc = y.doc /\ x.doc \notin shared' => x = y
        /\ WithId(rows', wmarked') # {} => WithId(wsnap', wmarked') # {}
  BY <1>1 DEF Inv, MemoryOK, Reduced, WithId
<1>5. wmarked' # None => wmarked' < nextId'
  BY <1>1 DEF Inv, MemoryOK
<1>6. ASSUME wpc' \in Working, NEW r \in WithId(rows', wmarked')
      PROVE  r.doc = Current'
  <2>1. r.id # None
    BY IngestionAssumption DEF WithId, TypeOK, Row
  <2>2. wmarked' = wmarked
    BY <2>1 DEF WithId
  <2> QED
    BY <1>1, <1>6, <2>2 DEF Inv, MemoryOK, Reduced, WithId, Current
<1> QED
  BY <1>3, <1>4, <1>5, <1>6 DEF MemoryOK, Agrees

(* The work on a message, before anything is committed.                    *)
LEMMA QuietWorkKeeps ==
  ASSUME Inv, RequestsKept, UNCHANGED <<rows, committed, position, forgotten, charges, redone>>,
         wpc \in Working, wpc' \in Working, wmarked' = wmarked,
         TypeOK', MemoryOK', DataOK', vectors' = vectors,
         \A d \in Doc \ {Current} : index'[d] = index[d]
  PROVE  Inv'
<1>1. /\ nextId' = nextId /\ shared' = shared /\ queue' = queue
      /\ pc' = pc /\ chosen' = chosen
  BY DEF RequestsKept, request
<1>2. wpc \notin {"down", "idle", "offset"} /\ wpc' \notin {"down", "idle", "offset"}
  BY DEF Working
<1>3. Current' = Current /\ Passed' = Passed /\ Waiting' = Waiting /\ Senders' = Senders
  BY <1>1, <1>2 DEF Current, Passed, Waiting, Senders
<1>4. TopicOK'
  BY <1>1, <1>2, <1>3 DEF Inv, TopicOK
<1>5. WorkOK'
  BY <1>1, <1>2, <1>3 DEF Inv, WorkOK, DueAfter
<1>6. ChargesOK'
  BY <1>2 DEF Inv, ChargesOK, Finished
<1>7. CompletedIsSearchable'
  <2>1. ASSUME NEW r \in rows, r.vectorization = "COMPLETED", r.doc \notin shared
        PROVE  index'[r.doc] = Chunks(r.doc) /\ vectors[r.doc] = Chunks(r.doc)
    <3>1. r.doc \in Doc \ {Current}
      BY <2>1 DEF Inv, WorkOK, TypeOK, Row
    <3> QED
      BY <2>1, <3>1 DEF Inv, CompletedIsSearchable
  <2> QED
    BY <1>1, <2>1 DEF CompletedIsSearchable
<1>8. Reduced(rows')
  BY RowsReduced DEF Inv
<1> QED
  BY <1>4, <1>5, <1>6, <1>7, <1>8, WorkKeeps

LEMMA StartKeeps ==
  ASSUME Inv, Start
  PROVE  Inv'
<1>1. /\ wpc = "down" /\ wpc' = "idle" /\ rows' = rows /\ wsnap' = wsnap
      /\ wmarked' = wmarked /\ committed' = committed /\ charges' = charges
      /\ redone' = redone /\ vectors' = vectors /\ index' = index
      /\ pc' = pc /\ chosen' = chosen /\ queue' = queue /\ shared' = shared
  BY DEF Start, Enter, table, search, request
<1>2. RequestsKept
  BY DEF Start, RequestsKept, table
<1>3. TypeOK /\ Reduced(rows')
  BY <1>1, RowsReduced DEF Inv
<1>4. Len(queue) \in Nat /\ \A n \in DOMAIN queue : n \in 1..Len(queue) /\ queue[n].doc \in Doc
  <2>1. queue \in Seq(Task)
    BY <1>3 DEF TypeOK
  <2>2. \A n \in DOMAIN queue : n \in 1..Len(queue) /\ queue[n] \in Task
    BY <2>1
  <2> QED
    BY <2>1, <2>2 DEF Task
<1>5. /\ position' \in 0..Len(queue) /\ forgotten' \subseteq Doc
      /\ forgotten \subseteq forgotten'
  BY <1>3, <1>4 DEF Start, TypeOK
<1>6. TypeOK'
  BY <1>1, <1>3, <1>5 DEF Start, TypeOK, table, search, request
<1>7. TopicOK'
  BY <1>1, <1>3 DEF Start, Inv, TopicOK, Senders, TypeOK
<1>8. MemoryOK'
  <2>1. wsnap = None
    BY <1>1 DEF Inv, MemoryOK
  <2> QED
    BY <1>1, <1>2, <1>3, <1>6, <2>1, MemoryKept DEF Working
<1>9. DataOK'
  BY <1>1 DEF DataOK
<1>10. WorkOK'
  <2>1. ASSUME NEW r \in Waiting'
        PROVE  DueAfter(position', r)
    <3>1. r \in Waiting /\ r.doc \notin forgotten'
      BY <1>1, <1>5 DEF Waiting
    <3>2. DueAfter(Passed, r)
      BY <3>1 DEF Inv, WorkOK
    <3>3. CASE committed # None
      BY <1>1, <3>2, <3>3 DEF Passed, Start
    <3>4. CASE committed = None
      <4>1. \A n \in 1..Len(queue) : queue[n].doc # r.doc
        BY <1>3, <3>1, <3>4 DEF Start, TypeOK
      <4> QED
        BY <1>1, <3>2, <3>4, <4>1 DEF Passed, DueAfter
    <3> QED
      BY <3>3, <3>4
  <2>2. Passed' = position'
    BY <1>1 DEF Passed
  <2>3. \A r \in Waiting' : DueAfter(Passed, r)'
    BY <1>1, <2>1, <2>2 DEF DueAfter
  <2> QED
    BY <1>1, <2>3 DEF WorkOK, Working
<1>11. ChargesOK'
  BY <1>1 DEF Inv, ChargesOK, Finished
<1>12. CompletedIsSearchable'
  BY <1>1 DEF Inv, CompletedIsSearchable
<1> QED
  BY <1>2, <1>3, <1>6, <1>7, <1>8, <1>9, <1>10, <1>11, <1>12, WorkKeeps

LEMMA FetchKeeps ==
  ASSUME Inv, Fetch
  PROVE  Inv'
<1>1. /\ wpc = "idle" /\ wpc' = "mark" /\ rows' = rows /\ wsnap' = wsnap
      /\ wmarked' = wmarked /\ committed' = committed /\ charges' = charges
      /\ redone' = redone /\ vectors' = vectors /\ index' = index
      /\ pc' = pc /\ chosen' = chosen /\ queue' = queue
      /\ shared' = shared /\ forgotten' = forgotten
      /\ position' = position + 1 /\ position < Len(queue)
  BY DEF Fetch, Enter, table, search, request, history
<1>2. RequestsKept
  BY DEF Fetch, RequestsKept, table, history
<1>3. TypeOK /\ Reduced(rows')
  BY <1>1, RowsReduced DEF Inv
<1>4. position \in Nat /\ position' \in 1..Len(queue)
  BY <1>1, <1>3 DEF TypeOK
<1>5. TypeOK'
  BY <1>1, <1>3, <1>4 DEF Fetch, TypeOK, table, search, request
<1>6. TopicOK'
  BY <1>1, <1>3, <1>4 DEF Inv, TopicOK, Senders, TypeOK
<1>7. MemoryOK'
  <2>1. wsnap = None
    BY <1>1 DEF Inv, MemoryOK
  <2> QED
    BY <1>1, <1>2, <1>3, <1>5, <2>1, MemoryKept DEF Working
<1>8. DataOK'
  BY <1>1 DEF DataOK
<1>9. WorkOK'
  <2>1. Passed' = Passed
    BY <1>1, <1>4 DEF Passed
  <2> QED
    BY <1>1, <2>1 DEF Inv, WorkOK, Working, Waiting, DueAfter
<1>10. ChargesOK'
  BY <1>1 DEF Inv, ChargesOK, Finished
<1>11. CompletedIsSearchable'
  BY <1>1 DEF Inv, CompletedIsSearchable
<1> QED
  BY <1>2, <1>3, <1>5, <1>6, <1>7, <1>8, <1>9, <1>10, <1>11, WorkKeeps

LEMMA MarkKeeps ==
  ASSUME Inv, Mark
  PROVE  Inv'
<1> DEFINE X == Newest(rows, Current)
<1>1. /\ wpc = "mark" /\ wpc' = "parse" /\ rows' = Restated(X, "PROCESSING")
      /\ wsnap' = wsnap /\ committed' = committed /\ charges' = charges
      /\ redone' = redone /\ vectors' = vectors /\ index' = index
      /\ pc' = pc /\ chosen' = chosen /\ queue' = queue /\ position' = position
      /\ shared' = shared /\ forgotten' = forgotten /\ nextId' = nextId
  BY DEF Mark, Enter, Restated, search, request, topic, history
<1>2. RequestsKept
  BY DEF Mark, RequestsKept, topic, history
<1>3. /\ Reduced(rows')
      /\ \A r \in rows' :
           \E q \in rows : /\ q.id = r.id /\ q.doc = r.doc
                           /\ q \in X => r.vectorization = "PROCESSING"
                           /\ q \notin X => r = q
  BY <1>1, RestatedReduced DEF VectorizationStatus, Inv
<1>4. /\ position \in 1..Len(queue) /\ Current \in Doc /\ Passed = position - 1
      /\ Current' = Current /\ Passed' = Passed
  <2>1. position \in 1..Len(queue) /\ Current \in Doc /\ Passed = position - 1
    BY <1>1, AtMessage DEF Inv
  <2> QED
    BY <1>1, <2>1 DEF Passed, Current
<1>5. wmarked' = None \/ \E r \in rows : r.id = wmarked' /\ r.doc = Current
  <2>1. CASE RowsOf(rows, Current) = {}
    BY <2>1 DEF Mark
  <2>2. CASE RowsOf(rows, Current) # {}
    <3> DEFINE S == {r.id : r \in RowsOf(rows, Current)}
    <3>1. S # {} /\ S \subseteq 0..MaxRows
      BY <2>2, IngestionAssumption DEF RowsOf, Inv, TypeOK, Row
    <3>2. Max(S) \in S
      BY <3>1, Greatest, IngestionAssumption
    <3> QED
      BY <2>2, <3>2 DEF Mark, RowsOf
  <2> QED
    BY <2>1, <2>2
<1>6. ASSUME NEW q \in rows, q.doc = Current, q.doc \notin shared
      PROVE  q \in X /\ wmarked' = q.id
  <2>1. \A p \in rows : p.doc = q.doc => p = q
    BY <1>6 DEF Inv, RowsOK
  <2>2. RowsOf(rows, Current) = {q} /\ X = {q}
    BY <1>6, <2>1, OnlyIsNewest DEF Inv, TypeOK
  <2>3. wmarked' # None
    <3>1. q.id \in 0..MaxRows
      BY IngestionAssumption DEF Inv, TypeOK, Row
    <3>2. {r.id : r \in RowsOf(rows, Current)} = {q.id}
      BY <2>2
    <3>3. Max({q.id}) = q.id
      BY <3>1, Greatest, IngestionAssumption
    <3>4. wmarked' = q.id
      BY <2>2, <3>2, <3>3 DEF Mark
    <3> QED
      BY <3>1, <3>4, IngestionAssumption
  <2> QED
    BY <1>5, <1>6, <2>1, <2>2, <2>3
<1>7. TypeOK'
  <2>1. wmarked' \in {None} \cup 1..MaxRows
    BY <1>5 DEF Inv, TypeOK, Row
  <2>2. wvec' \subseteq Chunk
    BY <1>4 DEF Mark, Inv, TypeOK
  <2> QED
    BY <1>1, <1>3, <2>1, <2>2 DEF Mark, Inv, TypeOK, Reduced, request
<1>8. TopicOK'
  BY <1>1, <1>4 DEF Inv, TopicOK, Senders
<1>9. MemoryOK'
  <2>1. wsnap' = None
    BY <1>1 DEF Inv, MemoryOK
  <2>2. wmarked' # None => wmarked' < nextId'
    BY <1>1, <1>5 DEF Inv, RowsOK
  <2>3. ASSUME NEW r \in WithId(rows', wmarked')
        PROVE  r.doc = Current'
    <3>1. r.id # None
      BY <1>7, IngestionAssumption DEF WithId, TypeOK, Row
    <3>2. PICK q \in rows : q.id = r.id /\ q.doc = r.doc
      BY <1>3 DEF WithId
    <3>3. PICK p \in rows : p.id = wmarked' /\ p.doc = Current
      BY <1>5, <3>1 DEF WithId
    <3>4. p = q
      BY <3>2, <3>3 DEF WithId, Inv, TypeOK
    <3> QED
      BY <1>4, <3>2, <3>3, <3>4
  <2> QED
    BY <1>1, <2>1, <2>2, <2>3 DEF MemoryOK
<1>10. DataOK'
  BY <1>1 DEF DataOK
<1>11. WorkOK'
  <2>1. ASSUME NEW r \in Waiting'
        PROVE  DueAfter(position - 1, r) /\ (r.doc = Current => r.id = wmarked')
    <3>1. /\ r \in rows' /\ r.merged /\ r.vectorization = "PROCESSING"
          /\ r.doc \notin shared \cup forgotten
      BY <1>1 DEF Waiting
    <3>2. PICK q \in rows : q.id = r.id /\ q.doc = r.doc /\ (q \notin X => r = q)
      BY <1>3, <3>1
    <3>3. CASE r.doc = Current
      <4>1. r.id = wmarked'
        BY <1>6, <3>1, <3>2, <3>3
      <4>2. position \in ((position - 1) + 1)..Len(queue) /\ queue[position].doc = r.doc
        BY <1>4, <3>3 DEF Current
      <4> QED
        BY <4>1, <4>2 DEF DueAfter
    <3>4. CASE r.doc # Current
      <4>1. q \notin X
        BY <3>2, <3>4 DEF Newest, RowsOf
      <4> QED
        BY <1>4, <3>1, <3>2, <3>4, <4>1 DEF Inv, WorkOK, Waiting
    <3> QED
      BY <3>3, <3>4
  <2>2. \A r \in Waiting' : DueAfter(Passed, r)'
    BY <1>1, <1>4, <2>1 DEF DueAfter
  <2>3. \A r \in rows' : r.doc = Current' /\ r.doc \notin shared'
          => r.vectorization # "COMPLETED"
    BY <1>1, <1>3, <1>4, <1>6
  <2> QED
    BY <1>1, <1>4, <2>1, <2>2, <2>3 DEF WorkOK
<1>12. ChargesOK'
  BY <1>1 DEF Inv, ChargesOK, Finished
<1>13. CompletedIsSearchable'
  BY <1>1, <1>3 DEF Inv, CompletedIsSearchable
<1> QED
  BY <1>2, <1>3, <1>7, <1>8, <1>9, <1>10, <1>11, <1>12, <1>13, WorkKeeps

LEMMA ParseKeeps ==
  ASSUME Inv, Parse
  PROVE  Inv'
<1>1. /\ wpc = "parse" /\ wpc' \in {"purge", "failed"}
      /\ wsnap' = wsnap /\ wmarked' = wmarked /\ vectors' = vectors /\ index' = index
      /\ UNCHANGED <<rows, committed, position, forgotten, charges, redone>>
  BY DEF Parse, Enter, table, search, topic, history
<1>2. RequestsKept
  BY DEF Parse, RequestsKept, table, topic, history
<1>3. faults' \in 0..MaxFaults
  BY IngestionAssumption DEF Parse, Fail, Inv, TypeOK
<1>4. TypeOK'
  BY <1>1, <1>3 DEF Parse, Inv, TypeOK, table, search, topic, request, history
<1>5. MemoryOK'
  <2>1. wsnap = None /\ Reduced(rows')
    BY <1>1, RowsReduced DEF Inv, MemoryOK
  <2> QED
    BY <1>1, <1>2, <1>4, <2>1, MemoryKept DEF Working
<1>6. DataOK'
  BY <1>1 DEF DataOK
<1> QED
  BY <1>1, <1>2, <1>4, <1>5, <1>6, QuietWorkKeeps DEF Working

LEMMA PurgeKeeps ==
  ASSUME Inv, Purge
  PROVE  Inv'
<1>1. /\ wpc = "purge" /\ wsnap' = wsnap /\ wmarked' = wmarked
      /\ vectors' = vectors /\ wvec' = {} /\ position' = position /\ queue' = queue
      /\ UNCHANGED <<rows, committed, position, forgotten, charges, redone>>
  BY DEF Purge, table, topic, history
<1>2. RequestsKept
  BY DEF Purge, RequestsKept, table, topic, history
<1>3. Current \in Doc /\ Current' = Current
  BY <1>1, AtMessage DEF Inv, Current
<1>4. index \in [Doc -> SUBSET Chunk]
  BY DEF Inv, TypeOK
<1>5. \/ /\ index' = [index EXCEPT ![Current] = {}] /\ faults' = faults
         /\ wpc' = IF Chunks(Current) = {} THEN "complete" ELSE "ensure"
      \/ /\ faults' \in 0..MaxFaults /\ wpc' = "failed"
         /\ \E left \in SUBSET Chunk : index' = [index EXCEPT ![Current] = left]
  <2>1. \A left \in SUBSET index[Current] : left \in SUBSET Chunk
    BY <1>3, <1>4
  <2>2. Fail => faults' \in 0..MaxFaults
    BY IngestionAssumption DEF Fail, Inv, TypeOK
  <2>3. \/ /\ index' = [index EXCEPT ![Current] = {}] /\ faults' = faults
           /\ wpc' = IF Chunks(Current) = {} THEN "complete" ELSE "ensure"
        \/ /\ Fail /\ wpc' = "failed"
           /\ \E left \in SUBSET index[Current] : index' = [index EXCEPT ![Current] = left]
    BY DEF Purge, Enter
  <2> QED
    BY <2>1, <2>2, <2>3, Zenon
<1>6. /\ index' \in [Doc -> SUBSET Chunk]
      /\ \A d \in Doc \ {Current} : index'[d] = index[d]
      /\ wpc' \in {"complete", "ensure"} => index'[Current] = {}
  BY <1>3, <1>4, <1>5
<1>7. /\ wpc' \in {"complete", "ensure", "failed"}
      /\ wpc' = "complete" => Chunks(Current) = {}
      /\ wpc' = "ensure" => Chunks(Current) # {}
  BY <1>5
<1>8. TypeOK'
  <2>1. faults' \in 0..MaxFaults
    BY <1>5 DEF Inv, TypeOK
  <2> QED
    BY <1>1, <1>6, <1>7, <2>1 DEF Purge, Inv, TypeOK, table, topic, request, history
<1>9. MemoryOK'
  <2>1. Reduced(rows')
    BY <1>1, RowsReduced DEF Inv
  <2> QED
    BY <1>1, <1>2, <1>7, <1>8, <2>1, MemoryKept DEF Working
<1>10. DataOK'
  BY <1>1, <1>3, <1>6, <1>7 DEF DataOK, Chunks
<1> QED
  BY <1>1, <1>2, <1>6, <1>7, <1>8, <1>9, <1>10, QuietWorkKeeps DEF Working

LEMMA EnsureKeeps ==
  ASSUME Inv, Ensure
  PROVE  Inv'
<1>1. /\ wpc = "ensure" /\ wpc' \in {"embed", "failed"} /\ wsnap' = RowsOf(rows, Current)
      /\ wmarked' = wmarked /\ vectors' = vectors /\ index' = index
      /\ nextId' = nextId /\ shared' = shared /\ queue' = queue
      /\ UNCHANGED <<rows, committed, position, forgotten, charges, redone>>
  BY DEF Ensure, Enter, table, search, topic, history
<1>2. RequestsKept
  BY DEF Ensure, RequestsKept, table, topic, history
<1>3. faults' \in 0..MaxFaults
  BY IngestionAssumption DEF Ensure, Fail, Inv, TypeOK
<1>4. TypeOK'
  BY <1>1, <1>3 DEF Ensure, Inv, TypeOK, RowsOf, table, search, topic, request, history
<1>5. Current' = Current
  BY <1>1 DEF Current
<1>6. MemoryOK'
  <2>1. \A x \in rows : Agrees(x)'
    BY <1>1 DEF Agrees, WithId, Inv, RowsOK, TypeOK
  <2>2. \A x, y \in rows : x.doc = y.doc /\ x.doc \notin shared' => x = y
    BY <1>1 DEF Inv, RowsOK
  <2>3. \A r \in WithId(rows, wmarked) : r.doc = Current
    BY <1>1 DEF Inv, MemoryOK, Working
  <2>4. /\ wsnap' \subseteq rows
        /\ WithId(rows, wmarked) # {} => WithId(wsnap', wmarked) # {}
    BY <1>1, <2>3 DEF RowsOf, WithId
  <2> QED
    BY <1>1, <1>5, <2>1, <2>2, <2>3, <2>4 DEF Inv, MemoryOK, Agrees
<1>7. DataOK'
  BY <1>1, <1>5 DEF Inv, DataOK
<1> QED
  BY <1>1, <1>2, <1>4, <1>6, <1>7, QuietWorkKeeps DEF Working

LEMMA EmbedKeeps ==
  ASSUME Inv, Embed
  PROVE  Inv'
<1>1. /\ wpc = "embed" /\ wpc' \in {"index", "failed"} /\ wsnap' = wsnap
      /\ wmarked' = wmarked /\ vectors' = vectors /\ index' = index /\ queue' = queue
      /\ wpc' = "index" => wvec' = Chunks(Current)
      /\ wvec' = Chunks(Current) \/ wvec' = wvec
      /\ UNCHANGED <<rows, committed, position, forgotten, charges, redone>>
  BY DEF Embed, Enter, table, search, topic, history
<1>2. RequestsKept
  BY DEF Embed, RequestsKept, table, topic, history
<1>3. Current' = Current /\ Chunks(Current) \in SUBSET Chunk
  BY <1>1, AtMessage DEF Inv, Current
<1>4. faults' \in 0..MaxFaults
  BY IngestionAssumption DEF Embed, Fail, Inv, TypeOK
<1>5. TypeOK'
  BY <1>1, <1>3, <1>4 DEF Embed, Inv, TypeOK, table, search, topic, request, history
<1>6. MemoryOK'
  <2>1. Reduced(rows')
    BY <1>1, RowsReduced DEF Inv
  <2> QED
    BY <1>1, <1>2, <1>5, <2>1, MemoryKept DEF Working
<1>7. DataOK'
  BY <1>1, <1>3 DEF Inv, DataOK
<1> QED
  BY <1>1, <1>2, <1>5, <1>6, <1>7, QuietWorkKeeps DEF Working

LEMMA BulkIndexKeeps ==
  ASSUME Inv, BulkIndex
  PROVE  Inv'
<1>1. /\ wpc = "index" /\ wpc' \in {"charge", "failed"} /\ wsnap' = wsnap /\ wvec' = wvec
      /\ wmarked' = wmarked /\ vectors' = vectors /\ queue' = queue
      /\ UNCHANGED <<rows, committed, position, forgotten, charges, redone>>
  BY DEF BulkIndex, Enter, table, topic, history
<1>2. RequestsKept
  BY DEF BulkIndex, RequestsKept, table, topic, history
<1>3. /\ Current' = Current /\ Current \in Doc /\ Chunks(Current) = Chunk
      /\ wvec = Chunks(Current)
  BY <1>1, AtMessage DEF Inv, Current, DataOK
<1>4. PICK done \in SUBSET Chunks(Current) :
        /\ index' = [index EXCEPT ![Current] = @ \cup done]
        /\ wpc' = "charge" => done = Chunks(Current)
  BY <1>1 DEF BulkIndex, Enter
<1>5. index \in [Doc -> SUBSET Chunk]
  BY DEF Inv, TypeOK
<1>6. /\ index' \in [Doc -> SUBSET Chunk]
      /\ \A d \in Doc \ {Current} : index'[d] = index[d]
      /\ wpc' = "charge" => index'[Current] = Chunks(Current)
  BY <1>3, <1>4, <1>5
<1>7. faults' \in 0..MaxFaults
  <2>1. Fail \/ faults' = faults
    BY DEF BulkIndex
  <2> QED
    BY <2>1, IngestionAssumption DEF Fail, Inv, TypeOK
<1>8. TypeOK'
  BY <1>1, <1>6, <1>7 DEF BulkIndex, Inv, TypeOK, table, topic, request, history
<1>9. MemoryOK'
  <2>1. Reduced(rows')
    BY <1>1, RowsReduced DEF Inv
  <2> QED
    BY <1>1, <1>2, <1>8, <2>1, MemoryKept DEF Working
<1>10. DataOK'
  BY <1>1, <1>3, <1>6 DEF DataOK
<1> QED
  BY <1>1, <1>2, <1>6, <1>8, <1>9, <1>10, QuietWorkKeeps DEF Working

LEMMA ChargeKeeps ==
  ASSUME Inv, Charge
  PROVE  Inv'
<1>1. /\ wpc = "charge" /\ wpc' \in {"complete", "failed"} /\ wsnap' = wsnap /\ wvec' = wvec
      /\ wmarked' = wmarked /\ vectors' = vectors /\ index' = index /\ queue' = queue
      /\ UNCHANGED <<rows, committed, position, forgotten, charges, redone>>
  BY DEF Charge, Enter, table, search, topic, history
<1>2. RequestsKept
  BY DEF Charge, RequestsKept, table, topic, history
<1>3. Current' = Current
  BY <1>1 DEF Current
<1>4. faults' \in 0..MaxFaults
  BY IngestionAssumption DEF Charge, Fail, Inv, TypeOK
<1>5. TypeOK'
  BY <1>1, <1>4 DEF Charge, Inv, TypeOK, table, search, topic, request, history
<1>6. MemoryOK'
  <2>1. Reduced(rows')
    BY <1>1, RowsReduced DEF Inv
  <2> QED
    BY <1>1, <1>2, <1>5, <2>1, MemoryKept DEF Working
<1>7. DataOK'
  BY <1>1, <1>3 DEF Inv, DataOK
<1> QED
  BY <1>1, <1>2, <1>5, <1>6, <1>7, QuietWorkKeeps DEF Working

(* The end of a transaction that sets a status of what it sees.            *)
LEMMA SeenSet ==
  ASSUME Inv, NEW status \in {"COMPLETED", "FAILED"}, SetSeen(status)
  PROVE  /\ Reduced(rows')
         /\ \A r \in rows' :
              \E q \in rows :
                /\ q.id = r.id /\ q.doc = r.doc
                /\ r = q \/ (r.vectorization = status /\ \E x \in Seen : x.id = q.id)
<1>1. CASE Seen = {}
  <2>1. rows' = rows
    BY <1>1 DEF SetSeen
  <2> QED
    BY <2>1, RowsReduced DEF Inv
<1>2. CASE Seen # {}
  <2>1. PICK x \in Seen : SetVectorization(x, status)
    BY <1>2 DEF SetSeen
  <2> DEFINE X == {r \in rows : r.id = x.id /\ x.vectorization # status}
  <2>2. rows' = Restated(X, status)
    BY <2>1, SetIsRestated
  <2> QED
    BY <2>2, RestatedReduced DEF VectorizationStatus, Inv
<1> QED
  BY <1>1, <1>2

(* What it sees are rows of the document it works on.                      *)
LEMMA SeenIsCurrent ==
  ASSUME Inv, NEW x \in Seen, NEW q \in rows, q.id = x.id
  PROVE  q.doc = Current
<1>1. PICK y \in Newest(IF wsnap = None THEN rows ELSE wsnap, Current) :
        x = IF y.id = wmarked THEN [y EXCEPT !.vectorization = "PROCESSING"] ELSE y
  BY DEF Seen
<1>2. y \in (IF wsnap = None THEN rows ELSE wsnap) /\ y.doc = Current
  BY DEF Newest, RowsOf
<1>3. y \in Row
  BY <1>2 DEF Inv, TypeOK
<1>4. x.id = y.id
  BY <1>1, <1>3 DEF Row
<1>5. CASE wsnap = None
  BY <1>2, <1>4, <1>5 DEF Inv, TypeOK
<1>6. CASE wsnap # None
  BY <1>2, <1>4, <1>6 DEF Inv, MemoryOK, Agrees, WithId
<1> QED
  BY <1>5, <1>6

(* The row it marked, when the document is not shared, is what it sees.    *)
LEMMA MarkedIsSeen ==
  ASSUME Inv, wpc \in Working, NEW q \in rows, q.id = wmarked, q.doc \notin shared
  PROVE  Seen # {} /\ \A x \in Seen : x.id = q.id /\ x.vectorization = "PROCESSING"
<1>1. q.doc = Current /\ q.id \in Nat
  BY IngestionAssumption DEF Inv, MemoryOK, WithId, TypeOK, Row
<1> DEFINE seen == IF wsnap = None THEN rows ELSE wsnap
<1>2. PICK y \in seen : y.id = q.id /\ y.doc = Current /\ \A z \in seen : z.doc = y.doc => z = y
  <2>1. CASE wsnap = None
    BY <1>1, <2>1 DEF Inv, RowsOK
  <2>2. CASE wsnap # None
    <3>1. PICK y \in wsnap : y.id = q.id
      BY <2>2 DEF Inv, MemoryOK, WithId
    <3>2. y.doc = q.doc
      BY <2>2, <3>1 DEF Inv, MemoryOK, Agrees, WithId
    <3> QED
      BY <1>1, <2>2, <3>1, <3>2 DEF Inv, MemoryOK
  <2> QED
    BY <2>1, <2>2
<1>3. seen \subseteq Row
  BY DEF Inv, TypeOK
<1>4. Newest(seen, Current) = {y}
  BY <1>2, <1>3, OnlyIsNewest
<1>5. Seen = {[y EXCEPT !.vectorization = "PROCESSING"]}
  BY <1>2, <1>4 DEF Seen
<1>6. y \in Row
  BY <1>3
<1> QED
  BY <1>2, <1>5, <1>6 DEF Row

LEMMA CompleteKeeps ==
  ASSUME Inv, Complete
  PROVE  Inv'
<1>1. /\ wpc = "complete" /\ wpc' = "offset" /\ wsnap' = wsnap /\ wmarked' = wmarked
      /\ index' = index /\ committed' = committed /\ redone' = redone
      /\ pc' = pc /\ chosen' = chosen /\ queue' = queue /\ position' = position
      /\ shared' = shared /\ forgotten' = forgotten /\ nextId' = nextId
      /\ vectors' = [vectors EXCEPT ![Current] = wvec]
  BY DEF Complete, Enter, SaveVectors, request, topic
<1>2. RequestsKept
  BY DEF Complete, RequestsKept, topic
<1>3. /\ Reduced(rows')
      /\ \A r \in rows' :
           \E q \in rows :
             /\ q.id = r.id /\ q.doc = r.doc
             /\ r = q \/ (r.vectorization = "COMPLETED" /\ \E x \in Seen : x.id = q.id)
  BY SeenSet DEF Complete
<1>4. /\ position \in 1..Len(queue) /\ Current \in Doc /\ Passed = position - 1
      /\ committed = None \/ committed \in 1..(position - 1)
  BY <1>1, AtMessage DEF Inv
<1>5. Current' = Current /\ Passed' = Passed
  BY <1>1, <1>4 DEF Current, Passed
<1>6. wvec = Chunks(Current) /\ index[Current] = Chunks(Current) /\ wvec \subseteq Chunk
  BY <1>1 DEF Inv, DataOK, TypeOK
<1>7. /\ vectors' \in [Doc -> SUBSET Chunk] /\ vectors'[Current] = Chunks(Current)
      /\ \A d \in Doc \ {Current} : vectors'[d] = vectors[d]
  BY <1>1, <1>4, <1>6 DEF Inv, TypeOK
<1>8. /\ position \in 1..MaxTasks /\ charges \in [1..MaxTasks -> Nat]
      /\ charges' \in {charges, [charges EXCEPT ![position] = @ + 1]}
  BY <1>4, IngestionAssumption DEF Complete, Inv, TypeOK
<1>9. charges' \in [1..MaxTasks -> Nat]
  BY <1>8
<1>10. TypeOK'
  BY <1>1, <1>3, <1>7, <1>9 DEF Complete, Inv, TypeOK, Reduced, request, topic
<1>11. TopicOK'
  BY <1>1 DEF Inv, TopicOK, Senders
<1>12. MemoryOK'
  BY <1>1, <1>2, <1>3, <1>10, MemoryKept DEF Working
<1>13. DataOK'
  BY <1>1 DEF DataOK
<1>14. WorkOK'
  <2>1. ASSUME NEW r \in Waiting'
        PROVE  r \in Waiting /\ (r.doc = Current => r.id # wmarked)
    <3>1. /\ r \in rows' /\ r.merged /\ r.vectorization = "PROCESSING"
          /\ r.doc \notin shared \cup forgotten
      BY <1>1 DEF Waiting
    <3>2. r \in rows /\ r \in Waiting
      BY <1>3, <3>1 DEF Waiting
    <3>3. ASSUME r.id = wmarked
          PROVE  FALSE
      <4>1. Seen # {} /\ \A x \in Seen : x.id = r.id /\ x.vectorization = "PROCESSING"
        BY <1>1, <3>1, <3>2, <3>3, MarkedIsSeen DEF Working
      <4>2. PICK x \in Seen : SetVectorization(x, "COMPLETED")
        BY <4>1 DEF Complete, SetSeen
      <4>3. PICK q \in rows :
              r = IF q.id = x.id /\ x.vectorization # "COMPLETED"
                  THEN [q EXCEPT !.vectorization = "COMPLETED"] ELSE q
        BY <3>1, <4>2 DEF SetVectorization
      <4>4. q \in Row
        BY DEF Inv, TypeOK
      <4>5. q.id = r.id
        BY <4>3, <4>4 DEF Row
      <4>6. r.vectorization = "COMPLETED"
        BY <4>1, <4>3, <4>4, <4>5 DEF Row
      <4> QED
        BY <3>1, <4>6
    <3> QED
      BY <3>2, <3>3
  <2>2. \A r \in Waiting' : DueAfter(Passed, r)
    BY <2>1 DEF Inv, WorkOK
  <2>3. \A r \in Waiting' : r.doc = Current => DueAfter(position, r)
    BY <1>1, <2>1 DEF Inv, WorkOK, Working
  <2> QED
    BY <1>1, <1>5, <2>2, <2>3 DEF WorkOK, Working, DueAfter
<1>15. ChargesOK'
  <2>1. ASSUME NEW n \in 1..MaxTasks
        PROVE  charges'[n] <= redone'[n] + (IF Finished(n)' THEN 1 ELSE 0)
    <3>1. /\ charges[n] \in Nat /\ redone[n] \in Nat
          /\ charges[n] <= redone[n] + (IF Finished(n) THEN 1 ELSE 0)
      BY DEF Inv, TypeOK, ChargesOK
    <3>2. CASE n = position
      <4>1. ~Finished(n) /\ Finished(n)'
        BY <1>1, <1>4, <3>2 DEF Finished
      <4>2. charges'[n] \in {charges[n], charges[n] + 1}
        BY <1>8, <3>2
      <4> QED
        BY <1>1, <1>9, <3>1, <4>1, <4>2
    <3>3. CASE n # position
      <4>1. Finished(n)' = Finished(n) /\ charges'[n] = charges[n]
        BY <1>1, <1>8, <3>3 DEF Finished
      <4> QED
        BY <1>1, <3>1, <4>1
    <3> QED
      BY <3>2, <3>3
  <2> QED
    BY <2>1 DEF ChargesOK
<1>16. CompletedIsSearchable'
  <2>1. ASSUME NEW r \in rows', r.vectorization = "COMPLETED", r.doc \notin shared
        PROVE  index[r.doc] = Chunks(r.doc) /\ vectors'[r.doc] = Chunks(r.doc)
    <3>1. CASE r.doc = Current
      BY <1>6, <1>7, <3>1
    <3>2. CASE r.doc # Current
      <4>1. r \in rows
        BY <1>3, <2>1, <3>2, SeenIsCurrent
      <4>2. r.doc \in Doc \ {Current}
        BY <3>2, <4>1 DEF Inv, TypeOK, Row
      <4> QED
        BY <1>7, <2>1, <4>1, <4>2 DEF Inv, CompletedIsSearchable
    <3> QED
      BY <3>1, <3>2
  <2> QED
    BY <1>1, <2>1 DEF CompletedIsSearchable
<1> QED
  BY <1>2, <1>3, <1>10, <1>11, <1>12, <1>13, <1>14, <1>15, <1>16, WorkKeeps

LEMMA CommitOffsetKeeps ==
  ASSUME Inv, CommitOffset
  PROVE  Inv'
<1>1. /\ wpc = "offset" /\ wpc' = "idle" /\ wsnap' = None /\ wmarked' = None /\ wvec' = {}
      /\ committed' = position /\ rows' = rows /\ vectors' = vectors /\ index' = index
      /\ pc' = pc /\ chosen' = chosen /\ queue' = queue /\ position' = position
      /\ shared' = shared /\ forgotten' = forgotten
      /\ charges' = charges /\ redone' = redone
  BY DEF CommitOffset, table, search, request, history
<1>2. RequestsKept
  BY DEF CommitOffset, RequestsKept, table, history
<1>3. TypeOK /\ Reduced(rows')
  BY <1>1, RowsReduced DEF Inv
<1>4. /\ position \in 1..Len(queue) /\ Passed = position - 1 /\ Passed' = position
      /\ committed = None \/ committed \in 1..(position - 1)
  BY <1>1, AtMessage DEF Inv, Passed
<1>5. TypeOK'
  BY <1>1, <1>3, <1>4 DEF CommitOffset, TypeOK, table, search, request, history
<1>6. TopicOK'
  BY <1>1, <1>4 DEF Inv, TopicOK, Senders
<1>7. MemoryOK'
  BY <1>1, <1>2, <1>3, <1>5, MemoryKept DEF Working
<1>8. DataOK'
  BY <1>1 DEF DataOK
<1>9. WorkOK'
  <2>1. ASSUME NEW r \in Waiting
        PROVE  DueAfter(position, r)
    <3>1. DueAfter(position - 1, r)
      BY <1>4 DEF Inv, WorkOK
    <3>2. CASE r.doc = Current
      BY <1>1, <3>2 DEF Inv, WorkOK
    <3>3. CASE r.doc # Current
      BY <1>4, <3>1, <3>3 DEF DueAfter, Current
    <3> QED
      BY <3>2, <3>3
  <2> QED
    BY <1>1, <1>4, <2>1 DEF WorkOK, Working, Waiting, DueAfter
<1>10. ChargesOK'
  <2>1. ASSUME NEW n \in 1..MaxTasks
        PROVE  charges[n] <= redone[n] + (IF Finished(n)' THEN 1 ELSE 0)
    <3>1. /\ charges[n] \in Nat /\ redone[n] \in Nat
          /\ charges[n] <= redone[n] + (IF Finished(n) THEN 1 ELSE 0)
      BY DEF Inv, TypeOK, ChargesOK
    <3>2. position # None
      BY <1>4, IngestionAssumption
    <3>3. Finished(n) => Finished(n)'
      BY <1>1, <1>4, <3>2 DEF Finished
    <3> QED
      BY <3>1, <3>3
  <2> QED
    BY <1>1, <2>1 DEF ChargesOK
<1>11. CompletedIsSearchable'
  BY <1>1 DEF Inv, CompletedIsSearchable
<1> QED
  BY <1>2, <1>3, <1>5, <1>6, <1>7, <1>8, <1>9, <1>10, <1>11, WorkKeeps

(* The worker stops, whatever it has done to the rows of failed work.      *)
LEMMA DownKeeps ==
  ASSUME Inv, wpc # "down", Down, RequestsKept, TypeOK', Reduced(rows'),
         \A r \in rows' : \E q \in rows :
           /\ q.id = r.id /\ q.doc = r.doc
           /\ r = q \/ r.vectorization = "FAILED",
         \/ vectors' = vectors
         \/ wpc \in Working /\ \A d \in Doc \ {Current} : vectors'[d] = vectors[d],
         redone' = IF wpc = "offset" THEN [redone EXCEPT ![position] = @ + 1] ELSE redone,
         UNCHANGED <<index, pc, chosen, committed, position, forgotten, charges>>
  PROVE  Inv'
<1>1. /\ wpc' = "down" /\ wsnap' = None /\ wmarked' = None
      /\ shared' = shared /\ queue' = queue
  BY DEF Down, RequestsKept
<1>2. TopicOK'
  BY <1>1 DEF Inv, TopicOK, Senders
<1>3. MemoryOK'
  BY <1>1, MemoryKept DEF Working
<1>4. DataOK'
  BY <1>1 DEF DataOK
<1>5. PICK after \in Nat, before \in Nat : Passed' = after /\ Passed = before /\ after <= before
  <2>1. position \in Nat /\ (committed = None \/ committed \in Nat)
    BY DEF Inv, TypeOK
  <2>2. Passed' = IF committed = None THEN 0 ELSE committed
    BY <1>1 DEF Passed
  <2>3. CASE wpc = "idle"
    <3>1. Passed = position /\ (committed # None => committed <= position)
      BY <2>3 DEF Passed, Inv, TopicOK
    <3> QED
      BY <2>1, <2>2, <3>1
  <2>4. CASE wpc # "idle"
    <3>1. /\ position >= 1 /\ Passed = position - 1
          /\ committed = None \/ committed \in 1..(position - 1)
      BY <2>4, AtMessage DEF Inv
    <3> QED
      BY <2>1, <2>2, <3>1
  <2> QED
    BY <2>3, <2>4
<1>6. WorkOK'
  <2>1. ASSUME NEW r \in Waiting'
        PROVE  DueAfter(after, r)
    <3>1. r \in Waiting
      BY <1>1 DEF Waiting
    <3>2. DueAfter(before, r)
      BY <1>5, <3>1 DEF Inv, WorkOK
    <3>3. Len(queue) \in Nat
      BY DEF Inv, TypeOK
    <3>4. (before + 1)..Len(queue) \subseteq (after + 1)..Len(queue)
      BY <3>3, <1>5
    <3> QED
      BY <3>2, <3>4 DEF DueAfter
  <2> QED
    BY <1>1, <1>5, <2>1 DEF WorkOK, Working, DueAfter
<1>7. ChargesOK'
  <2>1. ASSUME NEW n \in 1..MaxTasks
        PROVE  charges[n] <= redone'[n] + (IF Finished(n)' THEN 1 ELSE 0)
    <3>1. /\ charges[n] \in Nat /\ redone \in [1..MaxTasks -> Nat]
          /\ charges[n] <= redone[n] + (IF Finished(n) THEN 1 ELSE 0)
      BY DEF Inv, TypeOK, ChargesOK
    <3>2. CASE wpc = "offset" /\ n = position
      BY <3>1, <3>2
    <3>3. CASE ~(wpc = "offset" /\ n = position)
      <4>1. Finished(n)' = Finished(n) /\ redone'[n] = redone[n]
        BY <1>1, <3>1, <3>3 DEF Finished
      <4> QED
        BY <3>1, <4>1
    <3> QED
      BY <3>2, <3>3
  <2> QED
    BY <2>1 DEF ChargesOK
<1>8. CompletedIsSearchable'
  <2>1. ASSUME NEW r \in rows', r.vectorization = "COMPLETED", r.doc \notin shared
        PROVE  index[r.doc] = Chunks(r.doc) /\ vectors'[r.doc] = Chunks(r.doc)
    <3>1. r \in rows /\ r.doc \in Doc
      BY <2>1 DEF Inv, TypeOK, Row
    <3>2. wpc \in Working => r.doc # Current
      BY <2>1, <3>1 DEF Inv, WorkOK
    <3> QED
      BY <2>1, <3>1, <3>2 DEF Inv, CompletedIsSearchable
  <2> QED
    BY <1>1, <2>1 DEF CompletedIsSearchable
<1> QED
  BY <1>2, <1>3, <1>4, <1>6, <1>7, <1>8, WorkKeeps

LEMMA FailedKeeps ==
  ASSUME Inv, Failed
  PROVE  Inv'
<1>1. /\ wpc = "failed" /\ Down /\ vectors' = [vectors EXCEPT ![Current] = wvec]
      /\ RequestsKept /\ redone' = redone
      /\ UNCHANGED <<index, pc, snap, chosen, committed, position, forgotten, charges>>
  BY DEF Failed, SaveVectors, RequestsKept, request, topic, history
<1>2. /\ Reduced(rows')
      /\ \A r \in rows' : \E q \in rows :
           /\ q.id = r.id /\ q.doc = r.doc
           /\ r = q \/ r.vectorization = "FAILED"
  <2>1. SetSeen("FAILED")
    BY DEF Failed
  <2> QED
    BY <2>1, SeenSet
<1>3. Current \in Doc /\ vectors \in [Doc -> SUBSET Chunk] /\ wvec \in SUBSET Chunk
  BY <1>1, AtMessage DEF Inv, TypeOK
<1>4. vectors' \in [Doc -> SUBSET Chunk] /\ \A d \in Doc \ {Current} : vectors'[d] = vectors[d]
  BY <1>1, <1>3
<1>5. TypeOK'
  BY <1>1, <1>2, <1>4 DEF Failed, Down, Inv, TypeOK, Reduced, request, topic, history
<1> QED
  BY <1>1, <1>2, <1>4, <1>5, DownKeeps DEF Working

LEMMA StopKeeps ==
  ASSUME Inv, wpc # "down", Down, faults' \in 0..MaxFaults,
         redone' = IF wpc = "offset" THEN [redone EXCEPT ![position] = @ + 1] ELSE redone,
         UNCHANGED <<table, file, search, topic, request, forgotten, shared, charges>>
  PROVE  Inv'
<1>1. /\ rows' = rows /\ vectors' = vectors /\ RequestsKept
      /\ UNCHANGED <<index, pc, chosen, committed, position, forgotten, charges>>
  BY DEF table, search, topic, request, RequestsKept
<1>2. redone' \in [1..MaxTasks -> Nat]
  <2>1. redone \in [1..MaxTasks -> Nat]
    BY DEF Inv, TypeOK
  <2>2. CASE wpc = "offset"
    <3>1. position \in 1..MaxTasks
      BY SMTT(30), <2>2, AtMessage, IngestionAssumption DEF Inv, TypeOK
    <3>2. redone[position] + 1 \in Nat
      BY <2>1, <3>1
    <3> QED
      BY <2>1, <2>2, <3>1, <3>2
  <2> QED
    BY <2>1, <2>2
<1>3. TypeOK'
  BY <1>1, <1>2 DEF Down, Inv, TypeOK, table, search, topic, request
<1>4. \A r \in rows' : \E q \in rows : q.id = r.id /\ q.doc = r.doc /\ r = q
  BY <1>1
<1> QED
  BY <1>1, <1>3, <1>4, RowsReduced, DownKeeps DEF Inv

LEMMA GiveUpKeeps ==
  ASSUME Inv, GiveUp
  PROVE  Inv'
<1>1. /\ wpc \in {"complete", "failed"} /\ Down /\ faults' = faults /\ redone' = redone
      /\ UNCHANGED <<table, file, search, topic, request, forgotten, shared, charges>>
  BY DEF GiveUp, history
<1>2. faults' \in 0..MaxFaults
  BY <1>1 DEF Inv, TypeOK
<1> QED
  BY <1>1, <1>2, StopKeeps

LEMMA CrashKeeps ==
  ASSUME Inv, Crash
  PROVE  Inv'
<1>1. faults' \in 0..MaxFaults
  BY IngestionAssumption DEF Crash, Fail, Inv, TypeOK
<1> QED
  BY <1>1, StopKeeps DEF Crash

(***************************************************************************)
(* The theorems.                                                           *)
(***************************************************************************)
LEMMA InitInv == Init => Inv
<1> SUFFICES ASSUME Init
             PROVE  Inv
  OBVIOUS
<1>1. TypeOK
  <2>1. /\ vectors \in [Doc -> SUBSET Chunk] /\ index \in [Doc -> SUBSET Chunk]
    BY DEF Init
  <2>2. /\ pc \in [Session -> Place] /\ snap \in [Session -> SUBSET Row]
        /\ chosen \in [Session -> Chosen \cup {None}]
    BY DEF Init, Place
  <2>3. charges \in [1..MaxTasks -> Nat] /\ redone \in [1..MaxTasks -> Nat]
    BY DEF Init
  <2>4. /\ nextId \in 1..(MaxRows + 1) /\ faults \in 0..MaxFaults
        /\ queue \in Seq(Task) /\ Len(queue) = 0 /\ position \in 0..Len(queue)
    BY IngestionAssumption DEF Init
  <2>5. Len(queue) <= MaxTasks
    BY <2>4, IngestionAssumption
  <2> QED
    BY <2>1, <2>2, <2>3, <2>4, <2>5 DEF Init, TypeOK, Place
<1>2. RowsOK /\ \A s \in Session : RequestOK(s)
  BY DEF Init, RowsOK, RequestOK, Sending
<1>3. TopicOK
  <2>1. Senders = {}
    BY DEF Init, Senders, Sending
  <2>2. Cardinality(Senders) = 0
    BY <2>1, FS_EmptySet
  <2> QED
    BY <2>2, IngestionAssumption DEF Init, TopicOK
<1>4. MemoryOK /\ DataOK /\ WorkOK
  BY DEF Init, MemoryOK, DataOK, WorkOK, Working, Waiting
<1>5. ChargesOK /\ ChargedOnce
  BY DEF Init, ChargesOK, ChargedOnce, Finished
<1>6. CompletedIsSearchable /\ ProcessingHasTask
  BY DEF Init, CompletedIsSearchable, ProcessingHasTask
<1> QED
  BY <1>1, <1>2, <1>3, <1>4, <1>5, <1>6 DEF Inv

LEMMA NextInv == Inv /\ [Next]_vars => Inv'
<1> SUFFICES ASSUME Inv, [Next]_vars
             PROVE  Inv'
  OBVIOUS
<1>1. CASE UNCHANGED vars
  <2>1. /\ TypeOK' /\ TopicOK' /\ Reduced(rows') /\ RequestsKept
    BY <1>1, RowsReduced DEF vars, Inv, TypeOK, TopicOK, Senders, RequestsKept, request
  <2>2. MemoryOK' /\ DataOK'
    BY <1>1 DEF vars, Inv, MemoryOK, DataOK, Agrees, Current
  <2>3. WorkOK' /\ ChargesOK' /\ CompletedIsSearchable'
    BY <1>1 DEF vars, Inv, WorkOK, Waiting, DueAfter, Passed, Current,
                ChargesOK, Finished, CompletedIsSearchable
  <2> QED
    BY <2>1, <2>2, <2>3, WorkKeeps
<1>2. ASSUME NEW s \in Session,
             \/ Begin(s) \/ Serve(s) \/ MergeFails(s)
             \/ MergeUndone(s) \/ SendFail(s) \/ Abort(s)
      PROVE  Inv'
  BY <1>2, BeginKeeps, CloseKeeps, UploadKeeps, MergeKeeps, RetryKeeps, SendKeeps,
     DeleteKeeps, RemoveFileKeeps, MergeFailsKeeps, MergeUndoneKeeps, SendFailKeeps,
     AbortKeeps DEF Serve
<1>3. CASE Work \/ Crash
  BY <1>3, StartKeeps, FetchKeeps, MarkKeeps, ParseKeeps, PurgeKeeps, EnsureKeeps, EmbedKeeps,
     BulkIndexKeeps, ChargeKeeps, CompleteKeeps, CommitOffsetKeeps, FailedKeeps, GiveUpKeeps,
     CrashKeeps DEF Work
<1> QED
  BY <1>1, <1>2, <1>3 DEF Next

(* Requests and the worker keep the inductive invariant, however often     *)
(* messages are delivered again and whatever fails.                        *)
THEOREM Invariance == Spec => []Inv
<1> QED
  BY InitInv, NextInv, PTL DEF Spec

(* A document shown as COMPLETED is wholly in the database and in the      *)
(* search index as long as one user has it (RagPipeline.process,           *)
(* mark_vectorization_completed).                                          *)
THEOREM Searchable == Spec => []CompletedIsSearchable
<1>1. Inv => CompletedIsSearchable
  BY DEF Inv
<1> QED
  BY <1>1, Invariance, PTL

(* A merged document shown as PROCESSING has a message to come or a        *)
(* request about to send one, but for messages known to be lost            *)
(* (merge_file with its failures, the retry route, the worker's commits).  *)
THEOREM HasTask == Spec => []ProcessingHasTask
<1>1. Inv => ProcessingHasTask
  BY DEF Inv
<1> QED
  BY <1>1, Invariance, PTL

(* A message is charged once, and again only for each time its offset was  *)
(* lost after the work (consume_tokens in the transaction of the pipeline, *)
(* the commit of the consumer after it).                                   *)
THEOREM Charged == Spec => []ChargedOnce
<1>1. Inv => ChargedOnce
  BY DEF Inv
<1> QED
  BY <1>1, Invariance, PTL
=============================================================================
