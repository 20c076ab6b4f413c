--------------------------- MODULE MemoryExtraction ---------------------------
(* The long-term memory (memory/service.py): after every turn that is billed *)
(* a background task counts the turns and, every so many, asks the model for *)
(* memories and writes them, each row followed by its entry in the search    *)
(* index, in one transaction whose commit comes last.  One user, one         *)
(* conversation.                                                             *)
EXTENDS Naturals, Sequences, FiniteSets

CONSTANTS ExtractEvery,   \* long_term_memory_extract_every_turns
          Contents,       \* what a memory may say
          MaxMemories,    \* rows written
          MaxTurns,       \* turns recorded
          MaxMisses       \* refused bills and tasks that fail

ASSUME MemoryAssumption ==
    /\ ExtractEvery \in Nat \ {0} /\ "none" \notin Contents
    /\ {MaxMemories, MaxTurns, MaxMisses} \subseteq Nat

MemoryIds == 1..MaxMemories   \* ids are given out once, in order

VARIABLES
    turnCount, \* the turns committed
    begun,     \* of each turn, the step of its bill and task: what it still writes, and its own rows
    memories,  \* the committed rows: what each says
    entries,   \* the index: what each entry says
    story      \* ids given out; turns whose task began an extraction; failures; turns
               \* nobody counted; slips

memoryVars == <<turnCount, begun, memories, entries, story>>

NoMemories == [i \in MemoryIds |-> "none"]
Item == [action : {"create"}, id : {0}, content : Contents]
          \cup [action : {"update"}, id : MemoryIds, content : Contents]
Payloads == {<<>>} \cup UNION {[1..n -> Item] : n \in 1..2}
Started == [step |-> "billing", items |-> <<>>, rows |-> NoMemories, snapshot |-> NoMemories, id |-> 0]

Table == [MemoryIds -> Contents \cup {"none"}]
Extraction == [step : {"billing", "counting", "asking", "writing", "indexing", "done"}, items : Seq(Item),
         rows : Table, snapshot : Table, id : MemoryIds \cup {0}]

MemoryTypeOK ==
    /\ turnCount \in 0..MaxTurns
    /\ begun \in Seq(Extraction) /\ Len(begun) = turnCount
    /\ memories \in Table /\ entries \in Table
    /\ story \in [given : 0..MaxMemories, extractions : SUBSET (1..MaxTurns), misses : 0..MaxMisses,
                  lost : SUBSET (1..MaxTurns), touched : SUBSET MemoryIds, late : BOOLEAN]

MemoryInit ==
    /\ turnCount = 0 /\ begun = <<>> /\ memories = NoMemories /\ entries = NoMemories
    /\ story = [given |-> 0, extractions |-> {}, misses |-> 0, lost |-> {}, touched |-> {},
                late |-> FALSE]

Running(k) == begun[k].step \in {"asking", "writing", "indexing"}

(* A turn nobody has counted yet.                                            *)
Pending(k) == begun[k].step \in {"billing", "counting"}

(* The commit of record_turn.                                                *)
Turn ==
    /\ turnCount < MaxTurns
    /\ turnCount' = turnCount + 1
    /\ begun' = Append(begun, Started)
    /\ story' = [story EXCEPT !.late = @ \/ \E k \in DOMAIN begun : Pending(k)]
    /\ UNCHANGED <<memories, entries>>

(* The turn is billed, or free: schedule_extraction starts a task.           *)
Schedule(k) ==
    /\ begun[k].step = "billing"
    /\ begun' = [begun EXCEPT ![k].step = "counting"]
    /\ UNCHANGED <<turnCount, memories, entries, story>>

(* The gate of extract_and_store.                                            *)
Due(count) == count % ExtractEvery = 0

(* The task counts the turns there are by then; its transaction sees the     *)
(* rows as they are now.                                                     *)
CountTurns(k) ==
    /\ begun[k].step = "counting"
    /\ begun' = [begun EXCEPT ![k].step = IF Due(turnCount) THEN "asking" ELSE "done",
                              ![k].snapshot = IF Due(turnCount) THEN memories ELSE @]
    /\ story' = [story EXCEPT !.extractions = IF Due(turnCount) THEN @ \cup {k} ELSE @]
    /\ UNCHANGED <<turnCount, memories, entries>>

(* _extract_memories: the model's answer; nothing usable ends the task.      *)
ModelAnswers(k, items) ==
    /\ begun[k].step = "asking"
    /\ begun' = [begun EXCEPT ![k] = IF items = <<>> THEN [Started EXCEPT !.step = "done"]
                                    ELSE [@ EXCEPT !.step = "writing", !.items = items]]
    /\ UNCHANGED <<turnCount, memories, entries, story>>

(* What the transaction of a task sees.                                      *)
Sees(k) == [i \in MemoryIds |-> IF begun[k].rows[i] # "none" THEN begun[k].rows[i] ELSE begun[k].snapshot[i]]

(* _resolve_memory_for_action: the row an item is about, 0 for a new one, or *)
(* none at all.                                                              *)
RowFor(k, item) ==
    IF item.action = "update" THEN IF Sees(k)[item.id] # "none" THEN {item.id} ELSE {}
    ELSE IF \E i \in MemoryIds : Sees(k)[i] = item.content
         THEN {CHOOSE i \in MemoryIds : Sees(k)[i] = item.content}
         ELSE {0}

(* A row that another transaction has written is locked.                     *)
Locked(i, k) == \E o \in DOMAIN begun \ {k} : Running(o) /\ begun[o].rows[i] # "none"

(* One item: the row is flushed.                                             *)
WriteRow(k) ==
    /\ begun[k].step = "writing" /\ begun[k].items # <<>>
    /\ LET item == Head(begun[k].items)
       IN IF RowFor(k, item) = {}
          THEN begun' = [begun EXCEPT ![k].items = Tail(@)] /\ UNCHANGED story
          ELSE \E r \in RowFor(k, item) :
                 /\ r = 0 => story.given + 1 \in MemoryIds
                 /\ r # 0 => ~Locked(r, k)
                 /\ LET id == IF r = 0 THEN story.given + 1 ELSE r
                    IN /\ begun' = [begun EXCEPT ![k].step = "indexing", ![k].rows[id] = item.content, ![k].id = id]
                       /\ story' = [story EXCEPT !.given = IF r = 0 THEN id ELSE @]
    /\ UNCHANGED <<turnCount, memories, entries>>

(* index_memory, under the id of the row.                                    *)
Indexed(k) == [entries EXCEPT ![begun[k].id] = begun[k].rows[begun[k].id]]

(* One item: its content is embedded and indexed.                            *)
IndexRow(k) ==
    /\ begun[k].step = "indexing"
    /\ entries' = Indexed(k)
    /\ begun' = [begun EXCEPT ![k].step = "writing", ![k].items = Tail(@), ![k].id = 0]
    /\ UNCHANGED <<turnCount, memories, story>>

(* The commit.                                                               *)
CommitMemories(k) ==
    /\ begun[k].step = "writing" /\ begun[k].items = <<>>
    /\ memories' = [i \in MemoryIds |-> IF begun[k].rows[i] # "none" THEN begun[k].rows[i] ELSE memories[i]]
    /\ begun' = [begun EXCEPT ![k] = [Started EXCEPT !.step = "done"]]
    /\ UNCHANGED <<turnCount, entries, story>>

(* The bill is refused, and no task is started; the task cannot count; the   *)
(* model, the embedding or the index fails; or the server stops: the rows    *)
(* are rolled back, the entries are not.                                     *)
ExtractionFails(k) ==
    /\ begun[k].step # "done" /\ story.misses < MaxMisses
    /\ begun' = [begun EXCEPT ![k] = [Started EXCEPT !.step = "done"]]
    /\ story' = [story EXCEPT !.misses = @ + 1,
                  !.lost = IF Pending(k) THEN @ \cup {k} ELSE @,
                  !.touched = @ \cup {i \in MemoryIds : begun[k].rows[i] # "none"}]
    /\ UNCHANGED <<turnCount, memories, entries>>

MemoryNext ==
    \/ Turn
    \/ \E k \in DOMAIN begun :
         \/ Schedule(k) \/ CountTurns(k) \/ WriteRow(k) \/ IndexRow(k)
         \/ CommitMemories(k) \/ ExtractionFails(k)
         \/ \E items \in Payloads : ModelAnswers(k, items)

MemorySpec == MemoryInit /\ [][MemoryNext]_memoryVars

(* What is found is what is remembered: outside a running extraction every   *)
(* entry of the index says what the row of its id says, and no row is        *)
(* without one - rows aside that an extraction which failed had written.     *)
IndexOfRows ==
    \A i \in MemoryIds \ story.touched :
        (~\E k \in DOMAIN begun : Running(k) /\ begun[k].rows[i] # "none") => entries[i] = memories[i]

(* Every so many turns there is one extraction, never two and none missed -  *)
(* but for a turn whose bill was refused or whose task failed before it had  *)
(* counted, and unless two turns were recorded before the task of the first  *)
(* one counted them, for both then see the later count.                      *)
DueIsExtracted ==
    ~story.late /\ (\A k \in DOMAIN begun : ~Pending(k))
        => story.extractions = {k \in DOMAIN begun : Due(k)} \ story.lost

-----------------------------------------------------------------------------
(* The inductive invariant.  A row has an id that was given; one written and *)
(* not yet committed is one running extraction's, and is in the index, or is *)
(* about to be, with what it says.                                           *)
IdsGiven ==
    \A i \in MemoryIds : i > story.given =>
        /\ memories[i] = "none"
        /\ \A k \in DOMAIN begun : begun[k].rows[i] = "none" /\ begun[k].snapshot[i] = "none"
Writes(k, i) == Running(k) /\ begun[k].rows[i] # "none"
RowsHeld ==
    /\ \A k \in DOMAIN begun :
         /\ begun[k].step \in {"billing", "counting", "asking"} => begun[k].rows = NoMemories
         /\ begun[k].step = "indexing" =>
              begun[k].id # 0 /\ Writes(k, begun[k].id) /\ begun[k].items # <<>>
    /\ \A k \in DOMAIN begun, i \in MemoryIds :
         Writes(k, i) =>
             /\ \A o \in DOMAIN begun : Writes(o, i) => o = k
             /\ ~(begun[k].step = "indexing" /\ begun[k].id = i) => entries[i] = begun[k].rows[i]

(* As long as no two turns were waiting to be counted at once, it is the     *)
(* last one that waits, and the others were counted one by one.              *)
CountsKept ==
    /\ \A k \in story.lost : k \in DOMAIN begun /\ ~Pending(k)
    /\ ~story.late =>
        /\ \A k \in DOMAIN begun : Pending(k) => k = turnCount
        /\ story.extractions = {k \in DOMAIN begun : Due(k) /\ ~Pending(k)} \ story.lost

MemoryInv == MemoryTypeOK /\ IdsGiven /\ RowsHeld /\ CountsKept /\ IndexOfRows /\ DueIsExtracted
=============================================================================
