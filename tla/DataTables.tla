------------------------------ MODULE DataTables ------------------------------
(* The tables of the front end: which columns each has, which of them the    *)
(* user leaves on and in what order (hooks/common/table.ts over              *)
(* packages/hooks/use-table.ts), and what the rows offer against what the    *)
(* server will do for the user who clicks.  How a cell is written is left    *)
(* out.                                                                      *)
EXTENDS Naturals, Sequences, FiniteSets

CONSTANT MaxEdits    \* clicks and drags in the column setting

ASSUME DataTablesAssumption == MaxEdits \in Nat

-----------------------------------------------------------------------------
(* The columns, each with the fields its cells read, beside the fields the   *)
(* server's rows have: the two sides share only strings, and a field that is *)
(* not sent shows as a dash, a zero or today.                                *)
Column(key, reads) == [key |-> key, reads |-> reads]
Plain(key) == Column(key, {key})
Quota(of) == {of, "quota.enabled", "quota.usedTokens", "quota.limitTokens", "quota.remainingTokens", "quota.requestCount"}

-----------------------------------------------------------------------------
(* The column factories *)

UserColumns ==
    <<Plain("index"), Plain("username"), Column("orgTags", {"orgTags", "orgTags.tagId", "orgTags.name", "primaryOrg"}),
      Plain("status"), Plain("createdAt"), Column("chatUsage", {"usage", "usage.chatRequestCount"}),
      Column("llmUsage", {"usage"} \cup Quota("usage.llm")),
      Column("embeddingUsage", {"usage"} \cup Quota("usage.embedding")),
      Column("operate", {"userId", "username", "orgTags.tagId"})>>

DocumentColumns ==
    <<Column("fileName", {"fileName", "fileMd5"}), Plain("fileMd5"), Plain("totalSize"),
      Column("estimatedEmbeddingTokens", {"estimatedEmbeddingTokens", "estimatedChunkCount"}),
      Column("actualEmbeddingTokens", {"status", "actualEmbeddingTokens", "actualChunkCount",
             "vectorizationStatus", "vectorizationErrorMessage", "userId", "estimatedEmbeddingTokens"}),
      Column("status", {"status", "progress"}), Plain("orgTagName"),
      Column("isPublic", {"public", "isPublic"}), Plain("createdAt"),
      Column("operate", {"userId", "status", "fileName", "fileMd5"})>>

TagColumns ==
    <<Plain("name"), Plain("description"), Plain("uploadMaxSizeMb"),
      Column("operate", {"tagId", "name", "description", "parentTag", "uploadMaxSizeMb"})>>

OrderColumns ==
    <<Plain("tradeNo"), Plain("description"), Plain("amount"), Plain("llmToken"), Plain("embeddingToken"),
      Plain("status"), Plain("createdAt"), Column("actions", {"status", "tradeNo"})>>

PackageColumns ==
    <<Plain("sortOrder"), Plain("id"), Plain("packageName"), Plain("packagePrice"), Plain("llmToken"),
      Plain("embeddingToken"), Plain("enabled"), Plain("packageDesc"), Plain("createdAt"),
      Column("actions", {"id", "packageName", "packagePrice", "packageDesc", "packageBenefit",
                         "llmToken", "embeddingToken", "enabled", "sortOrder"})>>

RecordColumns ==
    <<Plain("createdAt"), Plain("tokenType"), Plain("changeType"), Column("amount", {"changeType", "amount"}),
      Plain("balanceAfter"), Plain("reason")>>

(* The series of the usage chart.                                            *)
TrendSeries ==
    <<Plain("day"), Plain("llmUsedTokens"), Plain("embeddingUsedTokens"), Plain("chatRequestCount"),
      Plain("llmRequestCount"), Plain("embeddingRequestCount")>>

ColumnsOf == [users |-> UserColumns, documents |-> DocumentColumns, tags |-> TagColumns,
              orders |-> OrderColumns, packages |-> PackageColumns, records |-> RecordColumns,
              trends |-> TrendSeries]

-----------------------------------------------------------------------------
(* The fields of the server's rows *)

UserRow ==
    {"userId", "username", "status", "orgTags", "orgTags.tagId", "orgTags.name", "primaryOrg",
     "createdAt", "usage", "usage.chatRequestCount"} \cup Quota("usage.llm") \cup Quota("usage.embedding")

DocumentRow ==
    {"id", "fileMd5", "fileName", "totalSize", "status", "userId", "orgTag", "orgTagName", "public",
     "isPublic", "uploadedChunks", "progress", "createdAt", "mergedAt", "estimatedEmbeddingTokens",
     "estimatedChunkCount", "actualEmbeddingTokens", "actualChunkCount", "vectorizationStatus",
     "vectorizationErrorMessage"}

TagRow == {"tagId", "name", "description", "parentTag", "uploadMaxSizeBytes", "uploadMaxSizeMb",
           "createdBy", "createdAt", "updatedAt", "children"}

OrderRow == {"id", "tradeNo", "outTradeNo", "userId", "packageId", "amount", "llmToken", "embeddingToken",
             "wxTransactionId", "status", "description", "payTime", "createdAt", "updatedAt"}

PackageRow == {"id", "packageName", "packagePrice", "packageDesc", "packageBenefit", "llmToken",
               "embeddingToken", "enabled", "sortOrder", "createdAt", "updatedAt"}

RecordRow == {"id", "recordDate", "tokenType", "changeType", "amount", "balanceBefore", "balanceAfter",
              "reason", "remark", "requestCount", "createdAt"}

TrendRow == {"day", "chatRequestCount", "llmUsedTokens", "llmRequestCount", "embeddingUsedTokens",
             "embeddingRequestCount"}

ServerRowOf == [users |-> UserRow, documents |-> DocumentRow, tags |-> TagRow, orders |-> OrderRow,
          packages |-> PackageRow, records |-> RecordRow, trends |-> TrendRow]

(* What the page adds to a row: useTable numbers the rows.                   *)
Added == {"index"}

(* The row of an upload that was queued on this page (NewTask).              *)
QueuedRow == {"file", "chunk", "chunkIndex", "fileMd5", "fileName", "totalSize", "public", "isPublic",
              "uploadedChunks", "progress", "status", "orgTag", "orgTagName", "vectorizationStatus",
              "vectorizationErrorMessage"}

(* The fields without which the cells of the documents' table cannot be      *)
(* drawn at all: they are dereferenced, not just shown.                      *)
Dereferenced == {"fileName", "fileMd5", "totalSize"}

(* Every field a table reads is sent by the server or added by the page, and *)
(* a row queued on the page has what its cells dereference.                  *)
CellsAreSent(table) ==
    /\ \A i \in 1..Len(ColumnsOf[table]) : ColumnsOf[table][i].reads \subseteq ServerRowOf[table] \cup Added
    /\ Dereferenced \subseteq QueuedRow

-----------------------------------------------------------------------------
(* Lists that are paged on the page: the server sends all of it             *)

(* apiFn, fetchGetOrgTagList: the slice of the page asked for.               *)
PageSlice(all, page, size) ==
    SubSeq(all, (page - 1) * size + 1, IF page * size < Len(all) THEN page * size ELSE Len(all))

(* transformer: the number of the i-th row of a page.                        *)
IndexOf(i, page, size) == (page - 1) * size + i

(* The pages offered for a total put together are the list, and every row is *)
(* numbered by its place in it.                                              *)
PagesWhole(all, size) ==
    LET last == (Len(all) + size - 1) \div size
        shown[p \in 0..last] == IF p = 0 THEN <<>> ELSE shown[p - 1] \o PageSlice(all, p, size)
    IN /\ shown[last] = all
       /\ \A p \in 1..last : \A i \in 1..Len(PageSlice(all, p, size)) :
            PageSlice(all, p, size)[i] = all[IndexOf(i, p, size)]

-----------------------------------------------------------------------------
(* The tables with a column setting, all of their columns with a key.        *)
SetTables == {"users", "documents", "tags"}
KeysOf == [t \in SetTables |-> [i \in 1..Len(ColumnsOf[t]) |-> ColumnsOf[t][i].key]]

-----------------------------------------------------------------------------
(* The column setting                                                        *)

VARIABLES
    tableOf,       \* the table on the screen
    columnChecks,  \* the entries of the setting: key and checked, in order
    wishes         \* what the user chose: keys left on, order, and the edits made

columnVars == <<tableOf, columnChecks, wishes>>

GetColumnChecks(cols) == [i \in 1..Len(cols) |-> [key |-> cols[i], checked |-> TRUE]]

(* getColumns: the checked entries, each looked up among the columns.        *)
GetColumns(cols, checks) ==
    LET on == SelectSeq(checks, LAMBDA c : c.checked)
        found(k) == IF k \in {cols[i] : i \in 1..Len(cols)} THEN k ELSE "undefined"
    IN [i \in 1..Len(on) |-> found(on[i].key)]

ShownColumns == GetColumns(KeysOf[tableOf], columnChecks)

ColumnInit ==
    /\ tableOf \in SetTables
    /\ columnChecks = GetColumnChecks(KeysOf[tableOf])
    /\ wishes = [on |-> {KeysOf[tableOf][i] : i \in 1..Len(KeysOf[tableOf])},
                 order |-> KeysOf[tableOf], edits |-> 0]

ColumnTypeOK ==
    /\ tableOf \in SetTables
    /\ LET keys == {KeysOf[tableOf][i] : i \in 1..Len(KeysOf[tableOf])}
       IN /\ {columnChecks[i].key : i \in DOMAIN columnChecks} = keys
          /\ Len(columnChecks) = Cardinality(keys)
    /\ wishes.edits \in 0..MaxEdits

Edit == wishes.edits < MaxEdits

(* The check box of an entry.                                                *)
TickColumn(i) ==
    /\ Edit
    /\ columnChecks' = [columnChecks EXCEPT ![i].checked = ~@]
    /\ LET k == columnChecks[i].key
       IN wishes' = [wishes EXCEPT !.edits = @ + 1,
                                   !.on = IF columnChecks[i].checked THEN @ \ {k} ELSE @ \cup {k}]
    /\ UNCHANGED tableOf

(* VueDraggable: the entry at i is dropped at j.                             *)
DragColumn(i, j) ==
    /\ Edit /\ i # j
    /\ columnChecks' =
         LET rest == SubSeq(columnChecks, 1, i - 1) \o SubSeq(columnChecks, i + 1, Len(columnChecks))
         IN SubSeq(rest, 1, j - 1) \o <<columnChecks[i]>> \o SubSeq(rest, j, Len(rest))
    /\ wishes' = [wishes EXCEPT !.edits = @ + 1,
                                !.order = [n \in 1..Len(columnChecks) |-> columnChecks'[n].key]]
    /\ UNCHANGED tableOf

(* reloadColumns, when the language changes: the entries are made anew, in   *)
(* the order of the factory, and only the marks are carried over.            *)
ReloadColumns ==
    /\ columnChecks' =
         LET checks == GetColumnChecks(KeysOf[tableOf])
             old(k) == CHOOSE n \in 1..Len(columnChecks) : columnChecks[n].key = k
         IN [i \in 1..Len(checks) |->
               [checks[i] EXCEPT !.checked = columnChecks[old(checks[i].key)].checked]]
    /\ wishes' = [wishes EXCEPT !.order = KeysOf[tableOf]]
    /\ UNCHANGED tableOf

ColumnNext ==
    \/ \E i \in 1..Len(columnChecks) : TickColumn(i)
    \/ \E i, j \in 1..Len(columnChecks) : DragColumn(i, j)
    \/ ReloadColumns

ColumnSpec == ColumnInit /\ [][ColumnNext]_columnVars

(* The table shows the columns the user left on and no others, each of them  *)
(* a real column, in the order the user dragged them into - which a change   *)
(* of language forgets, though not what is hidden.                           *)
ShownAsChosen ==
    ShownColumns = SelectSeq(wishes.order, LAMBDA k : k \in wishes.on)

-----------------------------------------------------------------------------
(* What a row offers.  me is the user: id and whether an administrator.      *)

(* canManageFile: a row that was queued on this page has no owner until a    *)
(* list of the server brings it.                                             *)
CanManageFile(row, me) == me.admin \/ row.owner = me.id

(* The buttons of a document; renderResumeUploadButton.                      *)
DocumentOffers(row, me) ==
    {"preview"} \cup
    IF CanManageFile(row, me)
    THEN {"delete"} \cup IF row.status = "break" THEN {"resume"} ELSE {}
    ELSE {}

(* The button of an order in the list of orders.                             *)
OrderOffers(row) == IF row.status \in {"NOT_PAY", "PAYING"} THEN {"pay"} ELSE {}

(* The buttons of a user in the list of users.                               *)
UserOffers(me) == {"assign tags"} \cup IF me.admin THEN {"add tokens"} ELSE {}

(* What the server does: can_delete_document for the newest row of the       *)
(* content, an upload continued in the row of who continues it, mock_pay,    *)
(* require_admin.                                                            *)
ServerDeletes(newest, me) == me.admin \/ newest = me.id
ServerResumes(row, me) == row.owner = me.id
ServerPays(row) == row.status \in {"NOT_PAY", "PAYING"}
ServerAdministers(me) == me.admin

(* Of a document that is listed, with one row for its content, the table     *)
(* offers its owner and an administrator the removal, nobody else, and the   *)
(* server agrees; an upload that broke off can be continued by its owner.    *)
(* (A row queued on this page has no owner before the next list and offers   *)
(* its own user nothing; an administrator is offered to continue uploads of  *)
(* others, which would start one of his own.)                                *)
DocumentHonoured(row, me) ==
    row.owner # "unset" =>
        /\ "delete" \in DocumentOffers(row, me) <=> ServerDeletes(row.owner, me)
        /\ row.status = "break" =>
             (ServerResumes(row, me) => "resume" \in DocumentOffers(row, me))
        /\ ~me.admin /\ "resume" \in DocumentOffers(row, me) => ServerResumes(row, me)

(* An order can be paid from its row exactly when the server takes the       *)
(* payment as a new one: one that is paid already would answer as if it had  *)
(* been paid now, one that failed with an error.                             *)
OrderHonoured(row) == "pay" \in OrderOffers(row) <=> ServerPays(row)

(* What the list of users offers is what the server lets an administrator    *)
(* do, and the list itself is his alone.                                     *)
UsersHonoured(me) == ServerAdministers(me) <=> "add tokens" \in UserOffers(me)
=============================================================================
