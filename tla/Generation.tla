----------------------------- MODULE Generation -----------------------------
(***************************************************************************)
(* One streamed answer, from the chat request to its terminal status: the  *)
(* Redis-backed generation store (app/chat/generation_state.py) and the    *)
(* WebSocket handler that drives it (app/chat/websocket_handler.py).       *)
(*                                                                         *)
(* Each WebSocket connection is a process.  A Redis command is atomic; a   *)
(* store method is not: it GETs the snapshot, edits its own copy and SETs  *)
(* the whole copy back, so every GET and every SET is a step of its own    *)
(* and the copy waits in buf in between.                                   *)
(***************************************************************************)
EXTENDS Integers, Sequences

CONSTANTS
  User, Conn, Gen,     \* users, WebSocket connections, generation ids (uuid4)
  UserOf,              \* the user whose token opened the connection
  Answer,              \* the answers the agent gives: citing or not
  MaxToolEvents,       \* tool events the agent may yield before it answers
  MaxFaults,           \* failures of clients, handlers and keys in a behaviour
  NoUser, NoGen, Absent, NoTurn

ASSUME GenerationAssumption ==
  /\ UserOf \in [Conn -> User]
  /\ Answer \subseteq {"plain", "cited"}
  /\ MaxToolEvents \in Nat
  /\ MaxFaults \in Nat
  /\ NoUser \notin User
  /\ NoGen \notin Gen

Status == {"STREAMING", "COMPLETED", "FAILED", "CANCELLED"}
Terminal == Status \ {"STREAMING"}

(* A chunk is an answer that cites its sources, one that does not, or the  *)
(* reference footer the handler builds.                                    *)
Chunk == Answer \cup {"footer"}
Snapshot == [user : User, status : Status, content : Seq(Chunk), refs : BOOLEAN]

ASSUME AbsenceAssumption == Absent \notin Snapshot /\ NoTurn \notin Seq(Chunk)

Mark == {"activated", "stopped", "clean", "lapsed", "abandoned"}

VARIABLES
  generations,   \* Redis chat:generation:<id>
  active,        \* Redis chat:active-generation:<user>
  turns,         \* the answer of the conversation turn committed for each id
  online,        \* does the server still see the client of a connection?
  pc,            \* where the handler of a connection stands
  cur,           \* the generation it works on
  buf,           \* the snapshot it read and has not written back yet
  arg,           \* the event, chunk or status the store call is about
  refs,          \* did the agent collect reference mappings?
  tools,         \* tool events the agent has yielded
  owner,         \* history: the user each id was issued to
  sent,          \* history: the chunks that reached the client
  marks,         \* history: what happened to each generation
  faults         \* failures so far

redis == <<generations, active>>
local == <<cur, buf, arg, refs, tools>>
history == <<owner, sent, marks, faults>>
vars == <<generations, active, turns, online, pc, cur, buf, arg, refs, tools,
          owner, sent, marks, faults>>

Label ==
  {"closed", "idle", "prepare", "create", "activate", "start", "agent",
   "check", "append", "appendWrite", "send", "footer", "refs", "refsWrite",
   "term", "termWrite", "termActive", "termDelete", "answer", "record",
   "bill", "reply", "stopLookup", "stopActive", "stopGet"}

(* Inside the try block of _stream_llm_response.                           *)
TryLabel ==
  {"agent", "check", "append", "appendWrite", "footer", "refs", "refsWrite",
   "term", "termWrite", "termActive", "termDelete", "answer", "record", "bill"}

Init ==
  /\ generations = [g \in Gen |-> Absent]
  /\ active = [u \in User |-> NoGen]
  /\ turns = [g \in Gen |-> NoTurn]
  /\ online = [c \in Conn |-> TRUE]
  /\ pc = [c \in Conn |-> "idle"]
  /\ cur = [c \in Conn |-> NoGen]
  /\ buf = [c \in Conn |-> Absent]
  /\ arg = [c \in Conn |-> "none"]
  /\ refs = [c \in Conn |-> FALSE]
  /\ tools = [c \in Conn |-> 0]
  /\ owner = [g \in Gen |-> NoUser]
  /\ sent = [g \in Gen |-> << >>]
  /\ marks = [g \in Gen |-> {}]
  /\ faults = 0

(***************************************************************************)
(* Helpers.                                                                *)
(***************************************************************************)
Goto(c, label) == pc' = [pc EXCEPT ![c] = label]

(* The coroutine returns to the receive loop, or ends: its locals go.      *)
Leave(c, label) ==
  /\ Goto(c, label)
  /\ cur' = [cur EXCEPT ![c] = NoGen]
  /\ buf' = [buf EXCEPT ![c] = Absent]
  /\ arg' = [arg EXCEPT ![c] = "none"]
  /\ refs' = [refs EXCEPT ![c] = FALSE]
  /\ tools' = [tools EXCEPT ![c] = 0]

MarkGen(g, m) == marks' = [marks EXCEPT ![g] = @ \cup {m}]

NewSnapshot(u) ==
  [user |-> u, status |-> "STREAMING", content |-> << >>, refs |-> FALSE]

(* get_for_user: the snapshot exists and belongs to the user.              *)
OwnedBy(g, u) == /\ generations[g] # Absent
                 /\ generations[g].user = u

HasReferenceCitation(content) ==
  \E i \in DOMAIN content : content[i] \in {"cited", "footer"}

AfterSend(event) ==
  CASE event = "tool" -> "agent"
    [] event \in Answer -> "footer"
    [] event = "footer" -> "refs"

AfterTerminal(status) == IF status = "COMPLETED" THEN "answer" ELSE "reply"

(* The bound on failures.                                                  *)
Fail == faults < MaxFaults /\ faults' = faults + 1

(***************************************************************************)
(* The receive loop.                                                       *)
(***************************************************************************)
ReceiveChat(c) ==
  /\ pc[c] = "idle" /\ online[c]
  /\ Goto(c, "prepare")
  /\ UNCHANGED <<redis, turns, online, local, history>>

(* A stop names a generation the client has learnt of, or none.            *)
ReceiveStop(c) ==
  /\ pc[c] = "idle" /\ online[c]
  /\ \E g \in {h \in Gen : "activated" \in marks[h]} \cup {NoGen} :
       /\ cur' = [cur EXCEPT ![c] = g]
       /\ Goto(c, IF g = NoGen THEN "stopActive" ELSE "stopLookup")
  /\ UNCHANGED <<redis, turns, online, buf, arg, refs, tools, history>>

Disconnect(c) ==
  /\ pc[c] # "closed" /\ online[c]
  /\ Fail
  /\ online' = [online EXCEPT ![c] = FALSE]
  /\ UNCHANGED <<redis, turns, pc, local, owner, sent, marks>>

(* receive_text raises WebSocketDisconnect.                                *)
HangUp(c) ==
  /\ pc[c] = "idle" /\ ~online[c]
  /\ Goto(c, "closed")
  /\ UNCHANGED <<redis, turns, online, local, history>>

Reconnect(c) ==
  /\ pc[c] = "closed"
  /\ Goto(c, "idle")
  /\ online' = [online EXCEPT ![c] = TRUE]
  /\ UNCHANGED <<redis, turns, local, history>>

(***************************************************************************)
(* _stream_llm_response, up to the agent.                                  *)
(***************************************************************************)
(* Mutant: the id is not fresh.                                            *)
PrepareReused(c) ==
  /\ pc[c] = "prepare"
  /\ \E g \in Gen :
       /\ owner[g] \in {NoUser, UserOf[c]}
       /\ owner' = [owner EXCEPT ![g] = UserOf[c]]
       /\ cur' = [cur EXCEPT ![c] = g]
  /\ Goto(c, "create")
  /\ UNCHANGED <<redis, turns, online, buf, arg, refs, tools, sent, marks, faults>>

(* Session, model and balance are resolved and create draws a fresh uuid,  *)
(* or the request is refused.                                              *)
Prepare(c) ==
  /\ pc[c] = "prepare"
  /\ \/ /\ Goto(c, "idle")
        /\ UNCHANGED <<cur, owner>>
     \/ \E g \in Gen :
          /\ owner[g] = NoUser
          /\ owner' = [owner EXCEPT ![g] = UserOf[c]]
          /\ cur' = [cur EXCEPT ![c] = g]
          /\ Goto(c, "create")
  /\ UNCHANGED <<redis, turns, online, buf, arg, refs, tools, sent, marks, faults>>

CreateWrite(c) ==
  /\ pc[c] = "create"
  /\ generations' = [generations EXCEPT ![cur[c]] = NewSnapshot(UserOf[c])]
  /\ Goto(c, "activate")
  /\ UNCHANGED <<active, turns, online, local, history>>

CreateActivate(c) ==
  /\ pc[c] = "activate"
  /\ active' = [active EXCEPT ![UserOf[c]] = cur[c]]
  /\ MarkGen(cur[c], "activated")
  /\ Goto(c, "start")
  /\ UNCHANGED <<generations, turns, online, local, owner, sent, faults>>

(* A send to a client that is gone ends the handler and nobody will write  *)
(* a terminal status.                                                      *)
Abandon(c) ==
  /\ ~online[c]
  /\ Leave(c, "idle")
  /\ MarkGen(cur[c], "abandoned")
  /\ UNCHANGED <<redis, turns, online, owner, sent, faults>>

SendStart(c) ==
  /\ pc[c] = "start"
  /\ \/ /\ online[c]
        /\ Goto(c, "agent")
        /\ UNCHANGED <<redis, turns, online, local, history>>
     \/ Abandon(c)

(***************************************************************************)
(* The agent loop.  The agent yields tool events, then one final answer.   *)
(***************************************************************************)
AgentTool(c) ==
  /\ pc[c] = "agent" /\ tools[c] < MaxToolEvents
  /\ tools' = [tools EXCEPT ![c] = @ + 1]
  /\ arg' = [arg EXCEPT ![c] = "tool"]
  /\ Goto(c, "check")
  /\ UNCHANGED <<redis, turns, online, cur, buf, refs, history>>

(* Mutant: the status is looked at for tool events only.                   *)
AgentAnswerUnchecked(c) ==
  /\ pc[c] = "agent"
  /\ \E a \in Answer : arg' = [arg EXCEPT ![c] = a]
  /\ \E r \in BOOLEAN : refs' = [refs EXCEPT ![c] = r]
  /\ Goto(c, "append")
  /\ UNCHANGED <<redis, turns, online, cur, buf, tools, history>>

AgentAnswer(c) ==
  /\ pc[c] = "agent"
  /\ \E a \in Answer : arg' = [arg EXCEPT ![c] = a]
  /\ \E r \in BOOLEAN : refs' = [refs EXCEPT ![c] = r]
  /\ Goto(c, "check")
  /\ UNCHANGED <<redis, turns, online, cur, buf, tools, history>>

(* An empty final answer yields no event: the loop ends.                   *)
AgentEmpty(c) ==
  /\ pc[c] = "agent"
  /\ \E r \in BOOLEAN : refs' = [refs EXCEPT ![c] = r]
  /\ Goto(c, "footer")
  /\ UNCHANGED <<redis, turns, online, cur, buf, arg, tools, history>>

(* Mutant: the snapshot is looked up but its status is not.                *)
CheckExists(c) ==
  /\ pc[c] = "check"
  /\ IF OwnedBy(cur[c], UserOf[c])
     THEN /\ Goto(c, IF arg[c] = "tool" THEN "send" ELSE "append")
          /\ UNCHANGED local
     ELSE Leave(c, "idle")
  /\ UNCHANGED <<redis, turns, online, history>>

Check(c) ==
  /\ pc[c] = "check"
  /\ IF OwnedBy(cur[c], UserOf[c]) /\ generations[cur[c]].status = "STREAMING"
     THEN /\ Goto(c, IF arg[c] = "tool" THEN "send" ELSE "append")
          /\ UNCHANGED local
     ELSE Leave(c, "idle")
  /\ UNCHANGED <<redis, turns, online, history>>

AppendRead(c) ==
  /\ pc[c] = "append"
  /\ buf' = [buf EXCEPT ![c] = generations[cur[c]]]
  /\ Goto(c, IF generations[cur[c]] = Absent THEN "send" ELSE "appendWrite")
  /\ UNCHANGED <<redis, turns, online, cur, arg, refs, tools, history>>

AppendWrite(c) ==
  /\ pc[c] = "appendWrite"
  /\ generations' = [generations EXCEPT ![cur[c]] =
                       [buf[c] EXCEPT !.content = Append(@, arg[c])]]
  /\ buf' = [buf EXCEPT ![c] = Absent]
  /\ Goto(c, "send")
  /\ UNCHANGED <<active, turns, online, cur, arg, refs, tools, history>>

Send(c) ==
  /\ pc[c] = "send"
  /\ \/ /\ online[c]
        /\ sent' = IF arg[c] = "tool" THEN sent
                   ELSE [sent EXCEPT ![cur[c]] = Append(@, arg[c])]
        /\ Goto(c, AfterSend(arg[c]))
        /\ arg' = [arg EXCEPT ![c] = "none"]
        /\ UNCHANGED <<redis, turns, online, cur, buf, refs, tools, owner, marks, faults>>
     \/ Abandon(c)

(***************************************************************************)
(* After the loop.  The status is not looked at again.                     *)
(***************************************************************************)
(* Mutant: the footer is sent and not stored.                              *)
FooterUnstored(c) ==
  /\ pc[c] = "footer"
  /\ IF /\ OwnedBy(cur[c], UserOf[c])
        /\ refs[c]
        /\ ~HasReferenceCitation(generations[cur[c]].content)
     THEN /\ arg' = [arg EXCEPT ![c] = "footer"]
          /\ Goto(c, "send")
     ELSE /\ Goto(c, "refs")
          /\ UNCHANGED arg
  /\ UNCHANGED <<redis, turns, online, cur, buf, refs, tools, history>>

Footer(c) ==
  /\ pc[c] = "footer"
  /\ IF /\ OwnedBy(cur[c], UserOf[c])
        /\ refs[c]
        /\ ~HasReferenceCitation(generations[cur[c]].content)
     THEN /\ arg' = [arg EXCEPT ![c] = "footer"]
          /\ Goto(c, "append")
     ELSE /\ Goto(c, "refs")
          /\ UNCHANGED arg
  /\ UNCHANGED <<redis, turns, online, cur, buf, refs, tools, history>>

RefsRead(c) ==
  /\ pc[c] = "refs"
  /\ IF refs[c] /\ generations[cur[c]] # Absent
     THEN /\ buf' = [buf EXCEPT ![c] = generations[cur[c]]]
          /\ Goto(c, "refsWrite")
          /\ UNCHANGED arg
     ELSE /\ Goto(c, "term")
          /\ arg' = [arg EXCEPT ![c] = "COMPLETED"]
          /\ UNCHANGED buf
  /\ UNCHANGED <<redis, turns, online, cur, refs, tools, history>>

RefsWrite(c) ==
  /\ pc[c] = "refsWrite"
  /\ generations' = [generations EXCEPT ![cur[c]] = [buf[c] EXCEPT !.refs = TRUE]]
  /\ buf' = [buf EXCEPT ![c] = Absent]
  /\ arg' = [arg EXCEPT ![c] = "COMPLETED"]
  /\ Goto(c, "term")
  /\ UNCHANGED <<active, turns, online, cur, refs, tools, history>>

(* mark_completed has returned: the answer is read back from the store.    *)
ReadAnswer(c) ==
  /\ pc[c] = "answer"
  /\ buf' = [buf EXCEPT ![c] = IF OwnedBy(cur[c], UserOf[c])
                               THEN generations[cur[c]] ELSE Absent]
  /\ Goto(c, "record")
  /\ UNCHANGED <<redis, turns, online, cur, arg, refs, tools, history>>

RecordTurn(c) ==
  /\ pc[c] = "record"
  /\ turns' = [turns EXCEPT ![cur[c]] =
                 IF buf[c] = Absent THEN << >> ELSE buf[c].content]
  /\ buf' = [buf EXCEPT ![c] = Absent]
  /\ Goto(c, "bill")
  /\ UNCHANGED <<redis, online, cur, arg, refs, tools, history>>

(* The model is free, or consume_tokens succeeds; a refusal is a Raise.    *)
Bill(c) ==
  /\ pc[c] = "bill"
  /\ Goto(c, "reply")
  /\ UNCHANGED <<redis, turns, online, local, history>>

(* completion, error or stop is sent; a failed send changes nothing.       *)
Reply(c) ==
  /\ pc[c] = "reply"
  /\ Leave(c, "idle")
  /\ UNCHANGED <<redis, turns, online, history>>

(***************************************************************************)
(* _update_terminal_state, for mark_completed, mark_failed, mark_cancelled.*)
(***************************************************************************)
TerminalRead(c) ==
  /\ pc[c] = "term"
  /\ buf' = [buf EXCEPT ![c] = generations[cur[c]]]
  /\ Goto(c, IF generations[cur[c]] = Absent THEN AfterTerminal(arg[c])
             ELSE "termWrite")
  /\ IF arg[c] = "CANCELLED" /\ generations[cur[c]] # Absent
     THEN MarkGen(cur[c], "stopped") ELSE UNCHANGED marks
  /\ UNCHANGED <<redis, turns, online, cur, arg, refs, tools, owner, sent, faults>>

(* The handler of g waits for an agent event, or has not checked it yet.   *)
BetweenEvents(g) ==
  \E d \in Conn : pc[d] \in {"agent", "check"} /\ cur[d] = g

TerminalWrite(c) ==
  /\ pc[c] = "termWrite"
  /\ generations' = [generations EXCEPT ![cur[c]] =
                       [buf[c] EXCEPT !.status = arg[c]]]
  /\ Goto(c, "termActive")
  /\ IF arg[c] = "CANCELLED" /\ BetweenEvents(cur[c])
     THEN MarkGen(cur[c], "clean") ELSE UNCHANGED marks
  /\ UNCHANGED <<active, turns, online, local, owner, sent, faults>>

(* Mutant: the comparison with the active pointer is inverted.             *)
TerminalReadActiveInverted(c) ==
  /\ pc[c] = "termActive"
  /\ IF active[buf[c].user] # cur[c]
     THEN Goto(c, "termDelete") /\ UNCHANGED buf
     ELSE /\ Goto(c, AfterTerminal(arg[c]))
          /\ buf' = [buf EXCEPT ![c] = Absent]
  /\ UNCHANGED <<redis, turns, online, cur, arg, refs, tools, history>>

TerminalReadActive(c) ==
  /\ pc[c] = "termActive"
  /\ IF active[buf[c].user] = cur[c]
     THEN Goto(c, "termDelete") /\ UNCHANGED buf
     ELSE /\ Goto(c, AfterTerminal(arg[c]))
          /\ buf' = [buf EXCEPT ![c] = Absent]
  /\ UNCHANGED <<redis, turns, online, cur, arg, refs, tools, history>>

TerminalDeleteActive(c) ==
  /\ pc[c] = "termDelete"
  /\ active' = [active EXCEPT ![buf[c].user] = NoGen]
  /\ buf' = [buf EXCEPT ![c] = Absent]
  /\ Goto(c, AfterTerminal(arg[c]))
  /\ UNCHANGED <<generations, turns, online, cur, arg, refs, tools, history>>

(* Mutant: the except block reports the error and marks nothing.           *)
RaiseUnmarked(c) ==
  /\ pc[c] \in TryLabel
  /\ arg[c] \notin {"FAILED", "CANCELLED"}
  /\ Fail
  /\ arg' = [arg EXCEPT ![c] = "FAILED"]
  /\ buf' = [buf EXCEPT ![c] = Absent]
  /\ Goto(c, "reply")
  /\ UNCHANGED <<redis, turns, online, cur, refs, tools, owner, sent, marks>>

(* Any exception in the try block ends in mark_failed.                     *)
Raise(c) ==
  /\ pc[c] \in TryLabel
  /\ arg[c] \notin {"FAILED", "CANCELLED"}
  /\ Fail
  /\ arg' = [arg EXCEPT ![c] = "FAILED"]
  /\ buf' = [buf EXCEPT ![c] = Absent]
  /\ Goto(c, "term")
  /\ UNCHANGED <<redis, turns, online, cur, refs, tools, owner, sent, marks>>

(***************************************************************************)
(* _handle_control_message: the generation named, else the active one.     *)
(***************************************************************************)
StopLookup(c) ==
  /\ pc[c] = "stopLookup"
  /\ IF OwnedBy(cur[c], UserOf[c])
     THEN /\ arg' = [arg EXCEPT ![c] = "CANCELLED"]
          /\ Goto(c, "term")
          /\ UNCHANGED cur
     ELSE /\ cur' = [cur EXCEPT ![c] = NoGen]
          /\ Goto(c, "stopActive")
          /\ UNCHANGED arg
  /\ UNCHANGED <<redis, turns, online, buf, refs, tools, history>>

StopReadActive(c) ==
  /\ pc[c] = "stopActive"
  /\ cur' = [cur EXCEPT ![c] = active[UserOf[c]]]
  /\ Goto(c, IF active[UserOf[c]] = NoGen THEN "idle" ELSE "stopGet")
  /\ UNCHANGED <<redis, turns, online, buf, arg, refs, tools, history>>

StopGet(c) ==
  /\ pc[c] = "stopGet"
  /\ IF OwnedBy(cur[c], UserOf[c])
     THEN /\ arg' = [arg EXCEPT ![c] = "CANCELLED"]
          /\ Goto(c, "term")
          /\ UNCHANGED <<cur, buf, refs, tools>>
     ELSE Leave(c, "idle")
  /\ UNCHANGED <<redis, turns, online, history>>

(***************************************************************************)
(* The environment: a handler dies with its process or with an error no    *)
(* handler catches, and Redis keys reach their TTL.                        *)
(***************************************************************************)
Die(c) ==
  /\ pc[c] # "closed"
  /\ Fail
  /\ Leave(c, "closed")
  /\ online' = [online EXCEPT ![c] = FALSE]
  /\ IF cur[c] \in Gen THEN MarkGen(cur[c], "abandoned") ELSE UNCHANGED marks
  /\ UNCHANGED <<redis, turns, owner, sent>>

LapseGeneration(g) ==
  /\ generations[g] # Absent
  /\ Fail
  /\ generations' = [generations EXCEPT ![g] = Absent]
  /\ MarkGen(g, "lapsed")
  /\ UNCHANGED <<active, turns, online, pc, local, owner, sent>>

LapseActive(u) ==
  /\ active[u] # NoGen
  /\ Fail
  /\ active' = [active EXCEPT ![u] = NoGen]
  /\ UNCHANGED <<generations, turns, online, pc, local, owner, sent, marks>>

(***************************************************************************)
(* The specification.                                                      *)
(***************************************************************************)
StoreCall(c) ==
  \/ TerminalRead(c) \/ TerminalWrite(c)
  \/ TerminalReadActive(c) \/ TerminalDeleteActive(c)

AgentEvent(c) == AgentTool(c) \/ AgentAnswer(c) \/ AgentEmpty(c)

(* What the server does by itself once it has a message to handle.         *)
Handle(c) ==
  \/ Prepare(c) \/ CreateWrite(c) \/ CreateActivate(c) \/ SendStart(c)
  \/ AgentEvent(c) \/ Check(c) \/ AppendRead(c) \/ AppendWrite(c) \/ Send(c)
  \/ Footer(c) \/ RefsRead(c) \/ RefsWrite(c) \/ StoreCall(c)
  \/ ReadAnswer(c) \/ RecordTurn(c) \/ Bill(c) \/ Reply(c)
  \/ StopLookup(c) \/ StopReadActive(c) \/ StopGet(c)
  \/ HangUp(c)

(* What clients, failures and time do.                                     *)
Client(c) == ReceiveChat(c) \/ ReceiveStop(c) \/ Disconnect(c) \/ Reconnect(c)
Fault(c) == Raise(c) \/ Die(c)

Next ==
  \/ \E c \in Conn : Handle(c) \/ Client(c) \/ Fault(c)
  \/ \E g \in Gen : LapseGeneration(g)
  \/ \E u \in User : LapseActive(u)

Spec == Init /\ [][Next]_vars

(* The event loop runs every ready coroutine; the agent answers in bounded *)
(* time because every tool call and every model call has a timeout.        *)
Fairness == \A c \in Conn : WF_vars(Handle(c))
FairSpec == Spec /\ Fairness

(***************************************************************************)
(* Properties.                                                             *)
(***************************************************************************)
TypeOK ==
  /\ generations \in [Gen -> Snapshot \cup {Absent}]
  /\ active \in [User -> Gen \cup {NoGen}]
  /\ turns \in [Gen -> Seq(Chunk) \cup {NoTurn}]
  /\ online \in [Conn -> BOOLEAN]
  /\ pc \in [Conn -> Label]
  /\ cur \in [Conn -> Gen \cup {NoGen}]
  /\ buf \in [Conn -> Snapshot \cup {Absent}]
  /\ arg \in [Conn -> Chunk \cup Status \cup {"tool", "none"}]
  /\ refs \in [Conn -> BOOLEAN]
  /\ tools \in [Conn -> 0..MaxToolEvents]
  /\ owner \in [Gen -> User \cup {NoUser}]
  /\ sent \in [Gen -> Seq(Chunk)]
  /\ marks \in [Gen -> SUBSET Mark]
  /\ faults \in 0..MaxFaults

(* What the store says of g, when it says anything.                        *)
HasStatus(g, statuses) == generations[g] # Absent /\ generations[g].status \in statuses

Updating(c) == pc[c] \in {"term", "termWrite", "termActive", "termDelete"}

(* The chat handler of a generation until it has written a terminal status.*)
Serving(c) ==
  \/ pc[c] \in {"activate", "start", "agent", "check", "append", "appendWrite",
                "send", "footer", "refs", "refsWrite"}
  \/ pc[c] \in {"term", "termWrite"} /\ arg[c] # "CANCELLED"

(* A snapshot that still says STREAMING has a handler that will end it,    *)
(* unless that handler lost its client or died: the early returns of       *)
(* _stream_llm_response and the writes of racing stops strand no other     *)
(* generation, even when a stale copy puts STREAMING back.                 *)
StreamingIsServed ==
  \A g \in Gen : HasStatus(g, {"STREAMING"}) =>
    \/ "abandoned" \in marks[g]
    \/ \E c \in Conn : Serving(c) /\ cur[c] = g

(* The active pointer of a user names a finished generation only while     *)
(* somebody is still inside _update_terminal_state for it, so the page     *)
(* reload that asks for the active generation does not resume a dead one.  *)
PointerNotStale ==
  \A u \in User, g \in Gen :
    active[u] = g /\ HasStatus(g, Terminal) =>
      \/ {"abandoned", "lapsed"} \cap marks[g] # {}
      \/ \E c \in Conn : Updating(c) /\ cur[c] = g

(* The answer committed to the conversation is the text the client was     *)
(* sent, chunk by chunk, unless a stop took a copy of the snapshot or the  *)
(* snapshot expired under the handler.                                     *)
RecordedIsSent ==
  \A g \in Gen :
    turns[g] # NoTurn /\ {"stopped", "lapsed"} \cap marks[g] = {} =>
      turns[g] = sent[g]

(* A stop that lands while the handler waits for the next agent event is   *)
(* honoured: no text of the answer reaches the client, the store or the    *)
(* conversation afterwards.  (An empty answer yields no event and so no    *)
(* check: such a generation may still turn COMPLETED, with its footer.)    *)
NoAnswerIn(content) == \A i \in DOMAIN content : content[i] \notin Answer

CleanStopHonoured ==
  \A g \in Gen : "clean" \in marks[g] =>
    /\ NoAnswerIn(sent[g])
    /\ generations[g] # Absent => NoAnswerIn(generations[g].content)
    /\ turns[g] # NoTurn => NoAnswerIn(turns[g])

(* Whoever writes a terminal status, or clears an active pointer, works on *)
(* a generation of the user of its own connection.                         *)
UpdatesOwnGeneration ==
  \A c \in Conn : Updating(c) =>
    /\ cur[c] \in Gen
    /\ owner[cur[c]] = UserOf[c]
    /\ buf[c] # Absent => buf[c].user = UserOf[c]

(* A status written by mark_completed or mark_failed never goes back to    *)
(* STREAMING, whichever stale copies are still to be written.              *)
FinishedNeverReopens ==
  [][\A g \in Gen : HasStatus(g, {"COMPLETED", "FAILED"}) =>
       ~HasStatus(g, {"STREAMING"})']_vars

(* Every stream ends: with a terminal status or an expired key, unless its *)
(* handler lost its client or died.                                        *)
StreamSettles ==
  \A g \in Gen : HasStatus(g, {"STREAMING"}) ~>
    (~HasStatus(g, {"STREAMING"}) \/ "abandoned" \in marks[g])

(* The active pointer is released in the same sense.                       *)
PointerReleased ==
  \A u \in User, g \in Gen : (active[u] = g) ~>
    (active[u] # g \/ {"abandoned", "lapsed"} \cap marks[g] # {})
=============================================================================
