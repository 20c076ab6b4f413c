----------------------------- MODULE ChatClient -----------------------------
(***************************************************************************)
(* One browser page of the chat view: the Pinia chat store, the input box, *)
(* the message list and the session sidebar, against the server it talks   *)
(* to.  The page and the server exchange HTTP calls, which are served and  *)
(* answered in any order, and messages of one WebSocket, which are handled *)
(* in order.  The socket is only up or down here: ChatSocket has how it    *)
(* comes up again.                                                         *)
(*                                                                         *)
(* The text of an answer is abstracted to whether there is any, its tool   *)
(* events to whether one is executing.                                     *)
(***************************************************************************)
EXTENDS Naturals, Sequences, SequencesExt, FiniteSets

CONSTANTS
  Conv,        \* conversation sessions of the user, made or not yet
  Gen,         \* generations the server may start
  MaxActs,     \* bound: questions, stops, clicks in the sidebar and lost connections
  MaxCalls,    \* bound: calls in flight when the user or the monitor starts one
  MaxWire,     \* bound: messages on their way when the agent sends one more
  NoConv, NoGen

ASSUME ChatAssumption ==
  /\ NoConv \notin Conv /\ NoGen \notin Gen
  /\ MaxActs \in Nat /\ MaxCalls \in Nat /\ MaxWire \in Nat

VARIABLES
  list,        \* the messages on screen
  conv,        \* chatStore.conversationId, NoConv for ''
  monitor,     \* the status monitor of the input box runs
  calls,       \* HTTP calls in flight
  ws,          \* "OPEN" or "CLOSED"
  wire,        \* messages on their way to the page
  cmds,        \* messages on their way to the server, or waiting for a connection
  server,      \* the server's loop of the connection
  status,      \* generation -> its status in the server's store
  home,        \* generation -> its conversation
  running,     \* the user's active generation in the server's store
  recorded,    \* the generations whose turn is in the database
  pointer,     \* the user's current conversation at the server
  session,     \* conversation -> "none", "ACTIVE" or "ARCHIVED"
  acts,        \* how much has happened
  uprooted,    \* history: the page lost its socket, took over a running answer,
               \* or had its list replaced while an answer was under way
  disturbed    \* history: something else was under way as the page acted, a call
               \* about sessions failed, or the conversation on screen left the
               \* archive and was not the current one

pageVars == <<list, conv, monitor, calls, ws>>
storeVars == <<status, home, running, recorded, pointer, session>>
history == <<uprooted, disturbed>>
vars == <<pageVars, wire, cmds, server, storeVars, acts, history>>

----------------------------------------------------------------------------
(* Messages, calls and events.                                             *)

MessageStatus == {"none", "pending", "loading", "finished", "error"}
GenerationStatus == {"STREAMING", "COMPLETED", "CANCELLED", "FAILED"}
Message ==
  [role : {"user", "assistant"}, gen : Gen \cup {NoGen}, status : MessageStatus,
   text : BOOLEAN, executing : BOOLEAN]

User == [role |-> "user", gen |-> NoGen, status |-> "none", text |-> TRUE, executing |-> FALSE]
Assistant(g, s, text) ==
  [role |-> "assistant", gen |-> g, status |-> s, text |-> text, executing |-> FALSE]

(* A stored turn comes back without its generation and without a status.   *)
History(turns) ==
  [i \in 1..(2 * turns) |-> IF i % 2 = 1 THEN User ELSE Assistant(NoGen, "none", TRUE)]

(* Two equal calls in flight count as one.                                 *)
(* A call has an argument (a conversation or a generation), and the        *)
(* session that is being archived when it ends.                            *)
Kind == {"messages", "sessions", "create", "switch", "archive", "unarchive",
         "token", "sync", "check"}
CallThen(kind, arg, then) == [kind |-> kind, arg |-> arg, then |-> then, served |-> FALSE]
Call(kind, arg) == CallThen(kind, arg, NoConv)

Event(type, g) == [type |-> type, gen |-> g]

(* The server between two commands.                                        *)
Resting(alive) == [pc |-> "idle", gen |-> NoGen, alive |-> alive, tool |-> FALSE]

(* What a message shows: dots while its answer has not come, an error, or  *)
(* its text.                                                               *)
Shown(m) ==
  IF m.status = "pending" \/ (m.status = "loading" /\ m.role = "assistant" /\ ~m.text)
    THEN "dots"
    ELSE IF m.status = "error" THEN "error" ELSE "text"

----------------------------------------------------------------------------
(* The list, as the store and the input box read it.                       *)

Unsettled(m) == m.role = "assistant" /\ m.status \in {"pending", "loading"}

isSending == list # <<>> /\ Unsettled(Last(list))

(* The last of some places in the list, 0 when there is none.              *)
LastOf(I) ==
  LET M == {i \in I : \A j \in I : j <= i} IN IF M = {} THEN 0 ELSE CHOOSE i \in M : TRUE

Answers(l, g) == {i \in DOMAIN l : l[i].role = "assistant" /\ l[i].gen = g /\ g # NoGen}
AnswerOf(l, g) == LastOf(Answers(l, g))

(* Mutant: only an answer that has the generation.                         *)
findAssistantMessageOwn(l, g) == AnswerOf(l, g)

(* The answer an event is applied to: the one of its generation, otherwise *)
(* the last message if that is an answer; 0 when there is none.            *)
findAssistantMessage(l, g) ==
  IF AnswerOf(l, g) # 0 THEN AnswerOf(l, g)
  ELSE IF l # <<>> /\ Last(l).role = "assistant" THEN Len(l) ELSE 0

getPendingGenerationId ==
  LET i == LastOf({k \in DOMAIN list : Unsettled(list[k]) /\ list[k].gen # NoGen})
  IN IF i = 0 THEN NoGen ELSE list[i].gen

mapGenerationStatus(s) ==
  CASE s \in {"COMPLETED", "CANCELLED"} -> "finished"
    [] s = "FAILED" -> "error"
    [] s = "STREAMING" -> "loading"

(* Mutant: a snapshot is always a new pair.                                *)
upsertGenerationSnapshotPush(l, g, text) ==
  l \o <<User, Assistant(g, mapGenerationStatus(status[g]), text)>>

(* A snapshot of g becomes the answer of g, or a new pair.                 *)
upsertGenerationSnapshot(l, g, text) ==
  LET i == AnswerOf(l, g)
      s == mapGenerationStatus(status[g])
  IN IF i # 0 THEN [l EXCEPT ![i].status = s, ![i].text = @ \/ text]
     ELSE l \o <<User, Assistant(g, s, text)>>

(* Executing tools become successes or failures.                           *)
updateExecutingToolStatus(m) == [m EXCEPT !.executing = FALSE]

(* conversationId' = c: the list view loads the messages of the            *)
(* conversation it changes to (its watchEffect).                           *)
SetConv(c, pending) ==
  /\ conv' = c
  /\ calls' = IF c = conv THEN pending ELSE pending \cup {Call("messages", c)}

----------------------------------------------------------------------------
ActiveSessions == {d \in Conv : session[d] = "ACTIVE"}

(* The page opens: the sidebar loads the sessions, the view the messages.  *)
(* Or it has been open, with nothing under way and nothing asked yet.      *)

Mounting == calls = {Call("sessions", NoConv), Call("messages", NoConv)} /\ conv = NoConv
Mounted == calls = {} /\ (conv = NoConv => ActiveSessions = {}) /\ conv = pointer

Init ==
  /\ session \in [Conv -> {"none", "ACTIVE"}]
  /\ pointer \in {NoConv} \cup ActiveSessions
  /\ conv \in {NoConv, pointer}
  /\ \/ Mounting /\ acts = 1
     \/ Mounted /\ acts = 0
  /\ list = <<>> /\ monitor = FALSE
  /\ ws = "CLOSED" /\ wire = <<>> /\ cmds = <<>>
  /\ server = Resting(FALSE)
  /\ status = [g \in Gen |-> "none"] /\ home = [g \in Gen |-> NoConv]
  /\ running = NoGen /\ recorded = {}
  /\ uprooted = FALSE /\ disturbed = FALSE

----------------------------------------------------------------------------
(* The input box.                                                          *)

SessionCalls == {c \in calls : c.kind \in {"sessions", "create", "switch", "archive", "unarchive"}}

Act == acts < MaxActs /\ acts' = acts + 1

HasRoom == Cardinality(calls) < MaxCalls

(* handleSend with nothing being answered: a question and its answer, with *)
(* no generation yet.                                                      *)
Send ==
  /\ ws = "OPEN" /\ ~isSending /\ Act
  /\ list' = list \o <<User, Assistant(NoGen, "pending", FALSE)>>
  /\ cmds' = Append(cmds, Event("chat", NoGen))
  /\ monitor' = TRUE
  /\ disturbed' = (disturbed \/ SessionCalls # {})
  /\ UNCHANGED <<conv, calls, ws, wire, server, storeVars, uprooted>>

(* handleSend while an answer comes: the command token is fetched first.   *)
AskStop ==
  /\ ws = "OPEN" /\ isSending /\ Act /\ HasRoom
  /\ calls' = calls \cup {Call("token", NoGen)}
  /\ UNCHANGED <<list, conv, monitor, ws, wire, cmds, server, storeVars, history>>

(* The rest of handleSend, when the token is there: whatever is the last   *)
(* message then is stopped, and goes if it is empty.  Without a connection  *)
(* the command waits in the buffer of the socket for the next one.         *)
Stop(c) ==
  LET m == Last(list) IN
  /\ c.kind = "token"
  /\ calls' = calls \ {c}
  /\ cmds' = Append(cmds, Event("stop", IF list = <<>> THEN NoGen ELSE m.gen))
  /\ list' = IF list = <<>> THEN list
             ELSE IF m.text THEN Front(list) \o <<[m EXCEPT !.status = "finished"]>>
             ELSE Front(list)
  /\ UNCHANGED <<conv, monitor, ws, wire, server, storeVars, acts, history>>

(* A snapshot of an answer that runs, or that is not on screen.            *)
TakesOver(g) == status[g] = "STREAMING" \/ AnswerOf(list, g) = 0

(* A tick of the monitor: it ends when there is nothing to watch or it has *)
(* watched for too long, and asks for the snapshot of a silent answer.     *)
MonitorTick ==
  LET i == IF list = <<>> THEN 0 ELSE findAssistantMessage(list, Last(list).gen)
      idle == i = 0 \/ ~Unsettled(list[i])
  IN
  /\ monitor
  /\ \/ monitor' = FALSE /\ UNCHANGED calls
     \/ /\ ~idle /\ list[i].gen # NoGen /\ HasRoom
        /\ calls' = calls \cup {Call("check", list[i].gen)}
        /\ UNCHANGED monitor
  /\ UNCHANGED <<list, conv, ws, wire, cmds, server, storeVars, acts, history>>

(* The answer to that tick.                                                *)
Checked(c) ==
  /\ c.kind = "check"
  /\ IF status[c.arg] = "STREAMING"
       THEN UNCHANGED <<list, conv, monitor, uprooted>> /\ calls' = calls \ {c}
       ELSE /\ \E text \in BOOLEAN :
                 LET l == upsertGenerationSnapshot(list, c.arg, text) IN
                 list' = [l EXCEPT ![AnswerOf(l, c.arg)] = updateExecutingToolStatus(@)]
            /\ SetConv(home[c.arg], calls \ {c})
            /\ monitor' = FALSE
            /\ uprooted' = (uprooted \/ TakesOver(c.arg))
  /\ UNCHANGED <<ws, wire, cmds, server, storeVars, acts, disturbed>>

----------------------------------------------------------------------------
(* Messages of the socket.                                                 *)

(* The handler of each type of message: the answer it leaves.              *)
Handled(m, e) ==
  CASE e.type = "start" -> [m EXCEPT !.gen = e.gen]
    [] e.type = "chunk" -> [m EXCEPT !.status = "loading", !.text = TRUE]
    [] e.type = "tool_executing" -> [m EXCEPT !.status = "loading", !.executing = TRUE]
    [] e.type = "tool_success" -> [m EXCEPT !.status = "loading", !.executing = FALSE]
    [] e.type \in {"completion", "stop"} ->
         updateExecutingToolStatus([m EXCEPT !.status = IF @ = "error" THEN @ ELSE "finished"])
    [] e.type = "error" ->
         updateExecutingToolStatus([m EXCEPT !.status = "error", !.text = TRUE])

Receive ==
  LET e == Head(wire)
      i == findAssistantMessage(list, e.gen)
  IN
  /\ wire # <<>>
  /\ e.type # "connection"
  /\ wire' = Tail(wire)
  /\ IF i = 0
       THEN UNCHANGED <<list, conv, monitor, calls>>
       ELSE /\ list' = [list EXCEPT ![i] = Handled(@, e)]
            /\ monitor' = (monitor /\ e.type \notin {"completion", "stop", "error"})
            /\ IF e.type = "completion"
                 THEN SetConv(home[e.gen], calls \cup {Call("sessions", NoConv)})
                 ELSE UNCHANGED <<conv, calls>>
  /\ UNCHANGED <<ws, cmds, server, storeVars, acts, history>>

(* The first message of a connection: the page asks for the answer it      *)
(* waits for, or for the one that runs.                                    *)
syncGenerationAfterReconnect ==
  /\ wire # <<>> /\ Head(wire).type = "connection"
  /\ wire' = Tail(wire)
  /\ calls' = calls \cup {Call("sync", getPendingGenerationId)}
  /\ UNCHANGED <<list, conv, monitor, ws, cmds, server, storeVars, acts, history>>

Synced(c) ==
  LET g == IF c.arg # NoGen THEN c.arg ELSE running IN
  /\ c.kind = "sync"
  /\ IF g = NoGen
       THEN UNCHANGED <<list, conv, uprooted>> /\ calls' = calls \ {c}
       ELSE /\ \E text \in BOOLEAN : list' = upsertGenerationSnapshot(list, g, text)
            /\ SetConv(home[g], calls \ {c})
            /\ uprooted' = (uprooted \/ TakesOver(g))
  /\ UNCHANGED <<monitor, ws, wire, cmds, server, storeVars, acts, disturbed>>

Connect ==
  /\ ws = "CLOSED" /\ ~server.alive /\ server.pc = "idle"
  /\ ws' = "OPEN"
  /\ wire' = <<Event("connection", NoGen)>>
  /\ server' = [server EXCEPT !.alive = TRUE]
  /\ UNCHANGED <<list, conv, monitor, calls, cmds, storeVars, acts, history>>

(* The connection is lost with what is in it.                              *)
Drop ==
  /\ ws = "OPEN" /\ Act
  /\ ws' = "CLOSED" /\ wire' = <<>> /\ cmds' = <<>>
  /\ server' = [server EXCEPT !.alive = FALSE, !.tool = FALSE]
  /\ uprooted' = TRUE
  /\ UNCHANGED <<list, conv, monitor, calls, storeVars, disturbed>>

----------------------------------------------------------------------------
(* The sidebar.  Its clicks start a call and do not wait for it.           *)

Quiet ==
  /\ wire = <<>> /\ cmds = <<>> /\ server.pc = "idle"
  /\ \A c \in calls : c.kind = "sync"

Click(call) ==
  /\ Act /\ HasRoom
  /\ calls' = calls \cup {call}
  /\ disturbed' = (disturbed \/ ~Quiet)
  /\ UNCHANGED <<list, conv, monitor, ws, wire, cmds, server, storeVars, uprooted>>

NewChat == Click(Call("create", NoConv))
Select(c) == session[c] # "none" /\ c # conv /\ Click(Call("switch", c))
Archive(c) == session[c] = "ACTIVE" /\ Click(Call("archive", c))
Unarchive(c) == session[c] = "ARCHIVED" /\ Click(Call("unarchive", c))

Replace(l) ==
  /\ list' = l
  /\ uprooted' = (uprooted \/ cmds # <<>> \/ server.pc # "idle" \/ wire # <<>>)

(* Without a conversation the turns of all of them come.                   *)
Turns(c) == Cardinality({g \in recorded : c = NoConv \/ home[g] = c})

(* loadSessions, answered: a page without a conversation switches to the   *)
(* first active one.  archiveSession leaves the conversation after that.   *)
Leave(c, then) ==
  IF then # NoConv /\ then = conv
    THEN Replace(<<>>) /\ SetConv(NoConv, calls \ {c})
    ELSE UNCHANGED <<list, conv, uprooted>> /\ calls' = calls \ {c}

SessionsLoaded(c) ==
  /\ c.kind = "sessions"
  /\ IF conv = NoConv /\ ActiveSessions # {}
       THEN /\ \E d \in ActiveSessions : calls' = (calls \ {c}) \cup {CallThen("switch", d, c.then)}
            /\ UNCHANGED <<list, conv, uprooted>>
       ELSE Leave(c, c.then)
  /\ UNCHANGED <<monitor, ws, wire, cmds, server, storeVars, acts, disturbed>>

(* The server makes the session and points the user to it.                 *)
Created(c) ==
  /\ c.kind = "create"
  /\ \E d \in Conv :
       /\ session[d] = "none"
       /\ session' = [session EXCEPT ![d] = "ACTIVE"]
       /\ pointer' = d
       /\ SetConv(d, (calls \ {c}) \cup {Call("sessions", NoConv)})
  /\ Replace(<<>>)
  /\ UNCHANGED <<monitor, ws, wire, cmds, server, status, home, running, recorded,
                 acts, disturbed>>

Switched(c) ==
  /\ c.kind = "switch" /\ c.served
  /\ Replace(<<>>)
  /\ SetConv(c.arg, (calls \ {c}) \cup {CallThen("messages", c.arg, c.then)})
  /\ UNCHANGED <<monitor, ws, wire, cmds, server, storeVars, acts, disturbed>>

(* Whether the conversation on screen is not the user's current one.       *)
Elsewhere == conv # NoConv /\ pointer # conv

Archived(c) ==
  /\ c.kind \in {"archive", "unarchive"}
  /\ calls' = (calls \ {c})
       \cup {CallThen("sessions", NoConv, IF c.kind = "archive" THEN c.arg ELSE NoConv)}
  /\ session' = [session EXCEPT ![c.arg] = IF c.kind = "archive" THEN "ARCHIVED" ELSE "ACTIVE"]
  /\ disturbed' = (disturbed \/ (c.kind = "unarchive" /\ c.arg = conv /\ Elsewhere))
  /\ UNCHANGED <<list, conv, monitor, ws, wire, cmds, server, status, home, running,
                 recorded, pointer, acts, uprooted>>

(* loadMessages and getList: whatever they bring becomes the list.         *)
Loaded(c) ==
  /\ c.kind = "messages"
  /\ IF c.then # NoConv /\ c.then = conv
       THEN Replace(<<>>) /\ SetConv(NoConv, calls \ {c})
       ELSE Replace(History(Turns(c.arg))) /\ UNCHANGED conv /\ calls' = calls \ {c}
  /\ UNCHANGED <<monitor, ws, wire, cmds, server, storeVars, acts, disturbed>>

(* A call fails, before or after the server served it: the page goes on,   *)
(* and archiveSession with what comes after loadSessions.                  *)
Fail(c) ==
  /\ Leave(c, c.then)
  /\ disturbed' = (disturbed \/ c \in SessionCalls)
  /\ UNCHANGED <<monitor, ws, wire, cmds, server, storeVars, acts>>

----------------------------------------------------------------------------
(* The server: calls.                                                      *)

(* A switch is served first and answered later.                            *)
Serve(c) ==
  /\ c.kind = "switch" /\ ~c.served
  /\ calls' = (calls \ {c}) \cup {[c EXCEPT !.served = TRUE]}
  /\ pointer' = c.arg
  /\ UNCHANGED <<list, conv, monitor, ws, wire, cmds, server, status, home, running,
                 recorded, session, acts, history>>

(* What the other answers hold is the server's state when they arrive.     *)
Deliver(c) ==
  \/ Stop(c) \/ Checked(c) \/ Synced(c) \/ SessionsLoaded(c) \/ Created(c)
  \/ Switched(c) \/ Archived(c) \/ Loaded(c)

----------------------------------------------------------------------------
(* The server: the loop of the connection.                                 *)

Emit(e) == wire' = IF server.alive THEN Append(wire, e) ELSE wire

(* A question is refused before a generation exists.                       *)
Refuse ==
  /\ server.pc = "idle" /\ server.alive /\ cmds # <<>> /\ Head(cmds).type = "chat"
  /\ cmds' = Tail(cmds)
  /\ Emit(Event("error", NoGen))
  /\ UNCHANGED <<pageVars, server, storeVars, acts, history>>

(* ensure_current_session, then the generation, which starts.              *)
Start(g) ==
  /\ server.pc = "idle" /\ server.alive /\ cmds # <<>> /\ Head(cmds).type = "chat"
  /\ status[g] = "none"
  /\ IF pointer # NoConv /\ session[pointer] = "ACTIVE"
       THEN UNCHANGED <<session, pointer>> /\ home' = [home EXCEPT ![g] = pointer]
       ELSE \E d \in Conv :
              /\ session[d] = "none"
              /\ session' = [session EXCEPT ![d] = "ACTIVE"]
              /\ pointer' = d
              /\ home' = [home EXCEPT ![g] = d]
  /\ status' = [status EXCEPT ![g] = "STREAMING"]
  /\ running' = g
  /\ cmds' = Tail(cmds)
  /\ server' = [server EXCEPT !.pc = "stream", !.gen = g, !.tool = FALSE]
  /\ Emit(Event("start", g))
  /\ UNCHANGED <<pageVars, recorded, acts, history>>

(* One event of the agent; a dead socket ends the loop and leaves the      *)
(* generation STREAMING.                                                   *)
Chunk ==
  /\ server.pc = "stream" /\ server.alive
  /\ Len(wire) < MaxWire
  /\ Emit(Event("chunk", server.gen))
  /\ UNCHANGED <<pageVars, cmds, server, status, home, running, recorded, pointer, session,
                 acts, history>>

ToolEvent ==
  /\ server.pc = "stream" /\ server.alive
  /\ Len(wire) < MaxWire
  /\ server' = [server EXCEPT !.tool = ~@]
  /\ Emit(Event(IF server.tool THEN "tool_success" ELSE "tool_executing", server.gen))
  /\ UNCHANGED <<pageVars, cmds, storeVars, acts, history>>

Abandon ==
  /\ server.pc = "stream" /\ ~server.alive
  /\ server' = Resting(server.alive)
  /\ UNCHANGED <<pageVars, wire, cmds, status, home, running, recorded, pointer, session,
                 acts, history>>

Terminal(g, s) ==
  /\ status' = [status EXCEPT ![g] = s]
  /\ running' = IF running = g THEN NoGen ELSE running

Complete ==
  /\ server.pc = "stream"
  /\ Terminal(server.gen, "COMPLETED")
  /\ server' = [server EXCEPT !.pc = "record", !.tool = FALSE]
  /\ UNCHANGED <<pageVars, wire, cmds, home, recorded, pointer, session, acts, history>>

Record ==
  /\ server.pc = "record"
  /\ recorded' = recorded \cup {server.gen}
  /\ server' = Resting(server.alive)
  /\ Emit(Event("completion", server.gen))
  /\ UNCHANGED <<pageVars, cmds, status, home, running, pointer, session, acts, history>>

(* An exception anywhere after the start.                                  *)
Raise ==
  /\ server.pc \in {"stream", "record"}
  /\ Terminal(server.gen, "FAILED")
  /\ server' = Resting(server.alive)
  /\ Emit(Event("error", server.gen))
  /\ UNCHANGED <<pageVars, cmds, home, recorded, pointer, session, acts, history>>

(* A stop is read after the answer before it: it marks its generation, or  *)
(* the active one, whatever its status.                                    *)
StopCommand ==
  LET g == IF Head(cmds).gen # NoGen THEN Head(cmds).gen ELSE running IN
  /\ server.pc = "idle" /\ server.alive /\ cmds # <<>> /\ Head(cmds).type = "stop"
  /\ cmds' = Tail(cmds)
  /\ IF g = NoGen
       THEN UNCHANGED <<status, running, wire>>
       ELSE Terminal(g, "CANCELLED") /\ Emit(Event("stop", g))
  /\ UNCHANGED <<pageVars, server, home, recorded, pointer, session, acts, history>>

----------------------------------------------------------------------------
Server ==
  \/ Refuse \/ (\E g \in Gen : Start(g)) \/ Abandon \/ Complete \/ Record \/ Raise
  \/ StopCommand

Next ==
  \/ Send \/ AskStop \/ MonitorTick \/ Receive \/ syncGenerationAfterReconnect
  \/ Connect \/ Drop \/ NewChat
  \/ \E c \in Conv : Select(c) \/ Archive(c) \/ Unarchive(c)
  \/ \E c \in calls : Serve(c) \/ Deliver(c) \/ Fail(c)
  \/ Chunk \/ ToolEvent \/ Server

Spec == Init /\ [][Next]_vars

----------------------------------------------------------------------------
(* Properties.                                                             *)

Calls ==
  [kind : {"sessions"}, arg : {NoConv}, then : Conv \cup {NoConv}, served : {FALSE}]
  \cup [kind : {"messages"}, arg : Conv \cup {NoConv}, then : Conv \cup {NoConv}, served : {FALSE}]
  \cup [kind : {"switch"}, arg : Conv, then : Conv \cup {NoConv}, served : BOOLEAN]
  \cup [kind : {"create"}, arg : {NoConv}, then : {NoConv}, served : {FALSE}]
  \cup [kind : {"archive", "unarchive"}, arg : Conv, then : {NoConv}, served : {FALSE}]
  \cup [kind : {"token"}, arg : {NoGen}, then : {NoConv}, served : {FALSE}]
  \cup [kind : {"sync", "check"}, arg : Gen \cup {NoGen}, then : {NoConv}, served : {FALSE}]
Body == {"start", "chunk", "tool_executing", "tool_success"}
Events ==
  [type : Body \cup {"completion", "stop", "error"}, gen : Gen]
  \cup [type : {"connection", "error"}, gen : {NoGen}]
Commands == [type : {"chat"}, gen : {NoGen}] \cup [type : {"stop"}, gen : Gen \cup {NoGen}]

TypeOK ==
  /\ list \in Seq(Message)
  /\ conv \in Conv \cup {NoConv} /\ monitor \in BOOLEAN
  /\ calls \subseteq Calls
  /\ ws \in {"OPEN", "CLOSED"} /\ wire \in Seq(Events) /\ cmds \in Seq(Commands)
  /\ server \in [pc : {"idle", "stream", "record"}, gen : Gen \cup {NoGen},
                  alive : BOOLEAN, tool : BOOLEAN]
  /\ status \in [Gen -> GenerationStatus \cup {"none"}]
  /\ recorded \subseteq Gen /\ IsFiniteSet(recorded) /\ running \in Gen \cup {NoGen}
  /\ home \in [Gen -> Conv \cup {NoConv}]
  /\ session \in [Conv -> {"none", "ACTIVE", "ARCHIVED"}] /\ pointer \in Conv \cup {NoConv}
  /\ acts \in Nat
  /\ uprooted \in BOOLEAN /\ disturbed \in BOOLEAN

(* No two answers on screen carry the same generation, whichever of the    *)
(* start message, the sync and the monitor brings it first.                *)
NoDuplicateAnswer ==
  \A i, j \in DOMAIN list :
    /\ list[i].role = "assistant" /\ list[j].role = "assistant"
    /\ list[i].gen = list[j].gen /\ list[i].gen # NoGen
    => i = j

(* When the server has said all it had to say, nothing on the page spins:  *)
(* no answer shows dots or counts as being sent, no tool is executing --   *)
(* whatever was stopped, refused or sent again in between, as long as the  *)
(* page kept its socket and kept its list while an answer came.  A tool    *)
(* event that follows the stop of its answer may land on the next one: if  *)
(* that is stopped as well, before it has a generation, it keeps the tool. *)
QuietMeansSettled ==
  ~uprooted /\ wire = <<>> /\ cmds = <<>> /\ server.pc = "idle"
  => \A i \in DOMAIN list :
       /\ ~Unsettled(list[i]) /\ Shown(list[i]) # "dots"
       /\ list[i].executing => list[i].gen = NoGen

(* A question carries no conversation: the server puts it in the user's    *)
(* current one.  When nothing is under way that is the one on screen,      *)
(* unless that has been archived -- for a page that let each call end      *)
(* before the next, lost none and kept its socket, and did not take a      *)
(* conversation out of the archive that a question had already left.       *)
SameConversation == Quiet /\ conv # NoConv => pointer = conv \/ session[conv] = "ARCHIVED"

ShownIsCurrent == ~disturbed /\ ~uprooted => SameConversation

----------------------------------------------------------------------------
(* The inductive invariant.                                                *)

Busy(g) == server.pc # "idle" /\ server.gen = g
Gens(l) == {l[i].gen : i \in DOMAIN l} \ {NoGen}

(* A generation that anything names has been started, in a conversation.   *)
Known(g) == g \in Gen => status[g] # "none" /\ home[g] \in Conv
ScreenKnown ==
  \A i \in DOMAIN list :
    /\ Known(list[i].gen)
    /\ list[i].role = "user" =>
         /\ list[i].gen = NoGen /\ list[i].status \in {"none", "finished"}
         /\ list[i].text /\ ~list[i].executing
WayKnown ==
  /\ \A k \in DOMAIN wire : Known(wire[k].gen)
  /\ \A k \in DOMAIN cmds : Known(cmds[k].gen)
CallsKnown ==
  \A c \in calls :
    /\ c.kind \in {"sync", "check"} => Known(c.arg)
    /\ c.kind = "check" => c.arg # NoGen
    /\ c.kind = "switch" => session[c.arg] # "none"
StoreKnown ==
  /\ \A g \in recorded : Known(g)
  /\ running # NoGen => Known(running) /\ status[running] = "STREAMING"
  /\ server.pc # "idle" => server.gen \in Gen /\ Known(server.gen)
  /\ pointer # NoConv => session[pointer] # "none"
NamesKnown == ScreenKnown /\ WayKnown /\ CallsKnown /\ StoreKnown

LineOK ==
  /\ server.alive = (ws = "OPEN")
  /\ ws = "CLOSED" => wire = <<>>
  /\ ~uprooted /\ server.pc # "idle" => server.alive

(* Events of a generation, in their order: the start, the others, its end. *)
(* A stop may come at any time.                                            *)
Ends(e) == e.type = "completion" \/ (e.type = "error" /\ e.gen # NoGen)
OfAnswer(e) == e.type \in Body \/ Ends(e)
IsStart(e, g) == e.type = "start" /\ e.gen = g
Started(g) == \A k \in DOMAIN wire : ~IsStart(wire[k], g)
Coming(g) == Busy(g) \/ \E k \in DOMAIN wire : Ends(wire[k]) /\ wire[k].gen = g
InWire(g) == \E k \in DOMAIN wire : OfAnswer(wire[k]) /\ wire[k].gen = g
Open(g) == Started(g) /\ (Busy(g) \/ InWire(g))

(* After a body event its generation still runs or its end follows.        *)
EndComes ==
  \A k \in DOMAIN wire : wire[k].type \in Body =>
    \/ Busy(wire[k].gen)
    \/ \E q \in DOMAIN wire : q > k /\ Ends(wire[q]) /\ wire[q].gen = wire[k].gen

ConnectionFirst == \A k \in DOMAIN wire : wire[k].type = "connection" => k = 1

(* The start of a generation comes first of it, and once.                  *)
StartsNew ==
  \A k \in DOMAIN wire : wire[k].type = "start" =>
    /\ wire[k].gen \notin Gens(list)
    /\ \A q \in DOMAIN wire : OfAnswer(wire[q]) /\ wire[q].gen = wire[k].gen =>
         q >= k /\ (q > k => wire[q].type # "start")

(* After a start, others have theirs before their events.                  *)
StartsFirst ==
  \A k \in DOMAIN wire : wire[k].type = "start" =>
    /\ \A q \in DOMAIN wire : OfAnswer(wire[q]) /\ wire[q].gen # wire[k].gen /\ q > k =>
         \E r \in DOMAIN wire : k < r /\ r <= q /\ IsStart(wire[r], wire[q].gen)
    /\ \A g \in Gen : Busy(g) /\ g # wire[k].gen =>
         \E r \in DOMAIN wire : k < r /\ IsStart(wire[r], g)

WireOK == EndComes /\ ConnectionFirst /\ StartsNew /\ StartsFirst

(* Before the first connection there is no generation to ask for.          *)
FirstLine ==
  /\ (ws = "CLOSED" \/ \E k \in DOMAIN wire : wire[k].type = "connection") => Gens(list) = {}
  /\ \A c \in calls : c.kind = "sync" => c.arg = NoGen

(* An answer follows its question; a generation whose start has come and   *)
(* that is on no answer leaves the last answer to the next start.          *)
PairsOK ==
  /\ \A i \in DOMAIN list : list[i].role = "assistant" => i > 1 /\ list[i - 1].role = "user"
  /\ \A g \in Gen : Open(g) /\ g \notin Gens(list) /\ list # <<>> => Last(list).gen = NoGen

(* What spins has an end to come: of its generation, or, of the last       *)
(* answer without one, the start or the refusal of its question or the end *)
(* of a generation that is on no answer.                                   *)
Pending ==
  \/ \E k \in DOMAIN cmds : cmds[k].type = "chat"
  \/ \E k \in DOMAIN wire : wire[k].type = "start" \/ wire[k] = Event("error", NoGen)
  \/ \E g \in Gen : Coming(g) /\ g \notin Gens(list)
SpinsOK ==
  \A i \in DOMAIN list :
    /\ (Unsettled(list[i]) \/ list[i].executing) /\ list[i].gen # NoGen => Coming(list[i].gen)
    /\ Unsettled(list[i]) /\ list[i].gen = NoGen => i = Len(list) /\ Pending

(* While a question is being served, stopped or watched, or a conversation *)
(* is about to be left, the only call about sessions reloads them, and     *)
(* there is a conversation.                                                *)
Work ==
  \/ cmds # <<>> \/ server.pc # "idle"
  \/ \E k \in DOMAIN wire : wire[k].type # "connection"
Asking ==
  Work \/ \E c \in calls : c.kind \in {"token", "check"} \/ (c.kind = "messages" /\ c.then # NoConv)
CallsOK ==
  /\ \A c, d \in SessionCalls : c = d
  /\ Asking => \A c \in SessionCalls : c.kind = "sessions" /\ c.then = NoConv /\ conv # NoConv

(* Who still moves the page to the conversation of a generation.           *)
Moves(g) == Coming(g) \/ \E c \in calls : c.kind = "check" /\ c.arg = g

(* A conversation that is about to be left is archived, and nobody goes    *)
(* there.                                                                  *)
LeavesOK ==
  \A c \in calls : c.then # NoConv =>
    /\ session[c.then] = "ARCHIVED"
    /\ c.kind = "switch" => c.arg # c.then
    /\ c.kind = "messages" => conv # c.then /\ \A g \in Gen : Moves(g) => home[g] # c.then

(* The pointer follows what was served; a generation runs, and the page    *)
(* is, where it points, or in an archived conversation.                    *)
Served == {c \in calls : c.kind = "switch" /\ c.served}
Here(d) == pointer = d \/ session[d] = "ARCHIVED"
PointerOK ==
  /\ \A c \in Served : pointer = c.arg
  /\ conv # NoConv => Here(conv) \/ Served # {}
  /\ \A g \in Gen : Moves(g) => Here(home[g])

ChatInv ==
  /\ TypeOK /\ NoDuplicateAnswer /\ NamesKnown /\ LineOK
  /\ ~uprooted => WireOK /\ FirstLine /\ PairsOK /\ SpinsOK
  /\ ~uprooted /\ ~disturbed => CallsOK /\ LeavesOK /\ PointerOK

(* The list on the screen: no answer twice, and of the conversation the      *)
(* server puts the next question in (chat store, input-box.vue).             *)
ListTrue == ChatInv /\ ShownIsCurrent
=============================================================================
