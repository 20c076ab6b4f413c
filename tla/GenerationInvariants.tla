----------------------- MODULE GenerationInvariants -----------------------
(***************************************************************************)
(* The inductive strengthening of the safety properties of Generation.     *)
(* GenerationProofs proves it; MCGeneration checks it.                     *)
(***************************************************************************)
EXTENDS Generation

(* Where the handler of a chat request stands before it starts the update  *)
(* that ends it, and where it may still stand afterwards.                  *)
Streaming == {"create", "activate", "start", "agent", "check", "append",
              "appendWrite", "send", "footer", "refs", "refsWrite"}
UpdateLabel == {"term", "termWrite", "termActive", "termDelete"}
Recording == {"answer", "record", "bill"}

(* c handles a chat request (not a stop) for cur[c].                       *)
Handler(c) ==
  \/ pc[c] \in Streaming \cup Recording
  \/ pc[c] \in UpdateLabel \cup {"reply"} /\ arg[c] # "CANCELLED"

(* Locals fit the place where the coroutine stands.                        *)
ArgOK ==
  \A c \in Conn :
    /\ pc[c] = "check" => arg[c] \in Answer \cup {"tool"}
    /\ pc[c] \in {"append", "appendWrite"} => arg[c] \in Chunk
    /\ pc[c] = "send" => arg[c] \in Chunk \cup {"tool"}
    /\ pc[c] \in UpdateLabel \cup {"reply"} => arg[c] \in Terminal
    /\ pc[c] \in Recording => arg[c] = "COMPLETED"
    /\ pc[c] \in {"create", "activate", "start", "agent", "footer", "refs",
                  "refsWrite", "idle", "closed", "prepare", "stopLookup",
                  "stopActive", "stopGet"} => arg[c] = "none"

BufOK ==
  \A c \in Conn :
    /\ pc[c] \in {"appendWrite", "refsWrite", "termWrite", "termActive",
                  "termDelete"} => buf[c] # Absent
    /\ pc[c] \notin {"appendWrite", "refsWrite", "termWrite", "termActive",
                     "termDelete", "record"} => buf[c] = Absent

CurOK ==
  \A c \in Conn :
    IF pc[c] \in {"idle", "closed", "prepare", "stopActive"}
    THEN cur[c] = NoGen ELSE cur[c] \in Gen

Shape == TypeOK /\ ArgOK /\ BufOK /\ CurOK

(* An id nobody has drawn has left no trace.                               *)
FreshOK ==
  \A g \in Gen : owner[g] = NoUser =>
    /\ generations[g] = Absent
    /\ turns[g] = NoTurn
    /\ sent[g] = << >>
    /\ marks[g] = {}
    /\ \A c \in Conn : cur[c] # g
    /\ \A u \in User : active[u] # g

(* Everything that names a generation agrees on its owner.                 *)
OwnerOK ==
  /\ \A g \in Gen : generations[g] # Absent => generations[g].user = owner[g]
  /\ \A c \in Conn : buf[c] # Absent => buf[c].user = owner[cur[c]]
  /\ \A u \in User : active[u] # NoGen => owner[active[u]] = u
  /\ \A c \in Conn : Handler(c) \/ pc[c] \in UpdateLabel => owner[cur[c]] = UserOf[c]

OneHandler ==
  \A c, d \in Conn : Handler(c) /\ Handler(d) /\ cur[c] = cur[d] => c = d

(* Only its own handler touches a generation before it is activated, and   *)
(* only expiry removes a snapshot afterwards.                              *)
ActivationOK ==
  /\ \A c \in Conn : pc[c] \in {"create", "activate"} =>
       "activated" \notin marks[cur[c]]
  /\ \A c \in Conn : cur[c] \in Gen /\ pc[c] \notin {"create", "activate"} =>
       "activated" \in marks[cur[c]]
  /\ \A u \in User : active[u] # NoGen => "activated" \in marks[active[u]]
  /\ \A g \in Gen : "activated" \notin marks[g] => ~HasStatus(g, Terminal)
  /\ \A g \in Gen : "activated" \in marks[g] /\ generations[g] = Absent =>
       "lapsed" \in marks[g]
  /\ \A c \in Conn : pc[c] = "activate" /\ generations[cur[c]] = Absent =>
       "lapsed" \in marks[cur[c]]

(* Before mark_completed has written, nothing says the generation is       *)
(* finished, the copies to be written back included.                       *)
Unfinished(c) ==
  \/ pc[c] \in Streaming
  \/ pc[c] \in {"term", "termWrite"} /\ arg[c] = "COMPLETED"

UnfinishedOK ==
  \A c \in Conn : Unfinished(c) =>
    /\ ~HasStatus(cur[c], {"COMPLETED", "FAILED"})
    /\ buf[c] # Absent => buf[c].status \notin {"COMPLETED", "FAILED"}

(* PointerNotStale, with the terminal copies still to be written.          *)
PointerOK ==
  \A u \in User, g \in Gen :
    /\ active[u] = g
    /\ \/ HasStatus(g, Terminal)
       \/ \E c \in Conn : /\ pc[c] \in {"appendWrite", "refsWrite"}
                          /\ cur[c] = g
                          /\ buf[c].status \in Terminal
    => \/ {"abandoned", "lapsed"} \cap marks[g] # {}
       \/ \E c \in Conn : Updating(c) /\ cur[c] = g

(* No turn is committed while the handler can still send.                  *)
TurnOK ==
  \A c \in Conn : Handler(c) /\ turns[cur[c]] # NoTurn =>
    \/ pc[c] \in {"bill", "reply"}
    \/ arg[c] = "FAILED"

(* Without a stop or an expiry the store holds what was sent.              *)
Quiet(g) == {"stopped", "lapsed"} \cap marks[g] = {}

Settled(c) ==
  \/ pc[c] \in {"activate", "start", "agent", "check", "append", "appendWrite",
                "footer", "refs", "refsWrite", "answer"}
  \/ pc[c] = "send" /\ arg[c] = "tool"
  \/ pc[c] \in UpdateLabel /\ arg[c] = "COMPLETED"

ContentAt(c) ==
  Handler(c) /\ Quiet(cur[c]) =>
    /\ pc[c] = "create" => sent[cur[c]] = << >>
    /\ Settled(c) => generations[cur[c]].content = sent[cur[c]]
    /\ pc[c] = "send" /\ arg[c] # "tool" =>
         generations[cur[c]].content = Append(sent[cur[c]], arg[c])
    /\ \/ pc[c] \in {"appendWrite", "refsWrite", "record"}
       \/ pc[c] = "termWrite" /\ arg[c] = "COMPLETED"
       => buf[c] # Absent /\ buf[c].content = sent[cur[c]]

ContentOK == \A c \in Conn : ContentAt(c)

StopMarked ==
  \A c \in Conn : pc[c] \in {"termWrite", "termActive", "termDelete"} /\ arg[c] = "CANCELLED" =>
    "stopped" \in marks[cur[c]]

(* Until the handler has read a chunk's event as STREAMING, no copy of the *)
(* snapshot anywhere holds answer text.                                    *)
Early(c) ==
  \/ pc[c] \in {"create", "activate", "start", "agent", "check"}
  \/ pc[c] = "send" /\ arg[c] = "tool"

(* No trace of answer text of g.                                           *)
Silent(g) ==
  /\ NoAnswerIn(sent[g])
  /\ generations[g] # Absent => NoAnswerIn(generations[g].content)
  /\ turns[g] # NoTurn => NoAnswerIn(turns[g])
  /\ \A d \in Conn : cur[d] = g /\ buf[d] # Absent => NoAnswerIn(buf[d].content)

EarlyOK == \A c \in Conn : Early(c) => Silent(cur[c])

CleanOK ==
  \A g \in Gen : "clean" \in marks[g] =>
    /\ Silent(g)
    /\ \A c \in Conn : Handler(c) /\ cur[c] = g =>
         /\ pc[c] \notin {"create", "activate", "start"}
         /\ pc[c] \in {"agent", "check"} => ~HasStatus(g, {"STREAMING"})
         /\ pc[c] \in {"append", "appendWrite", "send"} => arg[c] = "footer"

(* The whole inductive invariant: what every handler, copy and key of the  *)
(* generation store agrees on in every reachable state.                    *)
Inv ==
  /\ Shape
  /\ FreshOK /\ OwnerOK /\ OneHandler /\ ActivationOK
  /\ UnfinishedOK /\ PointerOK /\ StreamingIsServed
  /\ TurnOK /\ ContentOK /\ StopMarked /\ RecordedIsSent
  /\ EarlyOK /\ CleanOK
=============================================================================
