-------------------------- MODULE GenerationProofs --------------------------
(***************************************************************************)
(* The safety properties of Generation hold for every set of users,        *)
(* connections and ids.                                                    *)
(*                                                                         *)
(* The first part are frames: every variable keeps its type, the locals of *)
(* a coroutine fit the place where it stands; then what one step may do to *)
(* each part of the state, and from where a coroutine reaches each place.  *)
(* Its lemmas look at the actions one by one; the invariants of the second *)
(* part follow from the frames alone.                                      *)
(***************************************************************************)
EXTENDS GenerationInvariants, TLAPS

USE GenerationAssumption DEF redis, local, history

(* Where an updater goes when it is done.                                   *)
LEMMA AfterTerminalCases ==
  \A s : /\ AfterTerminal(s) \in {"answer", "reply"}
         /\ AfterTerminal(s) = "answer" <=> s = "COMPLETED"
BY DEF AfterTerminal

(* Where a sender goes when it is done.                                     *)
LEMMA AfterSendCases ==
  /\ AfterSend("tool") = "agent"
  /\ \A a \in Answer : AfterSend(a) = "footer"
  /\ AfterSend("footer") = "refs"
<1>1. /\ "tool" \notin Answer /\ "footer" \notin Answer
  OBVIOUS
<1> QED
  BY <1>1 DEF AfterSend

(* Leave keeps the types of the locals.                                     *)
LEMMA LeaveType ==
  ASSUME TypeOK, NEW c \in Conn, NEW l \in Label, Leave(c, l)
  PROVE  /\ pc' \in [Conn -> Label]
         /\ cur' \in [Conn -> Gen \cup {NoGen}]
         /\ buf' \in [Conn -> Snapshot \cup {Absent}]
         /\ arg' \in [Conn -> Chunk \cup Status \cup {"tool", "none"}]
         /\ refs' \in [Conn -> BOOLEAN]
         /\ tools' \in [Conn -> 0..MaxToolEvents]
BY DEF TypeOK, Leave, Goto

(* MarkGen keeps the type of the history.                                   *)
LEMMA MarkType ==
  ASSUME TypeOK, NEW g \in Gen, NEW m \in Mark, MarkGen(g, m)
  PROVE  marks' \in [Gen -> SUBSET Mark]
BY DEF TypeOK, MarkGen

(* Abandon keeps every type.                                                *)
LEMMA AbandonType ==
  ASSUME TypeOK, NEW c \in Conn, cur[c] \in Gen, Abandon(c)
  PROVE  TypeOK'
<1>1. Leave(c, "idle") /\ MarkGen(cur[c], "abandoned")
  BY DEF Abandon
<1>2. "idle" \in Label /\ "abandoned" \in Mark
  BY DEF Label, Mark
<1>3. UNCHANGED <<generations, active, turns, online, owner, sent, faults>>
  BY DEF Abandon
<1> QED
  BY <1>1, <1>2, <1>3, LeaveType, MarkType DEF TypeOK

(* Every step keeps every type.                                             *)
LEMMA TypeStep == Shape /\ [Next]_vars => TypeOK'
<1> SUFFICES ASSUME Shape, [Next]_vars PROVE TypeOK'
  OBVIOUS
<1> USE DEF Shape, TypeOK, Label
<1>1. ASSUME NEW c \in Conn, ReceiveChat(c) PROVE TypeOK'
  BY <1>1 DEF ReceiveChat, Goto
<1>2. ASSUME NEW c \in Conn, ReceiveStop(c) PROVE TypeOK'
  BY <1>2 DEF ReceiveStop, Goto
<1>3. ASSUME NEW c \in Conn, Disconnect(c) PROVE TypeOK'
  BY <1>3 DEF Disconnect, Fail
<1>4. ASSUME NEW c \in Conn, HangUp(c) PROVE TypeOK'
  BY <1>4 DEF HangUp, Goto
<1>5. ASSUME NEW c \in Conn, Reconnect(c) PROVE TypeOK'
  BY <1>5 DEF Reconnect, Goto
<1>6. ASSUME NEW c \in Conn, Prepare(c) PROVE TypeOK'
  <2>1. CASE Goto(c, "idle") /\ UNCHANGED <<cur, owner>>
    BY <1>6, <2>1 DEF Prepare, Goto
  <2>2. ASSUME NEW g \in Gen,
               owner' = [owner EXCEPT ![g] = UserOf[c]],
               cur' = [cur EXCEPT ![c] = g],
               Goto(c, "create")
        PROVE  TypeOK'
    <3>1. /\ owner' \in [Gen -> User \cup {NoUser}]
          /\ cur' \in [Conn -> Gen \cup {NoGen}]
          /\ pc' \in [Conn -> Label]
      BY <2>2 DEF Goto
    <3> QED
      BY <1>6, <3>1 DEF Prepare
  <2> QED
    BY <1>6, <2>1, <2>2 DEF Prepare
<1>7. ASSUME NEW c \in Conn, CreateWrite(c) PROVE TypeOK'
  <2>1. cur[c] \in Gen
    BY <1>7 DEF CreateWrite, CurOK
  <2>2. NewSnapshot(UserOf[c]) \in Snapshot
    BY DEF NewSnapshot, Snapshot, Status
  <2> QED
    BY <1>7, <2>1, <2>2 DEF CreateWrite, Goto
<1>8. ASSUME NEW c \in Conn, CreateActivate(c) PROVE TypeOK'
  <2>1. cur[c] \in Gen
    BY <1>8 DEF CreateActivate, CurOK
  <2>2. marks' \in [Gen -> SUBSET Mark]
    BY <1>8, <2>1, MarkType DEF CreateActivate, Mark
  <2> QED
    BY <1>8, <2>1, <2>2 DEF CreateActivate, Goto
<1>9. ASSUME NEW c \in Conn, SendStart(c) PROVE TypeOK'
  <2>1. cur[c] \in Gen
    BY <1>9 DEF SendStart, CurOK
  <2>2. CASE Abandon(c)
    BY <2>1, <2>2, AbandonType
  <2>3. CASE online[c] /\ Goto(c, "agent") /\ UNCHANGED <<redis, turns, online, local, history>>
    BY <2>3 DEF Goto
  <2> QED
    BY <1>9, <2>2, <2>3 DEF SendStart
<1>10. ASSUME NEW c \in Conn, AgentTool(c) PROVE TypeOK'
  BY <1>10 DEF AgentTool, Goto
<1>11. ASSUME NEW c \in Conn, AgentAnswer(c) PROVE TypeOK'
  BY <1>11 DEF AgentAnswer, Goto, Chunk
<1>12. ASSUME NEW c \in Conn, AgentEmpty(c) PROVE TypeOK'
  BY <1>12 DEF AgentEmpty, Goto
<1>13. ASSUME NEW c \in Conn, Check(c) PROVE TypeOK'
  <2>1. CASE Leave(c, "idle")
    BY <1>13, <2>1, LeaveType DEF Check
  <2>2. CASE Goto(c, IF arg[c] = "tool" THEN "send" ELSE "append") /\ UNCHANGED local
    BY <1>13, <2>2 DEF Check, Goto
  <2> QED
    BY <1>13, <2>1, <2>2 DEF Check
<1>14. ASSUME NEW c \in Conn, AppendRead(c) PROVE TypeOK'
  <2>1. cur[c] \in Gen
    BY <1>14 DEF AppendRead, CurOK
  <2> QED
    BY <1>14, <2>1 DEF AppendRead, Goto
<1>15. ASSUME NEW c \in Conn, AppendWrite(c) PROVE TypeOK'
  <2>1. cur[c] \in Gen /\ buf[c] \in Snapshot /\ arg[c] \in Chunk
    BY <1>15 DEF AppendWrite, CurOK, BufOK, ArgOK
  <2>a. buf[c].content \in Seq(Chunk)
    BY <2>1 DEF Snapshot
  <2>b. Append(buf[c].content, arg[c]) \in Seq(Chunk)
    BY <2>1, <2>a
  <2>2. [buf[c] EXCEPT !.content = Append(@, arg[c])] \in Snapshot
    BY <2>1, <2>b DEF Snapshot
  <2>3. generations' \in [Gen -> Snapshot \cup {Absent}]
    BY <1>15, <2>1, <2>2 DEF AppendWrite
  <2> QED
    BY <1>15, <2>3 DEF AppendWrite, Goto
<1>16. ASSUME NEW c \in Conn, Send(c) PROVE TypeOK'
  <2>1. cur[c] \in Gen /\ arg[c] \in Chunk \cup {"tool"}
    BY <1>16 DEF Send, CurOK, ArgOK
  <2>2. CASE Abandon(c)
    BY <2>1, <2>2, AbandonType
  <2>3. CASE ~Abandon(c)
    <3>1. AfterSend(arg[c]) \in Label
      BY <2>1, AfterSendCases DEF Chunk
    <3>a. /\ pc' = [pc EXCEPT ![c] = AfterSend(arg[c])]
          /\ arg' = [arg EXCEPT ![c] = "none"]
      BY <1>16, <2>3 DEF Send, Goto
    <3>2. pc' \in [Conn -> Label] /\ arg' \in [Conn -> Chunk \cup Status \cup {"tool", "none"}]
      BY <3>1, <3>a
    <3>3. CASE arg[c] = "tool"
      BY <1>16, <2>3, <3>2, <3>3 DEF Send
    <3>4. CASE arg[c] # "tool"
      <4>1. Append(sent[cur[c]], arg[c]) \in Seq(Chunk)
        BY <2>1, <3>4
      <4>2. sent' \in [Gen -> Seq(Chunk)]
        BY ZenonT(60), <1>16, <2>1, <2>3, <3>4, <4>1 DEF Send
      <4> QED
        BY <1>16, <2>3, <3>2, <4>2 DEF Send
    <3> QED
      BY <3>3, <3>4
  <2> QED
    BY <2>2, <2>3
<1>17. ASSUME NEW c \in Conn, Footer(c) PROVE TypeOK'
  BY ZenonT(60), <1>17 DEF Footer, Goto, OwnedBy, Chunk
<1>18. ASSUME NEW c \in Conn, RefsRead(c) PROVE TypeOK'
  <2>1. cur[c] \in Gen
    BY <1>18 DEF RefsRead, CurOK
  <2>2. CASE refs[c] /\ generations[cur[c]] # Absent
    BY ZenonT(60), <1>18, <2>1, <2>2 DEF RefsRead, Goto
  <2>3. CASE ~(refs[c] /\ generations[cur[c]] # Absent)
    BY <1>18, <2>3 DEF RefsRead, Goto, Status
  <2> QED
    BY <2>2, <2>3
<1>19. ASSUME NEW c \in Conn, RefsWrite(c) PROVE TypeOK'
  <2>1. cur[c] \in Gen /\ buf[c] \in Snapshot
    BY <1>19 DEF RefsWrite, CurOK, BufOK
  <2>2. [buf[c] EXCEPT !.refs = TRUE] \in Snapshot
    BY <2>1 DEF Snapshot
  <2>3. generations' \in [Gen -> Snapshot \cup {Absent}]
    BY <1>19, <2>1, <2>2 DEF RefsWrite
  <2> QED
    BY <1>19, <2>3 DEF RefsWrite, Goto, Status
<1>20. ASSUME NEW c \in Conn, ReadAnswer(c) PROVE TypeOK'
  <2>1. cur[c] \in Gen
    BY <1>20 DEF ReadAnswer, CurOK
  <2>2. buf' \in [Conn -> Snapshot \cup {Absent}]
    BY <1>20, <2>1 DEF ReadAnswer
  <2> QED
    BY <1>20, <2>2 DEF ReadAnswer, Goto
<1>21. ASSUME NEW c \in Conn, RecordTurn(c) PROVE TypeOK'
  <2>1. cur[c] \in Gen
    BY <1>21 DEF RecordTurn, CurOK
  <2>2. (IF buf[c] = Absent THEN << >> ELSE buf[c].content) \in Seq(Chunk)
    BY DEF Snapshot
  <2>3. turns' \in [Gen -> Seq(Chunk) \cup {NoTurn}]
    BY <1>21, <2>1, <2>2 DEF RecordTurn
  <2> QED
    BY <1>21, <2>3 DEF RecordTurn, Goto
<1>22. ASSUME NEW c \in Conn, Bill(c) PROVE TypeOK'
  BY <1>22 DEF Bill, Goto
<1>23. ASSUME NEW c \in Conn, Reply(c) PROVE TypeOK'
  BY <1>23, LeaveType DEF Reply
<1>24. ASSUME NEW c \in Conn, TerminalRead(c) PROVE TypeOK'
  <2>1. cur[c] \in Gen
    BY <1>24 DEF TerminalRead, CurOK
  <2>2. marks' \in [Gen -> SUBSET Mark]
    BY <1>24, <2>1, MarkType DEF TerminalRead, Mark
  <2>3. pc' \in [Conn -> Label]
    BY <1>24, AfterTerminalCases DEF TerminalRead, Goto
  <2>4. buf' \in [Conn -> Snapshot \cup {Absent}]
    BY <1>24, <2>1 DEF TerminalRead
  <2> QED
    BY <1>24, <2>2, <2>3, <2>4 DEF TerminalRead
<1>25. ASSUME NEW c \in Conn, TerminalWrite(c) PROVE TypeOK'
  <2>1. cur[c] \in Gen /\ buf[c] \in Snapshot /\ arg[c] \in Status
    BY <1>25 DEF TerminalWrite, CurOK, BufOK, ArgOK, UpdateLabel, Terminal
  <2>2. [buf[c] EXCEPT !.status = arg[c]] \in Snapshot
    BY <2>1 DEF Snapshot
  <2>3. generations' \in [Gen -> Snapshot \cup {Absent}]
    BY <1>25, <2>1, <2>2 DEF TerminalWrite
  <2>4. marks' \in [Gen -> SUBSET Mark]
    BY <1>25, <2>1, MarkType DEF TerminalWrite, Mark
  <2> QED
    BY <1>25, <2>3, <2>4 DEF TerminalWrite, Goto
<1>26. ASSUME NEW c \in Conn, TerminalReadActive(c) PROVE TypeOK'
  <2>1. CASE active[buf[c].user] = cur[c]
    BY <1>26, <2>1 DEF TerminalReadActive, Goto
  <2>2. CASE active[buf[c].user] # cur[c]
    <3>1. AfterTerminal(arg[c]) \in Label
      BY AfterTerminalCases
    <3>2. /\ pc' = [pc EXCEPT ![c] = AfterTerminal(arg[c])]
          /\ buf' = [buf EXCEPT ![c] = Absent]
      BY <1>26, <2>2 DEF TerminalReadActive, Goto
    <3>3. pc' \in [Conn -> Label] /\ buf' \in [Conn -> Snapshot \cup {Absent}]
      BY <3>1, <3>2
    <3> QED
      BY <1>26, <3>3 DEF TerminalReadActive
  <2> QED
    BY <2>1, <2>2
<1>27. ASSUME NEW c \in Conn, TerminalDeleteActive(c) PROVE TypeOK'
  <2>1. pc' \in [Conn -> Label]
    BY <1>27, AfterTerminalCases DEF TerminalDeleteActive, Goto
  <2> QED
    BY <1>27, <2>1 DEF TerminalDeleteActive
<1>28. ASSUME NEW c \in Conn, Raise(c) PROVE TypeOK'
  BY <1>28 DEF Raise, Fail, Goto, TryLabel, Status
<1>29. ASSUME NEW c \in Conn, StopLookup(c) PROVE TypeOK'
  BY ZenonT(60), <1>29 DEF StopLookup, Goto, OwnedBy, Status
<1>30. ASSUME NEW c \in Conn, StopReadActive(c) PROVE TypeOK'
  BY <1>30 DEF StopReadActive, Goto
<1>31. ASSUME NEW c \in Conn, StopGet(c) PROVE TypeOK'
  <2>1. CASE Leave(c, "idle")
    BY <1>31, <2>1, LeaveType DEF StopGet
  <2>2. CASE ~Leave(c, "idle")
    BY <1>31, <2>2 DEF StopGet, Goto, Status
  <2> QED
    BY <2>1, <2>2
<1>32. ASSUME NEW c \in Conn, Die(c) PROVE TypeOK'
  <2>1. Leave(c, "closed")
    BY <1>32 DEF Die
  <2>2. marks' \in [Gen -> SUBSET Mark]
    BY <1>32, MarkType DEF Die, Mark
  <2> QED
    BY <1>32, <2>1, <2>2, LeaveType DEF Die, Fail
<1>33. ASSUME NEW g \in Gen, LapseGeneration(g) PROVE TypeOK'
  BY <1>33 DEF LapseGeneration, Fail, MarkGen, Mark
<1>34. ASSUME NEW u \in User, LapseActive(u) PROVE TypeOK'
  BY <1>34 DEF LapseActive, Fail
<1>35. CASE UNCHANGED vars
  BY <1>35 DEF vars
<1>36. QED
  BY <1>1, <1>2, <1>3, <1>4, <1>5, <1>6, <1>7, <1>8, <1>9, <1>10, <1>11, <1>12, <1>13, <1>14, <1>15, <1>16, <1>17, <1>18, <1>19, <1>20, <1>21, <1>22, <1>23, <1>24, <1>25, <1>26, <1>27, <1>28, <1>29, <1>30, <1>31, <1>32, <1>33, <1>34, <1>35
  DEF Next, Handle, Client, Fault, AgentEvent, StoreCall

(* Every step keeps arg fit for its place.                                  *)
LEMMA ArgStep == Shape /\ [Next]_vars => ArgOK'
<1> SUFFICES ASSUME Shape, [Next]_vars PROVE ArgOK'
  OBVIOUS
<1>t. /\ pc \in [Conn -> Label]
      /\ arg \in [Conn -> Chunk \cup Status \cup {"tool", "none"}]
      /\ buf \in [Conn -> Snapshot \cup {Absent}]
      /\ cur \in [Conn -> Gen \cup {NoGen}]
  BY DEF Shape, TypeOK
<1> USE DEF Shape, ArgOK, UpdateLabel, Recording, Terminal
<1>1. ASSUME NEW c \in Conn, ReceiveChat(c) PROVE ArgOK'
  BY <1>t, <1>1 DEF ReceiveChat, Goto
<1>2. ASSUME NEW c \in Conn, ReceiveStop(c) PROVE ArgOK'
  BY <1>t, <1>2 DEF ReceiveStop, Goto
<1>3. ASSUME NEW c \in Conn, Disconnect(c) PROVE ArgOK'
  BY <1>t, <1>3 DEF Disconnect, Fail
<1>4. ASSUME NEW c \in Conn, HangUp(c) PROVE ArgOK'
  BY <1>t, <1>4 DEF HangUp, Goto
<1>5. ASSUME NEW c \in Conn, Reconnect(c) PROVE ArgOK'
  BY <1>t, <1>5 DEF Reconnect, Goto
<1>6. ASSUME NEW c \in Conn, Prepare(c) PROVE ArgOK'
  BY <1>t, <1>6 DEF Prepare, Goto
<1>7. ASSUME NEW c \in Conn, CreateWrite(c) PROVE ArgOK'
  BY <1>t, <1>7 DEF CreateWrite, Goto, NewSnapshot
<1>8. ASSUME NEW c \in Conn, CreateActivate(c) PROVE ArgOK'
  BY <1>t, <1>8 DEF CreateActivate, Goto, MarkGen
<1>9. ASSUME NEW c \in Conn, SendStart(c) PROVE ArgOK'
  BY <1>t, <1>9 DEF SendStart, Goto, Abandon, Leave, MarkGen
<1>10. ASSUME NEW c \in Conn, AgentTool(c) PROVE ArgOK'
  BY <1>t, <1>10 DEF AgentTool, Goto
<1>11. ASSUME NEW c \in Conn, AgentAnswer(c) PROVE ArgOK'
  BY <1>t, <1>11 DEF AgentAnswer, Goto
<1>12. ASSUME NEW c \in Conn, AgentEmpty(c) PROVE ArgOK'
  BY <1>t, <1>12 DEF AgentEmpty, Goto
<1>13. ASSUME NEW c \in Conn, Check(c) PROVE ArgOK'
  BY <1>t, <1>13 DEF Check, Goto, Leave, OwnedBy, Chunk
<1>14. ASSUME NEW c \in Conn, AppendRead(c) PROVE ArgOK'
  BY <1>t, <1>14 DEF AppendRead, Goto
<1>15. ASSUME NEW c \in Conn, AppendWrite(c) PROVE ArgOK'
  BY <1>t, <1>15 DEF AppendWrite, Goto
<1>16. ASSUME NEW c \in Conn, Send(c) PROVE ArgOK'
  <2>1. arg[c] \in Chunk \cup {"tool"}
    BY <1>16 DEF Send
  <2>2. AfterSend(arg[c]) \in {"agent", "footer", "refs"}
    BY <2>1, AfterSendCases DEF Chunk
  <2> QED
    BY <1>t, <1>16, <2>2 DEF Send, Goto, Abandon, Leave
<1>17. ASSUME NEW c \in Conn, Footer(c) PROVE ArgOK'
  BY <1>t, <1>17 DEF Footer, Goto, OwnedBy, Chunk
<1>18. ASSUME NEW c \in Conn, RefsRead(c) PROVE ArgOK'
  BY <1>t, <1>18 DEF RefsRead, Goto, Status
<1>19. ASSUME NEW c \in Conn, RefsWrite(c) PROVE ArgOK'
  BY <1>t, <1>19 DEF RefsWrite, Goto, Status
<1>20. ASSUME NEW c \in Conn, ReadAnswer(c) PROVE ArgOK'
  BY <1>t, <1>20 DEF ReadAnswer, Goto, OwnedBy
<1>21. ASSUME NEW c \in Conn, RecordTurn(c) PROVE ArgOK'
  BY <1>t, <1>21 DEF RecordTurn, Goto
<1>22. ASSUME NEW c \in Conn, Bill(c) PROVE ArgOK'
  BY <1>t, <1>22 DEF Bill, Goto, Status
<1>23. ASSUME NEW c \in Conn, Reply(c) PROVE ArgOK'
  BY <1>t, <1>23 DEF Reply, Leave, Goto
<1>24. ASSUME NEW c \in Conn, TerminalRead(c) PROVE ArgOK'
  BY <1>t, <1>24, AfterTerminalCases DEF TerminalRead, Goto
<1>25. ASSUME NEW c \in Conn, TerminalWrite(c) PROVE ArgOK'
  BY <1>t, <1>25 DEF TerminalWrite, Goto, MarkGen, BetweenEvents
<1>26. ASSUME NEW c \in Conn, TerminalReadActive(c) PROVE ArgOK'
  BY <1>t, <1>26, AfterTerminalCases DEF TerminalReadActive, Goto
<1>27. ASSUME NEW c \in Conn, TerminalDeleteActive(c) PROVE ArgOK'
  BY <1>t, <1>27, AfterTerminalCases DEF TerminalDeleteActive, Goto
<1>28. ASSUME NEW c \in Conn, Raise(c) PROVE ArgOK'
  BY <1>t, <1>28 DEF Raise, Fail, Goto, TryLabel, Status
<1>29. ASSUME NEW c \in Conn, StopLookup(c) PROVE ArgOK'
  BY <1>t, <1>29 DEF StopLookup, Goto, OwnedBy, Status
<1>30. ASSUME NEW c \in Conn, StopReadActive(c) PROVE ArgOK'
  BY <1>t, <1>30 DEF StopReadActive, Goto
<1>31. ASSUME NEW c \in Conn, StopGet(c) PROVE ArgOK'
  BY <1>t, <1>31 DEF StopGet, Goto, Leave, OwnedBy, Status
<1>32. ASSUME NEW c \in Conn, Die(c) PROVE ArgOK'
  BY <1>t, <1>32 DEF Die, Fail, Leave, Goto, MarkGen
<1>33. ASSUME NEW g \in Gen, LapseGeneration(g) PROVE ArgOK'
  BY <1>t, <1>33 DEF LapseGeneration, Fail, MarkGen
<1>34. ASSUME NEW u \in User, LapseActive(u) PROVE ArgOK'
  BY <1>t, <1>34 DEF LapseActive, Fail
<1>35. CASE UNCHANGED vars
  BY <1>t, <1>35 DEF vars
<1>36. QED
  BY <1>1, <1>2, <1>3, <1>4, <1>5, <1>6, <1>7, <1>8, <1>9, <1>10, <1>11, <1>12, <1>13, <1>14, <1>15, <1>16, <1>17, <1>18, <1>19, <1>20, <1>21, <1>22, <1>23, <1>24, <1>25, <1>26, <1>27, <1>28, <1>29, <1>30, <1>31, <1>32, <1>33, <1>34, <1>35
  DEF Next, Handle, Client, Fault, AgentEvent, StoreCall

(* Every step keeps buf fit for its place.                                  *)
LEMMA BufStep == Shape /\ [Next]_vars => BufOK'
<1> SUFFICES ASSUME Shape, [Next]_vars PROVE BufOK'
  OBVIOUS
<1>t. /\ pc \in [Conn -> Label]
      /\ arg \in [Conn -> Chunk \cup Status \cup {"tool", "none"}]
      /\ buf \in [Conn -> Snapshot \cup {Absent}]
      /\ cur \in [Conn -> Gen \cup {NoGen}]
  BY DEF Shape, TypeOK
<1> USE DEF Shape, ArgOK, BufOK
<1>1. ASSUME NEW c \in Conn, ReceiveChat(c) PROVE BufOK'
  BY <1>t, <1>1 DEF ReceiveChat, Goto
<1>2. ASSUME NEW c \in Conn, ReceiveStop(c) PROVE BufOK'
  BY <1>t, <1>2 DEF ReceiveStop, Goto
<1>3. ASSUME NEW c \in Conn, Disconnect(c) PROVE BufOK'
  BY <1>t, <1>3 DEF Disconnect, Fail
<1>4. ASSUME NEW c \in Conn, HangUp(c) PROVE BufOK'
  BY <1>t, <1>4 DEF HangUp, Goto
<1>5. ASSUME NEW c \in Conn, Reconnect(c) PROVE BufOK'
  BY <1>t, <1>5 DEF Reconnect, Goto
<1>6. ASSUME NEW c \in Conn, Prepare(c) PROVE BufOK'
  BY <1>t, <1>6 DEF Prepare, Goto
<1>7. ASSUME NEW c \in Conn, CreateWrite(c) PROVE BufOK'
  BY <1>t, <1>7 DEF CreateWrite, Goto, NewSnapshot
<1>8. ASSUME NEW c \in Conn, CreateActivate(c) PROVE BufOK'
  BY <1>t, <1>8 DEF CreateActivate, Goto, MarkGen
<1>9. ASSUME NEW c \in Conn, SendStart(c) PROVE BufOK'
  BY <1>t, <1>9 DEF SendStart, Goto, Abandon, Leave, MarkGen
<1>10. ASSUME NEW c \in Conn, AgentTool(c) PROVE BufOK'
  BY <1>t, <1>10 DEF AgentTool, Goto
<1>11. ASSUME NEW c \in Conn, AgentAnswer(c) PROVE BufOK'
  BY <1>t, <1>11 DEF AgentAnswer, Goto
<1>12. ASSUME NEW c \in Conn, AgentEmpty(c) PROVE BufOK'
  BY <1>t, <1>12 DEF AgentEmpty, Goto
<1>13. ASSUME NEW c \in Conn, Check(c) PROVE BufOK'
  BY <1>t, <1>13 DEF Check, Goto, Leave, OwnedBy
<1>14. ASSUME NEW c \in Conn, AppendRead(c) PROVE BufOK'
  BY <1>t, <1>14 DEF AppendRead, Goto
<1>15. ASSUME NEW c \in Conn, AppendWrite(c) PROVE BufOK'
  BY <1>t, <1>15 DEF AppendWrite, Goto
<1>16. ASSUME NEW c \in Conn, Send(c) PROVE BufOK'
  <2>1. arg[c] \in Chunk \cup {"tool"}
    BY <1>16 DEF Send
  <2>2. AfterSend(arg[c]) \in {"agent", "footer", "refs"}
    BY <2>1, AfterSendCases DEF Chunk
  <2> QED
    BY <1>t, <1>16, <2>2 DEF Send, Goto, Abandon, Leave
<1>17. ASSUME NEW c \in Conn, Footer(c) PROVE BufOK'
  BY <1>t, <1>17 DEF Footer, Goto, OwnedBy
<1>18. ASSUME NEW c \in Conn, RefsRead(c) PROVE BufOK'
  BY <1>t, <1>18 DEF RefsRead, Goto
<1>19. ASSUME NEW c \in Conn, RefsWrite(c) PROVE BufOK'
  BY <1>t, <1>19 DEF RefsWrite, Goto
<1>20. ASSUME NEW c \in Conn, ReadAnswer(c) PROVE BufOK'
  BY <1>t, <1>20 DEF ReadAnswer, Goto, OwnedBy
<1>21. ASSUME NEW c \in Conn, RecordTurn(c) PROVE BufOK'
  BY <1>t, <1>21 DEF RecordTurn, Goto
<1>22. ASSUME NEW c \in Conn, Bill(c) PROVE BufOK'
  BY <1>t, <1>22 DEF Bill, Goto
<1>23. ASSUME NEW c \in Conn, Reply(c) PROVE BufOK'
  BY <1>t, <1>23 DEF Reply, Leave, Goto
<1>24. ASSUME NEW c \in Conn, TerminalRead(c) PROVE BufOK'
  BY <1>t, <1>24, AfterTerminalCases DEF TerminalRead, Goto
<1>25. ASSUME NEW c \in Conn, TerminalWrite(c) PROVE BufOK'
  BY <1>t, <1>25 DEF TerminalWrite, Goto, MarkGen, BetweenEvents
<1>26. ASSUME NEW c \in Conn, TerminalReadActive(c) PROVE BufOK'
  BY <1>t, <1>26, AfterTerminalCases DEF TerminalReadActive, Goto
<1>27. ASSUME NEW c \in Conn, TerminalDeleteActive(c) PROVE BufOK'
  BY <1>t, <1>27, AfterTerminalCases DEF TerminalDeleteActive, Goto
<1>28. ASSUME NEW c \in Conn, Raise(c) PROVE BufOK'
  BY <1>t, <1>28 DEF Raise, Fail, Goto, TryLabel
<1>29. ASSUME NEW c \in Conn, StopLookup(c) PROVE BufOK'
  BY <1>t, <1>29 DEF StopLookup, Goto, OwnedBy
<1>30. ASSUME NEW c \in Conn, StopReadActive(c) PROVE BufOK'
  BY <1>t, <1>30 DEF StopReadActive, Goto
<1>31. ASSUME NEW c \in Conn, StopGet(c) PROVE BufOK'
  BY <1>t, <1>31 DEF StopGet, Goto, Leave, OwnedBy
<1>32. ASSUME NEW c \in Conn, Die(c) PROVE BufOK'
  BY <1>t, <1>32 DEF Die, Fail, Leave, Goto, MarkGen
<1>33. ASSUME NEW g \in Gen, LapseGeneration(g) PROVE BufOK'
  BY <1>t, <1>33 DEF LapseGeneration, Fail, MarkGen
<1>34. ASSUME NEW u \in User, LapseActive(u) PROVE BufOK'
  BY <1>t, <1>34 DEF LapseActive, Fail
<1>35. CASE UNCHANGED vars
  BY <1>t, <1>35 DEF vars
<1>36. QED
  BY <1>1, <1>2, <1>3, <1>4, <1>5, <1>6, <1>7, <1>8, <1>9, <1>10, <1>11, <1>12, <1>13, <1>14, <1>15, <1>16, <1>17, <1>18, <1>19, <1>20, <1>21, <1>22, <1>23, <1>24, <1>25, <1>26, <1>27, <1>28, <1>29, <1>30, <1>31, <1>32, <1>33, <1>34, <1>35
  DEF Next, Handle, Client, Fault, AgentEvent, StoreCall

(* Every step keeps cur fit for its place.                                  *)
LEMMA CurStep == Shape /\ [Next]_vars => CurOK'
<1> SUFFICES ASSUME Shape, [Next]_vars PROVE CurOK'
  OBVIOUS
<1>t. /\ pc \in [Conn -> Label]
      /\ arg \in [Conn -> Chunk \cup Status \cup {"tool", "none"}]
      /\ buf \in [Conn -> Snapshot \cup {Absent}]
      /\ cur \in [Conn -> Gen \cup {NoGen}]
  BY DEF Shape, TypeOK
<1> USE DEF Shape, ArgOK, CurOK
<1>1. ASSUME NEW c \in Conn, ReceiveChat(c) PROVE CurOK'
  BY <1>t, <1>1 DEF ReceiveChat, Goto
<1>2. ASSUME NEW c \in Conn, ReceiveStop(c) PROVE CurOK'
  BY <1>t, <1>2 DEF ReceiveStop, Goto
<1>3. ASSUME NEW c \in Conn, Disconnect(c) PROVE CurOK'
  BY <1>t, <1>3 DEF Disconnect, Fail
<1>4. ASSUME NEW c \in Conn, HangUp(c) PROVE CurOK'
  BY <1>t, <1>4 DEF HangUp, Goto
<1>5. ASSUME NEW c \in Conn, Reconnect(c) PROVE CurOK'
  BY <1>t, <1>5 DEF Reconnect, Goto
<1>6. ASSUME NEW c \in Conn, Prepare(c) PROVE CurOK'
  BY <1>t, <1>6 DEF Prepare, Goto
<1>7. ASSUME NEW c \in Conn, CreateWrite(c) PROVE CurOK'
  BY <1>t, <1>7 DEF CreateWrite, Goto, NewSnapshot
<1>8. ASSUME NEW c \in Conn, CreateActivate(c) PROVE CurOK'
  BY <1>t, <1>8 DEF CreateActivate, Goto, MarkGen
<1>9. ASSUME NEW c \in Conn, SendStart(c) PROVE CurOK'
  BY <1>t, <1>9 DEF SendStart, Goto, Abandon, Leave, MarkGen
<1>10. ASSUME NEW c \in Conn, AgentTool(c) PROVE CurOK'
  BY <1>t, <1>10 DEF AgentTool, Goto
<1>11. ASSUME NEW c \in Conn, AgentAnswer(c) PROVE CurOK'
  BY <1>t, <1>11 DEF AgentAnswer, Goto
<1>12. ASSUME NEW c \in Conn, AgentEmpty(c) PROVE CurOK'
  BY <1>t, <1>12 DEF AgentEmpty, Goto
<1>13. ASSUME NEW c \in Conn, Check(c) PROVE CurOK'
  BY <1>t, <1>13 DEF Check, Goto, Leave, OwnedBy
<1>14. ASSUME NEW c \in Conn, AppendRead(c) PROVE CurOK'
  BY <1>t, <1>14 DEF AppendRead, Goto
<1>15. ASSUME NEW c \in Conn, AppendWrite(c) PROVE CurOK'
  BY <1>t, <1>15 DEF AppendWrite, Goto
<1>16. ASSUME NEW c \in Conn, Send(c) PROVE CurOK'
  <2>1. arg[c] \in Chunk \cup {"tool"}
    BY <1>16 DEF Send
  <2>2. AfterSend(arg[c]) \in {"agent", "footer", "refs"}
    BY <2>1, AfterSendCases DEF Chunk
  <2> QED
    BY <1>t, <1>16, <2>2 DEF Send, Goto, Abandon, Leave
<1>17. ASSUME NEW c \in Conn, Footer(c) PROVE CurOK'
  BY <1>t, <1>17 DEF Footer, Goto, OwnedBy
<1>18. ASSUME NEW c \in Conn, RefsRead(c) PROVE CurOK'
  BY <1>t, <1>18 DEF RefsRead, Goto
<1>19. ASSUME NEW c \in Conn, RefsWrite(c) PROVE CurOK'
  BY <1>t, <1>19 DEF RefsWrite, Goto
<1>20. ASSUME NEW c \in Conn, ReadAnswer(c) PROVE CurOK'
  BY <1>t, <1>20 DEF ReadAnswer, Goto, OwnedBy
<1>21. ASSUME NEW c \in Conn, RecordTurn(c) PROVE CurOK'
  BY <1>t, <1>21 DEF RecordTurn, Goto
<1>22. ASSUME NEW c \in Conn, Bill(c) PROVE CurOK'
  BY <1>t, <1>22 DEF Bill, Goto
<1>23. ASSUME NEW c \in Conn, Reply(c) PROVE CurOK'
  BY <1>t, <1>23 DEF Reply, Leave, Goto
<1>24. ASSUME NEW c \in Conn, TerminalRead(c) PROVE CurOK'
  BY <1>t, <1>24, AfterTerminalCases DEF TerminalRead, Goto
<1>25. ASSUME NEW c \in Conn, TerminalWrite(c) PROVE CurOK'
  BY <1>t, <1>25 DEF TerminalWrite, Goto, MarkGen, BetweenEvents
<1>26. ASSUME NEW c \in Conn, TerminalReadActive(c) PROVE CurOK'
  BY <1>t, <1>26, AfterTerminalCases DEF TerminalReadActive, Goto
<1>27. ASSUME NEW c \in Conn, TerminalDeleteActive(c) PROVE CurOK'
  BY <1>t, <1>27, AfterTerminalCases DEF TerminalDeleteActive, Goto
<1>28. ASSUME NEW c \in Conn, Raise(c) PROVE CurOK'
  BY <1>t, <1>28 DEF Raise, Fail, Goto, TryLabel, TryLabel
<1>29. ASSUME NEW c \in Conn, StopLookup(c) PROVE CurOK'
  BY <1>t, <1>29 DEF StopLookup, Goto, OwnedBy
<1>30. ASSUME NEW c \in Conn, StopReadActive(c) PROVE CurOK'
  <2>1. active[UserOf[c]] \in Gen \cup {NoGen}
    BY DEF Shape, TypeOK
  <2>2. CASE active[UserOf[c]] = NoGen
    BY <1>t, <1>30, <2>2 DEF StopReadActive, Goto
  <2>3. CASE active[UserOf[c]] # NoGen
    BY <1>t, <1>30, <2>1, <2>3 DEF StopReadActive, Goto
  <2> QED
    BY <2>2, <2>3
<1>31. ASSUME NEW c \in Conn, StopGet(c) PROVE CurOK'
  BY <1>t, <1>31 DEF StopGet, Goto, Leave, OwnedBy
<1>32. ASSUME NEW c \in Conn, Die(c) PROVE CurOK'
  BY <1>t, <1>32 DEF Die, Fail, Leave, Goto, MarkGen
<1>33. ASSUME NEW g \in Gen, LapseGeneration(g) PROVE CurOK'
  BY <1>t, <1>33 DEF LapseGeneration, Fail, MarkGen
<1>34. ASSUME NEW u \in User, LapseActive(u) PROVE CurOK'
  BY <1>t, <1>34 DEF LapseActive, Fail
<1>35. CASE UNCHANGED vars
  BY <1>t, <1>35 DEF vars
<1>36. QED
  BY <1>1, <1>2, <1>3, <1>4, <1>5, <1>6, <1>7, <1>8, <1>9, <1>10, <1>11, <1>12, <1>13, <1>14, <1>15, <1>16, <1>17, <1>18, <1>19, <1>20, <1>21, <1>22, <1>23, <1>24, <1>25, <1>26, <1>27, <1>28, <1>29, <1>30, <1>31, <1>32, <1>33, <1>34, <1>35
  DEF Next, Handle, Client, Fault, AgentEvent, StoreCall

(* The initial state has the right shape.                                   *)
LEMMA ShapeInit == Init => Shape
BY DEF Init, Shape, TypeOK, ArgOK, BufOK, CurOK, Label, UpdateLabel, Recording

(* Every step keeps the shape.                                              *)
LEMMA ShapeStep == Shape /\ [Next]_vars => Shape'
BY TypeStep, ArgStep, BufStep, CurStep DEF Shape

(* In every reachable state the locals of every coroutine fit the place    *)
(* where it stands in websocket_handler: no store method ever writes back  *)
(* a copy it does not hold, or for no generation.                          *)
THEOREM ShapeInvariant == Spec => []Shape
BY ShapeInit, ShapeStep, PTL DEF Spec

(* Every variable keeps its type: the snapshots in Redis and the copies    *)
(* of generation_state always are well-formed snapshots, or absent.        *)
THEOREM TypeCorrect == Spec => []TypeOK
<1>1. Shape => TypeOK
  BY DEF Shape
<1> QED
  BY <1>1, ShapeInvariant, PTL

-----------------------------------------------------------------------------

(* A handler of a chat request comes from Prepare, with a fresh id, and    *)
(* keeps its id.                                                           *)
Lineage(d) ==
  Handler(d)' =>
    \/ Handler(d) /\ cur'[d] = cur[d]
    \/ Prepare(d) /\ pc'[d] = "create" /\ cur'[d] \in Gen
        /\ owner[cur'[d]] = NoUser /\ owner'[cur'[d]] = UserOf[d]

MarksGrow == \A g \in Gen : marks[g] \subseteq marks'[g]

OwnerKept == \A g \in Gen : owner[g] # NoUser => owner'[g] = owner[g]

CurFrom(d) ==
  \/ cur'[d] = cur[d]
  \/ cur'[d] = NoGen
  \/ /\ pc[d] = "prepare" /\ pc'[d] = "create"
     /\ cur'[d] \in Gen /\ owner[cur'[d]] = NoUser /\ owner'[cur'[d]] = UserOf[d]
  \/ pc'[d] = "stopLookup" /\ cur'[d] \in Gen /\ "activated" \in marks[cur'[d]]
  \/ pc'[d] = "stopGet" /\ cur'[d] = active[UserOf[d]]

BufFrom(d) ==
  \/ buf'[d] = Absent
  \/ cur'[d] = cur[d] /\ buf'[d] = buf[d]
  \/ cur'[d] = cur[d] /\ cur[d] \in Gen /\ buf'[d] = generations[cur[d]]

ActiveFrom(u) ==
  \/ active'[u] \in {active[u], NoGen}
  \/ \E c \in Conn : /\ pc[c] = "activate" /\ pc'[c] = "start" /\ UserOf[c] = u
                     /\ active'[u] = cur[c] /\ "activated" \in marks'[cur[c]]

GenFrom(g) ==
  \/ generations'[g] = generations[g]
  \/ generations'[g] = Absent /\ "lapsed" \in marks'[g]
  \/ \E c \in Conn : cur[c] = g /\
       \/ /\ pc[c] = "create" /\ pc'[c] = "activate"
          /\ generations'[g] = NewSnapshot(UserOf[c])
       \/ /\ pc[c] = "appendWrite" /\ pc'[c] = "send"
          /\ generations'[g] = [buf[c] EXCEPT !.content = Append(@, arg[c])]
       \/ /\ pc[c] = "refsWrite" /\ pc'[c] = "term"
          /\ generations'[g] = [buf[c] EXCEPT !.refs = TRUE]
       \/ /\ pc[c] = "termWrite" /\ pc'[c] = "termActive" /\ cur'[c] = g
          /\ generations'[g] = [buf[c] EXCEPT !.status = arg[c]]

(* A place inside _update_terminal_state is reached from the one before,   *)
(* by the handler of the generation, or by a stop that found its own.      *)
UpdateFrom(d) ==
  pc'[d] \in UpdateLabel =>
    \/ cur'[d] = cur[d] /\ pc[d] \in UpdateLabel
    \/ cur'[d] = cur[d] /\ Handler(d)
    \/ cur'[d] = cur[d] /\ OwnedBy(cur[d], UserOf[d])

(* Only the handler of a new generation activates it.                      *)
ActivatedFrom(g) ==
  "activated" \in marks'[g] =>
    \/ "activated" \in marks[g]
    \/ \E c \in Conn : pc[c] = "activate" /\ cur[c] = g /\ pc'[c] = "start"

StartFrom(d) ==
  /\ pc'[d] \in {"create", "activate"} =>
       \/ pc[d] = "prepare" /\ pc'[d] = "create"
       \/ pc[d] \in {"create", "activate"} /\ cur'[d] = cur[d]
  /\ pc'[d] = "activate" =>
       \/ pc[d] = "activate" /\ cur'[d] = cur[d]
       \/ cur'[d] = cur[d] /\ generations'[cur[d]] = NewSnapshot(UserOf[d])
  /\ pc[d] \in {"create", "activate"} =>
       \/ pc'[d] \in {"create", "activate"}
       \/ cur'[d] = NoGen
       \/ "activated" \in marks'[cur[d]]

ServeFrom(d) ==
  Serving(d) =>
    \/ Serving(d)' /\ cur'[d] = cur[d]
    \/ "abandoned" \in marks'[cur[d]]
    \/ generations'[cur[d]] = Absent
    \/ generations'[cur[d]].status # "STREAMING"

StreamWriter(g) ==
  HasStatus(g, {"STREAMING"})' =>
    \/ generations'[g] = generations[g]
    \/ \E c \in Conn : Serving(c)' /\ cur'[c] = g

UnfinishedFrom(d) ==
  Unfinished(d)' =>
    \/ Unfinished(d) /\ cur'[d] = cur[d]
    \/ pc[d] = "prepare"

CopyFrom(d) ==
  pc'[d] \in {"appendWrite", "refsWrite"} =>
    /\ cur'[d] = cur[d]
    /\ \/ pc[d] = pc'[d] /\ buf'[d] = buf[d]
       \/ cur[d] \in Gen /\ buf'[d] = generations[cur[d]]

UpdateTo(d) ==
  Updating(d) =>
    \/ Updating(d)' /\ cur'[d] = cur[d]
    \/ "abandoned" \in marks'[cur[d]]
    \/ generations[cur[d]] = Absent
    \/ pc[d] \in {"termActive", "termDelete"} /\ active'[buf[d].user] # cur[d]

StopFrom(d) ==
  pc'[d] \in {"termWrite", "termActive", "termDelete"} /\ arg'[d] = "CANCELLED" =>
    \/ /\ pc[d] \in {"termWrite", "termActive", "termDelete"} /\ arg[d] = "CANCELLED"
       /\ cur'[d] = cur[d]
    \/ "stopped" \in marks'[cur'[d]]

TurnFrom(g) ==
  \/ turns'[g] = turns[g]
  \/ \E c \in Conn : /\ pc[c] = "record" /\ pc'[c] = "bill" /\ cur[c] = g /\ cur'[c] = g
                     /\ turns'[g] = IF buf[c] = Absent THEN << >> ELSE buf[c].content

EndFrom(d) ==
  (pc[d] \in {"bill", "reply"} \/ arg[d] = "FAILED") /\ Handler(d) /\ Handler(d)' =>
    pc'[d] \in {"bill", "reply"} \/ arg'[d] = "FAILED"

SentFrom(g) ==
  \/ sent'[g] = sent[g]
  \/ \E c \in Conn : /\ pc[c] = "send" /\ pc'[c] # "send" /\ cur[c] = g /\ arg[c] # "tool"
                     /\ sent'[g] = Append(sent[g], arg[c])

TextFrom(d) ==
  /\ Early(d)' =>
       \/ Early(d) /\ cur'[d] = cur[d]
       \/ pc[d] = "prepare" /\ Handler(d)'
  /\ pc'[d] \in {"create", "activate", "start"} =>
       pc[d] \in {"prepare", "create", "activate", "start"}
  /\ pc'[d] \in {"agent", "check"} =>
       \/ pc[d] \in {"start", "agent", "check"}
       \/ pc[d] = "send" /\ arg[d] = "tool"
  /\ pc'[d] \in {"append", "appendWrite", "send"} =>
       \/ pc[d] \in {"append", "appendWrite", "send"} /\ arg'[d] = arg[d]
       \/ pc[d] = "check" /\ HasStatus(cur[d], {"STREAMING"})
       \/ arg'[d] = "footer"

CleanFrom(g) ==
  "clean" \in marks'[g] =>
    \/ "clean" \in marks[g]
    \/ /\ BetweenEvents(g)
       /\ \E c \in Conn : /\ pc[c] = "termWrite" /\ cur[c] = g /\ arg[c] = "CANCELLED"
                          /\ generations'[g] = [buf[c] EXCEPT !.status = arg[c]]
                          /\ \A d \in Conn : d # c => pc'[d] = pc[d]

(* Where the handler of one connection may go in one step.                 *)
Move(d) ==
  /\ Lineage(d) /\ CurFrom(d) /\ BufFrom(d) /\ UpdateFrom(d) /\ StartFrom(d)
  /\ OwnerOK => ServeFrom(d)
  /\ UnfinishedFrom(d) /\ CopyFrom(d) /\ UpdateTo(d)
  /\ StopFrom(d) /\ EndFrom(d) /\ TextFrom(d)

Unmoved(d) ==
  /\ pc'[d] = pc[d] /\ arg'[d] = arg[d]
  /\ cur'[d] = cur[d] /\ buf'[d] = buf[d]

(* What one step may write for one generation.                             *)
Write(g) ==
  /\ GenFrom(g) /\ ActivatedFrom(g) /\ StreamWriter(g)
  /\ TurnFrom(g) /\ SentFrom(g) /\ CleanFrom(g)

(* Every step moves at most the connection that acts.                      *)
LEMMA LocalStep == Shape /\ [Next]_vars => \A d \in Conn : Move(d) \/ Unmoved(d)
<1> SUFFICES ASSUME Shape, [Next]_vars PROVE \A d \in Conn : Move(d) \/ Unmoved(d)
  OBVIOUS
<1>t. /\ pc \in [Conn -> Label]
      /\ generations \in [Gen -> Snapshot \cup {Absent}]
      /\ marks \in [Gen -> SUBSET Mark]
      /\ cur \in [Conn -> Gen \cup {NoGen}]
      /\ arg \in [Conn -> Chunk \cup Status \cup {"tool", "none"}]
      /\ buf \in [Conn -> Snapshot \cup {Absent}]
      /\ sent \in [Gen -> Seq(Chunk)]
      /\ turns \in [Gen -> Seq(Chunk) \cup {NoTurn}]
      /\ active \in [User -> Gen \cup {NoGen}]
      /\ owner \in [Gen -> User \cup {NoUser}]
  BY DEF Shape, TypeOK
<1> USE DEF Shape, ArgOK, BufOK, CurOK, Unmoved,
           Move, Lineage, CurFrom, BufFrom, UpdateFrom, StartFrom, ServeFrom, UnfinishedFrom, CopyFrom, UpdateTo, StopFrom, EndFrom, TextFrom,
           Handler, Streaming, Recording, UpdateLabel, Serving, Unfinished, Updating, Early, HasStatus, Terminal, Chunk
<1>1. ASSUME NEW c \in Conn, ReceiveChat(c) PROVE \A d \in Conn : Move(d) \/ Unmoved(d)
  <2>1. \A d \in Conn : d # c => Unmoved(d)
    BY <1>t, <1>1 DEF ReceiveChat, Goto
  <2>2. Move(c)
    BY <1>t, <1>1 DEF ReceiveChat, Goto
  <2> QED
    BY <2>1, <2>2
<1>2. ASSUME NEW c \in Conn, ReceiveStop(c) PROVE \A d \in Conn : Move(d) \/ Unmoved(d)
  <2>1. \A d \in Conn : d # c => Unmoved(d)
    BY <1>t, <1>2 DEF ReceiveStop, Goto
  <2>2. Move(c)
    BY ZenonT(60), <1>t, <1>2 DEF ReceiveStop, Goto
  <2> QED
    BY <2>1, <2>2
<1>3. ASSUME NEW c \in Conn, Disconnect(c) PROVE \A d \in Conn : Move(d) \/ Unmoved(d)
  <2>1. \A d \in Conn : d # c => Unmoved(d)
    BY <1>t, <1>3 DEF Disconnect, Fail
  <2>2. Move(c)
    BY <1>t, <1>3 DEF Disconnect, Fail
  <2> QED
    BY <2>1, <2>2
<1>4. ASSUME NEW c \in Conn, HangUp(c) PROVE \A d \in Conn : Move(d) \/ Unmoved(d)
  <2>1. \A d \in Conn : d # c => Unmoved(d)
    BY <1>t, <1>4 DEF HangUp, Goto
  <2>2. Move(c)
    BY <1>t, <1>4 DEF HangUp, Goto
  <2> QED
    BY <2>1, <2>2
<1>5. ASSUME NEW c \in Conn, Reconnect(c) PROVE \A d \in Conn : Move(d) \/ Unmoved(d)
  <2>1. \A d \in Conn : d # c => Unmoved(d)
    BY <1>t, <1>5 DEF Reconnect, Goto
  <2>2. Move(c)
    BY <1>t, <1>5 DEF Reconnect, Goto
  <2> QED
    BY <2>1, <2>2
<1>6. ASSUME NEW c \in Conn, Prepare(c) PROVE \A d \in Conn : Move(d) \/ Unmoved(d)
  <2>1. \A d \in Conn : d # c => Unmoved(d)
    BY <1>t, <1>6 DEF Prepare, Goto
  <2>2. Move(c)
    <3>1. CASE pc'[c] = "idle" /\ cur'[c] = cur[c]
      BY <1>t, <1>6, <3>1 DEF Prepare
    <3>2. CASE pc'[c] = "create" /\ cur'[c] \in Gen /\ owner[cur'[c]] = NoUser
      BY ZenonT(60), <1>t, <1>6, <3>2 DEF Prepare
    <3> QED
      BY <1>t, <1>6, <3>1, <3>2 DEF Prepare, Goto
  <2> QED
    BY <2>1, <2>2
<1>7. ASSUME NEW c \in Conn, CreateWrite(c) PROVE \A d \in Conn : Move(d) \/ Unmoved(d)
  <2>1. \A d \in Conn : d # c => Unmoved(d)
    BY <1>t, <1>7 DEF CreateWrite, Goto, NewSnapshot
  <2>2. Move(c)
    BY <1>t, <1>7 DEF CreateWrite, Goto, NewSnapshot
  <2> QED
    BY <2>1, <2>2
<1>8. ASSUME NEW c \in Conn, CreateActivate(c) PROVE \A d \in Conn : Move(d) \/ Unmoved(d)
  <2>1. \A d \in Conn : d # c => Unmoved(d)
    BY <1>t, <1>8 DEF CreateActivate, Goto, MarkGen
  <2>2. Move(c)
    BY <1>t, <1>8 DEF CreateActivate, Goto, MarkGen
  <2> QED
    BY <2>1, <2>2
<1>9. ASSUME NEW c \in Conn, SendStart(c) PROVE \A d \in Conn : Move(d) \/ Unmoved(d)
  <2>1. \A d \in Conn : d # c => Unmoved(d)
    BY <1>t, <1>9 DEF SendStart, Goto, Abandon, Leave, MarkGen
  <2>2. Move(c)
    <3>1. pc[c] = "start" /\ cur[c] \in Gen
      BY <1>t, <1>9 DEF SendStart
    <3>2. CASE Abandon(c)
      <4>1. /\ pc'[c] = "idle" /\ cur'[c] = NoGen /\ buf'[c] = Absent /\ arg'[c] = "none"
            /\ "abandoned" \in marks'[cur[c]]
        BY <1>t, <3>1, <3>2 DEF Abandon, Leave, Goto, MarkGen
      <4> QED
        BY <3>1, <4>1
    <3>3. CASE ~Abandon(c)
      <4>1. /\ pc'[c] = "agent" /\ cur'[c] = cur[c] /\ arg'[c] = arg[c] /\ buf'[c] = buf[c]
        BY <1>t, <1>9, <3>3 DEF SendStart, Goto
      <4> QED
        BY <3>1, <4>1
    <3> QED
      BY <3>2, <3>3
  <2> QED
    BY <2>1, <2>2
<1>10. ASSUME NEW c \in Conn, AgentTool(c) PROVE \A d \in Conn : Move(d) \/ Unmoved(d)
  <2>1. \A d \in Conn : d # c => Unmoved(d)
    BY <1>t, <1>10 DEF AgentTool, Goto
  <2>2. Move(c)
    BY <1>t, <1>10 DEF AgentTool, Goto
  <2> QED
    BY <2>1, <2>2
<1>11. ASSUME NEW c \in Conn, AgentAnswer(c) PROVE \A d \in Conn : Move(d) \/ Unmoved(d)
  <2>1. \A d \in Conn : d # c => Unmoved(d)
    BY <1>t, <1>11 DEF AgentAnswer, Goto
  <2>2. Move(c)
    BY <1>t, <1>11 DEF AgentAnswer, Goto
  <2> QED
    BY <2>1, <2>2
<1>12. ASSUME NEW c \in Conn, AgentEmpty(c) PROVE \A d \in Conn : Move(d) \/ Unmoved(d)
  <2>1. \A d \in Conn : d # c => Unmoved(d)
    BY <1>t, <1>12 DEF AgentEmpty, Goto
  <2>2. Move(c)
    BY <1>t, <1>12 DEF AgentEmpty, Goto
  <2> QED
    BY <2>1, <2>2
<1>13. ASSUME NEW c \in Conn, Check(c) PROVE \A d \in Conn : Move(d) \/ Unmoved(d)
  <2>1. \A d \in Conn : d # c => Unmoved(d)
    BY <1>t, <1>13 DEF Check, Goto, Leave, OwnedBy
  <2>2. Move(c)
    <3>1. pc[c] = "check" /\ cur[c] \in Gen /\ UNCHANGED <<generations, marks>>
      BY <1>t, <1>13 DEF Check
    <3>2. CASE OwnedBy(cur[c], UserOf[c]) /\ generations[cur[c]].status = "STREAMING"
      <4>1. /\ pc'[c] \in {"send", "append"} /\ cur'[c] = cur[c] /\ arg'[c] = arg[c]
            /\ buf'[c] = buf[c]
            /\ pc'[c] = "append" => arg[c] # "tool"
        BY <1>t, <1>13, <3>2 DEF Check, Goto
      <4> QED
        BY <3>1, <3>2, <4>1 DEF OwnedBy
    <3>3. CASE ~(OwnedBy(cur[c], UserOf[c]) /\ generations[cur[c]].status = "STREAMING")
      <4>1. pc'[c] = "idle" /\ cur'[c] = NoGen /\ buf'[c] = Absent /\ arg'[c] = "none"
        BY <1>t, <1>13, <3>3 DEF Check, Leave, Goto
      <4>2. OwnerOK /\ generations[cur[c]] # Absent => generations[cur[c]].user = UserOf[c]
        BY <3>1 DEF OwnerOK
      <4> QED
        BY <3>1, <3>3, <4>1, <4>2 DEF OwnedBy
    <3> QED
      BY <3>2, <3>3
  <2> QED
    BY <2>1, <2>2
<1>14. ASSUME NEW c \in Conn, AppendRead(c) PROVE \A d \in Conn : Move(d) \/ Unmoved(d)
  <2>1. \A d \in Conn : d # c => Unmoved(d)
    BY <1>t, <1>14 DEF AppendRead, Goto
  <2>2. Move(c)
    BY <1>t, <1>14 DEF AppendRead, Goto
  <2> QED
    BY <2>1, <2>2
<1>15. ASSUME NEW c \in Conn, AppendWrite(c) PROVE \A d \in Conn : Move(d) \/ Unmoved(d)
  <2>1. \A d \in Conn : d # c => Unmoved(d)
    BY <1>t, <1>15 DEF AppendWrite, Goto
  <2>2. Move(c)
    BY <1>t, <1>15 DEF AppendWrite, Goto
  <2> QED
    BY <2>1, <2>2
<1>16. ASSUME NEW c \in Conn, Send(c) PROVE \A d \in Conn : Move(d) \/ Unmoved(d)
  <2>1. \A d \in Conn : d # c => Unmoved(d)
    BY <1>t, <1>16 DEF Send, Goto, Abandon, Leave, MarkGen
  <2>2. Move(c)
    <3>1. pc[c] = "send" /\ cur[c] \in Gen /\ arg[c] \in Chunk \cup {"tool"}
      BY <1>t, <1>16 DEF Send
    <3>2. CASE Abandon(c)
      <4>1. /\ pc'[c] = "idle" /\ cur'[c] = NoGen /\ buf'[c] = Absent /\ arg'[c] = "none"
            /\ "abandoned" \in marks'[cur[c]]
        BY <1>t, <3>1, <3>2 DEF Abandon, Leave, Goto, MarkGen
      <4> QED
        BY <3>1, <4>1
    <3>3. CASE ~Abandon(c)
      <4>1. /\ pc'[c] \in {"agent", "footer", "refs"}
            /\ pc'[c] = "agent" => arg[c] = "tool"
            /\ cur'[c] = cur[c] /\ arg'[c] = "none" /\ buf'[c] = buf[c]
        <5>1. /\ AfterSend(arg[c]) \in {"agent", "footer", "refs"}
              /\ AfterSend(arg[c]) = "agent" => arg[c] = "tool"
          BY <3>1, AfterSendCases
        <5> QED
          BY <1>t, <1>16, <3>3, <5>1 DEF Send, Goto
      <4> QED
        BY <3>1, <4>1
    <3> QED
      BY <3>2, <3>3
  <2> QED
    BY <2>1, <2>2
<1>17. ASSUME NEW c \in Conn, Footer(c) PROVE \A d \in Conn : Move(d) \/ Unmoved(d)
  <2>1. \A d \in Conn : d # c => Unmoved(d)
    BY <1>t, <1>17 DEF Footer, Goto, OwnedBy
  <2>2. Move(c)
    BY <1>t, <1>17 DEF Footer, Goto, OwnedBy
  <2> QED
    BY <2>1, <2>2
<1>18. ASSUME NEW c \in Conn, RefsRead(c) PROVE \A d \in Conn : Move(d) \/ Unmoved(d)
  <2>1. \A d \in Conn : d # c => Unmoved(d)
    BY <1>t, <1>18 DEF RefsRead, Goto
  <2>2. Move(c)
    <3>1. /\ pc[c] = "refs" /\ cur[c] \in Gen /\ cur'[c] = cur[c]
          /\ UNCHANGED <<generations, marks>>
      BY <1>t, <1>18 DEF RefsRead
    <3>2. \/ /\ pc'[c] = "refsWrite" /\ arg'[c] = arg[c]
             /\ buf'[c] = generations[cur[c]]
          \/ /\ pc'[c] = "term" /\ arg'[c] = "COMPLETED" /\ buf'[c] = buf[c]
      BY <1>t, <1>18 DEF RefsRead, Goto
    <3> QED
      BY <3>1, <3>2
  <2> QED
    BY <2>1, <2>2
<1>19. ASSUME NEW c \in Conn, RefsWrite(c) PROVE \A d \in Conn : Move(d) \/ Unmoved(d)
  <2>1. \A d \in Conn : d # c => Unmoved(d)
    BY <1>t, <1>19 DEF RefsWrite, Goto
  <2>2. Move(c)
    BY <1>t, <1>19 DEF RefsWrite, Goto
  <2> QED
    BY <2>1, <2>2
<1>20. ASSUME NEW c \in Conn, ReadAnswer(c) PROVE \A d \in Conn : Move(d) \/ Unmoved(d)
  <2>1. \A d \in Conn : d # c => Unmoved(d)
    BY <1>t, <1>20 DEF ReadAnswer, Goto, OwnedBy
  <2>2. Move(c)
    BY <1>t, <1>20 DEF ReadAnswer, Goto, OwnedBy
  <2> QED
    BY <2>1, <2>2
<1>21. ASSUME NEW c \in Conn, RecordTurn(c) PROVE \A d \in Conn : Move(d) \/ Unmoved(d)
  <2>1. \A d \in Conn : d # c => Unmoved(d)
    BY <1>t, <1>21 DEF RecordTurn, Goto
  <2>2. Move(c)
    BY <1>t, <1>21 DEF RecordTurn, Goto
  <2> QED
    BY <2>1, <2>2
<1>22. ASSUME NEW c \in Conn, Bill(c) PROVE \A d \in Conn : Move(d) \/ Unmoved(d)
  <2>1. \A d \in Conn : d # c => Unmoved(d)
    BY <1>t, <1>22 DEF Bill, Goto
  <2>2. Move(c)
    BY <1>t, <1>22 DEF Bill, Goto
  <2> QED
    BY <2>1, <2>2
<1>23. ASSUME NEW c \in Conn, Reply(c) PROVE \A d \in Conn : Move(d) \/ Unmoved(d)
  <2>1. \A d \in Conn : d # c => Unmoved(d)
    BY <1>t, <1>23 DEF Reply, Leave, Goto
  <2>2. Move(c)
    BY <1>t, <1>23 DEF Reply, Leave, Goto
  <2> QED
    BY <2>1, <2>2
<1>24. ASSUME NEW c \in Conn, TerminalRead(c) PROVE \A d \in Conn : Move(d) \/ Unmoved(d)
  <2>1. \A d \in Conn : d # c => Unmoved(d)
    BY <1>t, <1>24 DEF TerminalRead, Goto, MarkGen
  <2>2. Move(c)
    <3>1. /\ pc[c] = "term" /\ cur[c] \in Gen /\ cur'[c] = cur[c] /\ arg'[c] = arg[c]
          /\ buf'[c] = generations[cur[c]] /\ UNCHANGED generations
          /\ arg[c] \in {"COMPLETED", "FAILED", "CANCELLED"}
      BY <1>t, <1>24 DEF TerminalRead, Status
    <3>2. CASE generations[cur[c]] = Absent
      <4>1. /\ pc'[c] \in {"answer", "reply"}
            /\ pc'[c] = "answer" <=> arg[c] = "COMPLETED"
        BY <1>t, <1>24, <3>2, AfterTerminalCases DEF TerminalRead, Goto
      <4> QED
        BY <3>1, <3>2, <4>1
    <3>3. CASE generations[cur[c]] # Absent
      <4>1. /\ pc'[c] = "termWrite"
            /\ arg[c] = "CANCELLED" => "stopped" \in marks'[cur[c]]
        BY <1>t, <1>24, <3>1, <3>3 DEF TerminalRead, Goto, MarkGen
      <4> QED
        BY <3>1, <3>3, <4>1
    <3> QED
      BY <3>2, <3>3
  <2> QED
    BY <2>1, <2>2
<1>25. ASSUME NEW c \in Conn, TerminalWrite(c) PROVE \A d \in Conn : Move(d) \/ Unmoved(d)
  <2>1. \A d \in Conn : d # c => Unmoved(d)
    BY <1>t, <1>25 DEF TerminalWrite, Goto, MarkGen, BetweenEvents
  <2>2. Move(c)
    <3>1. /\ pc[c] = "termWrite" /\ pc'[c] = "termActive"
          /\ cur[c] \in Gen /\ cur'[c] = cur[c] /\ arg'[c] = arg[c] /\ buf'[c] = buf[c]
          /\ arg[c] \in Status \ {"STREAMING"} /\ buf[c] \in Snapshot
          /\ generations'[cur[c]] = [buf[c] EXCEPT !.status = arg[c]]
      BY <1>t, <1>25 DEF TerminalWrite, Goto
    <3>2. generations'[cur[c]].status = arg[c]
      BY <3>1 DEF Snapshot
    <3> QED
      BY <3>1, <3>2
  <2> QED
    BY <2>1, <2>2
<1>26. ASSUME NEW c \in Conn, TerminalReadActive(c) PROVE \A d \in Conn : Move(d) \/ Unmoved(d)
  <2>1. \A d \in Conn : d # c => Unmoved(d)
    BY <1>t, <1>26 DEF TerminalReadActive, Goto
  <2>2. Move(c)
    BY <1>t, <1>26, AfterTerminalCases DEF TerminalReadActive, Goto
  <2> QED
    BY <2>1, <2>2
<1>27. ASSUME NEW c \in Conn, TerminalDeleteActive(c) PROVE \A d \in Conn : Move(d) \/ Unmoved(d)
  <2>1. \A d \in Conn : d # c => Unmoved(d)
    BY <1>t, <1>27 DEF TerminalDeleteActive, Goto
  <2>2. Move(c)
    <3>1. /\ pc[c] = "termDelete" /\ cur[c] \in Gen /\ cur'[c] = cur[c] /\ arg'[c] = arg[c]
          /\ buf'[c] = Absent /\ buf[c] \in Snapshot
          /\ arg[c] \in {"COMPLETED", "FAILED", "CANCELLED"}
      BY <1>t, <1>27 DEF TerminalDeleteActive, Status
    <3>2. /\ pc'[c] \in {"answer", "reply"}
          /\ pc'[c] = "answer" <=> arg[c] = "COMPLETED"
      BY <1>t, <1>27, AfterTerminalCases DEF TerminalDeleteActive, Goto
    <3>3. active'[buf[c].user] = NoGen
      BY <1>t, <1>27, <3>1 DEF TerminalDeleteActive, Snapshot
    <3> QED
      BY <3>1, <3>2, <3>3
  <2> QED
    BY <2>1, <2>2
<1>28. ASSUME NEW c \in Conn, Raise(c) PROVE \A d \in Conn : Move(d) \/ Unmoved(d)
  <2>1. \A d \in Conn : d # c => Unmoved(d)
    BY <1>t, <1>28 DEF Raise, Fail, Goto, TryLabel
  <2>2. Move(c)
    BY <1>t, <1>28 DEF Raise, Fail, Goto, TryLabel
  <2> QED
    BY <2>1, <2>2
<1>29. ASSUME NEW c \in Conn, StopLookup(c) PROVE \A d \in Conn : Move(d) \/ Unmoved(d)
  <2>1. \A d \in Conn : d # c => Unmoved(d)
    BY <1>t, <1>29 DEF StopLookup, Goto, OwnedBy
  <2>2. Move(c)
    <3>1. pc[c] = "stopLookup" /\ cur[c] \in Gen /\ buf'[c] = buf[c] /\ arg[c] = "none"
      BY <1>t, <1>29 DEF StopLookup
    <3>2. \/ /\ OwnedBy(cur[c], UserOf[c])
             /\ pc'[c] = "term" /\ cur'[c] = cur[c] /\ arg'[c] = "CANCELLED"
          \/ pc'[c] = "stopActive" /\ cur'[c] = NoGen /\ arg'[c] = arg[c]
      BY <1>t, <1>29 DEF StopLookup, Goto
    <3> QED
      BY <3>1, <3>2
  <2> QED
    BY <2>1, <2>2
<1>30. ASSUME NEW c \in Conn, StopReadActive(c) PROVE \A d \in Conn : Move(d) \/ Unmoved(d)
  <2>1. \A d \in Conn : d # c => Unmoved(d)
    BY <1>t, <1>30 DEF StopReadActive, Goto
  <2>2. Move(c)
    BY <1>t, <1>30 DEF StopReadActive, Goto
  <2> QED
    BY <2>1, <2>2
<1>31. ASSUME NEW c \in Conn, StopGet(c) PROVE \A d \in Conn : Move(d) \/ Unmoved(d)
  <2>1. \A d \in Conn : d # c => Unmoved(d)
    BY <1>t, <1>31 DEF StopGet, Goto, Leave, OwnedBy
  <2>2. Move(c)
    BY <1>t, <1>31 DEF StopGet, Goto, Leave, OwnedBy
  <2> QED
    BY <2>1, <2>2
<1>32. ASSUME NEW c \in Conn, Die(c) PROVE \A d \in Conn : Move(d) \/ Unmoved(d)
  <2>1. \A d \in Conn : d # c => Unmoved(d)
    BY <1>t, <1>32 DEF Die, Fail, Leave, Goto, MarkGen
  <2>2. Move(c)
    <3>1. pc'[c] = "closed" /\ cur'[c] = NoGen /\ buf'[c] = Absent /\ arg'[c] = "none"
      BY <1>t, <1>32 DEF Die, Leave, Goto
    <3>2. cur[c] \in Gen => "abandoned" \in marks'[cur[c]]
      BY <1>t, <1>32 DEF Die, MarkGen
    <3> QED
      BY <3>1, <3>2
  <2> QED
    BY <2>1, <2>2
<1>33. ASSUME NEW g \in Gen, LapseGeneration(g) PROVE \A d \in Conn : Move(d) \/ Unmoved(d)
  BY <1>33 DEF LapseGeneration
<1>34. ASSUME NEW u \in User, LapseActive(u) PROVE \A d \in Conn : Move(d) \/ Unmoved(d)
  BY <1>34 DEF LapseActive
<1>35. CASE UNCHANGED vars
  BY <1>35 DEF vars
<1>36. QED
  BY <1>1, <1>2, <1>3, <1>4, <1>5, <1>6, <1>7, <1>8, <1>9, <1>10, <1>11, <1>12, <1>13, <1>14, <1>15, <1>16, <1>17, <1>18, <1>19, <1>20, <1>21, <1>22, <1>23, <1>24, <1>25, <1>26, <1>27, <1>28, <1>29, <1>30, <1>31, <1>32, <1>33, <1>34, <1>35
  DEF Next, Handle, Client, Fault, AgentEvent, StoreCall

(* What one step may do to the shared state.                               *)
Store ==
  /\ MarksGrow /\ OwnerKept
  /\ \A u \in User : ActiveFrom(u)
  /\ \A g \in Gen : Write(g)

(* MarkGen adds one mark to one generation.                                *)
LEMMA MarkGrows ==
  ASSUME marks \in [Gen -> SUBSET Mark], NEW g \in Gen, NEW m,
         MarkGen(g, m) \/ UNCHANGED marks
  PROVE  \A h \in Gen : marks[h] \subseteq marks'[h] /\ marks'[h] \subseteq marks[h] \cup {m}
BY DEF MarkGen

(* A step that leaves the shared state alone.                              *)
LEMMA StillStore ==
  UNCHANGED <<generations, active, turns, owner, sent, marks>> => Store
BY DEF Store, MarksGrow, OwnerKept, ActiveFrom, Write, GenFrom, ActivatedFrom, StreamWriter, TurnFrom, SentFrom, CleanFrom

(* The store step by step.                                                  *)
LEMMA StoreStep == Shape /\ [Next]_vars => Store
<1> SUFFICES ASSUME Shape, [Next]_vars PROVE Store
  OBVIOUS
<1>t. /\ pc \in [Conn -> Label]
      /\ generations \in [Gen -> Snapshot \cup {Absent}]
      /\ marks \in [Gen -> SUBSET Mark]
      /\ cur \in [Conn -> Gen \cup {NoGen}]
      /\ arg \in [Conn -> Chunk \cup Status \cup {"tool", "none"}]
      /\ buf \in [Conn -> Snapshot \cup {Absent}]
      /\ sent \in [Gen -> Seq(Chunk)]
      /\ turns \in [Gen -> Seq(Chunk) \cup {NoTurn}]
      /\ active \in [User -> Gen \cup {NoGen}]
      /\ owner \in [Gen -> User \cup {NoUser}]
  BY DEF Shape, TypeOK
<1> USE DEF Shape, ArgOK, BufOK, CurOK, UpdateLabel
<1>1. ASSUME NEW c \in Conn, ReceiveChat(c) PROVE Store
  BY <1>1, StillStore DEF ReceiveChat
<1>2. ASSUME NEW c \in Conn, ReceiveStop(c) PROVE Store
  BY <1>2, StillStore DEF ReceiveStop
<1>3. ASSUME NEW c \in Conn, Disconnect(c) PROVE Store
  BY <1>3, StillStore DEF Disconnect
<1>4. ASSUME NEW c \in Conn, HangUp(c) PROVE Store
  BY <1>4, StillStore DEF HangUp
<1>5. ASSUME NEW c \in Conn, Reconnect(c) PROVE Store
  BY <1>5, StillStore DEF Reconnect
<1>6. ASSUME NEW c \in Conn, Prepare(c) PROVE Store
  <2> USE <1>t, <1>6 DEF Prepare, Goto
  <2>1. MarksGrow /\ OwnerKept
    BY DEF MarksGrow, OwnerKept
  <2>2. \A u \in User : ActiveFrom(u)
    BY DEF ActiveFrom
  <2>3. \A g \in Gen : GenFrom(g)
    BY DEF GenFrom
  <2>4. \A g \in Gen : ActivatedFrom(g)
    BY DEF ActivatedFrom
  <2>5. \A g \in Gen : StreamWriter(g)
    BY DEF StreamWriter, Serving, HasStatus, Terminal
  <2>6. \A g \in Gen : TurnFrom(g) /\ SentFrom(g) /\ CleanFrom(g)
    BY DEF TurnFrom, SentFrom, CleanFrom
  <2> QED
    BY <2>1, <2>2, <2>3, <2>4, <2>5, <2>6 DEF Store, Write
<1>7. ASSUME NEW c \in Conn, CreateWrite(c) PROVE Store
  <2> USE <1>t, <1>7 DEF CreateWrite, Goto, NewSnapshot
  <2>1. MarksGrow /\ OwnerKept
    BY DEF MarksGrow, OwnerKept
  <2>2. \A u \in User : ActiveFrom(u)
    BY DEF ActiveFrom
  <2>3. \A g \in Gen : GenFrom(g)
    BY DEF GenFrom
  <2>4. \A g \in Gen : ActivatedFrom(g)
    BY DEF ActivatedFrom
  <2>5. \A g \in Gen : StreamWriter(g)
    BY DEF StreamWriter, Serving, HasStatus, Terminal
  <2>6. \A g \in Gen : TurnFrom(g) /\ SentFrom(g) /\ CleanFrom(g)
    BY DEF TurnFrom, SentFrom, CleanFrom
  <2> QED
    BY <2>1, <2>2, <2>3, <2>4, <2>5, <2>6 DEF Store, Write
<1>8. ASSUME NEW c \in Conn, CreateActivate(c) PROVE Store
  <2> USE <1>t, <1>8 DEF CreateActivate, Goto, MarkGen
  <2>1. MarksGrow /\ OwnerKept
    BY DEF MarksGrow, OwnerKept
  <2>2. \A u \in User : ActiveFrom(u)
    BY DEF ActiveFrom
  <2>3. \A g \in Gen : GenFrom(g)
    BY DEF GenFrom
  <2>4. \A g \in Gen : ActivatedFrom(g)
    BY DEF ActivatedFrom
  <2>5. \A g \in Gen : StreamWriter(g)
    BY DEF StreamWriter, Serving, HasStatus, Terminal
  <2>6. \A g \in Gen : TurnFrom(g) /\ SentFrom(g) /\ CleanFrom(g)
    BY DEF TurnFrom, SentFrom, CleanFrom
  <2> QED
    BY <2>1, <2>2, <2>3, <2>4, <2>5, <2>6 DEF Store, Write
<1>9. ASSUME NEW c \in Conn, SendStart(c) PROVE Store
  <2> USE <1>t, <1>9 DEF SendStart, Goto, Abandon, Leave, MarkGen
  <2>0. \A h \in Gen : marks[h] \subseteq marks'[h] /\ marks'[h] \subseteq marks[h] \cup {"abandoned"}
    <3>1. cur[c] \in Gen /\ (MarkGen(cur[c], "abandoned") \/ UNCHANGED marks)
      BY DEF Abandon
    <3> QED
      BY <3>1, MarkGrows
  <2>1. MarksGrow /\ OwnerKept
    BY <2>0 DEF MarksGrow, OwnerKept
  <2>2. \A u \in User : ActiveFrom(u)
    BY DEF ActiveFrom
  <2>3. \A g \in Gen : GenFrom(g)
    BY DEF GenFrom
  <2>4. \A g \in Gen : ActivatedFrom(g)
    BY <2>0 DEF ActivatedFrom
  <2>5. \A g \in Gen : StreamWriter(g)
    BY DEF StreamWriter, Serving, HasStatus, Terminal
  <2>6. \A g \in Gen : TurnFrom(g) /\ SentFrom(g) /\ CleanFrom(g)
    BY <2>0 DEF TurnFrom, SentFrom, CleanFrom
  <2> QED
    BY <2>1, <2>2, <2>3, <2>4, <2>5, <2>6 DEF Store, Write
<1>10. ASSUME NEW c \in Conn, AgentTool(c) PROVE Store
  BY <1>10, StillStore DEF AgentTool
<1>11. ASSUME NEW c \in Conn, AgentAnswer(c) PROVE Store
  BY <1>11, StillStore DEF AgentAnswer
<1>12. ASSUME NEW c \in Conn, AgentEmpty(c) PROVE Store
  BY <1>12, StillStore DEF AgentEmpty
<1>13. ASSUME NEW c \in Conn, Check(c) PROVE Store
  BY <1>13, StillStore DEF Check, Leave
<1>14. ASSUME NEW c \in Conn, AppendRead(c) PROVE Store
  BY <1>14, StillStore DEF AppendRead
<1>15. ASSUME NEW c \in Conn, AppendWrite(c) PROVE Store
  <2> USE <1>t, <1>15 DEF AppendWrite, Goto
  <2>1. MarksGrow /\ OwnerKept
    BY DEF MarksGrow, OwnerKept
  <2>2. \A u \in User : ActiveFrom(u)
    BY DEF ActiveFrom
  <2>3. \A g \in Gen : GenFrom(g)
    BY DEF GenFrom
  <2>4. \A g \in Gen : ActivatedFrom(g)
    BY DEF ActivatedFrom
  <2>5. \A g \in Gen : StreamWriter(g)
    BY DEF StreamWriter, Serving, HasStatus, Terminal
  <2>6. \A g \in Gen : TurnFrom(g) /\ SentFrom(g) /\ CleanFrom(g)
    BY DEF TurnFrom, SentFrom, CleanFrom
  <2> QED
    BY <2>1, <2>2, <2>3, <2>4, <2>5, <2>6 DEF Store, Write
<1>16. ASSUME NEW c \in Conn, Send(c) PROVE Store
  <2> USE <1>t, <1>16, AfterSendCases DEF Send, Goto, Abandon, Leave, MarkGen
  <2>0. \A h \in Gen : marks[h] \subseteq marks'[h] /\ marks'[h] \subseteq marks[h] \cup {"abandoned"}
    <3>1. cur[c] \in Gen /\ (MarkGen(cur[c], "abandoned") \/ UNCHANGED marks)
      BY DEF Abandon
    <3> QED
      BY <3>1, MarkGrows
  <2>1. MarksGrow /\ OwnerKept
    BY <2>0 DEF MarksGrow, OwnerKept
  <2>2. \A u \in User : ActiveFrom(u)
    BY DEF ActiveFrom
  <2>3. \A g \in Gen : GenFrom(g)
    BY DEF GenFrom
  <2>4. \A g \in Gen : ActivatedFrom(g)
    BY <2>0 DEF ActivatedFrom
  <2>5. \A g \in Gen : StreamWriter(g)
    BY DEF StreamWriter, Serving, HasStatus, Terminal
  <2>6. \A g \in Gen : TurnFrom(g) /\ SentFrom(g) /\ CleanFrom(g)
    <3>1. AfterSend(arg[c]) # "send"
      BY DEF Chunk
    <3>2. \A g \in Gen : TurnFrom(g) /\ CleanFrom(g)
      BY <2>0 DEF TurnFrom, CleanFrom
    <3>3. pc[c] = "send" /\ cur[c] \in Gen
      OBVIOUS
    <3>4. \/ sent' = sent
          \/ /\ arg[c] # "tool" /\ pc'[c] = AfterSend(arg[c])
             /\ sent' = [sent EXCEPT ![cur[c]] = Append(@, arg[c])]
      OBVIOUS
    <3>5. ASSUME NEW g \in Gen PROVE SentFrom(g)
      <4> HIDE <1>16, AfterSendCases DEF Send
      <4>1. CASE sent'[g] = sent[g]
        BY <4>1 DEF SentFrom
      <4>2. CASE sent'[g] # sent[g]
        <5>1. /\ cur[c] = g /\ arg[c] # "tool" /\ pc'[c] # "send"
              /\ sent'[g] = Append(sent[g], arg[c])
          BY <3>1, <3>4, <4>2
        <5> QED
          BY <3>3, <5>1 DEF SentFrom
      <4> QED
        BY <4>1, <4>2
    <3> QED
      BY <3>2, <3>5
  <2> QED
    BY <2>1, <2>2, <2>3, <2>4, <2>5, <2>6 DEF Store, Write
<1>17. ASSUME NEW c \in Conn, Footer(c) PROVE Store
  BY <1>17, StillStore DEF Footer
<1>18. ASSUME NEW c \in Conn, RefsRead(c) PROVE Store
  BY <1>18, StillStore DEF RefsRead
<1>19. ASSUME NEW c \in Conn, RefsWrite(c) PROVE Store
  <2> USE <1>t, <1>19 DEF RefsWrite, Goto
  <2>1. MarksGrow /\ OwnerKept
    BY DEF MarksGrow, OwnerKept
  <2>2. \A u \in User : ActiveFrom(u)
    BY DEF ActiveFrom
  <2>3. \A g \in Gen : GenFrom(g)
    BY DEF GenFrom
  <2>4. \A g \in Gen : ActivatedFrom(g)
    BY DEF ActivatedFrom
  <2>5. \A g \in Gen : StreamWriter(g)
    BY DEF StreamWriter, Serving, HasStatus, Terminal
  <2>6. \A g \in Gen : TurnFrom(g) /\ SentFrom(g) /\ CleanFrom(g)
    BY DEF TurnFrom, SentFrom, CleanFrom
  <2> QED
    BY <2>1, <2>2, <2>3, <2>4, <2>5, <2>6 DEF Store, Write
<1>20. ASSUME NEW c \in Conn, ReadAnswer(c) PROVE Store
  BY <1>20, StillStore DEF ReadAnswer
<1>21. ASSUME NEW c \in Conn, RecordTurn(c) PROVE Store
  <2> USE <1>t, <1>21 DEF RecordTurn, Goto
  <2>1. MarksGrow /\ OwnerKept
    BY DEF MarksGrow, OwnerKept
  <2>2. \A u \in User : ActiveFrom(u)
    BY DEF ActiveFrom
  <2>3. \A g \in Gen : GenFrom(g)
    BY DEF GenFrom
  <2>4. \A g \in Gen : ActivatedFrom(g)
    BY DEF ActivatedFrom
  <2>5. \A g \in Gen : StreamWriter(g)
    BY DEF StreamWriter, Serving, HasStatus, Terminal
  <2>6. \A g \in Gen : TurnFrom(g) /\ SentFrom(g) /\ CleanFrom(g)
    BY DEF TurnFrom, SentFrom, CleanFrom
  <2> QED
    BY <2>1, <2>2, <2>3, <2>4, <2>5, <2>6 DEF Store, Write
<1>22. ASSUME NEW c \in Conn, Bill(c) PROVE Store
  BY <1>22, StillStore DEF Bill
<1>23. ASSUME NEW c \in Conn, Reply(c) PROVE Store
  BY <1>23, StillStore DEF Reply, Leave
<1>24. ASSUME NEW c \in Conn, TerminalRead(c) PROVE Store
  <2> USE <1>t, <1>24, AfterTerminalCases DEF TerminalRead, Goto, MarkGen
  <2>0. \A h \in Gen : marks[h] \subseteq marks'[h] /\ marks'[h] \subseteq marks[h] \cup {"stopped"}
    <3>1. cur[c] \in Gen /\ (MarkGen(cur[c], "stopped") \/ UNCHANGED marks)
      BY DEF Abandon
    <3> QED
      BY <3>1, MarkGrows
  <2>1. MarksGrow /\ OwnerKept
    BY <2>0 DEF MarksGrow, OwnerKept
  <2>2. \A u \in User : ActiveFrom(u)
    BY DEF ActiveFrom
  <2>3. \A g \in Gen : GenFrom(g)
    BY DEF GenFrom
  <2>4. \A g \in Gen : ActivatedFrom(g)
    BY <2>0 DEF ActivatedFrom
  <2>5. \A g \in Gen : StreamWriter(g)
    BY DEF StreamWriter, Serving, HasStatus, Terminal
  <2>6. \A g \in Gen : TurnFrom(g) /\ SentFrom(g) /\ CleanFrom(g)
    BY <2>0 DEF TurnFrom, SentFrom, CleanFrom
  <2> QED
    BY <2>1, <2>2, <2>3, <2>4, <2>5, <2>6 DEF Store, Write
<1>25. ASSUME NEW c \in Conn, TerminalWrite(c) PROVE Store
  <2> USE <1>t, <1>25 DEF TerminalWrite, Goto, MarkGen, BetweenEvents
  <2>0. \A h \in Gen : marks[h] \subseteq marks'[h] /\ marks'[h] \subseteq marks[h] \cup {"clean"}
    <3>1. cur[c] \in Gen /\ (MarkGen(cur[c], "clean") \/ UNCHANGED marks)
      BY DEF Abandon
    <3> QED
      BY <3>1, MarkGrows
  <2>1. MarksGrow /\ OwnerKept
    BY <2>0 DEF MarksGrow, OwnerKept
  <2>2. \A u \in User : ActiveFrom(u)
    BY DEF ActiveFrom
  <2>3. \A g \in Gen : GenFrom(g)
    BY DEF GenFrom
  <2>4. \A g \in Gen : ActivatedFrom(g)
    BY <2>0 DEF ActivatedFrom
  <2>5. \A g \in Gen : StreamWriter(g)
    BY DEF StreamWriter, Serving, HasStatus, Terminal
  <2>6. \A g \in Gen : TurnFrom(g) /\ SentFrom(g) /\ CleanFrom(g)
    BY ZenonT(60), <2>0 DEF TurnFrom, SentFrom, CleanFrom
  <2> QED
    BY <2>1, <2>2, <2>3, <2>4, <2>5, <2>6 DEF Store, Write
<1>26. ASSUME NEW c \in Conn, TerminalReadActive(c) PROVE Store
  BY <1>26, StillStore DEF TerminalReadActive
<1>27. ASSUME NEW c \in Conn, TerminalDeleteActive(c) PROVE Store
  <2> USE <1>t, <1>27, AfterTerminalCases DEF TerminalDeleteActive, Goto
  <2>1. MarksGrow /\ OwnerKept
    BY DEF MarksGrow, OwnerKept
  <2>2. \A u \in User : ActiveFrom(u)
    BY DEF ActiveFrom
  <2>3. \A g \in Gen : GenFrom(g)
    BY DEF GenFrom
  <2>4. \A g \in Gen : ActivatedFrom(g)
    BY DEF ActivatedFrom
  <2>5. \A g \in Gen : StreamWriter(g)
    BY DEF StreamWriter, Serving, HasStatus, Terminal
  <2>6. \A g \in Gen : TurnFrom(g) /\ SentFrom(g) /\ CleanFrom(g)
    BY DEF TurnFrom, SentFrom, CleanFrom
  <2> QED
    BY <2>1, <2>2, <2>3, <2>4, <2>5, <2>6 DEF Store, Write
<1>28. ASSUME NEW c \in Conn, Raise(c) PROVE Store
  BY <1>28, StillStore DEF Raise
<1>29. ASSUME NEW c \in Conn, StopLookup(c) PROVE Store
  BY <1>29, StillStore DEF StopLookup
<1>30. ASSUME NEW c \in Conn, StopReadActive(c) PROVE Store
  BY <1>30, StillStore DEF StopReadActive
<1>31. ASSUME NEW c \in Conn, StopGet(c) PROVE Store
  BY <1>31, StillStore DEF StopGet, Leave
<1>32. ASSUME NEW c \in Conn, Die(c) PROVE Store
  <2> USE <1>t, <1>32 DEF Die, Fail, Leave, Goto, MarkGen
  <2>0. \A h \in Gen : marks[h] \subseteq marks'[h] /\ marks'[h] \subseteq marks[h] \cup {"abandoned"}
    <3>1. CASE cur[c] \in Gen /\ MarkGen(cur[c], "abandoned")
      BY <3>1, MarkGrows
    <3>2. CASE UNCHANGED marks
      BY <3>2
    <3> QED
      BY <3>1, <3>2
  <2>1. MarksGrow /\ OwnerKept
    BY <2>0 DEF MarksGrow, OwnerKept
  <2>2. \A u \in User : ActiveFrom(u)
    BY DEF ActiveFrom
  <2>3. \A g \in Gen : GenFrom(g)
    BY DEF GenFrom
  <2>4. \A g \in Gen : ActivatedFrom(g)
    BY <2>0 DEF ActivatedFrom
  <2>5. \A g \in Gen : StreamWriter(g)
    BY DEF StreamWriter, Serving, HasStatus, Terminal
  <2>6. \A g \in Gen : TurnFrom(g) /\ SentFrom(g) /\ CleanFrom(g)
    BY <2>0 DEF TurnFrom, SentFrom, CleanFrom
  <2> QED
    BY <2>1, <2>2, <2>3, <2>4, <2>5, <2>6 DEF Store, Write
<1>33. ASSUME NEW g \in Gen, LapseGeneration(g) PROVE Store
  BY <1>t, <1>33 DEF LapseGeneration, MarkGen, HasStatus, Store, MarksGrow, OwnerKept, ActiveFrom, Write, GenFrom, ActivatedFrom, StreamWriter, TurnFrom, SentFrom, CleanFrom
<1>34. ASSUME NEW u \in User, LapseActive(u) PROVE Store
  BY <1>t, <1>34 DEF LapseActive, MarkGen, HasStatus, Store, MarksGrow, OwnerKept, ActiveFrom, Write, GenFrom, ActivatedFrom, StreamWriter, TurnFrom, SentFrom, CleanFrom
<1>35. CASE UNCHANGED vars
  BY <1>35, StillStore DEF vars
<1>36. QED
  BY <1>1, <1>2, <1>3, <1>4, <1>5, <1>6, <1>7, <1>8, <1>9, <1>10, <1>11, <1>12, <1>13, <1>14, <1>15, <1>16, <1>17, <1>18, <1>19, <1>20, <1>21, <1>22, <1>23, <1>24, <1>25, <1>26, <1>27, <1>28, <1>29, <1>30, <1>31, <1>32, <1>33, <1>34, <1>35
  DEF Next, Handle, Client, Fault, AgentEvent, StoreCall

(* A handler that does not move satisfies its frame.                       *)
LEMMA MoveStep == Shape /\ [Next]_vars => \A d \in Conn : Move(d)
<1> SUFFICES ASSUME Shape, [Next]_vars, NEW d \in Conn, Unmoved(d) PROVE Move(d)
  BY LocalStep
<1> QED
  BY DEF Unmoved, Move, Lineage, CurFrom, BufFrom, UpdateFrom, StartFrom, ServeFrom,
         UnfinishedFrom, CopyFrom, UpdateTo, StopFrom, EndFrom, TextFrom, Handler,
         Streaming, Recording, UpdateLabel, Serving, Unfinished, Updating, Early, HasStatus

(* The frames under the names the proofs cite.                             *)
LEMMA HandlerStep == Shape /\ [Next]_vars => \A d \in Conn : Lineage(d)
BY MoveStep DEF Move

LEMMA CurFromStep == Shape /\ [Next]_vars => \A d \in Conn : CurFrom(d)
BY MoveStep DEF Move

LEMMA BufFromStep == Shape /\ [Next]_vars => \A d \in Conn : BufFrom(d)
BY MoveStep DEF Move

LEMMA UpdateFromStep == Shape /\ [Next]_vars => \A d \in Conn : UpdateFrom(d)
BY MoveStep DEF Move

LEMMA StartFromStep == Shape /\ [Next]_vars => \A d \in Conn : StartFrom(d)
BY MoveStep DEF Move

LEMMA UnfinishedFromStep == Shape /\ [Next]_vars => \A d \in Conn : UnfinishedFrom(d)
BY MoveStep DEF Move

LEMMA CopyStep == Shape /\ [Next]_vars => \A d \in Conn : CopyFrom(d)
BY MoveStep DEF Move

LEMMA UpdateToStep == Shape /\ [Next]_vars => \A d \in Conn : UpdateTo(d)
BY MoveStep DEF Move

LEMMA StopFromStep == Shape /\ [Next]_vars => \A d \in Conn : StopFrom(d)
BY MoveStep DEF Move

LEMMA EndStep == Shape /\ [Next]_vars => \A d \in Conn : EndFrom(d)
BY MoveStep DEF Move

LEMMA TextStep == Shape /\ [Next]_vars => \A d \in Conn : TextFrom(d)
BY MoveStep DEF Move

LEMMA ServeStep == Shape /\ OwnerOK /\ [Next]_vars => \A d \in Conn : ServeFrom(d)
BY MoveStep DEF Move

LEMMA GenFromStep == Shape /\ [Next]_vars => \A g \in Gen : GenFrom(g)
BY StoreStep DEF Store, Write

LEMMA ActivatedFromStep == Shape /\ [Next]_vars => \A g \in Gen : ActivatedFrom(g)
BY StoreStep DEF Store, Write

LEMMA StreamWriterStep == Shape /\ [Next]_vars => \A g \in Gen : StreamWriter(g)
BY StoreStep DEF Store, Write

LEMMA TurnFromStep == Shape /\ [Next]_vars => \A g \in Gen : TurnFrom(g)
BY StoreStep DEF Store, Write

LEMMA SentStep == Shape /\ [Next]_vars => \A g \in Gen : SentFrom(g)
BY StoreStep DEF Store, Write

LEMMA CleanFromStep == Shape /\ [Next]_vars => \A g \in Gen : CleanFrom(g)
BY StoreStep DEF Store, Write

LEMMA ActiveFromStep == Shape /\ [Next]_vars => \A u \in User : ActiveFrom(u)
BY StoreStep DEF Store

LEMMA MarksStep == Shape /\ [Next]_vars => MarksGrow
BY StoreStep DEF Store

LEMMA OwnerKeptStep == Shape /\ [Next]_vars => OwnerKept
BY StoreStep DEF Store

-----------------------------------------------------------------------------
(* The invariants, from the frames.                                        *)


(* Ids nobody has drawn stay traceless.                                     *)
LEMMA FreshStep == Shape /\ FreshOK /\ ActivationOK /\ [Next]_vars => FreshOK'
<1> SUFFICES ASSUME Shape /\ FreshOK /\ ActivationOK, [Next]_vars PROVE FreshOK'
  OBVIOUS
<1>t. /\ pc \in [Conn -> Label]
      /\ arg \in [Conn -> Chunk \cup Status \cup {"tool", "none"}]
      /\ buf \in [Conn -> Snapshot \cup {Absent}]
      /\ cur \in [Conn -> Gen \cup {NoGen}]
      /\ owner \in [Gen -> User \cup {NoUser}]
      /\ active \in [User -> Gen \cup {NoGen}]
      /\ generations \in [Gen -> Snapshot \cup {Absent}]
      /\ turns \in [Gen -> Seq(Chunk) \cup {NoTurn}]
      /\ sent \in [Gen -> Seq(Chunk)]
      /\ marks \in [Gen -> SUBSET Mark]
  BY DEF Shape, TypeOK
<1> USE DEF Shape, CurOK, FreshOK
<1>1. ASSUME NEW c \in Conn, ReceiveChat(c) PROVE FreshOK'
  BY <1>t, <1>1 DEF ReceiveChat, Goto
<1>2. ASSUME NEW c \in Conn, ReceiveStop(c) PROVE FreshOK'
  BY <1>t, <1>2 DEF ReceiveStop, Goto
<1>3. ASSUME NEW c \in Conn, Disconnect(c) PROVE FreshOK'
  BY <1>t, <1>3 DEF Disconnect, Fail
<1>4. ASSUME NEW c \in Conn, HangUp(c) PROVE FreshOK'
  BY <1>t, <1>4 DEF HangUp, Goto
<1>5. ASSUME NEW c \in Conn, Reconnect(c) PROVE FreshOK'
  BY <1>t, <1>5 DEF Reconnect, Goto
<1>6. ASSUME NEW c \in Conn, Prepare(c) PROVE FreshOK'
  BY <1>t, <1>6 DEF Prepare, Goto
<1>7. ASSUME NEW c \in Conn, CreateWrite(c) PROVE FreshOK'
  BY <1>t, <1>7 DEF CreateWrite, Goto, NewSnapshot
<1>8. ASSUME NEW c \in Conn, CreateActivate(c) PROVE FreshOK'
  BY <1>t, <1>8 DEF CreateActivate, Goto, MarkGen
<1>9. ASSUME NEW c \in Conn, SendStart(c) PROVE FreshOK'
  BY <1>t, <1>9 DEF SendStart, Goto, Abandon, Leave, MarkGen
<1>10. ASSUME NEW c \in Conn, AgentTool(c) PROVE FreshOK'
  BY <1>t, <1>10 DEF AgentTool, Goto
<1>11. ASSUME NEW c \in Conn, AgentAnswer(c) PROVE FreshOK'
  BY <1>t, <1>11 DEF AgentAnswer, Goto
<1>12. ASSUME NEW c \in Conn, AgentEmpty(c) PROVE FreshOK'
  BY <1>t, <1>12 DEF AgentEmpty, Goto
<1>13. ASSUME NEW c \in Conn, Check(c) PROVE FreshOK'
  BY <1>t, <1>13 DEF Check, Goto, Leave, OwnedBy
<1>14. ASSUME NEW c \in Conn, AppendRead(c) PROVE FreshOK'
  BY <1>t, <1>14 DEF AppendRead, Goto
<1>15. ASSUME NEW c \in Conn, AppendWrite(c) PROVE FreshOK'
  BY <1>t, <1>15 DEF AppendWrite, Goto
<1>16. ASSUME NEW c \in Conn, Send(c) PROVE FreshOK'
  <2>1. AfterSend(arg[c]) \in {"agent", "footer", "refs"}
    BY <1>16, AfterSendCases DEF Send, Shape, ArgOK, Chunk
  <2>2. \A g \in Gen : g # cur[c] => sent'[g] = sent[g]
    BY <1>t, <1>16 DEF Send, Abandon
  <2> QED
    BY <1>t, <1>16, <2>1, <2>2 DEF Send, Goto, Abandon, Leave, MarkGen
<1>17. ASSUME NEW c \in Conn, Footer(c) PROVE FreshOK'
  BY <1>t, <1>17 DEF Footer, Goto, OwnedBy
<1>18. ASSUME NEW c \in Conn, RefsRead(c) PROVE FreshOK'
  BY <1>t, <1>18 DEF RefsRead, Goto
<1>19. ASSUME NEW c \in Conn, RefsWrite(c) PROVE FreshOK'
  BY <1>t, <1>19 DEF RefsWrite, Goto
<1>20. ASSUME NEW c \in Conn, ReadAnswer(c) PROVE FreshOK'
  BY <1>t, <1>20 DEF ReadAnswer, Goto, OwnedBy
<1>21. ASSUME NEW c \in Conn, RecordTurn(c) PROVE FreshOK'
  BY <1>t, <1>21 DEF RecordTurn, Goto
<1>22. ASSUME NEW c \in Conn, Bill(c) PROVE FreshOK'
  BY <1>t, <1>22 DEF Bill, Goto
<1>23. ASSUME NEW c \in Conn, Reply(c) PROVE FreshOK'
  BY <1>t, <1>23 DEF Reply, Leave, Goto
<1>24. ASSUME NEW c \in Conn, TerminalRead(c) PROVE FreshOK'
  BY <1>t, <1>24, AfterTerminalCases DEF TerminalRead, Goto, MarkGen
<1>25. ASSUME NEW c \in Conn, TerminalWrite(c) PROVE FreshOK'
  BY <1>t, <1>25 DEF TerminalWrite, Goto, MarkGen, BetweenEvents
<1>26. ASSUME NEW c \in Conn, TerminalReadActive(c) PROVE FreshOK'
  BY <1>t, <1>26, AfterTerminalCases DEF TerminalReadActive, Goto, MarkGen
<1>27. ASSUME NEW c \in Conn, TerminalDeleteActive(c) PROVE FreshOK'
  BY <1>t, <1>27, AfterTerminalCases DEF TerminalDeleteActive, Goto, MarkGen
<1>28. ASSUME NEW c \in Conn, Raise(c) PROVE FreshOK'
  BY <1>t, <1>28 DEF Raise, Fail, Goto, TryLabel
<1>29. ASSUME NEW c \in Conn, StopLookup(c) PROVE FreshOK'
  BY <1>t, <1>29 DEF StopLookup, Goto, OwnedBy
<1>30. ASSUME NEW c \in Conn, StopReadActive(c) PROVE FreshOK'
  BY <1>t, <1>30 DEF StopReadActive, Goto
<1>31. ASSUME NEW c \in Conn, StopGet(c) PROVE FreshOK'
  BY <1>t, <1>31 DEF StopGet, Goto, Leave, OwnedBy
<1>32. ASSUME NEW c \in Conn, Die(c) PROVE FreshOK'
  BY <1>t, <1>32 DEF Die, Fail, Leave, Goto, MarkGen
<1>33. ASSUME NEW g \in Gen, LapseGeneration(g) PROVE FreshOK'
  BY <1>t, <1>33 DEF LapseGeneration, Fail, MarkGen
<1>34. ASSUME NEW u \in User, LapseActive(u) PROVE FreshOK'
  BY <1>t, <1>34 DEF LapseActive, Fail
<1>35. CASE UNCHANGED vars
  BY <1>t, <1>35 DEF vars
<1>36. QED
  BY <1>1, <1>2, <1>3, <1>4, <1>5, <1>6, <1>7, <1>8, <1>9, <1>10, <1>11, <1>12, <1>13, <1>14, <1>15, <1>16, <1>17, <1>18, <1>19, <1>20, <1>21, <1>22, <1>23, <1>24, <1>25, <1>26, <1>27, <1>28, <1>29, <1>30, <1>31, <1>32, <1>33, <1>34, <1>35
  DEF Next, Handle, Client, Fault, AgentEvent, StoreCall

(* A fresh id has one handler, and no other chat request takes it over.     *)
LEMMA OneHandlerStep == Shape /\ FreshOK /\ OneHandler /\ [Next]_vars => OneHandler'
<1> SUFFICES ASSUME Shape, FreshOK, OneHandler, [Next]_vars,
                    NEW c \in Conn, NEW d \in Conn,
                    Handler(c)', Handler(d)', cur'[c] = cur'[d]
             PROVE  c = d
  BY DEF OneHandler
<1>1. Lineage(c) /\ Lineage(d)
  BY HandlerStep
<1>2. CASE Handler(c) /\ cur'[c] = cur[c] /\ Handler(d) /\ cur'[d] = cur[d]
  BY <1>2 DEF OneHandler
<1>3. CASE Prepare(c) /\ owner[cur'[c]] = NoUser /\ cur'[c] \in Gen
  <2>1. (pc'[d] = pc[d] /\ cur'[d] = cur[d]) \/ c = d
    BY <1>3 DEF Prepare, Goto, Shape, TypeOK
  <2> QED
    BY <1>1, <1>3, <2>1 DEF FreshOK, Lineage, Prepare, Shape, TypeOK, Goto
<1>4. CASE Prepare(d) /\ owner[cur'[d]] = NoUser /\ cur'[d] \in Gen
  <2>1. (pc'[c] = pc[c] /\ cur'[c] = cur[c]) \/ c = d
    BY <1>4 DEF Prepare, Goto, Shape, TypeOK
  <2> QED
    BY <1>1, <1>4, <2>1 DEF FreshOK, Lineage, Prepare, Shape, TypeOK, Goto
<1> QED
  BY <1>1, <1>2, <1>3, <1>4 DEF Lineage

(* Everything that names a generation goes on agreeing on its owner.        *)
LEMMA OwnerStep ==
  Shape /\ Shape' /\ FreshOK /\ OwnerOK /\ [Next]_vars => OwnerOK'
<1> SUFFICES ASSUME Shape, Shape', FreshOK, OwnerOK, [Next]_vars PROVE OwnerOK'
  OBVIOUS
<1>k. OwnerKept
  BY OwnerKeptStep
<1>t. /\ buf \in [Conn -> Snapshot \cup {Absent}]
      /\ cur \in [Conn -> Gen \cup {NoGen}]
      /\ generations \in [Gen -> Snapshot \cup {Absent}]
      /\ active \in [User -> Gen \cup {NoGen}]
  BY DEF Shape, TypeOK
<1>1. ASSUME NEW g \in Gen, generations'[g] # Absent
      PROVE  generations'[g].user = owner'[g]
  <2>1. GenFrom(g)
    BY GenFromStep
  <2>2. CASE generations'[g] = generations[g]
    BY <1>1, <1>k, <2>2 DEF FreshOK, OwnerOK, OwnerKept
  <2>3. ASSUME NEW c \in Conn, cur[c] = g, pc[c] = "create",
               generations'[g] = NewSnapshot(UserOf[c])
        PROVE  generations'[g].user = owner'[g]
    <3>1. owner[g] = UserOf[c]
      BY <2>3 DEF OwnerOK, Handler, Streaming
    <3>2. owner'[g] = owner[g]
      BY <1>k, <2>3 DEF FreshOK, OwnerKept
    <3> QED
      BY <2>3, <3>1, <3>2 DEF NewSnapshot
  <2>4. ASSUME NEW c \in Conn, cur[c] = g, buf[c] \in Snapshot,
               generations'[g].user = buf[c].user
        PROVE  generations'[g].user = owner'[g]
    <3>1. buf[c].user = owner[g]
      BY <2>4, AbsenceAssumption DEF OwnerOK
    <3>2. owner'[g] = owner[g]
      BY <1>k, <2>4 DEF FreshOK, OwnerKept
    <3> QED
      BY <2>4, <3>1, <3>2
  <2>5. \A c \in Conn : pc[c] \in {"appendWrite", "refsWrite", "termWrite"} =>
          /\ buf[c] \in Snapshot
          /\ [buf[c] EXCEPT !.content = Append(@, arg[c])].user = buf[c].user
          /\ [buf[c] EXCEPT !.refs = TRUE].user = buf[c].user
          /\ [buf[c] EXCEPT !.status = arg[c]].user = buf[c].user
    BY <1>t DEF Shape, BufOK, Snapshot
  <2> QED
    BY ZenonT(60), <1>1, <2>1, <2>2, <2>3, <2>4, <2>5 DEF GenFrom
<1>2. ASSUME NEW d \in Conn, buf'[d] # Absent
      PROVE  buf'[d].user = owner'[cur'[d]]
  <2>1. BufFrom(d)
    BY BufFromStep
  <2>2. CASE cur'[d] = cur[d] /\ buf'[d] = buf[d]
    <3>1. cur[d] \in Gen
      BY <1>2, <2>2 DEF Shape, BufOK, CurOK
    <3> QED
      BY <1>2, <1>k, <2>2, <3>1 DEF FreshOK, OwnerOK, OwnerKept
  <2>3. CASE cur'[d] = cur[d] /\ cur[d] \in Gen /\ buf'[d] = generations[cur[d]]
    BY <1>2, <1>k, <2>3 DEF FreshOK, OwnerOK, OwnerKept
  <2> QED
    BY <1>2, <2>1, <2>2, <2>3 DEF BufFrom
<1>3. ASSUME NEW u \in User, active'[u] # NoGen
      PROVE  owner'[active'[u]] = u
  <2>1. ActiveFrom(u)
    BY ActiveFromStep
  <2>2. CASE active'[u] = active[u]
    BY <1>3, <1>k, <1>t, <2>2 DEF FreshOK, OwnerOK, OwnerKept
  <2>3. ASSUME NEW c \in Conn, pc[c] = "activate", UserOf[c] = u, active'[u] = cur[c]
        PROVE  owner'[active'[u]] = u
    <3>1. cur[c] \in Gen /\ owner[cur[c]] = u
      BY <2>3 DEF OwnerOK, Handler, Streaming, Shape, CurOK
    <3> QED
      BY <1>k, <2>3, <3>1 DEF OwnerKept
  <2> QED
    BY <1>3, <2>1, <2>2, <2>3 DEF ActiveFrom
<1>4. ASSUME NEW d \in Conn, Handler(d)' \/ pc'[d] \in UpdateLabel
      PROVE  owner'[cur'[d]] = UserOf[d]
  <2>1. Lineage(d) /\ UpdateFrom(d)
    BY HandlerStep, UpdateFromStep
  <2>2. CASE cur'[d] = cur[d] /\ (Handler(d) \/ pc[d] \in UpdateLabel)
    <3>1. cur[d] \in Gen /\ owner[cur[d]] = UserOf[d]
      BY <2>2 DEF OwnerOK, Handler, Streaming, Recording, UpdateLabel, Shape, CurOK
    <3> QED
      BY <1>k, <2>2, <3>1 DEF OwnerKept
  <2>3. CASE owner'[cur'[d]] = UserOf[d]
    BY <2>3
  <2>4. CASE cur'[d] = cur[d] /\ OwnedBy(cur[d], UserOf[d]) /\ pc'[d] \in UpdateLabel
    <3>1. cur[d] \in Gen
      BY <2>4 DEF Shape, CurOK, UpdateLabel
    <3>2. owner[cur[d]] = UserOf[d]
      BY <2>4, <3>1 DEF OwnedBy, OwnerOK
    <3> QED
      BY <1>k, <2>4, <3>1, <3>2 DEF OwnerKept
  <2> QED
    BY <1>4, <2>1, <2>2, <2>3, <2>4 DEF Lineage, UpdateFrom
<1> QED
  BY <1>1, <1>2, <1>3, <1>4 DEF OwnerOK

(* Activation is the handler's, and once only.                              *)
LEMMA ActivationStep ==
  Shape /\ Shape' /\ FreshOK /\ OneHandler /\ ActivationOK /\ [Next]_vars => ActivationOK'
<1> SUFFICES ASSUME Shape, Shape', FreshOK, OneHandler, ActivationOK, [Next]_vars
             PROVE  ActivationOK'
  OBVIOUS
<1>m. MarksGrow
  BY MarksStep
<1>t. /\ buf \in [Conn -> Snapshot \cup {Absent}]
      /\ cur \in [Conn -> Gen \cup {NoGen}]
      /\ generations \in [Gen -> Snapshot \cup {Absent}]
      /\ active \in [User -> Gen \cup {NoGen}]
  BY DEF Shape, TypeOK
<1>1. ASSUME NEW c \in Conn, pc'[c] \in {"create", "activate"}
      PROVE  "activated" \notin marks'[cur'[c]]
  <2>1. Lineage(c) /\ Handler(c)' /\ StartFrom(c) /\ cur'[c] \in Gen
    BY <1>1, HandlerStep, StartFromStep DEF Handler, Streaming, Shape, CurOK
  <2>2. ActivatedFrom(cur'[c])
    BY <2>1, ActivatedFromStep
  <2>3. CASE owner[cur'[c]] = NoUser
    BY <2>1, <2>2, <2>3 DEF FreshOK, ActivatedFrom
  <2>4. CASE cur'[c] = cur[c] /\ Handler(c) /\ pc[c] \in {"create", "activate"}
    <3>1. \A d \in Conn : pc[d] = "activate" /\ cur[d] = cur[c] => d = c
      BY <2>4 DEF OneHandler, Handler, Streaming
    <3> QED
      BY <1>1, <2>1, <2>2, <2>4, <3>1 DEF ActivationOK, ActivatedFrom
  <2>5. pc[c] \in {"create", "activate"} \/ owner[cur'[c]] = NoUser
    BY <1>1, <2>1 DEF Lineage, StartFrom, Handler, Streaming, Recording, UpdateLabel
  <2> QED
    BY <2>1, <2>3, <2>4, <2>5 DEF Lineage, Handler, Streaming, StartFrom, Prepare
<1>2. ASSUME NEW c \in Conn, cur'[c] \in Gen, pc'[c] \notin {"create", "activate"}
      PROVE  "activated" \in marks'[cur'[c]]
  <2>1. CurFrom(c) /\ StartFrom(c)
    BY CurFromStep, StartFromStep
  <2>2. CASE cur'[c] = cur[c]
    BY <1>2, <1>m, <2>1, <2>2 DEF ActivationOK, StartFrom, MarksGrow
  <2>3. CASE "activated" \in marks[cur'[c]]
    BY <1>2, <1>m, <2>3 DEF MarksGrow
  <2>4. CASE cur'[c] = active[UserOf[c]]
    BY <1>2, <1>m, <2>4 DEF ActivationOK, MarksGrow
  <2> QED
    BY <1>2, <2>1, <2>2, <2>3, <2>4 DEF CurFrom
<1>3. ASSUME NEW u \in User, active'[u] # NoGen
      PROVE  "activated" \in marks'[active'[u]]
  <2>1. ActiveFrom(u)
    BY ActiveFromStep
  <2> QED
    BY <1>3, <1>m, <1>t, <2>1 DEF ActiveFrom, ActivationOK, MarksGrow
<1>4. ASSUME NEW g \in Gen, "activated" \notin marks'[g]
      PROVE  ~HasStatus(g, Terminal)'
  <2>1. GenFrom(g) /\ "activated" \notin marks[g] /\ ~HasStatus(g, Terminal)
    BY <1>4, <1>m, GenFromStep DEF MarksGrow, ActivationOK
  <2>2. \A c \in Conn : pc[c] \in {"appendWrite", "refsWrite", "termWrite"} => cur[c] # g
    BY <2>1 DEF ActivationOK
  <2>3. \A c \in Conn : NewSnapshot(UserOf[c]).status \notin Terminal
    BY DEF NewSnapshot, Terminal
  <2> QED
    BY <2>1, <2>2, <2>3 DEF GenFrom, HasStatus
<1>5. ASSUME NEW g \in Gen, "activated" \in marks'[g], generations'[g] = Absent
      PROVE  "lapsed" \in marks'[g]
  <2>1. GenFrom(g) /\ ActivatedFrom(g)
    BY GenFromStep, ActivatedFromStep
  <2>2. generations'[g] = generations[g] \/ "lapsed" \in marks'[g]
    <3>1. \A c \in Conn : NewSnapshot(UserOf[c]) \in Snapshot
      BY DEF NewSnapshot, Snapshot, Status
    <3>2. \A c \in Conn : cur[c] = g /\ pc[c] \in {"appendWrite", "refsWrite", "termWrite"} =>
            "activated" \in marks[g]
      BY DEF ActivationOK
    <3>3. \A c \in Conn : pc[c] \in {"appendWrite", "refsWrite", "termWrite"} =>
            /\ [buf[c] EXCEPT !.refs = TRUE] \in Snapshot
            /\ pc[c] = "appendWrite" => [buf[c] EXCEPT !.content = Append(@, arg[c])] \in Snapshot
            /\ pc[c] = "termWrite" => [buf[c] EXCEPT !.status = arg[c]] \in Snapshot
      <4>1. ASSUME NEW c \in Conn, pc[c] \in {"appendWrite", "refsWrite", "termWrite"}
            PROVE  buf[c] \in Snapshot
        BY <1>t, <4>1 DEF Shape, BufOK
      <4>2. ASSUME NEW c \in Conn, pc[c] = "appendWrite"
            PROVE  Append(buf[c].content, arg[c]) \in Seq(Chunk)
        <5>1. buf[c].content \in Seq(Chunk) /\ arg[c] \in Chunk
          BY <4>1, <4>2 DEF Shape, ArgOK, Snapshot
        <5> QED
          BY <5>1
      <4>3. ASSUME NEW c \in Conn, pc[c] = "termWrite"
            PROVE  arg[c] \in Status
        BY <4>3 DEF Shape, ArgOK, Terminal, UpdateLabel
      <4> QED
        BY <4>1, <4>2, <4>3 DEF Snapshot
    <3> QED
      BY ZenonT(60), <1>5, <2>1, <3>1, <3>3, AbsenceAssumption DEF GenFrom
  <2> QED
    BY <1>5, <1>m, <2>1, <2>2 DEF ActivatedFrom, ActivationOK, MarksGrow
<1>6. ASSUME NEW c \in Conn, pc'[c] = "activate", generations'[cur'[c]] = Absent
      PROVE  "lapsed" \in marks'[cur'[c]]
  <2>1. StartFrom(c) /\ cur'[c] \in Gen
    BY <1>6, StartFromStep DEF Shape, CurOK
  <2>2. NewSnapshot(UserOf[c]) # Absent
    <3>1. NewSnapshot(UserOf[c]) \in Snapshot
      BY DEF NewSnapshot, Snapshot, Status
    <3> QED
      BY <3>1, AbsenceAssumption
  <2>3. pc[c] = "activate" /\ cur'[c] = cur[c]
    BY <1>6, <2>1, <2>2 DEF StartFrom
  <2>4. GenFrom(cur[c])
    BY <2>1, <2>3, GenFromStep
  <2>5. \A d \in Conn : cur[d] = cur[c] /\ d # c =>
           pc[d] \notin {"create", "appendWrite", "refsWrite", "termWrite"}
    BY <2>1, <2>3 DEF ActivationOK, OneHandler, Handler, Streaming
  <2> QED
    BY <1>6, <1>m, <2>1, <2>3, <2>4, <2>5 DEF GenFrom, ActivationOK, MarksGrow
<1> QED
  BY <1>1, <1>2, <1>3, <1>4, <1>5, <1>6 DEF ActivationOK

(* A stop holds its copy only after it has been marked.                    *)
LEMMA StopMarkedStep == Shape /\ Shape' /\ StopMarked /\ [Next]_vars => StopMarked'
<1> SUFFICES ASSUME Shape, Shape', StopMarked, [Next]_vars,
                    NEW d \in Conn, pc'[d] \in {"termWrite", "termActive", "termDelete"},
                    arg'[d] = "CANCELLED"
             PROVE  "stopped" \in marks'[cur'[d]]
  BY DEF StopMarked
<1>1. StopFrom(d) /\ MarksGrow
  BY StopFromStep, MarksStep
<1>2. cur'[d] \in Gen
  BY DEF Shape, CurOK
<1> QED
  BY <1>1, <1>2 DEF StopFrom, MarksGrow, StopMarked

(* Whoever may still write STREAMING serves the generation.                *)
LEMMA StreamingStep ==
  Shape /\ Shape' /\ OwnerOK /\ StreamingIsServed /\ [Next]_vars => StreamingIsServed'
<1> SUFFICES ASSUME Shape, Shape', OwnerOK, StreamingIsServed, [Next]_vars,
                    NEW g \in Gen, HasStatus(g, {"STREAMING"})'
             PROVE  \/ "abandoned" \in marks'[g]
                    \/ \E c \in Conn : Serving(c)' /\ cur'[c] = g
  BY DEF StreamingIsServed
<1>1. StreamWriter(g) /\ MarksGrow
  BY StreamWriterStep, MarksStep
<1>2. CASE generations'[g] = generations[g]
  <2>1. HasStatus(g, {"STREAMING"})
    BY <1>2 DEF HasStatus
  <2>2. CASE "abandoned" \in marks[g]
    BY <1>1, <2>2 DEF MarksGrow
  <2>3. ASSUME NEW c \in Conn, Serving(c), cur[c] = g
        PROVE  \/ "abandoned" \in marks'[g]
               \/ Serving(c)' /\ cur'[c] = g
    <3>1. ServeFrom(c)
      BY ServeStep
    <3> QED
      BY <2>3, <3>1 DEF ServeFrom, HasStatus
  <2> QED
    BY <2>1, <2>2, <2>3 DEF StreamingIsServed
<1> QED
  BY <1>1, <1>2 DEF StreamWriter

(* A copy keeps every field but the one its writer sets.                   *)
LEMMA CopyFields ==
  ASSUME Shape, NEW c \in Conn
  PROVE  /\ pc[c] \in {"appendWrite", "refsWrite", "termWrite"} => buf[c] \in Snapshot
         /\ pc[c] = "appendWrite" =>
              /\ [buf[c] EXCEPT !.content = Append(@, arg[c])].status = buf[c].status
              /\ [buf[c] EXCEPT !.content = Append(@, arg[c])].content = Append(buf[c].content, arg[c])
         /\ pc[c] = "refsWrite" =>
              /\ [buf[c] EXCEPT !.refs = TRUE].status = buf[c].status
              /\ [buf[c] EXCEPT !.refs = TRUE].content = buf[c].content
         /\ pc[c] = "termWrite" =>
              /\ [buf[c] EXCEPT !.status = arg[c]].status = arg[c]
              /\ [buf[c] EXCEPT !.status = arg[c]].content = buf[c].content
              /\ arg[c] \in Terminal
<1>1. pc[c] \in {"appendWrite", "refsWrite", "termWrite"} => buf[c] \in Snapshot
  BY DEF Shape, TypeOK, BufOK
<1>2. pc[c] = "termWrite" => arg[c] \in Terminal
  BY DEF Shape, ArgOK, UpdateLabel
<1> QED
  BY <1>1, <1>2 DEF Snapshot

(* Nothing finishes a generation before its handler does.                  *)
LEMMA UnfinishedStep ==
  Shape /\ Shape' /\ FreshOK /\ OneHandler /\ UnfinishedOK /\ [Next]_vars => UnfinishedOK'
<1> SUFFICES ASSUME Shape, Shape', FreshOK, OneHandler, UnfinishedOK, [Next]_vars,
                    NEW c \in Conn, Unfinished(c)'
             PROVE  /\ ~HasStatus(cur[c], {"COMPLETED", "FAILED"})'
                    /\ buf'[c] # Absent => buf'[c].status \notin {"COMPLETED", "FAILED"}
  BY DEF UnfinishedOK
<1> DEFINE g == cur'[c]
<1>1. /\ UnfinishedFrom(c) /\ BufFrom(c) /\ Lineage(c)
      /\ Handler(c)' /\ g \in Gen
  BY UnfinishedFromStep, BufFromStep, HandlerStep
     DEF Unfinished, Handler, Streaming, UpdateLabel, Shape, CurOK
<1>2. GenFrom(g)
  BY <1>1, GenFromStep
<1>3. CASE pc[c] = "prepare"
  <2>1. cur[c] = NoGen /\ ~Handler(c)
    BY <1>3 DEF Shape, CurOK, Handler, Streaming, Recording, UpdateLabel
  <2>2. owner[g] = NoUser
    BY <1>1, <2>1 DEF Lineage
  <2>3. generations[g] = Absent /\ \A d \in Conn : cur[d] # g
    BY <1>1, <2>2 DEF FreshOK
  <2>4. generations'[g] = Absent
    BY <1>2, <2>3 DEF GenFrom
  <2>5. buf'[c] = Absent
    BY <1>1, <2>1, GenerationAssumption DEF BufFrom
  <2> QED
    BY <2>4, <2>5 DEF HasStatus
<1>4. CASE Unfinished(c) /\ cur'[c] = cur[c]
  <2>1. /\ ~HasStatus(g, {"COMPLETED", "FAILED"})
        /\ buf[c] # Absent => buf[c].status \notin {"COMPLETED", "FAILED"}
        /\ Handler(c)
    BY <1>4 DEF UnfinishedOK, Unfinished, Handler, Streaming, UpdateLabel
  <2>2. ASSUME NEW d \in Conn, cur[d] = g, pc[d] \in {"appendWrite", "refsWrite"},
               generations'[g].status = buf[d].status
        PROVE  ~HasStatus(cur[c], {"COMPLETED", "FAILED"})'
    <3>1. d = c
      BY <1>4, <2>1, <2>2 DEF OneHandler, Handler, Streaming
    <3>2. buf[c] # Absent
      BY <2>2, <3>1 DEF Shape, BufOK
    <3> QED
      BY <2>1, <2>2, <3>1, <3>2 DEF HasStatus
  <2>3. ASSUME NEW d \in Conn, cur[d] = g, pc[d] = "termWrite", pc'[d] = "termActive",
               generations'[g].status = arg[d]
        PROVE  ~HasStatus(cur[c], {"COMPLETED", "FAILED"})'
    <3>1. CASE arg[d] = "CANCELLED"
      BY <2>3, <3>1 DEF HasStatus
    <3>2. CASE arg[d] # "CANCELLED"
      <4>1. d = c
        BY <1>4, <2>1, <2>3, <3>2 DEF OneHandler, Handler, UpdateLabel
      <4> QED
        BY <2>3, <4>1 DEF Unfinished, Streaming
    <3> QED
      BY <3>1, <3>2
  <2>4. ~HasStatus(cur[c], {"COMPLETED", "FAILED"})'
    <3>1. CASE generations'[g] = generations[g] \/ generations'[g] = Absent
      BY <2>1, <3>1 DEF HasStatus
    <3>2. ASSUME NEW d \in Conn, generations'[g] = NewSnapshot(UserOf[d])
          PROVE  ~HasStatus(cur[c], {"COMPLETED", "FAILED"})'
      BY <3>2 DEF HasStatus, NewSnapshot
    <3>3. \A d \in Conn : /\ pc[d] = "appendWrite" =>
                               [buf[d] EXCEPT !.content = Append(@, arg[d])].status = buf[d].status
                          /\ pc[d] = "refsWrite" =>
                               [buf[d] EXCEPT !.refs = TRUE].status = buf[d].status
                          /\ pc[d] = "termWrite" =>
                               [buf[d] EXCEPT !.status = arg[d]].status = arg[d]
      BY CopyFields
    <3> QED
      BY ZenonT(60), <1>2, <2>2, <2>3, <3>1, <3>2, <3>3 DEF GenFrom
  <2>5. buf'[c] # Absent => buf'[c].status \notin {"COMPLETED", "FAILED"}
    BY <1>1, <1>4, <2>1 DEF BufFrom, HasStatus
  <2> QED
    BY <2>4, <2>5
<1> QED
  BY <1>1, <1>3, <1>4 DEF UnfinishedFrom

(* What mark_completed or mark_failed wrote is never opened again.         *)
LEMMA FinishedStep ==
  Shape /\ UnfinishedOK /\ [Next]_vars =>
    \A g \in Gen : HasStatus(g, {"COMPLETED", "FAILED"}) => ~HasStatus(g, {"STREAMING"})'
<1> SUFFICES ASSUME Shape, UnfinishedOK, [Next]_vars,
                    NEW g \in Gen, HasStatus(g, {"COMPLETED", "FAILED"})
             PROVE  ~HasStatus(g, {"STREAMING"})'
  OBVIOUS
<1>1. GenFrom(g)
  BY GenFromStep
<1>2. \A c \in Conn : cur[c] = g => pc[c] \notin {"create", "appendWrite", "refsWrite"}
  BY DEF UnfinishedOK, Unfinished, Streaming
<1>3. \A c \in Conn : pc[c] = "termWrite" =>
        [buf[c] EXCEPT !.status = arg[c]].status \in Terminal
  BY CopyFields
<1> QED
  BY <1>1, <1>2, <1>3 DEF GenFrom, HasStatus, Terminal

(* While a terminal snapshot, or a copy of it, meets an active pointer,    *)
(* the updater that wrote it is on its way to delete the pointer.          *)
LEMMA PointerStep ==
  Shape /\ Shape' /\ OwnerOK /\ ActivationOK /\ PointerOK /\ [Next]_vars => PointerOK'
<1> SUFFICES ASSUME Shape, Shape', OwnerOK, ActivationOK, PointerOK, [Next]_vars,
                    NEW u \in User, NEW g \in Gen, active'[u] = g,
                    \/ HasStatus(g, Terminal)'
                    \/ \E c \in Conn : /\ pc'[c] \in {"appendWrite", "refsWrite"}
                                       /\ cur'[c] = g
                                       /\ buf'[c].status \in Terminal
             PROVE  \/ {"abandoned", "lapsed"} \cap marks'[g] # {}
                    \/ \E c \in Conn : Updating(c)' /\ cur'[c] = g
  BY DEF PointerOK
<1>1. ActiveFrom(u) /\ GenFrom(g) /\ MarksGrow
  BY ActiveFromStep, GenFromStep, MarksStep
<1> DEFINE Copied == \E c \in Conn : /\ pc[c] \in {"appendWrite", "refsWrite"}
                                     /\ cur[c] = g
                                     /\ buf[c].status \in Terminal
<1>2. \/ HasStatus(g, Terminal)
      \/ Copied
      \/ \E c \in Conn : Updating(c)' /\ cur'[c] = g
  <2>1. CASE HasStatus(g, Terminal)'
    <3>1. \A d \in Conn : /\ pc[d] = "appendWrite" =>
                               [buf[d] EXCEPT !.content = Append(@, arg[d])].status = buf[d].status
                          /\ pc[d] = "refsWrite" =>
                               [buf[d] EXCEPT !.refs = TRUE].status = buf[d].status
      BY CopyFields
    <3>2. \A d \in Conn : NewSnapshot(UserOf[d]).status \notin Terminal
      BY DEF NewSnapshot, Terminal
    <3> QED
      <4>1. generations'[g] # Absent /\ generations'[g].status \in Terminal
        BY <2>1 DEF HasStatus
      <4>2. CASE generations'[g] = generations[g]
        BY <4>1, <4>2 DEF HasStatus
      <4>3. CASE \E c \in Conn :
                   /\ cur[c] = g /\ pc[c] = "create" /\ generations'[g] = NewSnapshot(UserOf[c])
        BY <3>2, <4>1, <4>3
      <4>4. CASE \E c \in Conn :
                   /\ cur[c] = g /\ pc[c] = "appendWrite"
                   /\ generations'[g] = [buf[c] EXCEPT !.content = Append(@, arg[c])]
        BY <3>1, <4>1, <4>4
      <4>5. CASE \E c \in Conn :
                   /\ cur[c] = g /\ pc[c] = "refsWrite"
                   /\ generations'[g] = [buf[c] EXCEPT !.refs = TRUE]
        BY <3>1, <4>1, <4>5
      <4>6. CASE \E c \in Conn : pc'[c] = "termActive" /\ cur'[c] = g
        BY <4>6 DEF Updating
      <4> QED
        BY <1>1, <4>1, <4>2, <4>3, <4>4, <4>5, <4>6 DEF GenFrom
  <2>2. ASSUME NEW c \in Conn, pc'[c] \in {"appendWrite", "refsWrite"},
               cur'[c] = g, buf'[c].status \in Terminal
        PROVE  HasStatus(g, Terminal) \/ Copied
    <3>1. CopyFrom(c) /\ buf'[c] # Absent
      BY <2>2, CopyStep DEF Shape, BufOK
    <3> QED
      BY <2>2, <3>1 DEF CopyFrom, HasStatus
  <2> QED
    BY <2>1, <2>2
<1>3. CASE active[u] = g
  <2>1. CASE {"abandoned", "lapsed"} \cap marks[g] # {}
    BY <1>1, <2>1 DEF MarksGrow
  <2>2. ASSUME NEW c \in Conn, Updating(c), cur[c] = g
        PROVE  \/ {"abandoned", "lapsed"} \cap marks'[g] # {}
               \/ Updating(c)' /\ cur'[c] = g
    <3>1. UpdateTo(c)
      BY UpdateToStep
    <3>2. generations[g] = Absent => "lapsed" \in marks[g]
      BY <1>3, GenerationAssumption DEF ActivationOK
    <3>3. pc[c] \in {"termActive", "termDelete"} => buf[c].user = u
      BY <1>3, <2>2, GenerationAssumption DEF Shape, BufOK, OwnerOK
    <3> QED
      BY <1>1, <2>2, <3>1, <3>2, <3>3 DEF UpdateTo, MarksGrow
  <2> QED
    BY <1>2, <1>3, <2>1, <2>2 DEF PointerOK
<1>4. ASSUME NEW c \in Conn, pc[c] = "activate", cur[c] = g
      PROVE  \E d \in Conn : Updating(d)' /\ cur'[d] = g
  <2>1. "activated" \notin marks[g]
    BY <1>4 DEF ActivationOK
  <2>2. ~HasStatus(g, Terminal)
    BY <2>1 DEF ActivationOK
  <2>3. ~Copied
    BY <2>1 DEF ActivationOK
  <2> QED
    BY <1>2, <2>2, <2>3
<1> QED
  BY <1>1, <1>3, <1>4, GenerationAssumption DEF ActiveFrom

(* The turn is committed when the handler has nothing left to send.        *)
LEMMA TurnStep ==
  Shape /\ Shape' /\ FreshOK /\ OneHandler /\ TurnOK /\ [Next]_vars => TurnOK'
<1> SUFFICES ASSUME Shape, Shape', FreshOK, OneHandler, TurnOK, [Next]_vars,
                    NEW c \in Conn, Handler(c)', turns'[cur'[c]] # NoTurn
             PROVE  pc'[c] \in {"bill", "reply"} \/ arg'[c] = "FAILED"
  BY DEF TurnOK
<1> DEFINE g == cur'[c]
<1>1. g \in Gen /\ Lineage(c)
  BY HandlerStep DEF Handler, Streaming, Recording, UpdateLabel, Shape, CurOK
<1>2. TurnFrom(g)
  BY <1>1, TurnFromStep
<1>3. CASE owner[g] = NoUser
  BY <1>1, <1>2, <1>3 DEF FreshOK, TurnFrom
<1>4. CASE Handler(c) /\ cur'[c] = cur[c]
  <2>1. CASE turns'[g] = turns[g]
    <3>1. EndFrom(c)
      BY EndStep
    <3> QED
      BY <1>4, <2>1, <3>1 DEF TurnOK, EndFrom
  <2>2. ASSUME NEW d \in Conn, pc[d] = "record", pc'[d] = "bill", cur[d] = g
        PROVE  pc'[c] = "bill"
    BY <1>4, <2>2 DEF OneHandler, Handler, Recording
  <2> QED
    BY <1>2, <2>1, <2>2 DEF TurnFrom
<1> QED
  BY <1>1, <1>3, <1>4 DEF Lineage

(* The committed turn is the copy the handler read back, which holds what  *)
(* was sent; nothing is sent afterwards.                                   *)
LEMMA RecordedStep ==
  Shape /\ OneHandler /\ TurnOK /\ ContentOK /\ RecordedIsSent /\ [Next]_vars => RecordedIsSent'
<1> SUFFICES ASSUME Shape, OneHandler, TurnOK, ContentOK, RecordedIsSent, [Next]_vars,
                    NEW g \in Gen, turns'[g] # NoTurn, {"stopped", "lapsed"} \cap marks'[g] = {}
             PROVE  turns'[g] = sent'[g]
  BY DEF RecordedIsSent
<1>1. TurnFrom(g) /\ SentFrom(g) /\ Quiet(g)
  BY TurnFromStep, SentStep, MarksStep DEF MarksGrow, Quiet
<1>2. \A c \in Conn : pc[c] = "send" => arg[c] # "FAILED"
  BY DEF Shape, ArgOK, Chunk
<1>3. CASE turns'[g] = turns[g]
  <2>1. turns[g] = sent[g]
    BY <1>1, <1>3 DEF RecordedIsSent, Quiet
  <2>2. \A c \in Conn : cur[c] = g => pc[c] # "send"
    BY <1>2, <1>3 DEF TurnOK, Handler, Streaming
  <2> QED
    BY <1>1, <1>3, <2>1, <2>2 DEF SentFrom
<1>4. ASSUME NEW c \in Conn, pc[c] = "record", cur[c] = g,
             turns'[g] = IF buf[c] = Absent THEN << >> ELSE buf[c].content
      PROVE  turns'[g] = sent'[g]
  <2>1. ContentAt(c)
    BY DEF ContentOK
  <2>2. turns'[g] = sent[g]
    BY <1>1, <1>4, <2>1 DEF ContentAt, Handler, Recording
  <2>3. \A d \in Conn : cur[d] = g => pc[d] # "send"
    BY <1>4 DEF OneHandler, Handler, Streaming, Recording
  <2> QED
    BY <1>1, <2>2, <2>3 DEF SentFrom
<1> QED
  BY <1>1, <1>3, <1>4 DEF TurnFrom

(* Text enters a snapshot, a copy or a turn only with a chunk its handler  *)
(* sends or appends.                                                       *)
LEMMA AppendSilent ==
  ASSUME NEW s \in Seq(Chunk), NoAnswerIn(s), NEW a, a \notin Answer
  PROVE  NoAnswerIn(Append(s, a))
BY DEF NoAnswerIn

(* A silent generation stays silent while nobody appends or sends answer text. *)
LEMMA SilentStep ==
  ASSUME Shape, Shape', [Next]_vars, NEW g \in Gen, Silent(g),
         \A c \in Conn : cur[c] = g /\ pc[c] \in {"append", "appendWrite", "send"} =>
           arg[c] \notin Answer
  PROVE  Silent(g)'
<1>t. /\ sent \in [Gen -> Seq(Chunk)]
      /\ generations \in [Gen -> Snapshot \cup {Absent}]
      /\ buf \in [Conn -> Snapshot \cup {Absent}]
      /\ cur' \in [Conn -> Gen \cup {NoGen}]
  BY DEF Shape, TypeOK
<1>0. NoAnswerIn(<< >>)
  BY DEF NoAnswerIn
<1>1. NoAnswerIn(sent'[g])
  <2>1. SentFrom(g)
    BY SentStep
  <2>2. sent[g] \in Seq(Chunk) /\ NoAnswerIn(sent[g])
    BY <1>t DEF Silent
  <2>3. ASSUME NEW c \in Conn, cur[c] = g, pc[c] = "send"
        PROVE  NoAnswerIn(Append(sent[g], arg[c]))
    BY <2>2, <2>3, AppendSilent
  <2> QED
    BY <2>1, <2>2, <2>3 DEF SentFrom
<1>2. generations'[g] # Absent => NoAnswerIn(generations'[g].content)
  <2>1. GenFrom(g)
    BY GenFromStep
  <2>2. \A c \in Conn : NewSnapshot(UserOf[c]).content = << >>
    BY DEF NewSnapshot
  <2>3. ASSUME NEW c \in Conn, cur[c] = g, pc[c] \in {"appendWrite", "refsWrite", "termWrite"}
        PROVE  buf[c] # Absent /\ NoAnswerIn(buf[c].content) /\ buf[c].content \in Seq(Chunk)
    BY <1>t, <2>3 DEF Silent, Shape, BufOK, Snapshot
  <2>4. ASSUME NEW c \in Conn, cur[c] = g, pc[c] = "appendWrite"
        PROVE  NoAnswerIn(Append(buf[c].content, arg[c]))
    BY <2>3, <2>4, AppendSilent
  <2>5. \A c \in Conn :
          /\ pc[c] = "appendWrite" => [buf[c] EXCEPT !.content = Append(@, arg[c])].content
                                        = Append(buf[c].content, arg[c])
          /\ pc[c] = "refsWrite" => [buf[c] EXCEPT !.refs = TRUE].content = buf[c].content
          /\ pc[c] = "termWrite" => [buf[c] EXCEPT !.status = arg[c]].content = buf[c].content
    BY CopyFields
  <2>6. ASSUME NEW c \in Conn, cur[c] = g,
               \/ /\ pc[c] = "create"
                  /\ generations'[g] = NewSnapshot(UserOf[c])
               \/ /\ pc[c] = "appendWrite"
                  /\ generations'[g] = [buf[c] EXCEPT !.content = Append(@, arg[c])]
               \/ /\ pc[c] = "refsWrite"
                  /\ generations'[g] = [buf[c] EXCEPT !.refs = TRUE]
               \/ /\ pc[c] = "termWrite"
                  /\ generations'[g] = [buf[c] EXCEPT !.status = arg[c]]
        PROVE  NoAnswerIn(generations'[g].content)
    <3>1. CASE pc[c] = "create" /\ generations'[g] = NewSnapshot(UserOf[c])
      BY <1>0, <2>2, <3>1
    <3>2. CASE pc[c] = "appendWrite" /\ generations'[g] = [buf[c] EXCEPT !.content = Append(@, arg[c])]
      <4>1. generations'[g].content = Append(buf[c].content, arg[c])
        BY <2>5, <3>2
      <4> QED
        BY <2>4, <2>6, <3>2, <4>1
    <3>3. CASE pc[c] = "refsWrite" /\ generations'[g] = [buf[c] EXCEPT !.refs = TRUE]
      BY <2>3, <2>5, <2>6, <3>3
    <3>4. CASE pc[c] = "termWrite" /\ generations'[g] = [buf[c] EXCEPT !.status = arg[c]]
      BY <2>3, <2>5, <2>6, <3>4
    <3> QED
      BY <2>6, <3>1, <3>2, <3>3, <3>4
  <2>7. CASE generations'[g] = generations[g] \/ generations'[g] = Absent
    BY <2>7 DEF Silent
  <2> QED
    BY <2>1, <2>6, <2>7 DEF GenFrom
<1>3. turns'[g] # NoTurn => NoAnswerIn(turns'[g])
  <2>1. TurnFrom(g)
    BY TurnFromStep
  <2> QED
    BY <1>0, <2>1 DEF TurnFrom, Silent
<1>4. ASSUME NEW d \in Conn, cur'[d] = g, buf'[d] # Absent
      PROVE  NoAnswerIn(buf'[d].content)
  <2>1. BufFrom(d)
    BY BufFromStep
  <2> QED
    BY <1>4, <2>1 DEF BufFrom, Silent
<1> QED
  BY <1>1, <1>2, <1>3, <1>4 DEF Silent

(* An id nobody has drawn is silent.                                       *)
LEMMA FreshSilent ==
  ASSUME FreshOK, NEW g \in Gen, owner[g] = NoUser
  PROVE  Silent(g)
BY DEF FreshOK, Silent, NoAnswerIn

(* A handler that has not passed a chunk's check has a silent generation.   *)
LEMMA EarlyStep ==
  Shape /\ Shape' /\ FreshOK /\ OneHandler /\ EarlyOK /\ [Next]_vars => EarlyOK'
<1> SUFFICES ASSUME Shape, Shape', FreshOK, OneHandler, EarlyOK, [Next]_vars,
                    NEW c \in Conn, Early(c)'
             PROVE  Silent(cur[c])'
  BY DEF EarlyOK
<1>0. PICK g \in Gen : g = cur'[c]
  BY DEF Early, Shape, CurOK
<1>1. TextFrom(c) /\ Lineage(c)
  BY TextStep, HandlerStep
<1>2. Handler(c)'
  BY DEF Early, Handler, Streaming
<1>3. CASE owner[g] = NoUser
  <2>1. Silent(g) /\ \A d \in Conn : cur[d] # g
    BY <1>3, FreshSilent DEF FreshOK
  <2>2. Silent(g)'
    BY <2>1, SilentStep
  <2> QED
    BY <1>0, <2>2 DEF Silent
<1>4. CASE Early(c) /\ cur'[c] = cur[c]
  <2>1. \A d \in Conn : cur[d] = g /\ pc[d] \in {"append", "appendWrite", "send"} =>
          arg[d] \notin Answer
    BY <1>0, <1>4 DEF OneHandler, Handler, Streaming, Early
  <2>2. Silent(g)
    BY <1>0, <1>4 DEF EarlyOK
  <2>3. Silent(g)'
    BY <2>1, <2>2, SilentStep
  <2> QED
    BY <1>0, <2>3 DEF Silent
<1> QED
  BY <1>0, <1>1, <1>2, <1>3, <1>4 DEF Lineage, TextFrom, Handler, Streaming, Recording, UpdateLabel

(***************************************************************************)
(* A handler that moves keeps its copies and the store in step with what   *)
(* it has sent.                                                            *)
(***************************************************************************)
(* Every step leaves a handler where it is or keeps its copies right.      *)
LEMMA OwnContentStep ==
  Shape /\ FreshOK /\ OwnerOK /\ ActivationOK /\ ContentOK /\ [Next]_vars => \A d \in Conn : Unmoved(d) \/ ContentAt(d)'
<1> SUFFICES ASSUME Shape, FreshOK, OwnerOK, ActivationOK, ContentOK, [Next]_vars PROVE \A d \in Conn : Unmoved(d) \/ ContentAt(d)'
  OBVIOUS
<1>t. /\ pc \in [Conn -> Label]
      /\ arg \in [Conn -> Chunk \cup Status \cup {"tool", "none"}]
      /\ buf \in [Conn -> Snapshot \cup {Absent}]
      /\ cur \in [Conn -> Gen \cup {NoGen}]
      /\ owner \in [Gen -> User \cup {NoUser}]
      /\ generations \in [Gen -> Snapshot \cup {Absent}]
      /\ sent \in [Gen -> Seq(Chunk)]
      /\ marks \in [Gen -> SUBSET Mark]
  BY DEF Shape, TypeOK
<1>h. \A d \in Conn : Handler(d) =>
        /\ cur[d] \in Gen /\ owner[cur[d]] = UserOf[d]
        /\ pc[d] \notin {"create", "activate"} /\ "lapsed" \notin marks[cur[d]] =>
             generations[cur[d]] # Absent /\ generations[cur[d]].user = UserOf[d]
  BY <1>t DEF Shape, CurOK, OwnerOK, ActivationOK, Handler, Streaming, Recording, UpdateLabel
<1>1. ASSUME NEW c \in Conn, ReceiveChat(c) PROVE \A d \in Conn : Unmoved(d) \/ ContentAt(d)'
  <2>1. \A d \in Conn : d # c => Unmoved(d)
    BY <1>t, <1>1 DEF ReceiveChat, Goto, Unmoved
  <2>2. ~Handler(c)'
    BY <1>t, <1>1 DEF ReceiveChat, Goto, Shape, ArgOK, Handler, Streaming, Recording, UpdateLabel
  <2> QED
    BY <2>1, <2>2 DEF ContentAt
<1>2. ASSUME NEW c \in Conn, ReceiveStop(c) PROVE \A d \in Conn : Unmoved(d) \/ ContentAt(d)'
  <2>1. \A d \in Conn : d # c => Unmoved(d)
    BY <1>t, <1>2 DEF ReceiveStop, Goto, Unmoved
  <2>2. ~Handler(c)'
    BY <1>t, <1>2 DEF ReceiveStop, Goto, Shape, ArgOK, Handler, Streaming, Recording, UpdateLabel
  <2> QED
    BY <2>1, <2>2 DEF ContentAt
<1>3. ASSUME NEW c \in Conn, Disconnect(c) PROVE \A d \in Conn : Unmoved(d) \/ ContentAt(d)'
  BY <1>t, <1>3 DEF Disconnect, Fail, Unmoved
<1>4. ASSUME NEW c \in Conn, HangUp(c) PROVE \A d \in Conn : Unmoved(d) \/ ContentAt(d)'
  <2>1. \A d \in Conn : d # c => Unmoved(d)
    BY <1>t, <1>4 DEF HangUp, Goto, Unmoved
  <2>2. ~Handler(c)'
    BY <1>t, <1>4 DEF HangUp, Goto, Shape, ArgOK, Handler, Streaming, Recording, UpdateLabel
  <2> QED
    BY <2>1, <2>2 DEF ContentAt
<1>5. ASSUME NEW c \in Conn, Reconnect(c) PROVE \A d \in Conn : Unmoved(d) \/ ContentAt(d)'
  <2>1. \A d \in Conn : d # c => Unmoved(d)
    BY <1>t, <1>5 DEF Reconnect, Goto, Unmoved
  <2>2. ~Handler(c)'
    BY <1>t, <1>5 DEF Reconnect, Goto, Shape, ArgOK, Handler, Streaming, Recording, UpdateLabel
  <2> QED
    BY <2>1, <2>2 DEF ContentAt
<1>6. ASSUME NEW c \in Conn, Prepare(c) PROVE \A d \in Conn : Unmoved(d) \/ ContentAt(d)'
  <2>1. \A d \in Conn : d # c => Unmoved(d)
    BY <1>t, <1>6 DEF Prepare, Goto, Unmoved
  <2>2. ContentAt(c)
    BY DEF ContentOK
  <2>3. ContentAt(c)'
    <3>1. CASE pc'[c] = "create" /\ cur'[c] \in Gen /\ owner[cur'[c]] = NoUser
      BY <1>t, <1>6, <3>1 DEF Prepare, FreshOK, ContentAt, Settled, UpdateLabel
    <3>2. CASE pc'[c] = "idle"
      BY <3>2 DEF ContentAt, Handler, Streaming, Recording, UpdateLabel
    <3> QED
      BY <1>t, <1>6, <3>1, <3>2 DEF Prepare, Goto
  <2> QED
    BY <2>1, <2>3
<1>7. ASSUME NEW c \in Conn, CreateWrite(c) PROVE \A d \in Conn : Unmoved(d) \/ ContentAt(d)'
  <2>1. \A d \in Conn : d # c => Unmoved(d)
    BY <1>t, <1>7 DEF CreateWrite, Goto, NewSnapshot, Unmoved
  <2>2. ContentAt(c)
    BY DEF ContentOK
  <2>3. ContentAt(c)'
    BY <1>t, <1>h, <1>7, <2>2 DEF CreateWrite, Goto, NewSnapshot, Shape, ArgOK, CurOK, ContentAt, Handler, Streaming, Recording, UpdateLabel, Settled, Quiet
  <2> QED
    BY <2>1, <2>3
<1>8. ASSUME NEW c \in Conn, CreateActivate(c) PROVE \A d \in Conn : Unmoved(d) \/ ContentAt(d)'
  <2>1. \A d \in Conn : d # c => Unmoved(d)
    BY <1>t, <1>8 DEF CreateActivate, Goto, MarkGen, Unmoved
  <2>2. ContentAt(c)
    BY DEF ContentOK
  <2>3. ContentAt(c)'
    BY <1>t, <1>h, <1>8, <2>2 DEF CreateActivate, Goto, MarkGen, Shape, ArgOK, CurOK, ContentAt, Handler, Streaming, Recording, UpdateLabel, Settled, Quiet
  <2> QED
    BY <2>1, <2>3
<1>9. ASSUME NEW c \in Conn, SendStart(c) PROVE \A d \in Conn : Unmoved(d) \/ ContentAt(d)'
  <2>1. \A d \in Conn : d # c => Unmoved(d)
    BY <1>t, <1>9 DEF SendStart, Goto, Abandon, Leave, MarkGen, Unmoved
  <2>2. ContentAt(c)
    BY DEF ContentOK
  <2>3. ContentAt(c)'
    BY <1>t, <1>h, <1>9, <2>2 DEF SendStart, Goto, Abandon, Leave, MarkGen, Shape, ArgOK, CurOK, ContentAt, Handler, Streaming, Recording, UpdateLabel, Settled, Quiet
  <2> QED
    BY <2>1, <2>3
<1>10. ASSUME NEW c \in Conn, AgentTool(c) PROVE \A d \in Conn : Unmoved(d) \/ ContentAt(d)'
  <2>1. \A d \in Conn : d # c => Unmoved(d)
    BY <1>t, <1>10 DEF AgentTool, Goto, Unmoved
  <2>2. ContentAt(c)
    BY DEF ContentOK
  <2>3. ContentAt(c)'
    BY <1>t, <1>h, <1>10, <2>2 DEF AgentTool, Goto, Shape, ArgOK, CurOK, ContentAt, Handler, Streaming, Recording, UpdateLabel, Settled, Quiet
  <2> QED
    BY <2>1, <2>3
<1>11. ASSUME NEW c \in Conn, AgentAnswer(c) PROVE \A d \in Conn : Unmoved(d) \/ ContentAt(d)'
  <2>1. \A d \in Conn : d # c => Unmoved(d)
    BY <1>t, <1>11 DEF AgentAnswer, Goto, Unmoved
  <2>2. ContentAt(c)
    BY DEF ContentOK
  <2>3. ContentAt(c)'
    BY <1>t, <1>h, <1>11, <2>2 DEF AgentAnswer, Goto, Shape, ArgOK, CurOK, ContentAt, Handler, Streaming, Recording, UpdateLabel, Settled, Quiet
  <2> QED
    BY <2>1, <2>3
<1>12. ASSUME NEW c \in Conn, AgentEmpty(c) PROVE \A d \in Conn : Unmoved(d) \/ ContentAt(d)'
  <2>1. \A d \in Conn : d # c => Unmoved(d)
    BY <1>t, <1>12 DEF AgentEmpty, Goto, Unmoved
  <2>2. ContentAt(c)
    BY DEF ContentOK
  <2>3. ContentAt(c)'
    BY <1>t, <1>h, <1>12, <2>2 DEF AgentEmpty, Goto, Shape, ArgOK, CurOK, ContentAt, Handler, Streaming, Recording, UpdateLabel, Settled, Quiet
  <2> QED
    BY <2>1, <2>3
<1>13. ASSUME NEW c \in Conn, Check(c) PROVE \A d \in Conn : Unmoved(d) \/ ContentAt(d)'
  <2>1. \A d \in Conn : d # c => Unmoved(d)
    BY <1>t, <1>13 DEF Check, Goto, Leave, OwnedBy, Unmoved
  <2>2. ContentAt(c)
    BY DEF ContentOK
  <2>3. ContentAt(c)'
    BY <1>t, <1>h, <1>13, <2>2 DEF Check, Goto, Leave, OwnedBy, Shape, ArgOK, CurOK, ContentAt, Handler, Streaming, Recording, UpdateLabel, Settled, Quiet
  <2> QED
    BY <2>1, <2>3
<1>14. ASSUME NEW c \in Conn, AppendRead(c) PROVE \A d \in Conn : Unmoved(d) \/ ContentAt(d)'
  <2>1. \A d \in Conn : d # c => Unmoved(d)
    BY <1>t, <1>14 DEF AppendRead, Goto, Unmoved
  <2>2. ContentAt(c)
    BY DEF ContentOK
  <2>3. ContentAt(c)'
    BY <1>t, <1>h, <1>14, <2>2 DEF AppendRead, Goto, Shape, ArgOK, CurOK, ContentAt, Handler, Streaming, Recording, UpdateLabel, Settled, Quiet
  <2> QED
    BY <2>1, <2>3
<1>15. ASSUME NEW c \in Conn, AppendWrite(c) PROVE \A d \in Conn : Unmoved(d) \/ ContentAt(d)'
  <2>1. \A d \in Conn : d # c => Unmoved(d)
    BY <1>t, <1>15 DEF AppendWrite, Goto, Unmoved
  <2>2. ContentAt(c)
    BY DEF ContentOK
  <2>3. ContentAt(c)'
    <3>1. /\ pc[c] = "appendWrite" /\ pc'[c] = "send" /\ cur'[c] = cur[c]
          /\ cur[c] \in Gen /\ arg' = arg /\ arg[c] # "tool"
          /\ generations'[cur[c]] = [buf[c] EXCEPT !.content = Append(@, arg[c])]
          /\ sent' = sent /\ marks' = marks
      BY <1>t, <1>15 DEF AppendWrite, Goto, Shape, CurOK, ArgOK, Chunk
    <3>2. generations'[cur[c]].content = Append(buf[c].content, arg[c])
      BY <3>1, CopyFields
    <3>3. Quiet(cur[c]) => buf[c].content = sent[cur[c]]
      BY <2>2, <3>1 DEF ContentAt, Handler, Streaming
    <3> QED
      BY <3>1, <3>2, <3>3 DEF ContentAt, Settled, UpdateLabel, Quiet
  <2> QED
    BY <2>1, <2>3
<1>16. ASSUME NEW c \in Conn, Send(c) PROVE \A d \in Conn : Unmoved(d) \/ ContentAt(d)'
  <2>1. \A d \in Conn : d # c => Unmoved(d)
    BY <1>t, <1>16 DEF Send, Goto, Abandon, Leave, MarkGen, Unmoved
  <2>2. ContentAt(c)
    BY DEF ContentOK
  <2>3. ContentAt(c)'
    <3>1. /\ pc[c] = "send" /\ cur[c] \in Gen
          /\ arg[c] \in Chunk \cup {"tool"}
          /\ UNCHANGED generations
      BY <1>t, <1>16 DEF Send, Abandon, Leave, Shape, CurOK, ArgOK
    <3>2. CASE Abandon(c)
      BY <1>t, <3>2 DEF Abandon, Leave, Goto, ContentAt, Handler, Streaming, Recording, UpdateLabel
    <3>3. CASE ~Abandon(c)
      <4>1. /\ pc'[c] \in {"agent", "footer", "refs"} /\ cur'[c] = cur[c] /\ marks' = marks
            /\ sent' = IF arg[c] = "tool" THEN sent
                        ELSE [sent EXCEPT ![cur[c]] = Append(@, arg[c])]
        <5>1. AfterSend(arg[c]) \in {"agent", "footer", "refs"}
          BY <3>1, AfterSendCases DEF Chunk
        <5> QED
          BY <1>t, <1>16, <3>3, <5>1 DEF Send, Goto
      <4>2. Quiet(cur[c]) => generations[cur[c]].content = sent'[cur[c]]
        BY <1>t, <2>2, <3>1, <4>1 DEF ContentAt, Handler, Streaming, Settled
      <4> QED
        BY <3>1, <4>1, <4>2 DEF ContentAt, Quiet
    <3> QED
      BY <3>2, <3>3
  <2> QED
    BY <2>1, <2>3
<1>17. ASSUME NEW c \in Conn, Footer(c) PROVE \A d \in Conn : Unmoved(d) \/ ContentAt(d)'
  <2>1. \A d \in Conn : d # c => Unmoved(d)
    BY <1>t, <1>17 DEF Footer, Goto, OwnedBy, Unmoved
  <2>2. ContentAt(c)
    BY DEF ContentOK
  <2>3. ContentAt(c)'
    BY <1>t, <1>h, <1>17, <2>2 DEF Footer, Goto, OwnedBy, Shape, ArgOK, CurOK, ContentAt, Handler, Streaming, Recording, UpdateLabel, Settled, Quiet
  <2> QED
    BY <2>1, <2>3
<1>18. ASSUME NEW c \in Conn, RefsRead(c) PROVE \A d \in Conn : Unmoved(d) \/ ContentAt(d)'
  <2>1. \A d \in Conn : d # c => Unmoved(d)
    BY <1>t, <1>18 DEF RefsRead, Goto, Unmoved
  <2>2. ContentAt(c)
    BY DEF ContentOK
  <2>3. ContentAt(c)'
    BY <1>t, <1>h, <1>18, <2>2 DEF RefsRead, Goto, Shape, ArgOK, CurOK, ContentAt, Handler, Streaming, Recording, UpdateLabel, Settled, Quiet
  <2> QED
    BY <2>1, <2>3
<1>19. ASSUME NEW c \in Conn, RefsWrite(c) PROVE \A d \in Conn : Unmoved(d) \/ ContentAt(d)'
  <2>1. \A d \in Conn : d # c => Unmoved(d)
    BY <1>t, <1>19 DEF RefsWrite, Goto, Unmoved
  <2>2. ContentAt(c)
    BY DEF ContentOK
  <2>3. ContentAt(c)'
    BY <1>t, <1>h, <1>19, <2>2 DEF RefsWrite, Goto, Shape, ArgOK, CurOK, ContentAt, Handler, Streaming, Recording, UpdateLabel, Settled, Quiet
  <2> QED
    BY <2>1, <2>3
<1>20. ASSUME NEW c \in Conn, ReadAnswer(c) PROVE \A d \in Conn : Unmoved(d) \/ ContentAt(d)'
  <2>1. \A d \in Conn : d # c => Unmoved(d)
    BY <1>t, <1>20 DEF ReadAnswer, Goto, OwnedBy, Unmoved
  <2>2. ContentAt(c)
    BY DEF ContentOK
  <2>3. ContentAt(c)'
    BY <1>t, <1>h, <1>20, <2>2 DEF ReadAnswer, Goto, OwnedBy, Shape, ArgOK, CurOK, ContentAt, Handler, Streaming, Recording, UpdateLabel, Settled, Quiet
  <2> QED
    BY <2>1, <2>3
<1>21. ASSUME NEW c \in Conn, RecordTurn(c) PROVE \A d \in Conn : Unmoved(d) \/ ContentAt(d)'
  <2>1. \A d \in Conn : d # c => Unmoved(d)
    BY <1>t, <1>21 DEF RecordTurn, Goto, Unmoved
  <2>2. ContentAt(c)
    BY DEF ContentOK
  <2>3. ContentAt(c)'
    BY <1>t, <1>h, <1>21, <2>2 DEF RecordTurn, Goto, Shape, ArgOK, CurOK, ContentAt, Handler, Streaming, Recording, UpdateLabel, Settled, Quiet
  <2> QED
    BY <2>1, <2>3
<1>22. ASSUME NEW c \in Conn, Bill(c) PROVE \A d \in Conn : Unmoved(d) \/ ContentAt(d)'
  <2>1. \A d \in Conn : d # c => Unmoved(d)
    BY <1>t, <1>22 DEF Bill, Goto, Unmoved
  <2>2. ContentAt(c)
    BY DEF ContentOK
  <2>3. ContentAt(c)'
    BY <1>t, <1>h, <1>22, <2>2 DEF Bill, Goto, Shape, ArgOK, CurOK, ContentAt, Handler, Streaming, Recording, UpdateLabel, Settled, Quiet
  <2> QED
    BY <2>1, <2>3
<1>23. ASSUME NEW c \in Conn, Reply(c) PROVE \A d \in Conn : Unmoved(d) \/ ContentAt(d)'
  <2>1. \A d \in Conn : d # c => Unmoved(d)
    BY <1>t, <1>23 DEF Reply, Leave, Goto, Unmoved
  <2>2. ~Handler(c)'
    BY <1>t, <1>23 DEF Reply, Leave, Goto, Shape, ArgOK, Handler, Streaming, Recording, UpdateLabel
  <2> QED
    BY <2>1, <2>2 DEF ContentAt
<1>24. ASSUME NEW c \in Conn, TerminalRead(c) PROVE \A d \in Conn : Unmoved(d) \/ ContentAt(d)'
  <2>1. \A d \in Conn : d # c => Unmoved(d)
    BY <1>t, <1>24 DEF TerminalRead, Goto, MarkGen, Unmoved
  <2>2. ContentAt(c)
    BY DEF ContentOK
  <2>3. ContentAt(c)'
    BY <1>t, <1>h, <1>24, <2>2, AfterTerminalCases DEF TerminalRead, Goto, MarkGen, Shape, ArgOK, CurOK, ContentAt, Handler, Streaming, Recording, UpdateLabel, Settled, Quiet
  <2> QED
    BY <2>1, <2>3
<1>25. ASSUME NEW c \in Conn, TerminalWrite(c) PROVE \A d \in Conn : Unmoved(d) \/ ContentAt(d)'
  <2>1. \A d \in Conn : d # c => Unmoved(d)
    BY <1>t, <1>25 DEF TerminalWrite, Goto, MarkGen, BetweenEvents, Unmoved
  <2>2. ContentAt(c)
    BY DEF ContentOK
  <2>3. ContentAt(c)'
    BY <1>t, <1>h, <1>25, <2>2 DEF TerminalWrite, Goto, MarkGen, BetweenEvents, Shape, ArgOK, CurOK, ContentAt, Handler, Streaming, Recording, UpdateLabel, Settled, Quiet
  <2> QED
    BY <2>1, <2>3
<1>26. ASSUME NEW c \in Conn, TerminalReadActive(c) PROVE \A d \in Conn : Unmoved(d) \/ ContentAt(d)'
  <2>1. \A d \in Conn : d # c => Unmoved(d)
    BY <1>t, <1>26 DEF TerminalReadActive, Goto, Unmoved
  <2>2. ContentAt(c)
    BY DEF ContentOK
  <2>3. ContentAt(c)'
    BY <1>t, <1>h, <1>26, <2>2, AfterTerminalCases DEF TerminalReadActive, Goto, Shape, ArgOK, CurOK, ContentAt, Handler, Streaming, Recording, UpdateLabel, Settled, Quiet
  <2> QED
    BY <2>1, <2>3
<1>27. ASSUME NEW c \in Conn, TerminalDeleteActive(c) PROVE \A d \in Conn : Unmoved(d) \/ ContentAt(d)'
  <2>1. \A d \in Conn : d # c => Unmoved(d)
    BY <1>t, <1>27 DEF TerminalDeleteActive, Goto, Unmoved
  <2>2. ContentAt(c)
    BY DEF ContentOK
  <2>3. ContentAt(c)'
    BY <1>t, <1>h, <1>27, <2>2, AfterTerminalCases DEF TerminalDeleteActive, Goto, Shape, ArgOK, CurOK, ContentAt, Handler, Streaming, Recording, UpdateLabel, Settled, Quiet
  <2> QED
    BY <2>1, <2>3
<1>28. ASSUME NEW c \in Conn, Raise(c) PROVE \A d \in Conn : Unmoved(d) \/ ContentAt(d)'
  <2>1. \A d \in Conn : d # c => Unmoved(d)
    BY <1>t, <1>28 DEF Raise, Fail, Goto, TryLabel, Unmoved
  <2>2. ContentAt(c)
    BY DEF ContentOK
  <2>3. ContentAt(c)'
    BY <1>t, <1>h, <1>28, <2>2 DEF Raise, Fail, Goto, TryLabel, Shape, ArgOK, CurOK, ContentAt, Handler, Streaming, Recording, UpdateLabel, Settled, Quiet
  <2> QED
    BY <2>1, <2>3
<1>29. ASSUME NEW c \in Conn, StopLookup(c) PROVE \A d \in Conn : Unmoved(d) \/ ContentAt(d)'
  <2>1. \A d \in Conn : d # c => Unmoved(d)
    BY <1>t, <1>29 DEF StopLookup, Goto, OwnedBy, Unmoved
  <2>2. ~Handler(c)'
    BY <1>t, <1>29 DEF StopLookup, Goto, OwnedBy, Shape, ArgOK, Handler, Streaming, Recording, UpdateLabel
  <2> QED
    BY <2>1, <2>2 DEF ContentAt
<1>30. ASSUME NEW c \in Conn, StopReadActive(c) PROVE \A d \in Conn : Unmoved(d) \/ ContentAt(d)'
  <2>1. \A d \in Conn : d # c => Unmoved(d)
    BY <1>t, <1>30 DEF StopReadActive, Goto, Unmoved
  <2>2. ~Handler(c)'
    BY <1>t, <1>30 DEF StopReadActive, Goto, Shape, ArgOK, Handler, Streaming, Recording, UpdateLabel
  <2> QED
    BY <2>1, <2>2 DEF ContentAt
<1>31. ASSUME NEW c \in Conn, StopGet(c) PROVE \A d \in Conn : Unmoved(d) \/ ContentAt(d)'
  <2>1. \A d \in Conn : d # c => Unmoved(d)
    BY <1>t, <1>31 DEF StopGet, Goto, Leave, OwnedBy, Unmoved
  <2>2. ~Handler(c)'
    BY <1>t, <1>31 DEF StopGet, Goto, Leave, OwnedBy, Shape, ArgOK, Handler, Streaming, Recording, UpdateLabel
  <2> QED
    BY <2>1, <2>2 DEF ContentAt
<1>32. ASSUME NEW c \in Conn, Die(c) PROVE \A d \in Conn : Unmoved(d) \/ ContentAt(d)'
  <2>1. \A d \in Conn : d # c => Unmoved(d)
    BY <1>t, <1>32 DEF Die, Fail, Leave, Goto, MarkGen, Unmoved
  <2>2. ~Handler(c)'
    BY <1>t, <1>32 DEF Die, Fail, Leave, Goto, MarkGen, Shape, ArgOK, Handler, Streaming, Recording, UpdateLabel
  <2> QED
    BY <2>1, <2>2 DEF ContentAt
<1>33. ASSUME NEW g \in Gen, LapseGeneration(g) PROVE \A d \in Conn : Unmoved(d) \/ ContentAt(d)'
  BY <1>33 DEF LapseGeneration, Unmoved
<1>34. ASSUME NEW u \in User, LapseActive(u) PROVE \A d \in Conn : Unmoved(d) \/ ContentAt(d)'
  BY <1>34 DEF LapseActive, Unmoved
<1>35. CASE UNCHANGED vars
  BY <1>35 DEF vars, Unmoved
<1>36. QED
  BY <1>1, <1>2, <1>3, <1>4, <1>5, <1>6, <1>7, <1>8, <1>9, <1>10, <1>11, <1>12, <1>13, <1>14, <1>15, <1>16, <1>17, <1>18, <1>19, <1>20, <1>21, <1>22, <1>23, <1>24, <1>25, <1>26, <1>27, <1>28, <1>29, <1>30, <1>31, <1>32, <1>33, <1>34, <1>35
  DEF Next, Handle, Client, Fault, AgentEvent, StoreCall

(* Nobody else disturbs the content a handler relies on, but a stop or an  *)
(* expiry, which the history shows.                                        *)
LEMMA ContentStep ==
  /\ Shape /\ FreshOK /\ OwnerOK /\ OneHandler /\ ActivationOK /\ StopMarked
  /\ ContentOK /\ [Next]_vars
  => ContentOK'
<1> SUFFICES ASSUME Shape, FreshOK, OwnerOK, OneHandler, ActivationOK, StopMarked, ContentOK,
                    [Next]_vars, NEW d \in Conn
             PROVE  ContentAt(d)'
  BY DEF ContentOK
<1>1. CASE ~Unmoved(d)
  BY <1>1, OwnContentStep
<1>2. CASE Unmoved(d) /\ Handler(d)' /\ Quiet(cur[d])'
  <2>0. PICK g \in Gen : g = cur[d]
    BY <1>2 DEF Unmoved, Handler, Streaming, Recording, UpdateLabel, Shape, CurOK
  <2>1. Handler(d) /\ MarksGrow /\ SentFrom(g) /\ GenFrom(g)
    BY <1>2, <2>0, MarksStep, SentStep, GenFromStep DEF Unmoved, Handler
  <2>2. \A e \in Conn : Handler(e) /\ cur[e] = g => e = d
    BY <2>0, <2>1 DEF OneHandler
  <2>3. /\ Quiet(g)
        /\ "lapsed" \notin marks'[g] /\ "stopped" \notin marks[g]
    BY <1>2, <2>0, <2>1 DEF Quiet, MarksGrow, Unmoved
  <2>4. sent'[g] = sent[g]
    BY <1>2, <2>1, <2>2 DEF SentFrom, Handler, Streaming, Unmoved
  <2>5. generations'[g] = generations[g]
    <3>1. ASSUME NEW e \in Conn, cur[e] = g, pc[e] = "termWrite"
          PROVE  e = d
      <4>1. arg[e] # "CANCELLED"
        BY <2>3, <3>1 DEF StopMarked
      <4> QED
        BY <2>2, <3>1, <4>1 DEF Handler, UpdateLabel
    <3>2. ASSUME NEW e \in Conn, cur[e] = g, pc[e] \in {"create", "appendWrite", "refsWrite"}
          PROVE  e = d
      BY <2>2, <3>2 DEF Handler, Streaming
    <3> QED
      BY <1>2, <2>1, <2>3, <3>1, <3>2 DEF GenFrom, Unmoved
  <2>6. ContentAt(d)
    BY DEF ContentOK
  <2> QED
    BY <1>2, <2>0, <2>1, <2>3, <2>4, <2>5, <2>6 DEF ContentAt, Unmoved, Settled
<1>3. CASE ~(Handler(d)' /\ Quiet(cur[d])')
  BY <1>3 DEF ContentAt
<1> QED
  BY <1>1, <1>2, <1>3

(* After a clean stop the handler finds the generation stopped before it   *)
(* touches the answer.                                                     *)
LEMMA CleanStep ==
  /\ Shape /\ Shape' /\ FreshOK /\ OneHandler /\ EarlyOK /\ CleanOK /\ [Next]_vars
  => CleanOK'
<1> SUFFICES ASSUME Shape, Shape', FreshOK, OneHandler, EarlyOK, CleanOK, [Next]_vars,
                    NEW g \in Gen, "clean" \in marks'[g]
             PROVE  /\ Silent(g)'
                    /\ \A c \in Conn : Handler(c)' /\ cur'[c] = g =>
                         /\ pc'[c] \notin {"create", "activate", "start"}
                         /\ pc'[c] \in {"agent", "check"} => ~HasStatus(g, {"STREAMING"})'
                         /\ pc'[c] \in {"append", "appendWrite", "send"} => arg'[c] = "footer"
  BY DEF CleanOK
<1>1. CleanFrom(g) /\ GenFrom(g)
  BY CleanFromStep, GenFromStep
<1>2. "footer" \notin Answer
  BY GenerationAssumption
<1>3. \A c \in Conn : pc[c] = "termWrite" =>
        [buf[c] EXCEPT !.status = arg[c]].status = arg[c] /\ arg[c] \in Terminal
  BY CopyFields
<1>4. CASE "clean" \in marks[g]
  <2>1. Silent(g)'
    <3>1. Silent(g)
      BY <1>4 DEF CleanOK
    <3>2. \A c \in Conn : cur[c] = g /\ pc[c] \in {"append", "appendWrite", "send"} =>
            arg[c] \notin Answer
      BY <1>2, <1>4 DEF CleanOK, Handler, Streaming
    <3> QED
      BY <3>1, <3>2, SilentStep
  <2>2. ASSUME NEW c \in Conn, Handler(c)', cur'[c] = g
        PROVE  /\ pc'[c] \notin {"create", "activate", "start"}
               /\ pc'[c] \in {"agent", "check"} => ~HasStatus(g, {"STREAMING"})'
               /\ pc'[c] \in {"append", "appendWrite", "send"} => arg'[c] = "footer"
    <3>1. Lineage(c) /\ TextFrom(c)
      BY HandlerStep, TextStep
    <3>2. owner[g] # NoUser
      BY <1>4 DEF FreshOK
    <3>3. Handler(c) /\ cur[c] = g
      BY <2>2, <3>1, <3>2 DEF Lineage
    <3>4. /\ pc[c] \notin {"create", "activate", "start", "prepare"}
          /\ pc[c] \in {"agent", "check"} => ~HasStatus(g, {"STREAMING"})
          /\ pc[c] \in {"append", "appendWrite", "send"} => arg[c] = "footer"
      BY <1>4, <3>3 DEF CleanOK, Handler, Streaming, Recording, UpdateLabel
    <3>5. pc[c] \in {"agent", "check"} => ~HasStatus(g, {"STREAMING"})'
      <4> SUFFICES ASSUME pc[c] \in {"agent", "check"}
                   PROVE  ~HasStatus(g, {"STREAMING"})'
        OBVIOUS
      <4>1. \A e \in Conn : cur[e] = g => pc[e] \notin {"create", "appendWrite", "refsWrite"}
        BY <3>3 DEF OneHandler, Handler, Streaming
      <4> QED
        BY <1>1, <1>3, <3>4, <4>1 DEF GenFrom, HasStatus, Terminal
    <3> QED
      BY <3>1, <3>3, <3>4, <3>5 DEF TextFrom
  <2> QED
    BY <2>1, <2>2
<1>5. ASSUME NEW c \in Conn, pc[c] = "termWrite", cur[c] = g, arg[c] = "CANCELLED",
             generations'[g] = [buf[c] EXCEPT !.status = arg[c]],
             \A d \in Conn : d # c => pc'[d] = pc[d],
             NEW e \in Conn, pc[e] \in {"agent", "check"}, cur[e] = g
      PROVE  /\ Silent(g)'
             /\ \A d \in Conn : Handler(d)' /\ cur'[d] = g =>
                  d = e /\ pc'[d] = pc[d] /\ ~HasStatus(g, {"STREAMING"})'
  <2>1. Handler(e) /\ Early(e)
    BY <1>5 DEF Handler, Streaming, Early
  <2>2. Silent(g)'
    <3>1. Silent(g)
      BY <1>5, <2>1 DEF EarlyOK
    <3>2. \A d \in Conn : cur[d] = g => pc[d] \notin {"append", "appendWrite", "send"}
      BY <1>5, <2>1 DEF OneHandler, Handler, Streaming
    <3> QED
      BY <3>1, <3>2, SilentStep
  <2>3. ASSUME NEW d \in Conn, Handler(d)', cur'[d] = g
        PROVE  d = e /\ pc'[d] = pc[d]
    <3>1. owner[g] # NoUser
      BY <1>5 DEF FreshOK
    <3>2. Handler(d) /\ cur[d] = g
      BY <2>3, <3>1, HandlerStep DEF Lineage
    <3> QED
      BY <1>5, <2>1, <3>2 DEF OneHandler
  <2>4. ~HasStatus(g, {"STREAMING"})'
    BY <1>3, <1>5 DEF HasStatus
  <2> QED
    BY <2>2, <2>3, <2>4
<1>6. CASE "clean" \notin marks[g]
  <2>1. PICK c \in Conn : /\ pc[c] = "termWrite" /\ cur[c] = g /\ arg[c] = "CANCELLED"
                          /\ generations'[g] = [buf[c] EXCEPT !.status = arg[c]]
                          /\ \A d \in Conn : d # c => pc'[d] = pc[d]
    BY <1>1, <1>6 DEF CleanFrom
  <2>2. PICK e \in Conn : pc[e] \in {"agent", "check"} /\ cur[e] = g
    BY <1>1, <1>6 DEF CleanFrom, BetweenEvents
  <2>3. /\ Silent(g)'
        /\ \A d \in Conn : Handler(d)' /\ cur'[d] = g =>
             d = e /\ pc'[d] = pc[d] /\ ~HasStatus(g, {"STREAMING"})'
    BY <1>5, <2>1, <2>2
  <2> QED
    BY <2>2, <2>3
<1> QED
  BY <1>4, <1>6

(***************************************************************************)
(* The theorems.                                                           *)
(***************************************************************************)
LEMMA InvInit == Init => Inv
<1> SUFFICES ASSUME Init PROVE Inv
  OBVIOUS
<1>1. Shape
  BY ShapeInit
<1>2. /\ FreshOK /\ OwnerOK /\ OneHandler /\ ActivationOK
  BY DEF Init, FreshOK, OwnerOK, OneHandler, ActivationOK, HasStatus, Handler,
         Streaming, Recording, UpdateLabel
<1>3. /\ UnfinishedOK /\ PointerOK /\ StreamingIsServed
      /\ TurnOK /\ ContentOK /\ StopMarked /\ RecordedIsSent
  BY DEF Init, UnfinishedOK, Unfinished, PointerOK, StreamingIsServed, TurnOK, ContentOK,
         ContentAt, StopMarked, RecordedIsSent, HasStatus, Handler, Streaming, Recording,
         UpdateLabel
<1>4. EarlyOK /\ CleanOK
  BY DEF Init, EarlyOK, Early, CleanOK
<1> QED
  BY <1>1, <1>2, <1>3, <1>4 DEF Inv

(* Every step keeps the invariant.                                          *)
LEMMA InvStep == Inv /\ [Next]_vars => Inv'
<1> SUFFICES ASSUME Inv, [Next]_vars PROVE Inv'
  OBVIOUS
<1>1. Shape /\ Shape'
  BY ShapeStep DEF Inv
<1>2. /\ FreshOK /\ OwnerOK /\ OneHandler /\ ActivationOK
      /\ UnfinishedOK /\ PointerOK /\ StreamingIsServed
      /\ TurnOK /\ ContentOK /\ StopMarked /\ RecordedIsSent
      /\ EarlyOK /\ CleanOK
  BY DEF Inv
<1>3. FreshOK' /\ OwnerOK' /\ OneHandler' /\ ActivationOK'
  BY <1>1, <1>2, FreshStep, OwnerStep, OneHandlerStep, ActivationStep
<1>4. UnfinishedOK' /\ PointerOK' /\ StreamingIsServed'
  BY <1>1, <1>2, UnfinishedStep, PointerStep, StreamingStep
<1>5. TurnOK' /\ ContentOK' /\ StopMarked' /\ RecordedIsSent'
  BY <1>1, <1>2, TurnStep, ContentStep, StopMarkedStep, RecordedStep
<1>6. EarlyOK' /\ CleanOK'
  BY <1>1, <1>2, EarlyStep, CleanStep
<1> QED
  BY <1>1, <1>3, <1>4, <1>5, <1>6 DEF Inv

(* The inductive invariant: in every reachable state the handlers, the     *)
(* copies they hold, the Redis keys and the committed turns agree.         *)
THEOREM Invariance == Spec => []Inv
BY InvInit, InvStep, PTL DEF Spec

(* websocket_handler never leaves a STREAMING snapshot without a handler   *)
(* that will end it, unless its client is lost or its process dies.        *)
THEOREM StreamingServed == Spec => []StreamingIsServed
<1>1. Inv => StreamingIsServed
  BY DEF Inv
<1> QED
  BY <1>1, Invariance, PTL

(* _update_terminal_state leaves no active pointer on a finished           *)
(* generation, whatever the interleaving of completion and stop.           *)
THEOREM PointerFresh == Spec => []PointerNotStale
<1>1. Inv => PointerNotStale
  BY DEF Inv, PointerOK, PointerNotStale
<1> QED
  BY <1>1, Invariance, PTL

(* The turn record_turn commits is the text that was sent, when no stop    *)
(* and no expiry touched the snapshot.                                     *)
THEOREM RecordedSent == Spec => []RecordedIsSent
<1>1. Inv => RecordedIsSent
  BY DEF Inv
<1> QED
  BY <1>1, Invariance, PTL

(* A stop written while the handler waits for the agent suppresses the     *)
(* whole answer, in the client, the store and the conversation.            *)
THEOREM CleanStop == Spec => []CleanStopHonoured
<1>1. Inv => CleanStopHonoured
  BY DEF Inv, CleanOK, Silent, CleanStopHonoured
<1> QED
  BY <1>1, Invariance, PTL

(* mark_completed, mark_failed and mark_cancelled only ever update a       *)
(* generation of the user of the connection.                               *)
THEOREM OwnUpdates == Spec => []UpdatesOwnGeneration
<1>1. Inv => UpdatesOwnGeneration
  <2> SUFFICES ASSUME Inv, NEW c \in Conn, Updating(c)
               PROVE  /\ cur[c] \in Gen
                      /\ owner[cur[c]] = UserOf[c]
                      /\ buf[c] # Absent => buf[c].user = UserOf[c]
    BY DEF UpdatesOwnGeneration
  <2> QED
    BY DEF Inv, Shape, CurOK, OwnerOK, Updating, UpdateLabel
<1> QED
  BY <1>1, Invariance, PTL

(* No step puts STREAMING back over COMPLETED or FAILED, although every    *)
(* store method writes back a whole copy it read earlier.                  *)
THEOREM NeverReopens == Spec => FinishedNeverReopens
<1>1. Inv /\ [Next]_vars =>
        [\A g \in Gen : HasStatus(g, {"COMPLETED", "FAILED"}) =>
           ~HasStatus(g, {"STREAMING"})']_vars
  BY FinishedStep DEF Inv
<1> QED
  BY <1>1, Invariance, PTL DEF Spec, FinishedNeverReopens
=============================================================================
