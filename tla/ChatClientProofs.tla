-------------------------- MODULE ChatClientProofs --------------------------
(***************************************************************************)
(* The proofs about the page of the chat: ChatInv is inductive.  With it   *)
(* no answer is on screen twice, nothing spins when the server has said    *)
(* all, and the next question goes to the conversation on screen.          *)
(***************************************************************************)
EXTENDS ChatClient, FiniteSetTheorems, SequenceTheorems, TLAPS

-----------------------------------------------------------------------------
(* Sequences: the elements of one, one more, the first or the last less,   *)
(* two more, one changed.                                                  *)

LEMMA SeqIs ==
  ASSUME NEW S, NEW s \in Seq(S)
  PROVE  DOMAIN s = 1..Len(s) /\ Len(s) \in Nat /\ (\A k \in DOMAIN s : s[k] \in S)
         /\ (s = <<>> <=> Len(s) = 0)
<1>1. DOMAIN s = 1..Len(s) /\ Len(s) \in Nat /\ \A k \in DOMAIN s : s[k] \in S
  BY LenProperties, ElementOfSeq
<1>2. s = <<>> <=> Len(s) = 0
  BY EmptySeq
<1> QED
  BY <1>1, <1>2

LEMMA Appended ==
  ASSUME NEW S, NEW s \in Seq(S), NEW x \in S
  PROVE  /\ Append(s, x) \in Seq(S) /\ Len(Append(s, x)) = Len(s) + 1
         /\ DOMAIN Append(s, x) = DOMAIN s \cup {Len(s) + 1}
         /\ Append(s, x)[Len(s) + 1] = x
         /\ \A k \in DOMAIN s : k < Len(s) + 1 /\ Append(s, x)[k] = s[k]
<1>1. DOMAIN s = 1..Len(s) /\ Len(s) \in Nat
  BY SeqIs
<1>2. Append(s, x) \in Seq(S) /\ Len(Append(s, x)) = Len(s) + 1
  BY AppendProperties
<1>3. DOMAIN Append(s, x) = 1..(Len(s) + 1)
  BY <1>2, LenProperties
<1>4. Append(s, x)[Len(s) + 1] = x
  BY AppendProperties
<1>5. \A k \in 1..Len(s) : Append(s, x)[k] = s[k]
  BY AppendProperties
<1> QED
  BY <1>1, <1>2, <1>3, <1>4, <1>5

LEMMA Tailed ==
  ASSUME NEW S, NEW s \in Seq(S), s # <<>>
  PROVE  /\ Tail(s) \in Seq(S) /\ Len(Tail(s)) = Len(s) - 1 /\ Len(s) >= 1
         /\ Head(s) = s[1] /\ Head(s) \in S /\ 1 \in DOMAIN s
         /\ DOMAIN Tail(s) = 1..(Len(s) - 1)
         /\ \A k \in DOMAIN Tail(s) : k + 1 \in DOMAIN s /\ Tail(s)[k] = s[k + 1]
         /\ \A k \in DOMAIN s : k # 1 => k - 1 \in DOMAIN Tail(s) /\ Tail(s)[k - 1] = s[k]
<1>1. DOMAIN s = 1..Len(s) /\ Len(s) \in Nat /\ Len(s) # 0
  BY SeqIs
<1>2. Tail(s) \in Seq(S) /\ Len(Tail(s)) = Len(s) - 1
      /\ \A k \in 1..Len(Tail(s)) : Tail(s)[k] = s[k + 1]
  BY HeadTailProperties
<1>3. Head(s) = s[1] /\ Head(s) \in S
  BY HeadTailProperties
<1>4. DOMAIN Tail(s) = 1..(Len(s) - 1)
  BY <1>2, LenProperties
<1>5. \A k \in 1..(Len(s) - 1) : k + 1 \in DOMAIN s /\ Tail(s)[k] = s[k + 1]
  BY <1>1, <1>2
<1>6. ASSUME NEW k \in DOMAIN s, k # 1
      PROVE  k - 1 \in 1..(Len(s) - 1) /\ Tail(s)[k - 1] = s[k]
  <2>1. k - 1 \in 1..(Len(s) - 1) /\ (k - 1) + 1 = k
    BY <1>1, <1>6
  <2> QED
    BY <1>5, <2>1
<1> QED
  BY <1>1, <1>2, <1>3, <1>4, <1>5, <1>6

LEMMA Fronted ==
  ASSUME NEW S, NEW s \in Seq(S), s # <<>>
  PROVE  /\ Front(s) \in Seq(S) /\ Len(Front(s)) = Len(s) - 1 /\ Len(s) >= 1
         /\ DOMAIN Front(s) = 1..(Len(s) - 1)
         /\ Last(s) = s[Len(s)] /\ Len(s) \in DOMAIN s /\ Last(s) \in S
         /\ \A k \in DOMAIN Front(s) : k \in DOMAIN s /\ k < Len(s) /\ Front(s)[k] = s[k]
<1>1. DOMAIN s = 1..Len(s) /\ Len(s) \in Nat /\ Len(s) # 0
  BY SeqIs
<1>2. Front(s) \in Seq(S) /\ Len(Front(s)) = Len(s) - 1
      /\ \A k \in 1..(Len(s) - 1) : Front(s)[k] = s[k]
  BY <1>1 DEF Front
<1>3. DOMAIN Front(s) = 1..(Len(s) - 1)
  BY <1>2, LenProperties
<1>4. Last(s) = s[Len(s)] /\ Len(s) \in DOMAIN s /\ Last(s) \in S
  BY <1>1, SeqIs DEF Last
<1> QED
  BY <1>1, <1>2, <1>3, <1>4

LEMMA Doubled ==
  ASSUME NEW S, NEW s \in Seq(S), NEW x \in S, NEW y \in S
  PROVE  /\ s \o <<x, y>> \in Seq(S) /\ Len(s \o <<x, y>>) = Len(s) + 2
         /\ DOMAIN (s \o <<x, y>>) = DOMAIN s \cup {Len(s) + 1, Len(s) + 2}
         /\ (s \o <<x, y>>)[Len(s) + 1] = x /\ (s \o <<x, y>>)[Len(s) + 2] = y
         /\ \A k \in DOMAIN s : k < Len(s) + 1 /\ (s \o <<x, y>>)[k] = s[k]
<1>1. DOMAIN s = 1..Len(s) /\ Len(s) \in Nat
  BY SeqIs
<1> DEFINE t == <<x, y>>
<1>2. t \in Seq(S) /\ Len(t) = 2 /\ t[1] = x /\ t[2] = y
  OBVIOUS
<1> HIDE DEF t
<1>3. s \o t \in Seq(S) /\ Len(s \o t) = Len(s) + 2
      /\ \A i \in 1..(Len(s) + 2) :
           (s \o t)[i] = IF i <= Len(s) THEN s[i] ELSE t[i - Len(s)]
  <2>1. s \o t \in Seq(S) /\ Len(s \o t) = Len(s) + Len(t)
        /\ \A i \in 1..(Len(s) + Len(t)) :
             (s \o t)[i] = IF i <= Len(s) THEN s[i] ELSE t[i - Len(s)]
    BY <1>2, ConcatProperties
  <2> QED
    BY <1>2, <2>1
<1>4. DOMAIN (s \o t) = 1..(Len(s) + 2)
  BY <1>3, LenProperties
<1>5. (s \o t)[Len(s) + 1] = x /\ (s \o t)[Len(s) + 2] = y
  <2>1. (Len(s) + 1) - Len(s) = 1 /\ (Len(s) + 2) - Len(s) = 2
        /\ ~(Len(s) + 1 <= Len(s)) /\ ~(Len(s) + 2 <= Len(s))
        /\ Len(s) + 1 \in 1..(Len(s) + 2) /\ Len(s) + 2 \in 1..(Len(s) + 2)
    BY <1>1
  <2> QED
    BY <1>2, <1>3, <2>1
<1>6. \A k \in DOMAIN s : k < Len(s) + 1 /\ (s \o t)[k] = s[k]
  BY <1>1, <1>3
<1> QED
  BY <1>1, <1>3, <1>4, <1>5, <1>6 DEF t

LEMMA Changed ==
  ASSUME NEW S, NEW s \in Seq(S), NEW i \in DOMAIN s, NEW x \in S
  PROVE  /\ [s EXCEPT ![i] = x] \in Seq(S) /\ Len([s EXCEPT ![i] = x]) = Len(s)
         /\ DOMAIN [s EXCEPT ![i] = x] = DOMAIN s
         /\ [s EXCEPT ![i] = x][i] = x
         /\ \A k \in DOMAIN s : k # i => [s EXCEPT ![i] = x][k] = s[k]
<1>1. DOMAIN s = 1..Len(s) /\ Len(s) \in Nat
  BY SeqIs
<1>2. [s EXCEPT ![i] = x] \in Seq(S) /\ Len([s EXCEPT ![i] = x]) = Len(s)
  BY <1>1, ExceptSeq
<1> QED
  BY <1>1, <1>2

(* The last message of a list.                                             *)
LEMMA Lasts ==
  ASSUME NEW l \in Seq(Message), l # <<>>
  PROVE  Last(l) = l[Len(l)] /\ Len(l) \in DOMAIN l /\ Last(l) \in Message
BY Fronted

-----------------------------------------------------------------------------
(* The list as the page reads it.                                          *)

Single(l) ==
  \A i, j \in DOMAIN l :
    /\ l[i].role = "assistant" /\ l[j].role = "assistant"
    /\ l[i].gen = l[j].gen /\ l[i].gen # NoGen
    => i = j

(* No answer of l is g's.                                                  *)
Absent(l, g) == g = NoGen \/ \A k \in DOMAIN l : l[k].role = "assistant" => l[k].gen # g

LEMMA LastOfSingle ==
  ASSUME NEW i \in Nat
  PROVE  LastOf({i}) = i
BY DEF LastOf

LEMMA LastOfIn ==
  ASSUME NEW I, LastOf(I) # 0
  PROVE  LastOf(I) \in I
BY DEF LastOf

LEMMA AnswerIs ==
  ASSUME NEW l \in Seq(Message), Single(l), NEW g
  PROVE  /\ AnswerOf(l, g) = 0 => Absent(l, g)
         /\ AnswerOf(l, g) # 0 =>
              /\ AnswerOf(l, g) \in DOMAIN l /\ g # NoGen
              /\ l[AnswerOf(l, g)].role = "assistant" /\ l[AnswerOf(l, g)].gen = g
<1>1. DOMAIN l = 1..Len(l) /\ Len(l) \in Nat
  BY SeqIs
<1>2. ASSUME AnswerOf(l, g) # 0
      PROVE  AnswerOf(l, g) \in Answers(l, g)
  BY <1>2, LastOfIn DEF AnswerOf
<1>3. ASSUME NEW k \in Answers(l, g)
      PROVE  AnswerOf(l, g) = k /\ k # 0
  <2>1. Answers(l, g) = {k}
    BY DEF Answers, Single
  <2>2. k \in Nat /\ k # 0
    BY <1>1 DEF Answers
  <2> QED
    BY <2>1, <2>2, LastOfSingle DEF AnswerOf
<1>4. AnswerOf(l, g) = 0 => Absent(l, g)
  BY <1>3 DEF Answers, Absent
<1> QED
  BY <1>2, <1>4 DEF Answers

LEMMA FindIs ==
  ASSUME NEW l \in Seq(Message), Single(l), NEW g
  PROVE  LET i == findAssistantMessage(l, g) IN
         /\ i = 0 => Absent(l, g) /\ (l = <<>> \/ Last(l).role = "user")
         /\ i # 0 =>
              /\ i \in DOMAIN l /\ l[i].role = "assistant"
              /\ \/ l[i].gen = g /\ g # NoGen
                 \/ Absent(l, g) /\ i = Len(l)
<1>1. CASE AnswerOf(l, g) # 0
  BY <1>1, AnswerIs DEF findAssistantMessage
<1>2. CASE AnswerOf(l, g) = 0 /\ l # <<>>
  <2>1. Last(l) = l[Len(l)] /\ Len(l) \in DOMAIN l /\ Last(l) \in Message
    BY <1>2, Lasts
  <2>2. Len(l) # 0
    BY <1>2, SeqIs
  <2>3. Last(l).role \in {"user", "assistant"}
    BY <2>1 DEF Message
  <2> QED
    BY <1>2, <2>1, <2>2, <2>3, AnswerIs DEF findAssistantMessage
<1>3. CASE AnswerOf(l, g) = 0 /\ l = <<>>
  BY <1>3, AnswerIs DEF findAssistantMessage
<1> QED
  BY <1>1, <1>2, <1>3

LEMMA PendingIs ==
  ASSUME TypeOK
  PROVE  /\ getPendingGenerationId \in Gen \cup {NoGen}
         /\ getPendingGenerationId \in Gens(list) \cup {NoGen}
<1> DEFINE I == {k \in DOMAIN list : Unsettled(list[k]) /\ list[k].gen # NoGen}
<1>1. LastOf(I) = 0 \/ LastOf(I) \in I
  BY LastOfIn
<1>2. \A k \in DOMAIN list : list[k].gen \in Gen \cup {NoGen}
  <2>1. \A k \in DOMAIN list : list[k] \in Message
    BY SeqIs DEF TypeOK
  <2> QED
    BY <2>1 DEF Message
<1>3. getPendingGenerationId = IF LastOf(I) = 0 THEN NoGen ELSE list[LastOf(I)].gen
  BY DEF getPendingGenerationId
<1> QED
  BY <1>1, <1>2, <1>3 DEF Gens

(* What an event leaves of an answer.                                      *)
LEMMA HandledIs ==
  ASSUME NEW m \in Message, NEW e \in Events, e.type # "connection"
  PROVE  /\ Handled(m, e) \in Message /\ Handled(m, e).role = m.role
         /\ Handled(m, e).gen = IF e.type = "start" THEN e.gen ELSE m.gen
         /\ e.type = "start" =>
              Handled(m, e).status = m.status /\ Handled(m, e).executing = m.executing
         /\ e.type \notin Body =>
              Handled(m, e).status \in {"finished", "error"} /\ ~Handled(m, e).executing
<1>1. m \in [role : {"user", "assistant"}, gen : Gen \cup {NoGen}, status : MessageStatus,
              text : BOOLEAN, executing : BOOLEAN]
  BY DEF Message
<1>2. e.gen \in Gen \cup {NoGen} /\ (e.type = "start" => e.gen \in Gen)
      /\ e.type \in {"start", "chunk", "tool_executing", "tool_success", "completion", "stop", "error"}
  BY DEF Events, Body
<1>3. CASE e.type = "start"
  <2>1. Handled(m, e) = [m EXCEPT !.gen = e.gen]
    BY <1>3 DEF Handled
  <2> QED
    BY <1>1, <1>2, <1>3, <2>1 DEF Message, Body
<1>4. CASE e.type = "chunk"
  <2>1. Handled(m, e) = [m EXCEPT !.status = "loading", !.text = TRUE]
    BY <1>4 DEF Handled
  <2> QED
    BY <1>1, <1>4, <2>1 DEF Message, Body, MessageStatus
<1>5. CASE e.type = "tool_executing"
  <2>1. Handled(m, e) = [m EXCEPT !.status = "loading", !.executing = TRUE]
    BY <1>5 DEF Handled
  <2> QED
    BY <1>1, <1>5, <2>1 DEF Message, Body, MessageStatus
<1>6. CASE e.type = "tool_success"
  <2>1. Handled(m, e) = [m EXCEPT !.status = "loading", !.executing = FALSE]
    BY <1>6 DEF Handled
  <2> QED
    BY <1>1, <1>6, <2>1 DEF Message, Body, MessageStatus
<1>7. CASE e.type \in {"completion", "stop"}
  <2>1. Handled(m, e) = updateExecutingToolStatus(
          [m EXCEPT !.status = IF m.status = "error" THEN m.status ELSE "finished"])
    BY <1>7 DEF Handled
  <2> QED
    BY <1>1, <1>7, <2>1 DEF Message, Body, MessageStatus, updateExecutingToolStatus
<1>8. CASE e.type = "error"
  <2>1. Handled(m, e) = updateExecutingToolStatus([m EXCEPT !.status = "error", !.text = TRUE])
    BY <1>8 DEF Handled
  <2> QED
    BY <1>1, <1>8, <2>1 DEF Message, Body, MessageStatus, updateExecutingToolStatus
<1> QED
  BY <1>2, <1>3, <1>4, <1>5, <1>6, <1>7, <1>8

LEMMA NewMessages ==
  /\ User \in Message /\ User.role = "user" /\ User.gen = NoGen /\ User.status = "none"
  /\ User.text /\ ~User.executing
  /\ \A g \in Gen \cup {NoGen}, s \in MessageStatus, text \in BOOLEAN :
       /\ Assistant(g, s, text) \in Message /\ Assistant(g, s, text).role = "assistant"
       /\ Assistant(g, s, text).gen = g /\ Assistant(g, s, text).status = s
       /\ ~Assistant(g, s, text).executing
BY DEF User, Assistant, Message, MessageStatus

(* A snapshot changes the answer of its generation, or adds a pair.        *)
LEMMA SnapshotIs ==
  ASSUME NEW l \in Seq(Message), Single(l), NEW g \in Gen, status[g] \in GenerationStatus,
         NEW text \in BOOLEAN
  PROVE  LET u == upsertGenerationSnapshot(l, g, text)
             i == AnswerOf(l, g)
             s == mapGenerationStatus(status[g])
         IN /\ u \in Seq(Message) /\ s \in {"loading", "finished", "error"}
            /\ status[g] # "STREAMING" => s # "loading"
            /\ i # 0 =>
                 /\ i \in DOMAIN l /\ Len(u) = Len(l) /\ DOMAIN u = DOMAIN l
                 /\ \A k \in DOMAIN l : k # i => u[k] = l[k]
                 /\ u[i].role = "assistant" /\ l[i].role = "assistant"
                 /\ u[i].gen = g /\ l[i].gen = g
                 /\ u[i].status = s /\ u[i].executing = l[i].executing
            /\ i = 0 =>
                 /\ Absent(l, g)
                 /\ u = l \o <<User, Assistant(g, s, text)>>
<1> DEFINE u == upsertGenerationSnapshot(l, g, text)
           i == AnswerOf(l, g)
           s == mapGenerationStatus(status[g])
<1>1. s \in {"loading", "finished", "error"} /\ (status[g] # "STREAMING" => s # "loading")
  BY DEF mapGenerationStatus, GenerationStatus
<1>2. s \in MessageStatus
  BY <1>1 DEF MessageStatus
<1>3. CASE i # 0
  <2>1. i \in DOMAIN l /\ l[i].role = "assistant" /\ l[i].gen = g /\ l[i] \in Message
    BY <1>3, AnswerIs, SeqIs
  <2> DEFINE m == [l[i] EXCEPT !.status = s, !.text = l[i].text \/ text]
  <2>2. m \in Message /\ m.role = "assistant" /\ m.gen = g /\ m.status = s
        /\ m.executing = l[i].executing
    BY <1>2, <2>1 DEF Message
  <2>3. u = [l EXCEPT ![i] = m]
    BY <1>3, <2>1 DEF upsertGenerationSnapshot
  <2> HIDE DEF m, u, i, s
  <2>4. /\ u \in Seq(Message) /\ Len(u) = Len(l) /\ DOMAIN u = DOMAIN l /\ u[i] = m
        /\ \A k \in DOMAIN l : k # i => u[k] = l[k]
    BY <2>1, <2>2, <2>3, Changed
  <2> QED
    BY <1>1, <1>3, <2>1, <2>2, <2>4 DEF u, i, s
<1>4. CASE i = 0
  <2>1. Absent(l, g)
    BY <1>4, AnswerIs
  <2>2. u = l \o <<User, Assistant(g, s, text)>>
    BY <1>4 DEF upsertGenerationSnapshot
  <2> HIDE DEF u, i, s
  <2>3. u \in Seq(Message)
    BY <1>2, <2>2, NewMessages, Doubled
  <2> QED
    BY <1>1, <1>4, <2>1, <2>2, <2>3 DEF u, i, s
<1> QED
  BY <1>3, <1>4

-----------------------------------------------------------------------------
(* The calls.                                                              *)

LEMMA CallIs ==
  ASSUME NEW c \in Calls
  PROVE  /\ c.kind \in Kind /\ c.then \in Conv \cup {NoConv} /\ c.served \in BOOLEAN
         /\ c.kind = "sessions" => c = CallThen("sessions", NoConv, c.then)
         /\ c.kind = "messages" => c.arg \in Conv \cup {NoConv} /\ c = CallThen("messages", c.arg, c.then)
         /\ c.kind = "switch" => c.arg \in Conv
         /\ c.kind \in {"archive", "unarchive"} => c.arg \in Conv
         /\ c.kind \in {"sync", "check"} => c.arg \in Gen \cup {NoGen}
         /\ c.then # NoConv => c.kind \in {"sessions", "messages", "switch"}
         /\ c.served => c.kind = "switch"
BY DEF Calls, Kind, CallThen

LEMMA NewCalls ==
  /\ \A t \in Conv \cup {NoConv} : CallThen("sessions", NoConv, t) \in Calls
  /\ \A d, t \in Conv \cup {NoConv} : CallThen("messages", d, t) \in Calls
  /\ \A d \in Conv, t \in Conv \cup {NoConv} : CallThen("switch", d, t) \in Calls
  /\ Call("create", NoConv) \in Calls /\ Call("token", NoGen) \in Calls
  /\ \A d \in Conv : Call("archive", d) \in Calls /\ Call("unarchive", d) \in Calls
  /\ \A g \in Gen \cup {NoGen} : Call("sync", g) \in Calls /\ Call("check", g) \in Calls
BY DEF Calls, Call, CallThen

(* A switch that the server served.                                        *)
LEMMA ServedCall ==
  ASSUME NEW c \in Calls, c.kind = "switch"
  PROVE  LET d == [c EXCEPT !.served = TRUE] IN
         d \in Calls /\ d.kind = "switch" /\ d.arg = c.arg /\ d.then = c.then /\ d.served
BY DEF Calls

LEMMA SetConvIs ==
  ASSUME NEW c, NEW pending, SetConv(c, pending)
  PROVE  /\ conv' = c /\ pending \subseteq calls'
         /\ \A d \in calls' : d \in pending \/ d = Call("messages", c)
BY DEF SetConv

LEMMA SetConvTyped ==
  ASSUME NEW c \in Conv \cup {NoConv}, NEW pending, pending \subseteq Calls, SetConv(c, pending)
  PROVE  conv' \in Conv \cup {NoConv} /\ calls' \subseteq Calls
<1>1. Call("messages", c) \in Calls
  BY NewCalls DEF Call
<1> QED
  BY <1>1, SetConvIs

(* The stored messages: in pairs, settled, and without their generations.  *)
LEMMA HistoryIs ==
  ASSUME NEW n \in Nat
  PROVE  /\ History(n) \in Seq(Message)
         /\ \A i \in DOMAIN History(n) :
              /\ History(n)[i].gen = NoGen /\ ~Unsettled(History(n)[i]) /\ ~History(n)[i].executing
              /\ History(n)[i].role = "user" => History(n)[i].status = "none" /\ History(n)[i].text
              /\ History(n)[i].role = "assistant" => i > 1 /\ History(n)[i - 1].role = "user"
<1> DEFINE f == [i \in 1..(2 * n) |-> IF i % 2 = 1 THEN User ELSE Assistant(NoGen, "none", TRUE)]
<1>1. History(n) = f
  BY DEF History
<1>2. 2 * n \in Nat
  OBVIOUS
<1>3. DOMAIN f = 1..(2 * n) /\ \A i \in 1..(2 * n) : f[i] = User \/ f[i] = Assistant(NoGen, "none", TRUE)
  OBVIOUS
<1>4. Assistant(NoGen, "none", TRUE) \in Message /\ Assistant(NoGen, "none", TRUE).role = "assistant"
      /\ Assistant(NoGen, "none", TRUE).gen = NoGen /\ Assistant(NoGen, "none", TRUE).status = "none"
      /\ ~Assistant(NoGen, "none", TRUE).executing
  BY DEF Assistant, Message, MessageStatus
<1>5. f \in Seq(Message)
  <2>1. f \in [1..(2 * n) -> Message]
    BY <1>4, NewMessages
  <2> HIDE DEF f
  <2> QED
    BY <1>2, <2>1, SeqDef
<1>6. ASSUME NEW i \in 1..(2 * n), f[i].role = "assistant"
      PROVE  i > 1 /\ f[i - 1].role = "user"
  <2>1. i % 2 # 1
    BY <1>6, NewMessages
  <2>2. i > 1 /\ i \in Nat
    BY <2>1
  <2>3. i - 1 \in 1..(2 * n)
    BY <1>2, <2>2
  <2>4. (i - 1) % 2 = 1
    BY <2>1, <2>2, Z3
  <2>5. f[i - 1] = User
    BY <2>3, <2>4
  <2> QED
    BY <2>2, <2>5, NewMessages
<1>7. ASSUME NEW i \in 1..(2 * n)
      PROVE  /\ f[i].gen = NoGen /\ ~Unsettled(f[i]) /\ ~f[i].executing
             /\ f[i].role = "user" => f[i].status = "none" /\ f[i].text
  <2>1. f[i] = User \/ f[i] = Assistant(NoGen, "none", TRUE)
    BY <1>3
  <2> HIDE DEF f
  <2> QED
    BY <1>4, <2>1, NewMessages DEF Unsettled
<1> HIDE DEF f
<1> QED
  BY <1>1, <1>3, <1>5, <1>6, <1>7

LEMMA TurnsType ==
  ASSUME TypeOK, NEW c
  PROVE  Turns(c) \in Nat
<1>1. {g \in recorded : c = NoConv \/ home[g] = c} \subseteq recorded /\ IsFiniteSet(recorded)
  BY DEF TypeOK
<1> QED
  BY <1>1, FS_Subset, FS_CardinalityType DEF Turns

-----------------------------------------------------------------------------
(* What a step does to the list: one message revised, a question and its   *)
(* answer more, the last message less, or another list.                    *)

Revised(i) ==
  /\ i \in DOMAIN list /\ list[i] \in Message /\ list'[i] \in Message
  /\ list' \in Seq(Message) /\ Len(list') = Len(list) /\ DOMAIN list' = DOMAIN list
  /\ \A k \in DOMAIN list : k # i => list'[k] = list[k]
  /\ list'[i].role = list[i].role

Pushed(g) ==
  /\ list' \in Seq(Message) /\ Len(list') = Len(list) + 2
  /\ DOMAIN list' = DOMAIN list \cup {Len(list) + 1, Len(list) + 2}
  /\ \A k \in DOMAIN list : k < Len(list) + 1 /\ list'[k] = list[k]
  /\ list'[Len(list) + 1] = User
  /\ list'[Len(list) + 2].role = "assistant" /\ list'[Len(list) + 2].gen = g
  /\ ~list'[Len(list) + 2].executing

Shortened ==
  /\ list # <<>> /\ list' \in Seq(Message)
  /\ Len(list') = Len(list) - 1 /\ Len(list) >= 1 /\ DOMAIN list' = 1..(Len(list) - 1)
  /\ \A k \in DOMAIN list' : k \in DOMAIN list /\ k < Len(list) /\ list'[k] = list[k]

Renewed ==
  /\ list' \in Seq(Message)
  /\ \A i \in DOMAIN list' :
       /\ list'[i].gen = NoGen /\ ~Unsettled(list'[i]) /\ ~list'[i].executing
       /\ list'[i].role = "user" => list'[i].status = "none" /\ list'[i].text
       /\ list'[i].role = "assistant" => i > 1 /\ list'[i - 1].role = "user"

LEMMA SendIs ==
  ASSUME TypeOK, Send
  PROVE  Pushed(NoGen) /\ list'[Len(list) + 2].status = "pending"
<1> DEFINE a == Assistant(NoGen, "pending", FALSE)
<1>1. a \in Message /\ a.role = "assistant" /\ a.gen = NoGen /\ a.status = "pending" /\ ~a.executing
  BY DEF Assistant, Message, MessageStatus
<1>2. list \in Seq(Message) /\ list' = list \o <<User, a>>
  BY DEF TypeOK, Send
<1> HIDE DEF a
<1> QED
  BY <1>1, <1>2, NewMessages, Doubled DEF Pushed

Stopped ==
  \/ list = <<>> /\ list' = list
  \/ Shortened /\ ~Last(list).text
  \/ /\ list # <<>> /\ Revised(Len(list)) /\ Last(list).text
     /\ list'[Len(list)].status = "finished" /\ list'[Len(list)].gen = list[Len(list)].gen
     /\ list'[Len(list)].executing = list[Len(list)].executing
     /\ list'[Len(list)].text

LEMMA StopIs ==
  ASSUME TypeOK, NEW c, Stop(c)
  PROVE  Stopped
<1> DEFINE m == Last(list)
           x == [m EXCEPT !.status = "finished"]
           n == Len(list)
<1>1. list \in Seq(Message)
  BY DEF TypeOK
<1>2. CASE list = <<>>
  BY <1>2 DEF Stop, Stopped
<1>3. CASE list # <<>> /\ ~m.text
  <2>1. list' = Front(list)
    BY <1>3 DEF Stop
  <2> HIDE DEF m
  <2>2. Shortened
    BY <1>1, <1>3, <2>1, Fronted DEF Shortened
  <2> QED
    BY <1>3, <2>2 DEF Stopped, m
<1>4. CASE list # <<>> /\ m.text
  <2>1. list' = Front(list) \o <<x>>
    BY <1>4 DEF Stop
  <2>2. m = list[n] /\ n \in DOMAIN list /\ m \in Message /\ n \in Nat /\ n >= 1
    BY <1>1, <1>4, Fronted, SeqIs
  <2>3. x \in Message /\ x.status = "finished" /\ x.gen = m.gen /\ x.executing = m.executing
        /\ x.text = m.text /\ x.role = m.role
    <3> HIDE DEF m
    <3> QED
      BY <2>2 DEF Message, MessageStatus
  <2> DEFINE f == Front(list)
             t == <<x>>
  <2>4. f \in Seq(Message) /\ Len(f) = n - 1 /\ \A k \in 1..(n - 1) : f[k] = list[k]
    <3>1. DOMAIN f = 1..(n - 1) /\ f \in Seq(Message) /\ Len(f) = n - 1
          /\ \A k \in DOMAIN f : f[k] = list[k]
      BY <1>1, <1>4, Fronted
    <3> QED
      BY <3>1
  <2>5. t \in Seq(Message) /\ Len(t) = 1 /\ t[1] = x
    <3> HIDE DEF x
    <3> QED
      BY <2>3
  <2> HIDE DEF f, t, x, m
  <2>6. f \o t \in Seq(Message) /\ Len(f \o t) = Len(f) + Len(t)
        /\ \A k \in 1..(Len(f) + Len(t)) : (f \o t)[k] = IF k <= Len(f) THEN f[k] ELSE t[k - Len(f)]
    BY <2>4, <2>5, ConcatProperties
  <2>7. list' = f \o t
    BY <2>1 DEF f, t
  <2>8. list' \in Seq(Message) /\ Len(list') = n
    BY <2>2, <2>4, <2>5, <2>6, <2>7
  <2>9. DOMAIN list' = 1..n /\ DOMAIN list = 1..n
    BY <1>1, <2>8, SeqIs
  <2>10. list'[n] = x
    <3>1. n \in 1..(Len(f) + Len(t)) /\ ~(n <= Len(f)) /\ n - Len(f) = 1
      BY <2>2, <2>4, <2>5
    <3> QED
      BY <2>5, <2>6, <2>7, <3>1
  <2>11. ASSUME NEW k \in DOMAIN list, k # n
         PROVE  list'[k] = list[k]
    <3>1. k \in 1..(Len(f) + Len(t)) /\ k <= Len(f) /\ k \in 1..(n - 1)
      BY <2>2, <2>4, <2>5, <2>9, <2>11
    <3> QED
      BY <2>4, <2>6, <2>7, <3>1
  <2>12. Revised(n)
    BY <2>2, <2>3, <2>8, <2>9, <2>10, <2>11 DEF Revised
  <2> QED
    BY <1>4, <2>2, <2>3, <2>10, <2>12 DEF Stopped, m
<1> QED
  BY <1>2, <1>3, <1>4

(* A snapshot of g: its answer revised, or a new pair.                     *)
Settles(g, i) ==
  /\ Revised(i) /\ list[i].role = "assistant" /\ list[i].gen = g /\ list'[i].gen = g
  /\ status[g] # "STREAMING" => list'[i].status \in {"finished", "error"}

LEMMA CheckedIs ==
  ASSUME TypeOK, NamesKnown, NoDuplicateAnswer, NEW c \in calls, Checked(c)
  PROVE  \/ list' = list /\ conv' = conv /\ calls' = calls \ {c}
         \/ /\ c.arg \in Gen /\ Known(c.arg) /\ status[c.arg] # "STREAMING"
            /\ SetConv(home[c.arg], calls \ {c})
            /\ \/ \E i \in DOMAIN list : Settles(c.arg, i) /\ ~list'[i].executing
               \/ Absent(list, c.arg) /\ Pushed(c.arg) /\ uprooted'
<1>1. list \in Seq(Message) /\ Single(list) /\ c \in Calls /\ c.kind = "check"
  BY DEF TypeOK, NoDuplicateAnswer, Single, Checked
<1>2. c.arg \in Gen /\ Known(c.arg)
  BY <1>1, CallIs DEF NamesKnown, CallsKnown
<1>3. CASE status[c.arg] = "STREAMING"
  BY <1>3 DEF Checked
<1>4. CASE status[c.arg] # "STREAMING"
  <2> DEFINE g == c.arg
  <2>1. status[g] \in GenerationStatus
    BY <1>2 DEF TypeOK, Known
  <2>2. PICK text \in BOOLEAN :
          LET l == upsertGenerationSnapshot(list, g, text) IN
          list' = [l EXCEPT ![AnswerOf(l, g)] = updateExecutingToolStatus(l[AnswerOf(l, g)])]
    BY <1>4 DEF Checked
  <2>3. SetConv(home[g], calls \ {c}) /\ uprooted' = (uprooted \/ TakesOver(g))
    BY <1>4 DEF Checked
  <2> DEFINE u == upsertGenerationSnapshot(list, g, text)
             i == AnswerOf(list, g)
             j == AnswerOf(u, g)
             s == mapGenerationStatus(status[g])
             x == updateExecutingToolStatus(u[j])
  <2>4. list' = [u EXCEPT ![j] = x]
    BY <2>2
  <2>5. /\ u \in Seq(Message) /\ s \in {"finished", "error"} /\ s \in MessageStatus
        /\ i # 0 =>
             /\ i \in DOMAIN list /\ Len(u) = Len(list) /\ DOMAIN u = DOMAIN list
             /\ \A k \in DOMAIN list : k # i => u[k] = list[k]
             /\ u[i].role = "assistant" /\ list[i].role = "assistant"
             /\ u[i].gen = g /\ list[i].gen = g /\ u[i].status = s
        /\ i = 0 => Absent(list, g) /\ u = list \o <<User, Assistant(g, s, text)>>
    <3>1. s \in {"finished", "error"} => s \in MessageStatus
      BY DEF MessageStatus
    <3> QED
      BY <1>1, <1>2, <1>4, <2>1, <3>1, SnapshotIs
  <2>6. ASSUME NEW k \in DOMAIN u, u[k].role = "assistant", u[k].gen = g, Single(u)
        PROVE  j = k
    <3>1. j # 0
      BY <1>2, <2>5, <2>6, AnswerIs, ChatAssumption DEF Absent
    <3>2. j \in DOMAIN u /\ u[j].role = "assistant" /\ u[j].gen = g /\ g # NoGen
      BY <2>5, <2>6, <3>1, AnswerIs
    <3> QED
      BY <2>6, <3>2 DEF Single
  <2>7. ASSUME NEW k \in DOMAIN u, j = k
        PROVE  /\ list' \in Seq(Message) /\ Len(list') = Len(u) /\ DOMAIN list' = DOMAIN u
               /\ \A q \in DOMAIN u : q # k => list'[q] = u[q]
               /\ list'[k] \in Message /\ list'[k].role = u[k].role /\ list'[k].gen = u[k].gen
               /\ list'[k].status = u[k].status /\ ~list'[k].executing
    <3>1. u[k] \in Message
      BY <2>5, SeqIs
    <3>2. x \in Message /\ x.role = u[k].role /\ x.gen = u[k].gen /\ x.status = u[k].status
          /\ ~x.executing
      BY <2>7, <3>1 DEF updateExecutingToolStatus, Message
    <3> HIDE DEF u, x, j, i, s
    <3>3. list' = [u EXCEPT ![k] = x]
      BY <2>4, <2>7
    <3> QED
      BY <2>5, <2>7, <3>2, <3>3, Changed
  <2>8. CASE i # 0
    <3>1. Single(u)
      <4>1. \A k \in DOMAIN list : u[k].role = list[k].role /\ u[k].gen = list[k].gen
        BY <2>5, <2>8
      <4>2. DOMAIN u = DOMAIN list
        BY <2>5, <2>8
      <4> HIDE DEF u
      <4> QED
        BY <1>1, <4>1, <4>2 DEF Single
    <3>2. j = i
      BY <2>5, <2>6, <2>8, <3>1
    <3>3. list[i] \in Message
      BY <1>1, <2>5, <2>8, SeqIs
    <3> HIDE DEF u, x, j, i, s
    <3>4. Settles(g, i) /\ ~list'[i].executing
      BY <2>5, <2>7, <2>8, <3>2, <3>3 DEF Settles, Revised
    <3> QED
      BY <1>2, <1>4, <2>3, <2>5, <2>8, <3>4 DEF i
  <2>9. CASE i = 0
    <3> DEFINE a == Assistant(g, s, text)
               n == Len(list)
    <3>1. a \in Message /\ a.role = "assistant" /\ a.gen = g /\ ~a.executing
      BY <1>2, <2>5 DEF Assistant, Message
    <3> HIDE DEF a
    <3>2. /\ u \in Seq(Message) /\ Len(u) = n + 2 /\ DOMAIN u = DOMAIN list \cup {n + 1, n + 2}
          /\ u[n + 1] = User /\ u[n + 2] = a
          /\ \A k \in DOMAIN list : k < n + 1 /\ u[k] = list[k]
      <4>1. u = list \o <<User, a>>
        BY <2>5, <2>9 DEF a
      <4> HIDE DEF u, i, s
      <4> QED
        BY <1>1, <3>1, <4>1, NewMessages, Doubled
    <3>3. Absent(list, g) /\ g # NoGen /\ n \in Nat
      BY <1>1, <1>2, <2>5, <2>9, SeqIs, ChatAssumption
    <3> HIDE DEF u, x, j, i, s, n
    <3>4. Single(u)
      <4>1. \A k \in DOMAIN u : u[k].role = "assistant" => k \in DOMAIN list \/ k = n + 2
        BY <3>2, NewMessages
      <4>2. \A k \in DOMAIN list : u[k].role = "assistant" => u[k].gen # g
        BY <3>2, <3>3 DEF Absent
      <4>3. \A k, q \in DOMAIN list : u[k].role = "assistant" /\ u[q].role = "assistant"
              /\ u[k].gen = u[q].gen /\ u[k].gen # NoGen => k = q
        BY <1>1, <3>2 DEF Single
      <4> QED
        BY <3>1, <3>2, <4>1, <4>2, <4>3 DEF Single
    <3>5. j = n + 2
      BY <2>6, <3>1, <3>2, <3>4
    <3>6. /\ list' \in Seq(Message) /\ Len(list') = Len(u) /\ DOMAIN list' = DOMAIN u
          /\ \A q \in DOMAIN u : q # n + 2 => list'[q] = u[q]
          /\ list'[n + 2].role = u[n + 2].role /\ list'[n + 2].gen = u[n + 2].gen
          /\ ~list'[n + 2].executing
      BY <2>7, <3>2, <3>5
    <3>7. n + 1 # n + 2 /\ \A k \in DOMAIN list : k # n + 2
      BY <1>1, <3>3, <3>2
    <3>8. Pushed(g)
      BY <3>1, <3>2, <3>6, <3>7 DEF Pushed, n
    <3>9. uprooted'
      BY <2>3, <2>9 DEF TakesOver, i
    <3> QED
      BY <1>2, <1>4, <2>3, <3>3, <3>8, <3>9
  <2> QED
    BY <2>8, <2>9
<1> QED
  BY <1>3, <1>4

LEMMA SyncedIs ==
  ASSUME TypeOK, NamesKnown, NoDuplicateAnswer, NEW c \in calls, Synced(c)
  PROVE  \/ list' = list /\ conv' = conv /\ calls' = calls \ {c}
         \/ \E g \in Gen :
              /\ Known(g) /\ SetConv(home[g], calls \ {c})
              /\ c.arg = NoGen => uprooted'
              /\ \/ \E i \in DOMAIN list :
                      Settles(g, i) /\ list'[i].executing = list[i].executing
                 \/ Absent(list, g) /\ Pushed(g) /\ uprooted'
<1>1. list \in Seq(Message) /\ Single(list) /\ c \in Calls /\ c.kind = "sync"
      /\ running \in Gen \cup {NoGen}
  BY DEF TypeOK, NoDuplicateAnswer, Single, Synced
<1> DEFINE g == IF c.arg # NoGen THEN c.arg ELSE running
<1>2. CASE g = NoGen
  BY <1>2 DEF Synced
<1>3. CASE g # NoGen
  <2>1. g \in Gen /\ Known(g) /\ (c.arg = NoGen => status[g] = "STREAMING")
    BY <1>1, <1>3, CallIs DEF NamesKnown, CallsKnown, StoreKnown
  <2>2. status[g] \in GenerationStatus
    BY <2>1 DEF TypeOK, Known
  <2>3. PICK text \in BOOLEAN : list' = upsertGenerationSnapshot(list, g, text)
    BY <1>3 DEF Synced
  <2>4. SetConv(home[g], calls \ {c}) /\ uprooted' = (uprooted \/ TakesOver(g))
    BY <1>3 DEF Synced
  <2>5. c.arg = NoGen => uprooted'
    BY <2>1, <2>4 DEF TakesOver
  <2> DEFINE u == upsertGenerationSnapshot(list, g, text)
             i == AnswerOf(list, g)
             s == mapGenerationStatus(status[g])
             a == Assistant(g, s, text)
  <2> HIDE DEF g
  <2>6. /\ u \in Seq(Message) /\ s \in {"loading", "finished", "error"}
        /\ status[g] # "STREAMING" => s # "loading"
        /\ i # 0 =>
             /\ i \in DOMAIN list /\ Len(u) = Len(list) /\ DOMAIN u = DOMAIN list
             /\ \A k \in DOMAIN list : k # i => u[k] = list[k]
             /\ u[i].role = "assistant" /\ list[i].role = "assistant"
             /\ u[i].gen = g /\ list[i].gen = g /\ u[i].status = s
             /\ u[i].executing = list[i].executing
        /\ i = 0 => Absent(list, g) /\ u = list \o <<User, a>>
    BY <1>1, <2>1, <2>2, SnapshotIs
  <2>7. s \in MessageStatus
    BY <2>6 DEF MessageStatus
  <2>8. a \in Message /\ a.role = "assistant" /\ a.gen = g /\ ~a.executing
    BY <2>1, <2>7 DEF Assistant, Message
  <2>9. list' = u
    BY <2>3
  <2>10. i = 0 => TakesOver(g)
    BY DEF TakesOver
  <2> HIDE DEF u, i, s, a
  <2>11. CASE i # 0
    <3>1. list[i] \in Message /\ u[i] \in Message
      BY <1>1, <2>6, <2>11, SeqIs
    <3>2. Settles(g, i) /\ list'[i].executing = list[i].executing
      BY <2>6, <2>9, <2>11, <3>1 DEF Settles, Revised
    <3> QED
      BY <2>1, <2>4, <2>5, <2>6, <2>11, <3>2
  <2>12. CASE i = 0
    <3>1. list' = list \o <<User, a>>
      BY <2>6, <2>9, <2>12
    <3>2. Pushed(g)
      BY <1>1, <2>8, <3>1, NewMessages, Doubled DEF Pushed
    <3> QED
      BY <2>1, <2>4, <2>5, <2>6, <2>10, <2>12, <3>2
  <2> QED
    BY <2>11, <2>12
<1> QED
  BY <1>2, <1>3

(* A message of the socket: no answer to apply it to, or one that it       *)
(* leaves as Handled says.                                                 *)
Ignored ==
  /\ Absent(list, Head(wire).gen) /\ (list = <<>> \/ Last(list).role = "user")
  /\ list' = list /\ conv' = conv /\ calls' = calls
Applied(i) ==
  LET e == Head(wire) IN
  /\ Revised(i) /\ list[i].role = "assistant"
  /\ (list[i].gen = e.gen /\ e.gen # NoGen) \/ (Absent(list, e.gen) /\ i = Len(list))
  /\ list'[i].gen = IF e.type = "start" THEN e.gen ELSE list[i].gen
  /\ e.type = "start" =>
       list'[i].status = list[i].status /\ list'[i].executing = list[i].executing
  /\ e.type \notin Body => list'[i].status \in {"finished", "error"} /\ ~list'[i].executing
  /\ IF e.type = "completion"
       THEN SetConv(home[e.gen], calls \cup {Call("sessions", NoConv)})
       ELSE conv' = conv /\ calls' = calls

LEMMA ReceiveIs ==
  ASSUME TypeOK, NoDuplicateAnswer, Receive
  PROVE  /\ wire # <<>> /\ Head(wire) \in Events /\ Head(wire).type # "connection"
         /\ wire' = Tail(wire)
         /\ Ignored \/ \E i \in DOMAIN list : Applied(i)
<1> DEFINE e == Head(wire)
           i == findAssistantMessage(list, e.gen)
           x == Handled(list[i], e)
<1>1. list \in Seq(Message) /\ Single(list) /\ wire \in Seq(Events)
  BY DEF TypeOK, NoDuplicateAnswer, Single
<1>2. wire # <<>> /\ e.type # "connection" /\ wire' = Tail(wire)
  BY DEF Receive
<1>3. e \in Events
  BY <1>1, <1>2, Tailed
<1>4. /\ i = 0 => Absent(list, e.gen) /\ (list = <<>> \/ Last(list).role = "user")
      /\ i # 0 =>
           /\ i \in DOMAIN list /\ list[i].role = "assistant"
           /\ (list[i].gen = e.gen /\ e.gen # NoGen) \/ (Absent(list, e.gen) /\ i = Len(list))
  BY <1>1, FindIs
<1>5. CASE i = 0
  <2>1. list' = list /\ conv' = conv /\ calls' = calls
    BY <1>5 DEF Receive
  <2> QED
    BY <1>2, <1>3, <1>4, <1>5, <2>1 DEF Ignored
<1>6. CASE i # 0
  <2>1. list' = [list EXCEPT ![i] = x]
    BY <1>6 DEF Receive
  <2>2. IF e.type = "completion"
          THEN SetConv(home[e.gen], calls \cup {Call("sessions", NoConv)})
          ELSE conv' = conv /\ calls' = calls
    BY <1>6 DEF Receive
  <2>3. i \in DOMAIN list /\ list[i] \in Message
    BY <1>1, <1>4, <1>6, SeqIs
  <2>4. /\ x \in Message /\ x.role = list[i].role
        /\ x.gen = IF e.type = "start" THEN e.gen ELSE list[i].gen
        /\ e.type = "start" => x.status = list[i].status /\ x.executing = list[i].executing
        /\ e.type \notin Body => x.status \in {"finished", "error"} /\ ~x.executing
    BY <1>2, <1>3, <2>3, HandledIs
  <2> HIDE DEF i, x
  <2>5. /\ list' \in Seq(Message) /\ Len(list') = Len(list) /\ DOMAIN list' = DOMAIN list
        /\ list'[i] = x /\ \A k \in DOMAIN list : k # i => list'[k] = list[k]
    BY <1>1, <2>1, <2>3, <2>4, Changed
  <2>6. Revised(i)
    BY <2>3, <2>4, <2>5 DEF Revised
  <2>7. Applied(i)
    BY <1>4, <1>6, <2>2, <2>4, <2>5, <2>6 DEF Applied
  <2> QED
    BY <1>2, <1>3, <2>3, <2>7
<1> QED
  BY <1>5, <1>6

LEMMA ReplaceIs ==
  ASSUME TypeOK, NEW l, Replace(l), l = <<>> \/ \E c : l = History(Turns(c))
  PROVE  Renewed /\ (~uprooted' => cmds = <<>> /\ server.pc = "idle" /\ wire = <<>>)
<1>1. list' = l /\ uprooted' = (uprooted \/ cmds # <<>> \/ server.pc # "idle" \/ wire # <<>>)
  BY DEF Replace
<1>2. CASE l = <<>>
  <2>1. DOMAIN list' = {} /\ list' \in Seq(Message)
    BY <1>1, <1>2, EmptySeq, SeqIs
  <2> QED
    BY <1>1, <2>1 DEF Renewed
<1>3. CASE \E c : l = History(Turns(c))
  <2>1. PICK c : l = History(Turns(c))
    BY <1>3
  <2>2. Turns(c) \in Nat
    BY TurnsType
  <2> QED
    BY <1>1, <2>1, <2>2, HistoryIs DEF Renewed
<1> QED
  BY <1>2, <1>3

-----------------------------------------------------------------------------
(* Which steps change what.                                                *)

Clicked ==
  NewChat \/ \E c \in Conv : Select(c) \/ Archive(c) \/ Unarchive(c)

LEMMA ClickedIs ==
  ASSUME Clicked
  PROVE  /\ \E c \in Calls :
              /\ calls' = calls \cup {c} /\ c.then = NoConv /\ ~c.served
              /\ c.kind \in {"create", "switch", "archive", "unarchive"}
              /\ c.kind = "switch" => session[c.arg] # "none"
         /\ acts' = acts + 1
         /\ disturbed' = (disturbed \/ ~Quiet) /\ uprooted' = uprooted
         /\ list' = list /\ conv' = conv /\ monitor' = monitor /\ ws' = ws /\ wire' = wire
         /\ cmds' = cmds /\ server' = server /\ storeVars' = storeVars
<1>1. ASSUME NEW c, Click(c)
      PROVE  /\ calls' = calls \cup {c} /\ acts' = acts + 1
             /\ disturbed' = (disturbed \/ ~Quiet) /\ uprooted' = uprooted
             /\ list' = list /\ conv' = conv /\ monitor' = monitor /\ ws' = ws /\ wire' = wire
             /\ cmds' = cmds /\ server' = server /\ storeVars' = storeVars
  BY <1>1 DEF Click, Act
<1>2. CASE NewChat
  <2> DEFINE c == Call("create", NoConv)
  <2>1. c \in Calls /\ c.then = NoConv /\ ~c.served /\ c.kind = "create"
    BY NewCalls DEF Call, CallThen
  <2>2. Click(c)
    BY <1>2 DEF NewChat
  <2> QED
    BY <1>1, <2>1, <2>2
<1>3. ASSUME NEW d \in Conv, Select(d)
      PROVE  Click(Call("switch", d)) /\ session[d] # "none"
  BY <1>3 DEF Select
<1>4. ASSUME NEW d \in Conv, Archive(d) \/ Unarchive(d)
      PROVE  Click(Call("archive", d)) \/ Click(Call("unarchive", d))
  BY <1>4 DEF Archive, Unarchive
<1>5. ASSUME NEW d \in Conv, NEW kind \in {"switch", "archive", "unarchive"}
      PROVE  LET c == Call(kind, d) IN
             c \in Calls /\ c.then = NoConv /\ ~c.served /\ c.kind = kind /\ c.arg = d
  BY NewCalls DEF Call, CallThen
<1>6. CASE \E d \in Conv : Select(d)
  <2>1. PICK d \in Conv : Select(d)
    BY <1>6
  <2> QED
    BY <1>1, <1>3, <1>5, <2>1
<1>7. CASE \E d \in Conv : Archive(d) \/ Unarchive(d)
  <2>1. PICK d \in Conv, kind \in {"archive", "unarchive"} : Click(Call(kind, d))
    BY <1>4, <1>7
  <2> QED
    BY <1>1, <1>5, <2>1
<1> QED
  BY <1>2, <1>6, <1>7 DEF Clicked

LEMMA Steps ==
  ASSUME [Next]_vars
  PROVE  \/ UNCHANGED vars \/ Send \/ AskStop \/ MonitorTick \/ Receive
         \/ syncGenerationAfterReconnect \/ Connect \/ Drop \/ Clicked
         \/ (\E c \in calls :
               \/ Serve(c) \/ Stop(c) \/ Checked(c) \/ Synced(c) \/ SessionsLoaded(c) \/ Created(c)
               \/ Switched(c) \/ Archived(c) \/ Loaded(c) \/ Fail(c))
         \/ Chunk \/ ToolEvent \/ Refuse \/ (\E g \in Gen : Start(g)) \/ Abandon \/ Complete
         \/ Record \/ Raise \/ StopCommand
<1>1. CASE Next
  BY <1>1 DEF Next, Server, Deliver, Clicked
<1> QED
  BY <1>1

LEMMA WsSteps ==
  ASSUME [Next]_vars
  PROVE  ws' = ws \/ Connect \/ Drop
<1>1. UNCHANGED vars \/ Send \/ AskStop \/ MonitorTick \/ Receive \/ syncGenerationAfterReconnect
      => ws' = ws
  BY DEF vars, pageVars, Send, AskStop, MonitorTick, Receive, syncGenerationAfterReconnect
<1>2. ASSUME NEW c \in calls,
             \/ Serve(c) \/ Stop(c) \/ Checked(c) \/ Synced(c) \/ SessionsLoaded(c) \/ Created(c)
             \/ Switched(c) \/ Archived(c) \/ Loaded(c) \/ Fail(c)
      PROVE  ws' = ws
  BY <1>2 DEF Serve, Stop, Checked, Synced, SessionsLoaded, Created, Switched, Archived, Loaded, Fail
<1>3. Chunk \/ ToolEvent \/ Refuse \/ (\E g \in Gen : Start(g)) \/ Abandon \/ Complete
      \/ Record \/ Raise \/ StopCommand => ws' = ws
  BY DEF Chunk, ToolEvent, Refuse, Start, Abandon, Complete, Record, Raise, StopCommand, pageVars
<1> QED
  BY <1>1, <1>2, <1>3, ClickedIs, Steps

(* A replaced list, of a page to which nothing is on its way.              *)
Replaced ==
  Renewed /\ (~uprooted' => cmds = <<>> /\ server.pc = "idle" /\ wire = <<>>)

LEMMA LeaveIs ==
  ASSUME TypeOK, NEW c, NEW then, Leave(c, then)
  PROVE  \/ list' = list /\ conv' = conv /\ calls' = calls \ {c} /\ uprooted' = uprooted
         \/ Replaced /\ SetConv(NoConv, calls \ {c}) /\ then # NoConv /\ then = conv
BY ReplaceIs DEF Leave, Replaced

LEMMA ListSteps ==
  ASSUME TypeOK, [Next]_vars
  PROVE  \/ list' = list \/ Send \/ Receive
         \/ \E c \in calls : Stop(c) \/ Checked(c) \/ Synced(c)
         \/ Replaced /\ cmds' = cmds /\ server' = server /\ wire' = wire
<1>1. UNCHANGED vars => list' = list
  BY DEF vars, pageVars
<1>2. AskStop \/ MonitorTick \/ syncGenerationAfterReconnect \/ Connect \/ Drop => list' = list
  BY DEF AskStop, MonitorTick, syncGenerationAfterReconnect, Connect, Drop
<1>3. Clicked => list' = list
  BY ClickedIs
<1>4. Chunk \/ ToolEvent \/ Refuse \/ (\E g \in Gen : Start(g)) \/ Abandon \/ Complete
      \/ Record \/ Raise \/ StopCommand => list' = list
  BY DEF Chunk, ToolEvent, Refuse, Start, Abandon, Complete, Record, Raise, StopCommand, pageVars
<1>5. ASSUME NEW c \in calls,
             SessionsLoaded(c) \/ Fail(c)
      PROVE  list' = list \/ (Replaced /\ cmds' = cmds /\ server' = server /\ wire' = wire)
  <2>1. list' = list \/ Leave(c, c.then)
    BY <1>5 DEF SessionsLoaded, Fail
  <2>2. cmds' = cmds /\ server' = server /\ wire' = wire
    BY <1>5 DEF SessionsLoaded, Fail
  <2> QED
    BY <2>1, <2>2, LeaveIs
<1>6. ASSUME NEW c \in calls, Created(c) \/ Switched(c) \/ Loaded(c)
      PROVE  Replaced /\ cmds' = cmds /\ server' = server /\ wire' = wire
  <2>1. \E l : Replace(l) /\ (l = <<>> \/ \E d : l = History(Turns(d)))
    BY <1>6 DEF Created, Switched, Loaded
  <2>2. cmds' = cmds /\ server' = server /\ wire' = wire
    BY <1>6 DEF Created, Switched, Loaded
  <2> QED
    BY <2>1, <2>2, ReplaceIs DEF Replaced
<1>7. ASSUME NEW c \in calls, Serve(c) \/ Archived(c)
      PROVE  list' = list
  BY <1>7 DEF Serve, Archived
<1> QED
  BY <1>1, <1>2, <1>3, <1>4, <1>5, <1>6, <1>7, Steps

LEMMA WireSteps ==
  ASSUME [Next]_vars
  PROVE  \/ wire' = wire /\ server' = server
         \/ Receive \/ syncGenerationAfterReconnect \/ Connect \/ Drop
         \/ Chunk \/ ToolEvent \/ Refuse \/ (\E g \in Gen : Start(g)) \/ Abandon \/ Complete
         \/ Record \/ Raise \/ StopCommand
<1>1. UNCHANGED vars => wire' = wire /\ server' = server
  BY DEF vars
<1>2. Send \/ AskStop \/ MonitorTick => wire' = wire /\ server' = server
  BY DEF Send, AskStop, MonitorTick
<1>3. Clicked => wire' = wire /\ server' = server
  BY ClickedIs
<1>4. ASSUME NEW c \in calls,
             \/ Serve(c) \/ Stop(c) \/ Checked(c) \/ Synced(c) \/ SessionsLoaded(c) \/ Created(c)
             \/ Switched(c) \/ Archived(c) \/ Loaded(c) \/ Fail(c)
      PROVE  wire' = wire /\ server' = server
  BY <1>4 DEF Serve, Stop, Checked, Synced, SessionsLoaded, Created, Switched, Archived, Loaded,
              Fail
<1> QED
  BY <1>1, <1>2, <1>3, <1>4, Steps

LEMMA StoreSteps ==
  ASSUME [Next]_vars
  PROVE  \/ storeVars' = storeVars
         \/ \E c \in calls : Serve(c) \/ Created(c) \/ Archived(c)
         \/ (\E g \in Gen : Start(g)) \/ Complete \/ Record \/ Raise \/ StopCommand
<1>1. UNCHANGED vars => storeVars' = storeVars
  BY DEF vars
<1>2. Send \/ AskStop \/ MonitorTick \/ Receive \/ syncGenerationAfterReconnect \/ Connect \/ Drop
      => storeVars' = storeVars
  BY DEF Send, AskStop, MonitorTick, Receive, syncGenerationAfterReconnect, Connect, Drop
<1>3. Clicked => storeVars' = storeVars
  BY ClickedIs
<1>4. ASSUME NEW c \in calls,
             \/ Stop(c) \/ Checked(c) \/ Synced(c) \/ SessionsLoaded(c) \/ Switched(c) \/ Loaded(c)
             \/ Fail(c)
      PROVE  storeVars' = storeVars
  BY <1>4 DEF Stop, Checked, Synced, SessionsLoaded, Switched, Loaded, Fail
<1>5. Chunk \/ ToolEvent \/ Refuse \/ Abandon => storeVars' = storeVars
  BY DEF Chunk, ToolEvent, Refuse, Abandon, storeVars
<1> QED
  BY <1>1, <1>2, <1>3, <1>4, <1>5, Steps

-----------------------------------------------------------------------------
(* Types, and the names of generations and sessions.                       *)

LEMMA StartIs ==
  ASSUME TypeOK, NEW g \in Gen, Start(g)
  PROVE  /\ status' = [status EXCEPT ![g] = "STREAMING"]
         /\ pointer' \in Conv /\ home' = [home EXCEPT ![g] = pointer']
         /\ session'[pointer'] = "ACTIVE"
         /\ \/ session' = session /\ pointer' = pointer
            \/ /\ session[pointer'] = "none" /\ session' = [session EXCEPT ![pointer'] = "ACTIVE"]
               /\ pointer = NoConv \/ session[pointer] # "ACTIVE"
BY DEF Start, TypeOK

LEMMA TerminalIs ==
  ASSUME TypeOK, NamesKnown, Complete \/ Raise \/ StopCommand
  PROVE  \/ status' = status /\ running' = running
         \/ \E g \in Gen, s \in GenerationStatus : Known(g) /\ s # "STREAMING" /\ Terminal(g, s)
<1>1. CASE Complete
  <2>1. server.gen \in Gen /\ Known(server.gen) /\ Terminal(server.gen, "COMPLETED")
    BY <1>1 DEF Complete, NamesKnown, StoreKnown
  <2> QED
    BY <2>1 DEF GenerationStatus
<1>2. CASE Raise
  <2>1. server.gen \in Gen /\ Known(server.gen) /\ Terminal(server.gen, "FAILED")
    BY <1>2 DEF Raise, NamesKnown, StoreKnown
  <2> QED
    BY <2>1 DEF GenerationStatus
<1>3. CASE StopCommand
  <2> DEFINE g == IF Head(cmds).gen # NoGen THEN Head(cmds).gen ELSE running
  <2>1. cmds # <<>> /\ cmds \in Seq(Commands) /\ running \in Gen \cup {NoGen}
    BY <1>3 DEF StopCommand, TypeOK
  <2>2. Head(cmds) \in Commands /\ Head(cmds) = cmds[1] /\ 1 \in DOMAIN cmds
    BY <2>1, Tailed
  <2>3. Head(cmds).gen \in Gen \cup {NoGen}
    BY <2>2 DEF Commands
  <2>4. g # NoGen => g \in Gen /\ Known(g)
    BY <2>1, <2>2, <2>3 DEF NamesKnown, WayKnown, StoreKnown
  <2>5. IF g = NoGen THEN status' = status /\ running' = running ELSE Terminal(g, "CANCELLED")
    BY <1>3 DEF StopCommand
  <2> QED
    BY <2>4, <2>5 DEF GenerationStatus
<1> QED
  BY <1>1, <1>2, <1>3

LEMMA KnownStays ==
  ASSUME TypeOK, NamesKnown, [Next]_vars
  PROVE  /\ \A g : Known(g) => Known(g)'
         /\ \A d \in Conv : session[d] # "none" => session'[d] # "none"
         /\ status' \in [Gen -> GenerationStatus \cup {"none"}]
         /\ home' \in [Gen -> Conv \cup {NoConv}]
         /\ session' \in [Conv -> {"none", "ACTIVE", "ARCHIVED"}]
<1>0. /\ status \in [Gen -> GenerationStatus \cup {"none"}]
      /\ home \in [Gen -> Conv \cup {NoConv}]
      /\ session \in [Conv -> {"none", "ACTIVE", "ARCHIVED"}]
  BY DEF TypeOK
<1>1. CASE storeVars' = storeVars
  <2>1. status' = status /\ home' = home /\ session' = session
    BY <1>1 DEF storeVars
  <2> QED
    BY <1>0, <2>1 DEF Known
<1>2. ASSUME NEW c \in calls, Serve(c)
      PROVE  status' = status /\ home' = home /\ session' = session
  BY <1>2 DEF Serve
<1>3. ASSUME NEW c \in calls, Created(c) \/ Archived(c)
      PROVE  /\ status' = status /\ home' = home
             /\ \E d \in Conv, x \in {"ACTIVE", "ARCHIVED"} : session' = [session EXCEPT ![d] = x]
  <2>1. c.kind \in {"archive", "unarchive"} => c.arg \in Conv
    BY CallIs DEF TypeOK
  <2> QED
    BY <1>3, <2>1 DEF Created, Archived
<1>4. ASSUME NEW g \in Gen, Start(g)
      PROVE  /\ status' = [status EXCEPT ![g] = "STREAMING"]
             /\ \E d \in Conv :
                  /\ home' = [home EXCEPT ![g] = d]
                  /\ (session' = session \/ session' = [session EXCEPT ![d] = "ACTIVE"])
  BY <1>4, StartIs
<1>5. CASE Complete \/ Raise \/ StopCommand
  <2>1. home' = home /\ session' = session
    BY <1>5 DEF Complete, Raise, StopCommand
  <2>2. status' = status \/ \E g \in Gen, s \in GenerationStatus : status' = [status EXCEPT ![g] = s]
    BY <1>5, TerminalIs DEF Terminal
  <2>3. "none" \notin GenerationStatus
    BY DEF GenerationStatus
  <2> QED
    BY <1>0, <2>1, <2>2, <2>3 DEF Known
<1>6. CASE Record
  <2>1. status' = status /\ home' = home /\ session' = session
    BY <1>6 DEF Record
  <2> QED
    BY <1>0, <2>1 DEF Known
<1>7. CASE \E c \in calls : Serve(c)
  BY <1>0, <1>2, <1>7 DEF Known
<1>8. CASE \E c \in calls : Created(c) \/ Archived(c)
  <2>1. PICK d \in Conv, x \in {"ACTIVE", "ARCHIVED"} :
          status' = status /\ home' = home /\ session' = [session EXCEPT ![d] = x]
    BY <1>3, <1>8
  <2> QED
    BY <1>0, <2>1 DEF Known
<1>9. CASE \E g \in Gen : Start(g)
  <2>1. PICK g \in Gen, d \in Conv :
          /\ status' = [status EXCEPT ![g] = "STREAMING"] /\ home' = [home EXCEPT ![g] = d]
          /\ (session' = session \/ session' = [session EXCEPT ![d] = "ACTIVE"])
    BY <1>4, <1>9
  <2>2. "STREAMING" \in GenerationStatus
    BY DEF GenerationStatus
  <2>3. \A h : Known(h) => Known(h)'
    BY <1>0, <2>1 DEF Known
  <2> QED
    BY <1>0, <2>1, <2>2, <2>3
<1> QED
  BY <1>1, <1>5, <1>6, <1>7, <1>8, <1>9, StoreSteps

LEMMA ListType ==
  ASSUME TypeOK, NamesKnown, NoDuplicateAnswer, [Next]_vars
  PROVE  list' \in Seq(Message)
<1>1. list \in Seq(Message)
  BY DEF TypeOK
<1>2. CASE Send
  BY <1>2, SendIs DEF Pushed
<1>3. CASE Receive
  BY <1>1, <1>3, ReceiveIs DEF Ignored, Applied, Revised
<1>4. ASSUME NEW c \in calls, Stop(c)
      PROVE  list' \in Seq(Message)
  BY <1>1, <1>4, StopIs DEF Stopped, Shortened, Revised
<1>5. ASSUME NEW c \in calls, Checked(c)
      PROVE  list' \in Seq(Message)
  BY <1>1, <1>5, CheckedIs DEF Settles, Revised, Pushed
<1>6. ASSUME NEW c \in calls, Synced(c)
      PROVE  list' \in Seq(Message)
  BY <1>1, <1>6, SyncedIs DEF Settles, Revised, Pushed
<1>7. CASE Replaced
  BY <1>7 DEF Replaced, Renewed
<1> QED
  BY <1>1, <1>2, <1>3, <1>4, <1>5, <1>6, <1>7, ListSteps

LEMMA NewEvents ==
  /\ \A g \in Gen : /\ Event("start", g) \in Events /\ Event("chunk", g) \in Events
                    /\ Event("tool_executing", g) \in Events /\ Event("tool_success", g) \in Events
                    /\ Event("completion", g) \in Events /\ Event("stop", g) \in Events
                    /\ Event("error", g) \in Events
  /\ Event("error", NoGen) \in Events /\ Event("connection", NoGen) \in Events
BY DEF Event, Events, Body

LEMMA EmitType ==
  ASSUME TypeOK, NEW e \in Events, Emit(e)
  PROVE  wire' \in Seq(Events)
BY Appended DEF Emit, TypeOK

LEMMA StopOf ==
  ASSUME TypeOK, NamesKnown, StopCommand
  PROVE  LET g == IF Head(cmds).gen # NoGen THEN Head(cmds).gen ELSE running IN
         /\ cmds # <<>> /\ cmds' = Tail(cmds) /\ Head(cmds).type = "stop"
         /\ server' = server /\ server.pc = "idle" /\ server.alive
         /\ \/ g = NoGen /\ wire' = wire
            \/ g \in Gen /\ Known(g) /\ Emit(Event("stop", g))
<1> DEFINE g == IF Head(cmds).gen # NoGen THEN Head(cmds).gen ELSE running
<1>1. cmds # <<>> /\ cmds \in Seq(Commands) /\ running \in Gen \cup {NoGen}
  BY DEF StopCommand, TypeOK
<1>2. Head(cmds) \in Commands /\ Head(cmds) = cmds[1] /\ 1 \in DOMAIN cmds
  BY <1>1, Tailed
<1>3. Head(cmds).gen \in Gen \cup {NoGen}
  BY <1>2 DEF Commands
<1>4. g # NoGen => g \in Gen /\ Known(g)
  BY <1>1, <1>2, <1>3 DEF NamesKnown, WayKnown, StoreKnown
<1>5. IF g = NoGen THEN wire' = wire ELSE Emit(Event("stop", g))
  BY DEF StopCommand
<1>6. cmds' = Tail(cmds) /\ Head(cmds).type = "stop"
      /\ server' = server /\ server.pc = "idle" /\ server.alive
  BY DEF StopCommand
<1> QED
  BY <1>1, <1>4, <1>5, <1>6

LEMMA LineType ==
  ASSUME TypeOK, NamesKnown, [Next]_vars
  PROVE  /\ wire' \in Seq(Events)
         /\ server' \in [pc : {"idle", "stream", "record"}, gen : Gen \cup {NoGen},
                          alive : BOOLEAN, tool : BOOLEAN]
<1>0. /\ wire \in Seq(Events)
      /\ server \in [pc : {"idle", "stream", "record"}, gen : Gen \cup {NoGen},
                      alive : BOOLEAN, tool : BOOLEAN]
      /\ server.pc # "idle" => server.gen \in Gen
  BY DEF TypeOK, NamesKnown, StoreKnown
<1>1. wire # <<>> => Tail(wire) \in Seq(Events)
  BY <1>0, Tailed
<1>2. \A alive \in BOOLEAN : Resting(alive) \in
         [pc : {"idle", "stream", "record"}, gen : Gen \cup {NoGen}, alive : BOOLEAN, tool : BOOLEAN]
  BY DEF Resting
<1>3. CASE Receive \/ syncGenerationAfterReconnect
  <2>1. wire # <<>> /\ wire' = Tail(wire) /\ server' = server
    BY <1>3 DEF Receive, syncGenerationAfterReconnect
  <2> QED
    BY <1>0, <1>1, <2>1
<1>4. CASE Connect
  <2>1. wire' = <<Event("connection", NoGen)>> /\ server' = [server EXCEPT !.alive = TRUE]
    BY <1>4 DEF Connect
  <2>2. \A x \in Events : <<x>> \in Seq(Events)
    OBVIOUS
  <2>3. wire' \in Seq(Events)
    BY <2>1, <2>2, NewEvents
  <2>4. [server EXCEPT !.alive = TRUE] \in
          [pc : {"idle", "stream", "record"}, gen : Gen \cup {NoGen}, alive : BOOLEAN, tool : BOOLEAN]
    BY <1>0
  <2> QED
    BY <2>1, <2>3, <2>4
<1>5. CASE Drop
  <2>1. wire' = <<>> /\ server' = [server EXCEPT !.alive = FALSE, !.tool = FALSE]
    BY <1>5 DEF Drop
  <2>2. [server EXCEPT !.alive = FALSE, !.tool = FALSE] \in
          [pc : {"idle", "stream", "record"}, gen : Gen \cup {NoGen}, alive : BOOLEAN, tool : BOOLEAN]
    BY <1>0
  <2> QED
    BY <2>1, <2>2, EmptySeq
<1>6. CASE Chunk
  <2>1. server.pc # "idle" /\ Emit(Event("chunk", server.gen)) /\ server' = server
    BY <1>6 DEF Chunk
  <2> QED
    BY <1>0, <2>1, NewEvents, EmitType
<1>7. CASE ToolEvent
  <2>1. /\ server.pc # "idle" /\ server' = [server EXCEPT !.tool = ~server.tool]
        /\ Emit(Event("tool_success", server.gen)) \/ Emit(Event("tool_executing", server.gen))
    BY <1>7 DEF ToolEvent
  <2> QED
    BY <1>0, <2>1, NewEvents, EmitType
<1>8. CASE Refuse
  <2>1. Emit(Event("error", NoGen)) /\ server' = server
    BY <1>8 DEF Refuse
  <2> QED
    BY <1>0, <2>1, NewEvents, EmitType
<1>9. ASSUME NEW g \in Gen, Start(g)
      PROVE  /\ wire' \in Seq(Events)
             /\ server' \in [pc : {"idle", "stream", "record"}, gen : Gen \cup {NoGen},
                              alive : BOOLEAN, tool : BOOLEAN]
  <2>1. Emit(Event("start", g)) /\ server' = [server EXCEPT !.pc = "stream", !.gen = g, !.tool = FALSE]
    BY <1>9 DEF Start
  <2> QED
    BY <1>0, <2>1, NewEvents, EmitType
<1>10. CASE Abandon
  <2>1. wire' = wire /\ server' = Resting(server.alive)
    BY <1>10 DEF Abandon
  <2> QED
    BY <1>0, <1>2, <2>1
<1>11. CASE Complete
  <2>1. wire' = wire /\ server' = [server EXCEPT !.pc = "record", !.tool = FALSE]
    BY <1>11 DEF Complete
  <2> QED
    BY <1>0, <2>1
<1>12. CASE Record
  <2>1. server.pc # "idle" /\ Emit(Event("completion", server.gen)) /\ server' = Resting(server.alive)
    BY <1>12 DEF Record
  <2> QED
    BY <1>0, <1>2, <2>1, NewEvents, EmitType
<1>13. CASE Raise
  <2>1. server.pc # "idle" /\ Emit(Event("error", server.gen)) /\ server' = Resting(server.alive)
    BY <1>13 DEF Raise
  <2> QED
    BY <1>0, <1>2, <2>1, NewEvents, EmitType
<1>14. CASE StopCommand
  <2>1. server' = server /\ (wire' = wire \/ \E g \in Gen : Emit(Event("stop", g)))
    BY <1>14, StopOf
  <2> QED
    BY <1>0, <2>1, NewEvents, EmitType
<1>15. CASE wire' = wire /\ server' = server
  BY <1>0, <1>15
<1> QED
  BY <1>3, <1>4, <1>5, <1>6, <1>7, <1>8, <1>9, <1>10, <1>11, <1>12, <1>13, <1>14, <1>15, WireSteps

LEMMA PageType ==
  ASSUME TypeOK, NamesKnown, NoDuplicateAnswer, [Next]_vars
  PROVE  conv' \in Conv \cup {NoConv} /\ calls' \subseteq Calls
<1>0. conv \in Conv \cup {NoConv} /\ calls \subseteq Calls
      /\ home \in [Gen -> Conv \cup {NoConv}]
  BY DEF TypeOK
<1>1. CASE UNCHANGED vars \/ Send \/ Connect \/ Drop
  <2>1. conv' = conv /\ calls' = calls
    BY <1>1 DEF vars, pageVars, Send, Connect, Drop
  <2> QED
    BY <1>0, <2>1
<1>2. CASE AskStop \/ syncGenerationAfterReconnect
  <2>1. conv' = conv /\ \E c \in {Call("token", NoGen), Call("sync", getPendingGenerationId)} :
                           calls' = calls \cup {c}
    BY <1>2 DEF AskStop, syncGenerationAfterReconnect
  <2> QED
    BY <1>0, <2>1, NewCalls, PendingIs
<1>3. CASE MonitorTick
  <2>1. conv' = conv
    BY <1>3 DEF MonitorTick
  <2>2. calls' = calls \/ \E i : /\ i # 0 /\ i = findAssistantMessage(list, Last(list).gen)
                               /\ calls' = calls \cup {Call("check", list[i].gen)}
    BY <1>3 DEF MonitorTick
  <2>3. list \in Seq(Message) /\ Single(list)
    BY DEF TypeOK, NoDuplicateAnswer, Single
  <2>4. \A i : i # 0 /\ i = findAssistantMessage(list, Last(list).gen) => list[i].gen \in Gen \cup {NoGen}
    <3>1. \A i : i # 0 /\ i = findAssistantMessage(list, Last(list).gen) => list[i] \in Message
      BY <2>3, FindIs, SeqIs
    <3> QED
      BY <3>1 DEF Message
  <2> QED
    BY <1>0, <2>1, <2>2, <2>4, NewCalls
<1>4. CASE Receive
  <2>1. Head(wire) \in Events /\ (Ignored \/ \E i \in DOMAIN list : Applied(i))
    BY <1>4, ReceiveIs
  <2>2. Head(wire).type = "completion" => home[Head(wire).gen] \in Conv \cup {NoConv}
    BY <1>0, <2>1 DEF Events, Body
  <2>3. calls \cup {Call("sessions", NoConv)} \subseteq Calls
    BY <1>0, NewCalls DEF Call
  <2>4. \/ conv' = conv /\ calls' = calls
        \/ /\ Head(wire).type = "completion"
           /\ SetConv(home[Head(wire).gen], calls \cup {Call("sessions", NoConv)})
    BY <2>1 DEF Ignored, Applied
  <2> QED
    BY <1>0, <2>2, <2>3, <2>4, SetConvTyped
<1>5. CASE Clicked
  BY <1>0, <1>5, ClickedIs
<1>6. ASSUME NEW c \in calls, Stop(c)
      PROVE  conv' \in Conv \cup {NoConv} /\ calls' \subseteq Calls
  <2>1. conv' = conv /\ calls' = calls \ {c}
    BY <1>6 DEF Stop
  <2> QED
    BY <1>0, <2>1
<1>7. ASSUME NEW c \in calls, Checked(c) \/ Synced(c)
      PROVE  conv' \in Conv \cup {NoConv} /\ calls' \subseteq Calls
  <2>1. (conv' = conv /\ calls' = calls \ {c}) \/ \E g \in Gen : SetConv(home[g], calls \ {c})
    BY <1>7, CheckedIs, SyncedIs
  <2>2. \A g \in Gen : home[g] \in Conv \cup {NoConv}
    BY <1>0
  <2> QED
    BY <1>0, <2>1, <2>2, SetConvTyped
<1>8. ASSUME NEW c \in calls, SessionsLoaded(c) \/ Fail(c)
      PROVE  conv' \in Conv \cup {NoConv} /\ calls' \subseteq Calls
  <2>1. \/ conv' = conv /\ \E d \in Conv : calls' = (calls \ {c}) \cup {CallThen("switch", d, c.then)}
        \/ Leave(c, c.then)
    BY <1>8 DEF SessionsLoaded, Fail, ActiveSessions
  <2>2. \A d \in Conv : CallThen("switch", d, c.then) \in Calls
    BY <1>0, CallIs, NewCalls
  <2>3. \/ conv' = conv /\ calls' = calls \ {c}
        \/ conv' = conv /\ \E d \in Conv : calls' = (calls \ {c}) \cup {CallThen("switch", d, c.then)}
        \/ SetConv(NoConv, calls \ {c})
    BY <2>1, LeaveIs
  <2> QED
    BY <1>0, <2>2, <2>3, SetConvTyped
<1>9. ASSUME NEW c \in calls, Created(c)
      PROVE  conv' \in Conv \cup {NoConv} /\ calls' \subseteq Calls
  <2>1. PICK d \in Conv : SetConv(d, (calls \ {c}) \cup {Call("sessions", NoConv)})
    BY <1>9 DEF Created
  <2>2. (calls \ {c}) \cup {Call("sessions", NoConv)} \subseteq Calls
    BY <1>0, NewCalls DEF Call
  <2> QED
    BY <2>1, <2>2, SetConvTyped
<1>10. ASSUME NEW c \in calls, Switched(c)
       PROVE  conv' \in Conv \cup {NoConv} /\ calls' \subseteq Calls
  <2>1. SetConv(c.arg, (calls \ {c}) \cup {CallThen("messages", c.arg, c.then)}) /\ c.kind = "switch"
    BY <1>10 DEF Switched
  <2>2. c.arg \in Conv /\ c.then \in Conv \cup {NoConv}
    BY <1>0, <2>1, CallIs
  <2>3. (calls \ {c}) \cup {CallThen("messages", c.arg, c.then)} \subseteq Calls
    BY <1>0, <2>2, NewCalls
  <2> QED
    BY <2>1, <2>2, <2>3, SetConvTyped
<1>11. ASSUME NEW c \in calls, Archived(c)
       PROVE  conv' \in Conv \cup {NoConv} /\ calls' \subseteq Calls
  <2>1. conv' = conv /\ c.kind \in {"archive", "unarchive"}
        /\ calls' = (calls \ {c})
               \cup {CallThen("sessions", NoConv, IF c.kind = "archive" THEN c.arg ELSE NoConv)}
    BY <1>11 DEF Archived
  <2>2. c.arg \in Conv
    BY <1>0, <2>1, CallIs
  <2>3. CallThen("sessions", NoConv, IF c.kind = "archive" THEN c.arg ELSE NoConv) \in Calls
    BY <2>2, NewCalls
  <2> QED
    BY <1>0, <2>1, <2>3
<1>12. ASSUME NEW c \in calls, Loaded(c)
       PROVE  conv' \in Conv \cup {NoConv} /\ calls' \subseteq Calls
  <2>1. (conv' = conv /\ calls' = calls \ {c}) \/ SetConv(NoConv, calls \ {c})
    BY <1>12 DEF Loaded
  <2> QED
    BY <1>0, <2>1, SetConvTyped
<1>13. ASSUME NEW c \in calls, Serve(c)
       PROVE  conv' \in Conv \cup {NoConv} /\ calls' \subseteq Calls
  <2>1. conv' = conv /\ c.kind = "switch" /\ calls' = (calls \ {c}) \cup {[c EXCEPT !.served = TRUE]}
    BY <1>13 DEF Serve
  <2> QED
    BY <1>0, <2>1, ServedCall
<1>14. CASE Chunk \/ ToolEvent \/ Refuse \/ (\E g \in Gen : Start(g)) \/ Abandon \/ Complete
            \/ Record \/ Raise \/ StopCommand
  <2>1. conv' = conv /\ calls' = calls
    BY <1>14 DEF Chunk, ToolEvent, Refuse, Start, Abandon, Complete, Record, Raise, StopCommand, pageVars
  <2> QED
    BY <1>0, <2>1
<1> QED
  BY <1>1, <1>2, <1>3, <1>4, <1>5, <1>6, <1>7, <1>8, <1>9, <1>10, <1>11, <1>12, <1>13, <1>14, Steps

(* The commands: a question or a stop more, the first one less, or gone    *)
(* with the connection.                                                    *)
LEMMA CmdSteps ==
  ASSUME [Next]_vars
  PROVE  \/ cmds' = cmds
         \/ Send \/ Drop \/ \E c \in calls : Stop(c)
         \/ cmds # <<>> /\ cmds' = Tail(cmds) /\ (Refuse \/ (\E g \in Gen : Start(g)) \/ StopCommand)
<1>1. UNCHANGED vars \/ AskStop \/ MonitorTick \/ Receive \/ syncGenerationAfterReconnect \/ Connect
      => cmds' = cmds
  BY DEF vars, AskStop, MonitorTick, Receive, syncGenerationAfterReconnect, Connect
<1>2. Clicked => cmds' = cmds
  BY ClickedIs
<1>3. ASSUME NEW c \in calls,
             \/ Serve(c) \/ Checked(c) \/ Synced(c) \/ SessionsLoaded(c) \/ Created(c)
             \/ Switched(c) \/ Archived(c) \/ Loaded(c) \/ Fail(c)
      PROVE  cmds' = cmds
  BY <1>3 DEF Serve, Checked, Synced, SessionsLoaded, Created, Switched, Archived, Loaded, Fail
<1>4. Chunk \/ ToolEvent \/ Abandon \/ Complete \/ Record \/ Raise => cmds' = cmds
  BY DEF Chunk, ToolEvent, Abandon, Complete, Record, Raise
<1>5. Refuse \/ (\E g \in Gen : Start(g)) \/ StopCommand => cmds # <<>> /\ cmds' = Tail(cmds)
  BY DEF Refuse, Start, StopCommand
<1> QED
  BY <1>1, <1>2, <1>3, <1>4, <1>5, Steps

LEMMA RestType ==
  ASSUME TypeOK, NamesKnown, [Next]_vars
  PROVE  /\ cmds' \in Seq(Commands)
         /\ recorded' \subseteq Gen /\ IsFiniteSet(recorded') /\ running' \in Gen \cup {NoGen}
         /\ pointer' \in Conv \cup {NoConv}
<1>0. /\ cmds \in Seq(Commands) /\ list \in Seq(Message) /\ calls \subseteq Calls
      /\ recorded \subseteq Gen /\ IsFiniteSet(recorded) /\ running \in Gen \cup {NoGen}
      /\ pointer \in Conv \cup {NoConv}
  BY DEF TypeOK
<1>1. cmds' \in Seq(Commands)
  <2>1. CASE Send
    <3>1. Event("chat", NoGen) \in Commands /\ cmds' = Append(cmds, Event("chat", NoGen))
      BY <2>1 DEF Send, Event, Commands
    <3> QED
      BY <1>0, <3>1, Appended
  <2>2. CASE \E c \in calls : Stop(c)
    <3>1. cmds' = Append(cmds, Event("stop", IF list = <<>> THEN NoGen ELSE Last(list).gen))
      BY <2>2 DEF Stop
    <3>2. list # <<>> => Last(list) \in Message
      BY <1>0, Lasts
    <3>3. list # <<>> => Last(list).gen \in Gen \cup {NoGen}
      BY <3>2 DEF Message
    <3>4. Event("stop", IF list = <<>> THEN NoGen ELSE Last(list).gen) \in Commands
      BY <3>3 DEF Event, Commands
    <3> QED
      BY <1>0, <3>1, <3>4, Appended
  <2>3. CASE Drop
    BY <2>3, EmptySeq DEF Drop
  <2>4. CASE cmds # <<>> /\ cmds' = Tail(cmds)
    BY <1>0, <2>4, Tailed
  <2> QED
    BY <1>0, <2>1, <2>2, <2>3, <2>4, CmdSteps
<1>2. CASE storeVars' = storeVars
  BY <1>0, <1>1, <1>2 DEF storeVars
<1>3. ASSUME NEW c \in calls, Serve(c) \/ Created(c) \/ Archived(c)
      PROVE  recorded' = recorded /\ running' = running /\ pointer' \in Conv \cup {NoConv}
  <2>1. c.kind = "switch" => c.arg \in Conv
    BY <1>0, CallIs
  <2> QED
    BY <1>0, <1>3, <2>1 DEF Serve, Created, Archived
<1>4. ASSUME NEW g \in Gen, Start(g)
      PROVE  recorded' = recorded /\ running' = g /\ pointer' \in Conv
  BY <1>4, StartIs DEF Start
<1>5. CASE Complete \/ Raise \/ StopCommand
  <2>1. recorded' = recorded /\ pointer' = pointer
    BY <1>5 DEF Complete, Raise, StopCommand
  <2>2. running' \in Gen \cup {NoGen}
    BY <1>0, <1>5, TerminalIs DEF Terminal
  <2> QED
    BY <1>0, <1>1, <2>1, <2>2
<1>6. CASE Record
  <2>1. recorded' = recorded \cup {server.gen} /\ running' = running /\ pointer' = pointer
        /\ server.gen \in Gen
    BY <1>6 DEF Record, NamesKnown, StoreKnown
  <2> QED
    BY <1>0, <1>1, <2>1, FS_AddElement
<1> QED
  BY <1>0, <1>1, <1>2, <1>3, <1>4, <1>5, <1>6, StoreSteps

LEMMA FlagType ==
  ASSUME TypeOK, [Next]_vars
  PROVE  /\ monitor' \in BOOLEAN /\ acts' \in Nat /\ ws' \in {"OPEN", "CLOSED"}
         /\ uprooted' \in BOOLEAN /\ disturbed' \in BOOLEAN
         /\ (uprooted => uprooted') /\ (disturbed => disturbed')
<1>0. monitor \in BOOLEAN /\ acts \in Nat /\ ws \in {"OPEN", "CLOSED"}
      /\ uprooted \in BOOLEAN /\ disturbed \in BOOLEAN
  BY DEF TypeOK
<1>1. /\ UNCHANGED vars \/ MonitorTick \/ Receive \/ syncGenerationAfterReconnect \/ Connect
         => acts' = acts /\ uprooted' = uprooted /\ disturbed' = disturbed
      /\ AskStop => acts' = acts + 1 /\ uprooted' = uprooted /\ disturbed' = disturbed
      /\ Send => acts' = acts + 1 /\ uprooted' = uprooted /\ disturbed' = (disturbed \/ SessionCalls # {})
      /\ Drop => acts' = acts + 1 /\ uprooted' = TRUE /\ disturbed' = disturbed
  BY DEF vars, history, MonitorTick, Receive, syncGenerationAfterReconnect, Connect, AskStop, Send,
         Drop, Act
<1>2. Clicked => acts' = acts + 1 /\ uprooted' = uprooted /\ disturbed' = (disturbed \/ ~Quiet)
  BY ClickedIs
<1>3. Chunk \/ ToolEvent \/ Refuse \/ (\E g \in Gen : Start(g)) \/ Abandon \/ Complete
      \/ Record \/ Raise \/ StopCommand
      => acts' = acts /\ uprooted' = uprooted /\ disturbed' = disturbed
  BY DEF Chunk, ToolEvent, Refuse, Start, Abandon, Complete, Record, Raise, StopCommand, history
<1>4. ASSUME NEW c \in calls
      PROVE  /\ Serve(c) \/ Stop(c) => acts' = acts /\ uprooted' = uprooted /\ disturbed' = disturbed
             /\ Checked(c) \/ Synced(c) \/ SessionsLoaded(c) \/ Created(c) \/ Switched(c) \/ Loaded(c)
                => acts' = acts /\ disturbed' = disturbed
             /\ Archived(c) => /\ acts' = acts /\ uprooted' = uprooted
                              /\ disturbed' = (disturbed \/ (c.kind = "unarchive" /\ c.arg = conv /\ Elsewhere))
             /\ Fail(c) => acts' = acts /\ disturbed' = (disturbed \/ c \in SessionCalls)
  BY DEF Serve, Stop, Checked, Synced, SessionsLoaded, Created, Switched, Loaded, Archived, Fail, history
<1>5. ASSUME NEW l, Replace(l)
      PROVE  uprooted' \in BOOLEAN /\ (uprooted => uprooted')
  BY <1>0, <1>5 DEF Replace
<1>6. ASSUME NEW c \in calls, Checked(c) \/ Synced(c)
      PROVE  uprooted' \in BOOLEAN /\ (uprooted => uprooted')
  <2>1. uprooted' = uprooted \/ \E g : uprooted' = (uprooted \/ TakesOver(g))
    BY <1>6 DEF Checked, Synced
  <2> QED
    BY <1>0, <2>1
<1>7. ASSUME NEW c \in calls, SessionsLoaded(c) \/ Created(c) \/ Switched(c) \/ Loaded(c) \/ Fail(c)
      PROVE  uprooted' \in BOOLEAN /\ (uprooted => uprooted')
  <2>1. uprooted' = uprooted \/ \E l : Replace(l)
    BY <1>7 DEF SessionsLoaded, Created, Switched, Loaded, Fail, Leave
  <2> QED
    BY <1>0, <1>5, <2>1
<1>8. uprooted' \in BOOLEAN /\ (uprooted => uprooted')
  <2>1. UNCHANGED vars \/ MonitorTick \/ Receive \/ syncGenerationAfterReconnect \/ Connect
        \/ AskStop \/ Send \/ Drop => uprooted' = uprooted \/ uprooted' = TRUE
    BY <1>1
  <2>2. ASSUME NEW c \in calls, Serve(c) \/ Stop(c) \/ Archived(c)
        PROVE  uprooted' = uprooted
    BY <1>4, <2>2
  <2> QED
    BY <1>0, <1>2, <1>3, <1>6, <1>7, <2>1, <2>2, Steps
<1>9. acts' = acts \/ acts' = acts + 1
  BY <1>1, <1>2, <1>3, <1>4, Steps
<1>10. disturbed' \in BOOLEAN /\ (disturbed => disturbed')
  <2>1. UNCHANGED vars \/ MonitorTick \/ Receive \/ syncGenerationAfterReconnect \/ Connect
        \/ AskStop \/ Send \/ Drop \/ Clicked => disturbed' \in BOOLEAN /\ (disturbed => disturbed')
    BY <1>0, <1>1, <1>2
  <2>2. ASSUME NEW c \in calls,
               \/ Serve(c) \/ Stop(c) \/ Checked(c) \/ Synced(c) \/ SessionsLoaded(c) \/ Created(c)
               \/ Switched(c) \/ Archived(c) \/ Loaded(c) \/ Fail(c)
        PROVE  disturbed' \in BOOLEAN /\ (disturbed => disturbed')
    BY <1>0, <1>4, <2>2
  <2> QED
    BY <1>0, <1>3, <2>1, <2>2, Steps
<1>11. monitor' \in BOOLEAN
  <2>1. UNCHANGED vars \/ AskStop \/ syncGenerationAfterReconnect \/ Connect \/ Drop
        => monitor' = monitor
    BY DEF vars, pageVars, AskStop, syncGenerationAfterReconnect, Connect, Drop
  <2>2. Send \/ MonitorTick => monitor' \in {TRUE, FALSE, monitor}
    BY DEF Send, MonitorTick
  <2>3. Receive => monitor' = monitor
                   \/ monitor' = (monitor /\ Head(wire).type \notin {"completion", "stop", "error"})
    BY DEF Receive
  <2>4. ASSUME NEW c \in calls,
               \/ Serve(c) \/ Stop(c) \/ Checked(c) \/ Synced(c) \/ SessionsLoaded(c) \/ Created(c)
               \/ Switched(c) \/ Archived(c) \/ Loaded(c) \/ Fail(c)
        PROVE  monitor' \in {FALSE, monitor}
    BY <2>4 DEF Serve, Stop, Checked, Synced, SessionsLoaded, Created, Switched, Archived, Loaded, Fail
  <2>5. Chunk \/ ToolEvent \/ Refuse \/ (\E g \in Gen : Start(g)) \/ Abandon \/ Complete
        \/ Record \/ Raise \/ StopCommand => monitor' = monitor
    BY DEF Chunk, ToolEvent, Refuse, Start, Abandon, Complete, Record, Raise, StopCommand, pageVars
  <2>6. Clicked => monitor' = monitor
    BY ClickedIs
  <2> QED
    BY <1>0, <2>1, <2>2, <2>3, <2>4, <2>5, <2>6, Steps
<1>12. ws' \in {"OPEN", "CLOSED"}
  <2>1. Connect \/ Drop => ws' \in {"OPEN", "CLOSED"}
    BY DEF Connect, Drop
  <2> QED
    BY <1>0, <2>1, WsSteps
<1> QED
  BY <1>0, <1>8, <1>9, <1>10, <1>11, <1>12

LEMMA TypeStep ==
  ASSUME TypeOK, NamesKnown, NoDuplicateAnswer, [Next]_vars
  PROVE  TypeOK'
BY KnownStays, ListType, LineType, PageType, RestType, FlagType DEF TypeOK

(* No generation comes on screen twice.                                    *)
LEMMA RevisedSingle ==
  ASSUME Single(list), NEW i, Revised(i),
         list'[i].gen = list[i].gen \/ Absent(list, list'[i].gen)
  PROVE  Single(list')
<1>1. \A k \in DOMAIN list : list'[k].role = list[k].role
  BY DEF Revised
<1>2. \A k \in DOMAIN list : k # i => list'[k].gen = list[k].gen
  BY DEF Revised
<1>3. i \in DOMAIN list /\ DOMAIN list' = DOMAIN list
  BY DEF Revised
<1>4. CASE list'[i].gen = list[i].gen
  <2>1. \A k \in DOMAIN list : list'[k].gen = list[k].gen
    BY <1>2, <1>4
  <2> QED
    BY <1>1, <1>3, <2>1 DEF Single
<1>5. CASE Absent(list, list'[i].gen)
  BY <1>1, <1>2, <1>3, <1>5 DEF Single, Absent
<1> QED
  BY <1>4, <1>5

LEMMA PushedSingle ==
  ASSUME list \in Seq(Message), Single(list), NEW g, Absent(list, g), Pushed(g)
  PROVE  Single(list')
<1> DEFINE n == Len(list)
<1>1. /\ DOMAIN list' = DOMAIN list \cup {n + 1, n + 2} /\ list'[n + 1].role = "user"
      /\ \A k \in DOMAIN list : list'[k] = list[k]
      /\ list'[n + 2].gen = g
  BY NewMessages DEF Pushed
<1> HIDE DEF n
<1>2. \A k \in DOMAIN list' : list'[k].role = "assistant" => k \in DOMAIN list \/ k = n + 2
  BY <1>1
<1>3. \A k \in DOMAIN list : list'[k].role = "assistant" => list'[k].gen # g \/ g = NoGen
  BY <1>1 DEF Absent
<1>4. \A k, q \in DOMAIN list :
        /\ list'[k].role = "assistant" /\ list'[q].role = "assistant"
        /\ list'[k].gen = list'[q].gen /\ list'[k].gen # NoGen
        => k = q
  BY <1>1 DEF Single
<1> QED
  BY <1>1, <1>2, <1>3, <1>4 DEF Single

LEMMA SingleStep ==
  ASSUME TypeOK, NamesKnown, NoDuplicateAnswer, [Next]_vars
  PROVE  NoDuplicateAnswer'
<1>1. list \in Seq(Message) /\ Single(list)
  BY DEF TypeOK, NoDuplicateAnswer, Single
<1>2. CASE Send
  <2>1. Absent(list, NoGen) /\ Pushed(NoGen)
    BY <1>2, SendIs DEF Absent
  <2> QED
    BY <1>1, <2>1, PushedSingle DEF NoDuplicateAnswer, Single
<1>3. CASE Receive
  <2>1. CASE Ignored
    BY <1>1, <2>1 DEF Ignored, NoDuplicateAnswer, Single
  <2>2. ASSUME NEW i \in DOMAIN list, Applied(i)
        PROVE  Single(list')
    <3>1. Revised(i) /\ (list'[i].gen = list[i].gen \/ Absent(list, list'[i].gen))
      BY <2>2 DEF Applied
    <3> QED
      BY <1>1, <3>1, RevisedSingle
  <2> QED
    BY <1>3, <2>1, <2>2, ReceiveIs DEF NoDuplicateAnswer, Single
<1>4. ASSUME NEW c \in calls, Stop(c)
      PROVE  Single(list')
  <2>1. CASE Shortened
    BY <1>1, <2>1 DEF Shortened, Single
  <2>2. CASE Revised(Len(list)) /\ list'[Len(list)].gen = list[Len(list)].gen
    BY <1>1, <2>2, RevisedSingle
  <2> QED
    BY <1>1, <1>4, <2>1, <2>2, StopIs DEF Stopped
<1>5. ASSUME NEW c \in calls, Checked(c) \/ Synced(c)
      PROVE  Single(list')
  <2>1. \/ list' = list
        \/ \E g \in Gen :
             (\E i \in DOMAIN list : Settles(g, i)) \/ (Absent(list, g) /\ Pushed(g))
    BY <1>5, CheckedIs, SyncedIs
  <2>2. ASSUME NEW g, NEW i, Settles(g, i)
        PROVE  Single(list')
    <3>1. Revised(i) /\ list'[i].gen = list[i].gen
      BY <2>2 DEF Settles
    <3> QED
      BY <1>1, <3>1, RevisedSingle
  <2> QED
    BY <1>1, <2>1, <2>2, PushedSingle
<1>6. CASE Replaced
  BY <1>6 DEF Replaced, Renewed, NoDuplicateAnswer
<1>7. CASE list' = list
  BY <1>1, <1>7 DEF Single, NoDuplicateAnswer
<1> QED
  BY <1>2, <1>3, <1>4, <1>5, <1>6, <1>7, ListSteps DEF NoDuplicateAnswer, Single

(* Known in the next state.                                                *)
KnownNext(g) == g \in Gen => status'[g] # "none" /\ home'[g] \in Conv

LEMMA NextKnown ==
  ASSUME TypeOK, NamesKnown, [Next]_vars
  PROVE  \A g : Known(g) => KnownNext(g)
BY KnownStays DEF Known, KnownNext

(* The names on screen stay known, and a question stays as it is.          *)
LEMMA ScreenStep ==
  ASSUME TypeOK, NamesKnown, NoDuplicateAnswer, [Next]_vars
  PROVE  ScreenKnown'
<1> DEFINE Fine(m) ==
      /\ KnownNext(m.gen)
      /\ m.role = "user" =>
           /\ m.gen = NoGen /\ m.status \in {"none", "finished"}
           /\ m.text /\ ~m.executing
<1>0. list \in Seq(Message) /\ wire \in Seq(Events)
  BY DEF TypeOK
<1>1. \A i \in DOMAIN list : Fine(list[i])
  BY NextKnown DEF NamesKnown, ScreenKnown
<1>2. KnownNext(NoGen)
  BY ChatAssumption DEF KnownNext
<1>3. SUFFICES \A i \in DOMAIN list' : Fine(list'[i])
  BY DEF ScreenKnown, Known, KnownNext
<1>4. ASSUME NEW g, Known(g), Pushed(g)
      PROVE  \A i \in DOMAIN list' : Fine(list'[i])
  <2>1. KnownNext(g)
    BY <1>4, NextKnown
  <2>2. /\ \A k \in DOMAIN list : list'[k] = list[k]
        /\ list'[Len(list) + 1] = User
        /\ list'[Len(list) + 2].role = "assistant" /\ list'[Len(list) + 2].gen = g
        /\ DOMAIN list' = DOMAIN list \cup {Len(list) + 1, Len(list) + 2}
    BY <1>4 DEF Pushed
  <2>3. Fine(User) /\ Fine(list'[Len(list) + 2])
    BY <1>2, <2>1, <2>2, NewMessages
  <2> HIDE DEF Fine
  <2> QED
    BY <1>1, <2>2, <2>3
<1>5. ASSUME NEW i, Revised(i), Fine(list'[i])
      PROVE  \A k \in DOMAIN list' : Fine(list'[k])
  <2> HIDE DEF Fine
  <2> QED
    BY <1>1, <1>5 DEF Revised
<1>6. CASE Send
  <2>1. Pushed(NoGen) /\ Known(NoGen)
    BY <1>6, SendIs, ChatAssumption DEF Known
  <2> QED
    BY <1>4, <2>1
<1>7. CASE Receive
  <2>1. wire # <<>> /\ (Ignored \/ \E i \in DOMAIN list : Applied(i))
    BY <1>7, ReceiveIs
  <2>2. Head(wire) = wire[1] /\ 1 \in DOMAIN wire
    BY <1>0, <2>1, Tailed
  <2>3. KnownNext(Head(wire).gen)
    BY <2>2, NextKnown DEF NamesKnown, WayKnown
  <2>4. ASSUME NEW i \in DOMAIN list, Applied(i)
        PROVE  Fine(list'[i]) /\ Revised(i)
    BY <1>1, <2>3, <2>4 DEF Applied, Revised
  <2>5. CASE Ignored
    BY <1>1, <2>5 DEF Ignored
  <2> QED
    BY <1>5, <2>1, <2>4, <2>5
<1>8. ASSUME NEW c \in calls, Stop(c)
      PROVE  \A k \in DOMAIN list' : Fine(list'[k])
  <2> DEFINE n == Len(list)
  <2>1. CASE Shortened
    <3> HIDE DEF Fine
    <3> QED
      BY <1>1, <2>1 DEF Shortened
  <2>2. CASE /\ Revised(n) /\ list'[n].status = "finished" /\ list'[n].gen = list[n].gen
             /\ list'[n].executing = list[n].executing /\ list'[n].text
    <3>1. Fine(list[n]) /\ list'[n].role = list[n].role
      BY <1>1, <2>2 DEF Revised
    <3>2. Fine(list'[n])
      BY <2>2, <3>1
    <3> QED
      BY <1>5, <2>2, <3>2
  <2> QED
    BY <1>1, <1>8, <2>1, <2>2, StopIs DEF Stopped
<1>9. ASSUME NEW c \in calls, Checked(c) \/ Synced(c)
      PROVE  \A k \in DOMAIN list' : Fine(list'[k])
  <2>1. \/ list' = list
        \/ \E g \in Gen : Known(g) /\ ((\E i \in DOMAIN list : Settles(g, i)) \/ Pushed(g))
    BY <1>9, CheckedIs, SyncedIs
  <2>2. ASSUME NEW g, Known(g), NEW i, Settles(g, i)
        PROVE  \A k \in DOMAIN list' : Fine(list'[k])
    <3>1. Revised(i) /\ list'[i].gen = g /\ list'[i].role = "assistant"
      BY <2>2 DEF Settles, Revised
    <3>2. Fine(list'[i])
      BY <2>2, <3>1, NextKnown
    <3> QED
      BY <1>5, <3>1, <3>2
  <2> HIDE DEF Fine
  <2> QED
    BY <1>1, <1>4, <2>1, <2>2
<1>10. CASE Replaced
  BY <1>2, <1>10 DEF Replaced, Renewed
<1>11. CASE list' = list
  BY <1>1, <1>11
<1> HIDE DEF Fine
<1> QED
  BY <1>6, <1>7, <1>8, <1>9, <1>10, <1>11, ListSteps

LEMMA EmitIs ==
  ASSUME TypeOK, NEW e \in Events, Emit(e)
  PROVE  \/ ~server.alive /\ wire' = wire
         \/ /\ server.alive /\ wire' = Append(wire, e) /\ Len(wire') = Len(wire) + 1
            /\ DOMAIN wire' = DOMAIN wire \cup {Len(wire) + 1} /\ wire'[Len(wire) + 1] = e
            /\ \A k \in DOMAIN wire : k < Len(wire) + 1 /\ wire'[k] = wire[k]
<1>1. wire \in Seq(Events)
  BY DEF TypeOK
<1>2. CASE server.alive
  <2>1. wire' = Append(wire, e)
    BY <1>2 DEF Emit
  <2> QED
    BY <1>1, <1>2, <2>1, Appended
<1> QED
  BY <1>2 DEF Emit

LEMMA WayStep ==
  ASSUME TypeOK, NamesKnown, [Next]_vars
  PROVE  WayKnown'
<1>0. list \in Seq(Message) /\ wire \in Seq(Events) /\ cmds \in Seq(Commands)
  BY DEF TypeOK
<1>1. /\ \A k \in DOMAIN wire : KnownNext(wire[k].gen)
      /\ \A k \in DOMAIN cmds : KnownNext(cmds[k].gen)
      /\ KnownNext(NoGen)
      /\ server.pc # "idle" => server.gen \in Gen /\ KnownNext(server.gen)
      /\ \A i \in DOMAIN list : KnownNext(list[i].gen)
  BY NextKnown, ChatAssumption DEF NamesKnown, WayKnown, StoreKnown, ScreenKnown, KnownNext
<1>2. ASSUME NEW e \in Events, Emit(e), KnownNext(e.gen)
      PROVE  \A k \in DOMAIN wire' : KnownNext(wire'[k].gen)
  BY <1>1, <1>2, EmitIs
<1>3. \A k \in DOMAIN wire' : KnownNext(wire'[k].gen)
  <2>1. CASE Receive \/ syncGenerationAfterReconnect
    <3>1. wire # <<>> /\ wire' = Tail(wire)
      BY <2>1 DEF Receive, syncGenerationAfterReconnect
    <3> QED
      BY <1>0, <1>1, <3>1, Tailed
  <2>2. CASE Connect \/ Drop
    <3>1. wire' \in {<<>>, <<Event("connection", NoGen)>>}
      BY <2>2 DEF Connect, Drop
    <3>2. Event("connection", NoGen).gen = NoGen
      BY DEF Event
    <3> QED
      BY <1>1, <3>1, <3>2
  <2>3. CASE wire' = wire
    BY <1>1, <2>3
  <2>4. CASE Refuse
    <3>1. Emit(Event("error", NoGen)) /\ Event("error", NoGen).gen = NoGen
      BY <2>4 DEF Refuse, Event
    <3> QED
      BY <1>1, <1>2, <3>1, NewEvents
  <2>5. ASSUME NEW g \in Gen, Start(g)
        PROVE  \A k \in DOMAIN wire' : KnownNext(wire'[k].gen)
    <3>1. Emit(Event("start", g)) /\ Event("start", g).gen = g
      BY <2>5 DEF Start, Event
    <3>2. /\ status \in [Gen -> GenerationStatus \cup {"none"}] /\ home \in [Gen -> Conv \cup {NoConv}]
          /\ status' = [status EXCEPT ![g] = "STREAMING"] /\ pointer' \in Conv
          /\ home' = [home EXCEPT ![g] = pointer']
      BY <2>5, StartIs DEF TypeOK
    <3>3. KnownNext(g)
      BY <3>2 DEF KnownNext
    <3> QED
      BY <1>2, <3>1, <3>3, NewEvents
  <2>6. ASSUME NEW g \in Gen, KnownNext(g),
               NEW t \in {"chunk", "tool_executing", "tool_success", "completion", "error", "stop"},
               Emit(Event(t, g))
        PROVE  \A k \in DOMAIN wire' : KnownNext(wire'[k].gen)
    <3>1. Event(t, g) \in Events /\ Event(t, g).gen = g
      BY DEF Event, Events, Body
    <3> QED
      BY <1>2, <2>6, <3>1
  <2>7. Chunk \/ ToolEvent \/ Record \/ Raise =>
          /\ server.pc # "idle"
          /\ \E t \in {"chunk", "tool_executing", "tool_success", "completion", "error", "stop"} :
               Emit(Event(t, server.gen))
    BY DEF Chunk, ToolEvent, Record, Raise
  <2>8. Abandon \/ Complete => wire' = wire
    BY DEF Abandon, Complete
  <2>9. StopCommand => wire' = wire \/ \E g \in Gen : Known(g) /\ Emit(Event("stop", g))
    BY StopOf
  <2> QED
    BY <1>1, <2>1, <2>2, <2>3, <2>4, <2>5, <2>6, <2>7, <2>8, <2>9, NextKnown, WireSteps
<1>4. \A k \in DOMAIN cmds' : KnownNext(cmds'[k].gen)
  <2>1. CASE Send
    <3>1. Event("chat", NoGen) \in Commands /\ cmds' = Append(cmds, Event("chat", NoGen))
          /\ Event("chat", NoGen).gen = NoGen
      BY <2>1 DEF Send, Event, Commands
    <3> QED
      BY <1>0, <1>1, <3>1, Appended
  <2>2. CASE \E c \in calls : Stop(c)
    <3> DEFINE g == IF list = <<>> THEN NoGen ELSE Last(list).gen
               e == Event("stop", g)
    <3>1. cmds' = Append(cmds, e)
      BY <2>2 DEF Stop
    <3>2. list # <<>> => Last(list) = list[Len(list)] /\ Len(list) \in DOMAIN list /\ Last(list) \in Message
      BY <1>0, Lasts
    <3>3. KnownNext(g) /\ g \in Gen \cup {NoGen}
      BY <1>1, <3>2 DEF Message
    <3>4. e \in Commands /\ e.gen = g
      BY <3>3 DEF Event, Commands
    <3> HIDE DEF e, g
    <3> QED
      BY <1>0, <1>1, <3>1, <3>3, <3>4, Appended
  <2>3. CASE Drop
    BY <2>3 DEF Drop
  <2>4. CASE cmds # <<>> /\ cmds' = Tail(cmds)
    BY <1>0, <1>1, <2>4, Tailed
  <2>5. CASE cmds' = cmds
    BY <1>1, <2>5
  <2> QED
    BY <2>1, <2>2, <2>3, <2>4, <2>5, CmdSteps
<1> QED
  BY <1>3, <1>4 DEF WayKnown, Known, KnownNext

LEMMA StoreStep ==
  ASSUME TypeOK, NamesKnown, [Next]_vars
  PROVE  StoreKnown'
<1>0. /\ status \in [Gen -> GenerationStatus \cup {"none"}] /\ home \in [Gen -> Conv \cup {NoConv}]
      /\ session \in [Conv -> {"none", "ACTIVE", "ARCHIVED"}] /\ recorded \subseteq Gen
      /\ running \in Gen \cup {NoGen} /\ pointer \in Conv \cup {NoConv}
      /\ server \in [pc : {"idle", "stream", "record"}, gen : Gen \cup {NoGen},
                      alive : BOOLEAN, tool : BOOLEAN]
      /\ calls \subseteq Calls
  BY DEF TypeOK
<1>1. /\ \A g \in recorded : KnownNext(g)
      /\ running # NoGen => KnownNext(running) /\ status[running] = "STREAMING"
      /\ server.pc # "idle" => server.gen \in Gen /\ KnownNext(server.gen)
      /\ pointer # NoConv => session'[pointer] # "none"
  BY <1>0, NextKnown, KnownStays DEF NamesKnown, StoreKnown
<1>2. \A g \in recorded' : KnownNext(g)
  <2>1. recorded' = recorded \/ (Record /\ recorded' = recorded \cup {server.gen} /\ server.pc # "idle")
    <3>1. storeVars' = storeVars => recorded' = recorded
      BY DEF storeVars
    <3>2. (\E c \in calls : Serve(c) \/ Created(c) \/ Archived(c)) \/ (\E g \in Gen : Start(g))
          \/ Complete \/ Raise \/ StopCommand => recorded' = recorded
      BY DEF Serve, Created, Archived, Start, Complete, Raise, StopCommand
    <3>3. Record => recorded' = recorded \cup {server.gen} /\ server.pc # "idle"
      BY DEF Record
    <3> QED
      BY <3>1, <3>2, <3>3, StoreSteps
  <2> QED
    BY <1>1, <2>1
<1>3. running' # NoGen => KnownNext(running') /\ status'[running'] = "STREAMING"
  <2>1. CASE storeVars' = storeVars
    <3>1. running' = running /\ status' = status
      BY <2>1 DEF storeVars
    <3> QED
      BY <1>1, <3>1
  <2>2. CASE (\E c \in calls : Serve(c) \/ Created(c) \/ Archived(c)) \/ Record
    <3>1. running' = running /\ status' = status
      BY <2>2 DEF Serve, Created, Archived, Record
    <3> QED
      BY <1>1, <3>1
  <2>3. ASSUME NEW g \in Gen, Start(g)
        PROVE  KnownNext(running') /\ status'[running'] = "STREAMING"
    <3>1. /\ status' = [status EXCEPT ![g] = "STREAMING"] /\ pointer' \in Conv
          /\ home' = [home EXCEPT ![g] = pointer'] /\ running' = g
      BY <2>3, StartIs DEF Start
    <3> QED
      BY <1>0, <3>1 DEF KnownNext
  <2>4. CASE Complete \/ Raise \/ StopCommand
    <3>1. \/ status' = status /\ running' = running
          \/ \E g \in Gen, x \in GenerationStatus :
               /\ status' = [status EXCEPT ![g] = x]
               /\ running' = IF running = g THEN NoGen ELSE running
      BY <2>4, TerminalIs DEF Terminal
    <3> QED
      BY <1>0, <1>1, <3>1
  <2> QED
    BY <2>1, <2>2, <2>3, <2>4, StoreSteps
<1>4. server'.pc # "idle" => server'.gen \in Gen /\ KnownNext(server'.gen)
  <2>1. CASE server' = server
    BY <1>1, <2>1
  <2>2. CASE Connect \/ Drop \/ ToolEvent \/ Complete
    <3>1. server'.gen = server.gen /\ (server'.pc # "idle" => server.pc # "idle")
      BY <1>0, <2>2 DEF Connect, Drop, ToolEvent, Complete
    <3> QED
      BY <1>1, <3>1
  <2>3. CASE Abandon \/ Record \/ Raise
    BY <2>3 DEF Abandon, Record, Raise, Resting
  <2>4. ASSUME NEW g \in Gen, Start(g)
        PROVE  server'.gen \in Gen /\ KnownNext(server'.gen)
    <3>1. /\ status' = [status EXCEPT ![g] = "STREAMING"] /\ pointer' \in Conv
          /\ home' = [home EXCEPT ![g] = pointer']
      BY <2>4, StartIs
    <3>2. server'.gen = g
      BY <1>0, <2>4 DEF Start
    <3> QED
      BY <1>0, <3>1, <3>2 DEF KnownNext
  <2>5. Receive \/ syncGenerationAfterReconnect \/ Chunk \/ Refuse \/ StopCommand => server' = server
    BY DEF Receive, syncGenerationAfterReconnect, Chunk, Refuse, StopCommand
  <2> QED
    BY <2>1, <2>2, <2>3, <2>4, <2>5, WireSteps
<1>5. pointer' # NoConv => session'[pointer'] # "none"
  <2>1. CASE storeVars' = storeVars
    <3>1. pointer' = pointer
      BY <2>1 DEF storeVars
    <3> QED
      BY <1>1, <3>1
  <2>2. ASSUME NEW c \in calls, Serve(c)
        PROVE  session'[pointer'] # "none"
    <3>1. pointer' = c.arg /\ c.kind = "switch" /\ session' = session
      BY <2>2 DEF Serve
    <3> QED
      BY <3>1 DEF NamesKnown, CallsKnown
  <2>3. ASSUME NEW c \in calls, Created(c)
        PROVE  session'[pointer'] # "none"
    <3>1. pointer' \in Conv /\ session' = [session EXCEPT ![pointer'] = "ACTIVE"]
      BY <2>3 DEF Created
    <3> QED
      BY <1>0, <3>1
  <2>4. CASE (\E c \in calls : Archived(c)) \/ Complete \/ Record \/ Raise \/ StopCommand
    <3>1. pointer' = pointer
      BY <2>4 DEF Archived, Complete, Record, Raise, StopCommand
    <3> QED
      BY <1>1, <3>1
  <2>5. CASE \E g \in Gen : Start(g)
    BY <2>5, StartIs
  <2> QED
    BY <2>1, <2>2, <2>3, <2>4, <2>5, StoreSteps
<1> QED
  BY <1>2, <1>3, <1>4, <1>5 DEF StoreKnown, Known, KnownNext

(* The call of a tick asks for an answer that is on its way.               *)
LEMMA TickIs ==
  ASSUME TypeOK, NoDuplicateAnswer, MonitorTick
  PROVE  \/ calls' = calls
         \/ \E i \in DOMAIN list :
              /\ Unsettled(list[i]) /\ list[i].gen # NoGen /\ list[i].gen \in Gen
              /\ calls' = calls \cup {Call("check", list[i].gen)}
<1> DEFINE i == IF list = <<>> THEN 0 ELSE findAssistantMessage(list, Last(list).gen)
<1>1. calls' = calls \/ (i # 0 /\ Unsettled(list[i]) /\ list[i].gen # NoGen
                          /\ calls' = calls \cup {Call("check", list[i].gen)})
  BY DEF MonitorTick
<1>2. list \in Seq(Message) /\ Single(list)
  BY DEF TypeOK, NoDuplicateAnswer, Single
<1>3. i # 0 => i \in DOMAIN list
  BY <1>2, FindIs
<1>4. i # 0 => list[i] \in Message
  BY <1>2, <1>3, SeqIs
<1>5. i # 0 => list[i].gen \in Gen \cup {NoGen}
  BY <1>4 DEF Message
<1> HIDE DEF i
<1> QED
  BY <1>1, <1>3, <1>5

(* The calls of the next state: those before, and a new one with a name    *)
(* that is known.                                                          *)
LEMMA CallSteps ==
  ASSUME TypeOK, NamesKnown, NoDuplicateAnswer, [Next]_vars, NEW d \in calls'
  PROVE  \/ d \in calls
         \/ d.kind \in {"token", "messages", "sessions", "create", "archive", "unarchive"}
         \/ d.kind = "check" /\ \E i \in DOMAIN list : d.arg = list[i].gen /\ d.arg # NoGen
         \/ d.kind = "sync" /\ d.arg \in Gens(list) \cup {NoGen} /\ syncGenerationAfterReconnect
         \/ d.kind = "switch" /\ d.arg \in Conv /\ session[d.arg] # "none"
<1> DEFINE Good ==
         \/ d \in calls
         \/ d.kind \in {"token", "messages", "sessions", "create", "archive", "unarchive"}
         \/ d.kind = "check" /\ \E i \in DOMAIN list : d.arg = list[i].gen /\ d.arg # NoGen
         \/ d.kind = "sync" /\ d.arg \in Gens(list) \cup {NoGen} /\ syncGenerationAfterReconnect
         \/ d.kind = "switch" /\ d.arg \in Conv /\ session[d.arg] # "none"
<1>0. calls \subseteq Calls
  BY DEF TypeOK
<1>1. CASE calls' = calls
  BY <1>1
<1>2. ASSUME NEW c, NEW p, SetConv(c, p), NEW x, p \subseteq calls \cup {x},
             x.kind \in {"messages", "sessions"}
      PROVE  Good
  BY <1>2, SetConvIs DEF Call, CallThen
<1>3. UNCHANGED vars \/ Send \/ Connect \/ Drop => calls' = calls
  BY DEF vars, pageVars, Send, Connect, Drop
<1>4. Chunk \/ ToolEvent \/ Refuse \/ (\E g \in Gen : Start(g)) \/ Abandon \/ Complete
      \/ Record \/ Raise \/ StopCommand => calls' = calls
  BY DEF Chunk, ToolEvent, Refuse, Start, Abandon, Complete, Record, Raise, StopCommand, pageVars
<1>5. CASE AskStop
  BY <1>5 DEF AskStop, Call, CallThen
<1>6. CASE syncGenerationAfterReconnect
  BY <1>6, PendingIs DEF syncGenerationAfterReconnect, Call, CallThen
<1>7. CASE MonitorTick
  BY <1>7, TickIs DEF Call, CallThen
<1>8. CASE Receive
  <2>1. \/ calls' = calls
        \/ SetConv(home[Head(wire).gen], calls \cup {Call("sessions", NoConv)})
    BY <1>8, ReceiveIs DEF Ignored, Applied
  <2>2. Call("sessions", NoConv).kind = "sessions"
    BY DEF Call, CallThen
  <2> QED
    BY <1>2, <2>1, <2>2
<1>9. CASE Clicked
  <2>1. PICK c \in Calls :
          /\ calls' = calls \cup {c} /\ c.kind \in {"create", "switch", "archive", "unarchive"}
          /\ c.kind = "switch" => session[c.arg] # "none"
    BY <1>9, ClickedIs
  <2>2. c.kind = "switch" => c.arg \in Conv
    BY CallIs
  <2> QED
    BY <2>1, <2>2
<1>10. ASSUME NEW c \in calls, Stop(c) \/ Archived(c)
       PROVE  Good
  BY <1>10 DEF Stop, Archived, CallThen
<1>11. ASSUME NEW c \in calls, Checked(c) \/ Synced(c) \/ Loaded(c)
       PROVE  Good
  <2>1. calls' = calls \ {c} \/ \E v : SetConv(v, calls \ {c})
    BY <1>11, CheckedIs, SyncedIs DEF Loaded
  <2>2. Call("sessions", NoConv).kind = "sessions"
    BY DEF Call, CallThen
  <2> QED
    BY <1>2, <2>1, <2>2
<1>12. ASSUME NEW c \in calls, SessionsLoaded(c) \/ Fail(c)
       PROVE  Good
  <2>1. \/ \E v \in Conv : /\ session[v] = "ACTIVE"
                          /\ calls' = (calls \ {c}) \cup {CallThen("switch", v, c.then)}
        \/ calls' = calls \ {c} \/ SetConv(NoConv, calls \ {c})
    BY <1>12, LeaveIs DEF SessionsLoaded, Fail, ActiveSessions
  <2>2. Call("sessions", NoConv).kind = "sessions"
    BY DEF Call, CallThen
  <2>3. CASE \E v \in Conv : /\ session[v] = "ACTIVE"
                           /\ calls' = (calls \ {c}) \cup {CallThen("switch", v, c.then)}
    BY <2>3 DEF CallThen
  <2> QED
    BY <1>2, <2>1, <2>2, <2>3
<1>13. ASSUME NEW c \in calls, Created(c)
       PROVE  Good
  <2>1. \E v : SetConv(v, (calls \ {c}) \cup {Call("sessions", NoConv)})
    BY <1>13 DEF Created
  <2>2. Call("sessions", NoConv).kind = "sessions"
    BY DEF Call, CallThen
  <2> QED
    BY <1>2, <2>1, <2>2
<1>14. ASSUME NEW c \in calls, Switched(c)
       PROVE  Good
  <2>1. SetConv(c.arg, (calls \ {c}) \cup {CallThen("messages", c.arg, c.then)})
    BY <1>14 DEF Switched
  <2>2. CallThen("messages", c.arg, c.then).kind = "messages"
    BY DEF CallThen
  <2> QED
    BY <1>2, <2>1, <2>2
<1>15. ASSUME NEW c \in calls, Serve(c)
       PROVE  Good
  <2>1. c.kind = "switch" /\ calls' = (calls \ {c}) \cup {[c EXCEPT !.served = TRUE]}
        /\ session[c.arg] # "none"
    BY <1>15 DEF Serve, NamesKnown, CallsKnown
  <2>2. c \in Calls /\ c.arg \in Conv
    BY <1>0, <2>1, CallIs
  <2> QED
    BY <2>1, <2>2, ServedCall
<1> QED
  BY <1>1, <1>3, <1>4, <1>5, <1>6, <1>7, <1>8, <1>9, <1>10, <1>11, <1>12, <1>13, <1>14, <1>15, Steps

LEMMA CallsStep ==
  ASSUME TypeOK, NamesKnown, NoDuplicateAnswer, [Next]_vars
  PROVE  CallsKnown'
<1>1. ASSUME NEW d \in calls'
      PROVE  /\ d.kind \in {"sync", "check"} => KnownNext(d.arg)
             /\ d.kind = "check" => d.arg # NoGen
             /\ d.kind = "switch" => session'[d.arg] # "none"
  <2>1. KnownNext(NoGen) /\ \A i \in DOMAIN list : KnownNext(list[i].gen)
    BY NextKnown, ChatAssumption DEF NamesKnown, ScreenKnown, KnownNext
  <2>2. CASE d \in calls
    <3>1. d.kind = "switch" => d.arg \in Conv
      BY <2>2, CallIs DEF TypeOK
    <3>2. /\ d.kind \in {"sync", "check"} => Known(d.arg)
          /\ d.kind = "check" => d.arg # NoGen
          /\ d.kind = "switch" => session[d.arg] # "none"
      BY <2>2 DEF NamesKnown, CallsKnown
    <3> QED
      BY <3>1, <3>2, NextKnown, KnownStays
  <2>3. CASE d.kind = "check" /\ \E i \in DOMAIN list : d.arg = list[i].gen /\ d.arg # NoGen
    BY <2>1, <2>3
  <2>4. CASE d.kind = "sync" /\ d.arg \in Gens(list) \cup {NoGen}
    BY <2>1, <2>4 DEF Gens
  <2>5. CASE d.kind = "switch" /\ d.arg \in Conv /\ session[d.arg] # "none"
    BY <2>5, KnownStays
  <2>6. CASE d.kind \in {"token", "messages", "sessions", "create", "archive", "unarchive"}
    BY <2>6
  <2> QED
    BY <2>2, <2>3, <2>4, <2>5, <2>6, CallSteps
<1> QED
  BY <1>1 DEF CallsKnown, Known, KnownNext

LEMMA LineStep ==
  ASSUME TypeOK, LineOK, [Next]_vars
  PROVE  LineOK'
<1>0. /\ server \in [pc : {"idle", "stream", "record"}, gen : Gen \cup {NoGen},
                      alive : BOOLEAN, tool : BOOLEAN]
      /\ ws \in {"OPEN", "CLOSED"} /\ wire \in Seq(Events)
  BY DEF TypeOK
<1>1. uprooted => uprooted'
  BY FlagType
<1>2. /\ server.alive = (ws = "OPEN")
      /\ ws = "CLOSED" => wire = <<>>
      /\ ~uprooted' /\ server.pc # "idle" => server.alive
  BY <1>1 DEF LineOK
<1>3. CASE wire' = wire /\ server' = server
  <2>1. ws' = ws
    <3>1. ~Connect
      <4>1. Connect => server'.alive /\ ~server.alive
        BY <1>0 DEF Connect
      <4> QED
        BY <1>3, <4>1
    <3>2. ~Drop
      <4>1. Drop => ~server'.alive /\ ws = "OPEN"
        BY <1>0 DEF Drop
      <4> QED
        BY <1>2, <1>3, <4>1
    <3> QED
      BY <3>1, <3>2, WsSteps
  <2> QED
    BY <1>2, <1>3, <2>1 DEF LineOK
<1>4. CASE Receive \/ syncGenerationAfterReconnect
  <2>1. wire # <<>> /\ server' = server /\ ws' = ws
    BY <1>4 DEF Receive, syncGenerationAfterReconnect
  <2> QED
    BY <1>0, <1>2, <2>1 DEF LineOK
<1>5. CASE Connect
  <2>1. ws' = "OPEN" /\ server' = [server EXCEPT !.alive = TRUE]
    BY <1>5 DEF Connect
  <2> QED
    BY <1>0, <2>1 DEF LineOK
<1>6. CASE Drop
  <2>1. ws' = "CLOSED" /\ server' = [server EXCEPT !.alive = FALSE, !.tool = FALSE] /\ wire' = <<>>
        /\ uprooted' = TRUE
    BY <1>6 DEF Drop
  <2> QED
    BY <1>0, <2>1 DEF LineOK
<1>7. ASSUME NEW e, Emit(e), ws' = ws, server'.alive = server.alive,
             server'.pc # "idle" => server.pc # "idle" \/ server.alive
      PROVE  LineOK'
  <2>1. ws = "CLOSED" => wire' = wire
    BY <1>2, <1>7 DEF Emit
  <2> QED
    BY <1>0, <1>2, <1>7, <2>1 DEF LineOK
<1>8. CASE Chunk \/ ToolEvent \/ Refuse \/ (\E g \in Gen : Start(g)) \/ Record \/ Raise
  <2>1. ws' = ws /\ \E e : Emit(e)
    BY <1>8 DEF Chunk, ToolEvent, Refuse, Start, Record, Raise, pageVars
  <2>2. server'.alive = server.alive /\ (server'.pc # "idle" => server.pc # "idle" \/ server.alive)
    <3>1. Chunk \/ ToolEvent \/ Refuse \/ (\E g \in Gen : Start(g))
          => server'.alive = server.alive /\ server.alive
      BY <1>0 DEF Chunk, ToolEvent, Refuse, Start
    <3>2. Record \/ Raise => server'.alive = server.alive /\ server'.pc = "idle"
      BY <1>0 DEF Record, Raise, Resting
    <3> QED
      BY <1>8, <3>1, <3>2
  <2> QED
    BY <1>7, <2>1, <2>2
<1>9. CASE Abandon \/ Complete
  <2>1. ws' = ws /\ wire' = wire /\ server'.alive = server.alive /\ (server'.pc # "idle" => server.pc # "idle")
    <3>1. CASE Abandon
      <4>1. ws' = ws /\ wire' = wire /\ server' = Resting(server.alive)
        BY <3>1 DEF Abandon, pageVars
      <4> QED
        BY <4>1 DEF Resting
    <3>2. CASE Complete
      <4>1. ws' = ws /\ wire' = wire /\ server' = [server EXCEPT !.pc = "record", !.tool = FALSE]
            /\ server.pc # "idle"
        BY <3>2 DEF Complete, pageVars
      <4> QED
        BY <1>0, <4>1
    <3> QED
      BY <1>9, <3>1, <3>2
  <2> QED
    BY <1>2, <2>1 DEF LineOK
<1>10. CASE StopCommand
  <2>1. ws' = ws /\ server' = server /\ (wire' = wire \/ \E e : Emit(e))
    BY <1>10 DEF StopCommand, pageVars
  <2>2. CASE wire' = wire
    BY <1>2, <2>1, <2>2 DEF LineOK
  <2> QED
    BY <1>7, <2>1, <2>2
<1> QED
  BY <1>3, <1>4, <1>5, <1>6, <1>7, <1>8, <1>9, <1>10, WireSteps

-----------------------------------------------------------------------------
(* The generations on screen: while the page is not uprooted, a start      *)
(* brings the only new one.                                                *)

LEMMA NotUprooted ==
  ASSUME TypeOK, NamesKnown, NoDuplicateAnswer, FirstLine, ~uprooted', NEW c \in calls
  PROVE  /\ Synced(c) => list' = list /\ conv' = conv /\ calls' = calls \ {c}
         /\ Checked(c) =>
              \/ list' = list /\ conv' = conv /\ calls' = calls \ {c}
              \/ /\ c.arg \in Gen /\ Known(c.arg) /\ SetConv(home[c.arg], calls \ {c})
                 /\ \E i \in DOMAIN list :
                      /\ Settles(c.arg, i) /\ ~list'[i].executing
                      /\ list'[i].status \in {"finished", "error"}
<1>1. Synced(c) => c.arg = NoGen
  BY DEF FirstLine, Synced
<1> QED
  BY <1>1, SyncedIs, CheckedIs DEF Settles

LEMMA GensStep ==
  ASSUME TypeOK, NamesKnown, NoDuplicateAnswer, FirstLine, [Next]_vars, ~uprooted'
  PROVE  \/ Gens(list') \subseteq Gens(list)
         \/ /\ Receive /\ Head(wire).type = "start"
            /\ Gens(list') \subseteq Gens(list) \cup {Head(wire).gen}
<1>0. list \in Seq(Message)
  BY DEF TypeOK
<1>1. ASSUME NEW i, Revised(i)
      PROVE  Gens(list') \subseteq Gens(list) \cup {list'[i].gen}
  BY <1>1 DEF Revised, Gens
<1>2. CASE Send
  <2>1. Pushed(NoGen)
    BY <1>2, SendIs
  <2>2. /\ \A k \in DOMAIN list : list'[k] = list[k]
        /\ list'[Len(list) + 1].gen = NoGen /\ list'[Len(list) + 2].gen = NoGen
        /\ DOMAIN list' = DOMAIN list \cup {Len(list) + 1, Len(list) + 2}
    BY <2>1, NewMessages DEF Pushed
  <2> QED
    BY <2>2 DEF Gens
<1>3. CASE Receive
  <2>1. CASE Ignored
    BY <2>1 DEF Ignored
  <2>2. ASSUME NEW i \in DOMAIN list, Applied(i)
        PROVE  \/ Gens(list') \subseteq Gens(list)
               \/ /\ Head(wire).type = "start"
                  /\ Gens(list') \subseteq Gens(list) \cup {Head(wire).gen}
    <3>1. Revised(i) /\ list'[i].gen = IF Head(wire).type = "start" THEN Head(wire).gen ELSE list[i].gen
      BY <2>2 DEF Applied
    <3>2. list[i].gen \in Gens(list) \cup {NoGen} /\ NoGen \notin Gens(list')
      BY DEF Gens
    <3> QED
      BY <1>1, <3>1, <3>2
  <2> QED
    BY <1>3, <2>1, <2>2, ReceiveIs
<1>4. ASSUME NEW c \in calls, Stop(c)
      PROVE  Gens(list') \subseteq Gens(list)
  <2>1. CASE Shortened
    BY <2>1 DEF Shortened, Gens
  <2>2. CASE Revised(Len(list)) /\ list'[Len(list)].gen = list[Len(list)].gen
    <3>1. Len(list) \in DOMAIN list
      BY <2>2 DEF Revised
    <3> QED
      BY <1>1, <2>2, <3>1 DEF Gens
  <2> QED
    BY <1>4, <2>1, <2>2, StopIs DEF Stopped
<1>5. ASSUME NEW c \in calls, Checked(c) \/ Synced(c)
      PROVE  Gens(list') \subseteq Gens(list)
  <2>1. list' = list \/ \E i \in DOMAIN list : Settles(c.arg, i)
    BY <1>5, NotUprooted
  <2>2. ASSUME NEW i \in DOMAIN list, Settles(c.arg, i)
        PROVE  Gens(list') \subseteq Gens(list)
    <3>1. Revised(i) /\ list'[i].gen = list[i].gen
      BY <2>2 DEF Settles
    <3> QED
      BY <1>1, <3>1 DEF Gens
  <2> QED
    BY <2>1, <2>2
<1>6. CASE Replaced
  BY <1>6 DEF Replaced, Renewed, Gens
<1> QED
  BY <1>2, <1>3, <1>4, <1>5, <1>6, ListSteps

-----------------------------------------------------------------------------
(* The events on their way.                                                *)

BusyNext(g) == server'.pc # "idle" /\ server'.gen = g

LEMMA EventIs ==
  ASSUME NEW e \in Events
  PROVE  /\ OfAnswer(e) => e.gen \in Gen
         /\ Ends(e) => e.gen \in Gen /\ e.type \notin Body
         /\ e.type \in Body => e.gen \in Gen
BY ChatAssumption DEF Events, OfAnswer, Ends, Body

(* The first event is gone.                                                *)
LEMMA WireTail ==
  ASSUME TypeOK, WireOK, wire # <<>>, wire' = Tail(wire), server' = server,
         \/ Gens(list') \subseteq Gens(list)
         \/ Head(wire).type = "start" /\ Gens(list') \subseteq Gens(list) \cup {Head(wire).gen}
  PROVE  WireOK'
<1>1. /\ DOMAIN wire = 1..Len(wire) /\ Len(wire) \in Nat /\ DOMAIN wire' = 1..(Len(wire) - 1)
      /\ \A k \in DOMAIN wire' : k + 1 \in DOMAIN wire /\ wire'[k] = wire[k + 1]
      /\ \A k \in DOMAIN wire : k # 1 => k - 1 \in DOMAIN wire' /\ wire'[k - 1] = wire[k]
      /\ Head(wire) = wire[1] /\ 1 \in DOMAIN wire
  BY Tailed, SeqIs DEF TypeOK
<1>2. EndComes'
  <2>1. SUFFICES ASSUME NEW k \in DOMAIN wire', wire'[k].type \in Body, ~BusyNext(wire'[k].gen)
                 PROVE  \E q \in DOMAIN wire' : q > k /\ Ends(wire'[q]) /\ wire'[q].gen = wire'[k].gen
    BY DEF EndComes, Busy, BusyNext
  <2>2. k + 1 \in DOMAIN wire /\ wire'[k] = wire[k + 1]
    BY <1>1
  <2>3. PICK q \in DOMAIN wire : q > k + 1 /\ Ends(wire[q]) /\ wire[q].gen = wire[k + 1].gen
    BY <2>1, <2>2 DEF WireOK, EndComes, Busy, BusyNext
  <2>4. q # 1 /\ q - 1 > k
    BY <1>1, <2>1, <2>3
  <2>5. q - 1 \in DOMAIN wire' /\ wire'[q - 1] = wire[q]
    BY <1>1, <2>4
  <2> QED
    BY <2>2, <2>3, <2>4, <2>5
<1>3. ConnectionFirst'
  <2>1. SUFFICES ASSUME NEW k \in DOMAIN wire', wire'[k].type = "connection"
                 PROVE  FALSE
    BY DEF ConnectionFirst
  <2>2. k + 1 = 1
    BY <1>1, <2>1 DEF WireOK, ConnectionFirst
  <2> QED
    BY <1>1, <2>1, <2>2
<1>4. StartsNew'
  <2>1. SUFFICES ASSUME NEW k \in DOMAIN wire', wire'[k].type = "start"
                 PROVE  /\ wire'[k].gen \notin Gens(list')
                        /\ \A q \in DOMAIN wire' : OfAnswer(wire'[q]) /\ wire'[q].gen = wire'[k].gen =>
                             q >= k /\ (q > k => wire'[q].type # "start")
    BY DEF StartsNew
  <2>2. k + 1 \in DOMAIN wire /\ wire'[k] = wire[k + 1]
    BY <1>1
  <2>3. /\ wire[k + 1].gen \notin Gens(list)
        /\ \A q \in DOMAIN wire : OfAnswer(wire[q]) /\ wire[q].gen = wire[k + 1].gen =>
             q >= k + 1 /\ (q > k + 1 => wire[q].type # "start")
    BY <2>1, <2>2 DEF WireOK, StartsNew
  <2>4. Head(wire).type = "start" => Head(wire).gen # wire[k + 1].gen
    <3>1. SUFFICES ASSUME Head(wire).type = "start", Head(wire).gen = wire[k + 1].gen
                   PROVE  FALSE
      OBVIOUS
    <3>2. OfAnswer(wire[1])
      BY <1>1, <3>1 DEF OfAnswer, Body
    <3>3. 1 >= k + 1
      BY <1>1, <2>3, <3>1, <3>2
    <3> QED
      BY <1>1, <2>1, <3>3
  <2>5. wire[k + 1].gen \notin Gens(list')
    BY <2>3, <2>4
  <2>6. ASSUME NEW q \in DOMAIN wire', OfAnswer(wire'[q]), wire'[q].gen = wire'[k].gen
        PROVE  q >= k /\ (q > k => wire'[q].type # "start")
    <3>1. q + 1 \in DOMAIN wire /\ wire'[q] = wire[q + 1]
      BY <1>1
    <3>2. q + 1 >= k + 1 /\ (q + 1 > k + 1 => wire[q + 1].type # "start")
      BY <2>2, <2>3, <2>6, <3>1
    <3> QED
      BY <1>1, <3>1, <3>2
  <2> QED
    BY <2>2, <2>5, <2>6
<1>5. StartsFirst'
  <2>1. SUFFICES ASSUME NEW k \in DOMAIN wire', wire'[k].type = "start"
                 PROVE  /\ \A q \in DOMAIN wire' :
                             OfAnswer(wire'[q]) /\ wire'[q].gen # wire'[k].gen /\ q > k =>
                             \E r \in DOMAIN wire' : k < r /\ r <= q /\ IsStart(wire'[r], wire'[q].gen)
                        /\ \A g \in Gen : BusyNext(g) /\ g # wire'[k].gen =>
                             \E r \in DOMAIN wire' : k < r /\ IsStart(wire'[r], g)
    BY DEF StartsFirst, Busy, BusyNext
  <2>2. k + 1 \in DOMAIN wire /\ wire'[k] = wire[k + 1]
    BY <1>1
  <2>3. /\ \A q \in DOMAIN wire : OfAnswer(wire[q]) /\ wire[q].gen # wire[k + 1].gen /\ q > k + 1 =>
             \E r \in DOMAIN wire : k + 1 < r /\ r <= q /\ IsStart(wire[r], wire[q].gen)
        /\ \A g \in Gen : Busy(g) /\ g # wire[k + 1].gen =>
             \E r \in DOMAIN wire : k + 1 < r /\ IsStart(wire[r], g)
    BY <2>1, <2>2 DEF WireOK, StartsFirst
  <2>4. ASSUME NEW r \in DOMAIN wire, k + 1 < r
        PROVE  r - 1 \in DOMAIN wire' /\ wire'[r - 1] = wire[r] /\ k < r - 1
    BY <1>1, <2>1, <2>4
  <2>5. ASSUME NEW q \in DOMAIN wire', OfAnswer(wire'[q]), wire'[q].gen # wire'[k].gen, q > k
        PROVE  \E r \in DOMAIN wire' : k < r /\ r <= q /\ IsStart(wire'[r], wire'[q].gen)
    <3>1. q + 1 \in DOMAIN wire /\ wire'[q] = wire[q + 1] /\ q + 1 > k + 1
      BY <1>1, <2>1, <2>5
    <3>2. PICK r \in DOMAIN wire : k + 1 < r /\ r <= q + 1 /\ IsStart(wire[r], wire[q + 1].gen)
      BY <2>2, <2>3, <2>5, <3>1
    <3>3. r - 1 <= q
      BY <1>1, <2>1, <2>5, <3>2
    <3> QED
      BY <2>4, <3>1, <3>2, <3>3
  <2>6. ASSUME NEW g \in Gen, BusyNext(g), g # wire'[k].gen
        PROVE  \E r \in DOMAIN wire' : k < r /\ IsStart(wire'[r], g)
    <3>1. Busy(g)
      BY <2>6 DEF Busy, BusyNext
    <3>2. PICK r \in DOMAIN wire : k + 1 < r /\ IsStart(wire[r], g)
      BY <2>2, <2>3, <2>6, <3>1
    <3> QED
      BY <2>4, <3>2
  <2> QED
    BY <2>5, <2>6
<1> QED
  BY <1>2, <1>3, <1>4, <1>5 DEF WireOK

(* One event more: a body event while its generation runs, its end as it   *)
(* stops running, a start of a new one, or one of no answer.               *)
Says(e) ==
  /\ e \in Events /\ e.type # "connection"
  /\ \A g : Busy(g) => BusyNext(g) \/ (Ends(e) /\ e.gen = g)
  /\ \A g : BusyNext(g) => Busy(g) \/ IsStart(e, g)
  /\ e.type \in Body => BusyNext(e.gen)
  /\ OfAnswer(e) /\ e.type # "start" => Busy(e.gen)
  /\ e.type = "start" => e.gen \notin Gens(list) /\ \A k \in DOMAIN wire : wire[k].gen # e.gen

LEMMA WireAppend ==
  ASSUME TypeOK, WireOK, NEW e, Says(e), wire' = Append(wire, e), Gens(list') \subseteq Gens(list)
  PROVE  WireOK'
<1> DEFINE n == Len(wire) + 1
<1>1. /\ DOMAIN wire' = DOMAIN wire \cup {n} /\ wire'[n] = e
      /\ \A k \in DOMAIN wire : k < n /\ wire'[k] = wire[k] /\ k \in Nat
      /\ n \in Nat
  BY Appended, SeqIs DEF TypeOK, Says
<1> HIDE DEF n
<1>2. e \in Events /\ (Ends(e) => e.type \notin Body) /\ (OfAnswer(e) => e.gen \in Gen)
  BY EventIs DEF Says
<1>3. EndComes'
  <2>1. SUFFICES ASSUME NEW k \in DOMAIN wire', wire'[k].type \in Body, ~BusyNext(wire'[k].gen)
                 PROVE  \E q \in DOMAIN wire' : q > k /\ Ends(wire'[q]) /\ wire'[q].gen = wire'[k].gen
    BY DEF EndComes, Busy, BusyNext
  <2>2. k # n
    BY <1>1, <2>1 DEF Says
  <2>3. k \in DOMAIN wire /\ wire'[k] = wire[k] /\ k < n
    BY <1>1, <2>2
  <2>4. CASE Busy(wire[k].gen)
    <3>1. Ends(e) /\ e.gen = wire[k].gen
      BY <2>1, <2>3, <2>4 DEF Says
    <3> QED
      BY <1>1, <2>3, <3>1
  <2>5. CASE ~Busy(wire[k].gen)
    <3>1. PICK q \in DOMAIN wire : q > k /\ Ends(wire[q]) /\ wire[q].gen = wire[k].gen
      BY <2>1, <2>3, <2>5 DEF WireOK, EndComes
    <3> QED
      BY <1>1, <2>3, <3>1
  <2> QED
    BY <2>4, <2>5
<1>4. ConnectionFirst'
  <2>1. ASSUME NEW k \in DOMAIN wire', wire'[k].type = "connection"
        PROVE  k = 1
    <3>1. k # n
      BY <1>1, <2>1 DEF Says
    <3> QED
      BY <1>1, <2>1, <3>1 DEF WireOK, ConnectionFirst
  <2> QED
    BY <2>1 DEF ConnectionFirst
<1>5. StartsNew'
  <2>1. SUFFICES ASSUME NEW k \in DOMAIN wire', wire'[k].type = "start"
                 PROVE  /\ wire'[k].gen \notin Gens(list')
                        /\ \A q \in DOMAIN wire' : OfAnswer(wire'[q]) /\ wire'[q].gen = wire'[k].gen =>
                             q >= k /\ (q > k => wire'[q].type # "start")
    BY DEF StartsNew
  <2>2. CASE k = n
    <3>1. e.type = "start" /\ wire'[k] = e
      BY <1>1, <2>1, <2>2
    <3>2. e.gen \notin Gens(list') /\ \A q \in DOMAIN wire : wire[q].gen # e.gen
      BY <3>1 DEF Says
    <3>3. \A q \in DOMAIN wire' : wire'[q].gen = e.gen => q = n
      BY <1>1, <3>2
    <3> QED
      BY <1>1, <2>2, <3>1, <3>2, <3>3
  <2>3. CASE k # n
    <3>1. k \in DOMAIN wire /\ wire'[k] = wire[k] /\ k < n
      BY <1>1, <2>3
    <3>2. /\ wire[k].gen \notin Gens(list)
          /\ \A q \in DOMAIN wire : OfAnswer(wire[q]) /\ wire[q].gen = wire[k].gen =>
               q >= k /\ (q > k => wire[q].type # "start")
      BY <2>1, <3>1 DEF WireOK, StartsNew
    <3>3. e.gen = wire[k].gen => e.type # "start"
      BY <3>1 DEF Says
    <3>4. ASSUME NEW q \in DOMAIN wire', OfAnswer(wire'[q]), wire'[q].gen = wire'[k].gen
          PROVE  q >= k /\ (q > k => wire'[q].type # "start")
      <4>1. CASE q = n
        BY <1>1, <3>1, <3>3, <3>4, <4>1
      <4>2. CASE q # n
        BY <1>1, <3>1, <3>2, <3>4, <4>2
      <4> QED
        BY <4>1, <4>2
    <3> QED
      BY <3>1, <3>2, <3>4
  <2> QED
    BY <2>2, <2>3
<1>6. StartsFirst'
  <2>1. SUFFICES ASSUME NEW k \in DOMAIN wire', wire'[k].type = "start"
                 PROVE  /\ \A q \in DOMAIN wire' :
                             OfAnswer(wire'[q]) /\ wire'[q].gen # wire'[k].gen /\ q > k =>
                             \E r \in DOMAIN wire' : k < r /\ r <= q /\ IsStart(wire'[r], wire'[q].gen)
                        /\ \A g \in Gen : BusyNext(g) /\ g # wire'[k].gen =>
                             \E r \in DOMAIN wire' : k < r /\ IsStart(wire'[r], g)
    BY DEF StartsFirst, Busy, BusyNext
  <2>2. CASE k = n
    <3>1. e.type = "start" /\ wire'[k] = e
      BY <1>1, <2>1, <2>2
    <3>2. \A q \in DOMAIN wire' : ~(q > k)
      BY <1>1, <2>2
    <3>3. \A g : BusyNext(g) => g = e.gen
      BY <3>1 DEF Says, BusyNext, Body
    <3> QED
      BY <3>1, <3>2, <3>3
  <2>3. CASE k # n
    <3>1. k \in DOMAIN wire /\ wire'[k] = wire[k] /\ k < n
      BY <1>1, <2>3
    <3>2. /\ \A q \in DOMAIN wire : OfAnswer(wire[q]) /\ wire[q].gen # wire[k].gen /\ q > k =>
               \E r \in DOMAIN wire : k < r /\ r <= q /\ IsStart(wire[r], wire[q].gen)
          /\ \A g \in Gen : Busy(g) /\ g # wire[k].gen =>
               \E r \in DOMAIN wire : k < r /\ IsStart(wire[r], g)
      BY <2>1, <3>1 DEF WireOK, StartsFirst
    <3>3. ASSUME NEW g \in Gen, g # wire[k].gen, Busy(g) \/ IsStart(e, g)
          PROVE  \E r \in DOMAIN wire' : k < r /\ IsStart(wire'[r], g)
      <4>1. CASE IsStart(e, g)
        BY <1>1, <3>1, <4>1
      <4>2. CASE Busy(g)
        BY <1>1, <3>2, <3>3, <4>2
      <4> QED
        BY <3>3, <4>1, <4>2
    <3>4. ASSUME NEW q \in DOMAIN wire', OfAnswer(wire'[q]), wire'[q].gen # wire'[k].gen, q > k
          PROVE  \E r \in DOMAIN wire' : k < r /\ r <= q /\ IsStart(wire'[r], wire'[q].gen)
      <4>1. CASE q = n
        <5>1. wire'[q] = e /\ e.gen \in Gen /\ e.gen # wire[k].gen /\ OfAnswer(e)
          BY <1>1, <1>2, <3>1, <3>4, <4>1
        <5>2. Busy(e.gen) \/ IsStart(e, e.gen)
          BY <5>1 DEF Says, IsStart
        <5>3. PICK r \in DOMAIN wire' : k < r /\ IsStart(wire'[r], e.gen)
          BY <3>3, <5>1, <5>2
        <5>4. r <= q
          BY <1>1, <4>1
        <5> QED
          BY <5>1, <5>3, <5>4
      <4>2. CASE q # n
        <5>1. q \in DOMAIN wire /\ wire'[q] = wire[q]
          BY <1>1, <4>2
        <5>2. PICK r \in DOMAIN wire : k < r /\ r <= q /\ IsStart(wire[r], wire[q].gen)
          BY <3>1, <3>2, <3>4, <5>1
        <5> QED
          BY <1>1, <5>1, <5>2
      <4> QED
        BY <4>1, <4>2
    <3>5. ASSUME NEW g \in Gen, BusyNext(g), g # wire'[k].gen
          PROVE  \E r \in DOMAIN wire' : k < r /\ IsStart(wire'[r], g)
      <4>1. Busy(g) \/ IsStart(e, g)
        BY <3>5 DEF Says
      <4> QED
        BY <3>1, <3>3, <3>5, <4>1
    <3> QED
      BY <3>4, <3>5
  <2> QED
    BY <2>2, <2>3
<1> QED
  BY <1>3, <1>4, <1>5, <1>6 DEF WireOK

(* What each step of the server says.                                      *)
LEMMA Talks ==
  ASSUME TypeOK, NamesKnown, LineOK, ~uprooted, Gens(list') = Gens(list)
  PROVE  /\ Chunk \/ ToolEvent \/ Record \/ Raise \/ Refuse \/ (\E g \in Gen : Start(g))
            => \E e : Says(e) /\ wire' = Append(wire, e)
         /\ StopCommand => wire' = wire \/ \E e : Says(e) /\ wire' = Append(wire, e)
         /\ Complete \/ StopCommand => \A g : BusyNext(g) <=> Busy(g)
         /\ ~Abandon
<1>0. /\ server \in [pc : {"idle", "stream", "record"}, gen : Gen \cup {NoGen},
                      alive : BOOLEAN, tool : BOOLEAN]
      /\ server.pc # "idle" => server.gen \in Gen /\ server.alive
  BY DEF TypeOK, NamesKnown, StoreKnown, LineOK
<1>1. ASSUME Chunk \/ ToolEvent
      PROVE  \E e : Says(e) /\ wire' = Append(wire, e)
  <2>1. /\ server.pc # "idle" /\ server'.pc = server.pc /\ server'.gen = server.gen
        /\ \E t \in {"chunk", "tool_executing", "tool_success"} : Emit(Event(t, server.gen))
    BY <1>0, <1>1 DEF Chunk, ToolEvent
  <2>2. PICK t \in {"chunk", "tool_executing", "tool_success"} : Emit(Event(t, server.gen))
    BY <2>1
  <2>3. Event(t, server.gen) \in Events /\ Event(t, server.gen).type = t
        /\ Event(t, server.gen).gen = server.gen
    BY <1>0, <2>1 DEF Event, Events, Body
  <2>4. Says(Event(t, server.gen))
    BY <2>1, <2>3 DEF Says, Busy, BusyNext
  <2> QED
    BY <1>0, <2>1, <2>2, <2>4 DEF Emit
<1>2. ASSUME Record \/ Raise
      PROVE  \E e : Says(e) /\ wire' = Append(wire, e)
  <2>1. /\ server.pc # "idle" /\ server'.pc = "idle"
        /\ \E t \in {"completion", "error"} : Emit(Event(t, server.gen))
    BY <1>0, <1>2 DEF Record, Raise, Resting
  <2>2. PICK t \in {"completion", "error"} : Emit(Event(t, server.gen))
    BY <2>1
  <2>3. Event(t, server.gen) \in Events /\ Event(t, server.gen).type = t
        /\ Event(t, server.gen).gen = server.gen /\ server.gen # NoGen
    BY <1>0, <2>1, ChatAssumption DEF Event, Events, Body
  <2>4. Says(Event(t, server.gen))
    BY <2>1, <2>3 DEF Says, Busy, BusyNext, Ends, OfAnswer, Body
  <2> QED
    BY <1>0, <2>1, <2>2, <2>4 DEF Emit
<1>3. ASSUME Refuse
      PROVE  \E e : Says(e) /\ wire' = Append(wire, e)
  <2>1. Emit(Event("error", NoGen)) /\ server' = server /\ server.alive
    BY <1>3 DEF Refuse
  <2>2. Event("error", NoGen) \in Events /\ Event("error", NoGen).type = "error"
        /\ Event("error", NoGen).gen = NoGen
    BY NewEvents DEF Event
  <2>3. Says(Event("error", NoGen))
    BY <2>1, <2>2 DEF Says, Busy, BusyNext, Ends, OfAnswer, Body
  <2> QED
    BY <2>1, <2>3 DEF Emit
<1>4. ASSUME NEW g \in Gen, Start(g)
      PROVE  \E e : Says(e) /\ wire' = Append(wire, e)
  <2>1. /\ Emit(Event("start", g)) /\ server.pc = "idle" /\ server.alive /\ status[g] = "none"
        /\ server' = [server EXCEPT !.pc = "stream", !.gen = g, !.tool = FALSE]
    BY <1>4 DEF Start
  <2>2. server'.pc = "stream" /\ server'.gen = g
    BY <1>0, <2>1
  <2>3. Event("start", g) \in Events /\ Event("start", g).type = "start" /\ Event("start", g).gen = g
    BY NewEvents DEF Event
  <2>4. ~Known(g)
    BY <2>1 DEF Known
  <2>5. g \notin Gens(list) /\ \A k \in DOMAIN wire : wire[k].gen # g
    BY <2>4 DEF NamesKnown, ScreenKnown, WayKnown, Gens
  <2>6. Says(Event("start", g))
    BY <2>1, <2>2, <2>3, <2>5 DEF Says, Busy, BusyNext, OfAnswer, Body, IsStart, Ends
  <2> QED
    BY <2>1, <2>6 DEF Emit
<1>5. ASSUME StopCommand
      PROVE  /\ wire' = wire \/ \E e : Says(e) /\ wire' = Append(wire, e)
             /\ \A g : BusyNext(g) <=> Busy(g)
  <2>1. server' = server /\ (wire' = wire \/ \E g \in Gen : wire' = Append(wire, Event("stop", g)))
    BY <1>5, StopOf DEF Emit
  <2>2. \A g : BusyNext(g) <=> Busy(g)
    BY <2>1 DEF Busy, BusyNext
  <2>3. ASSUME NEW g \in Gen
        PROVE  Says(Event("stop", g))
    <3>1. Event("stop", g) \in Events /\ Event("stop", g).type = "stop" /\ Event("stop", g).gen = g
      BY NewEvents DEF Event
    <3> QED
      BY <2>2, <3>1 DEF Says, OfAnswer, Body, Ends
  <2> QED
    BY <2>1, <2>2, <2>3
<1>6. Complete => \A g : BusyNext(g) <=> Busy(g)
  <2>1. Complete => server.pc # "idle" /\ server'.pc = "record" /\ server'.gen = server.gen
    BY <1>0 DEF Complete
  <2> QED
    BY <2>1 DEF Busy, BusyNext
<1>7. ~Abandon
  BY <1>0 DEF Abandon
<1> QED
  BY <1>1, <1>2, <1>3, <1>4, <1>5, <1>6, <1>7

LEMMA WireKept ==
  ASSUME WireOK, wire' = wire, \A g : BusyNext(g) <=> Busy(g), Gens(list') \subseteq Gens(list)
  PROVE  WireOK'
<1>1. EndComes'
  BY DEF WireOK, EndComes, Busy, BusyNext
<1>2. ConnectionFirst'
  BY DEF WireOK, ConnectionFirst
<1>3. StartsNew'
  BY DEF WireOK, StartsNew
<1>4. StartsFirst'
  BY DEF WireOK, StartsFirst, Busy, BusyNext
<1> QED
  BY <1>1, <1>2, <1>3, <1>4 DEF WireOK

LEMMA WireStep ==
  ASSUME TypeOK, NoDuplicateAnswer, NamesKnown, LineOK, WireOK, FirstLine, [Next]_vars,
         ~uprooted, ~uprooted'
  PROVE  WireOK'
<1>1. CASE wire' = wire /\ server' = server
  <2>1. ~Receive
    <3>1. Receive => wire # <<>> /\ Len(wire') = Len(wire) - 1 /\ Len(wire) \in Nat
      BY Tailed, SeqIs DEF Receive, TypeOK
    <3> QED
      BY <1>1, <3>1
  <2>2. Gens(list') \subseteq Gens(list) /\ \A g : BusyNext(g) <=> Busy(g)
    BY <1>1, <2>1, GensStep DEF Busy, BusyNext
  <2> QED
    BY <1>1, <2>2, WireKept
<1>2. CASE Receive
  <2>1. wire # <<>> /\ wire' = Tail(wire) /\ server' = server
    BY <1>2 DEF Receive
  <2> QED
    BY <2>1, GensStep, WireTail
<1>3. CASE syncGenerationAfterReconnect
  <2>1. wire # <<>> /\ wire' = Tail(wire) /\ server' = server /\ list' = list
    BY <1>3 DEF syncGenerationAfterReconnect
  <2> QED
    BY <2>1, WireTail
<1>4. CASE Connect
  <2>1. wire' = <<Event("connection", NoGen)>> /\ server.pc = "idle" /\ server'.pc = server.pc
    BY <1>4 DEF Connect, TypeOK
  <2>2. DOMAIN wire' = {1} /\ wire'[1].type = "connection"
    BY <2>1 DEF Event
  <2> QED
    BY <2>2 DEF WireOK, EndComes, ConnectionFirst, StartsNew, StartsFirst, Body
<1>5. CASE Drop
  BY <1>5 DEF Drop
<1>7. CASE Chunk \/ ToolEvent \/ Record \/ Raise \/ Refuse \/ (\E g \in Gen : Start(g)) \/ StopCommand
  <2>1. list' = list
    BY <1>7 DEF Chunk, ToolEvent, Record, Raise, Refuse, Start, StopCommand, pageVars
  <2>2. (wire' = wire /\ \A g : BusyNext(g) <=> Busy(g)) \/ \E e : Says(e) /\ wire' = Append(wire, e)
    BY <1>7, <2>1, Talks
  <2> QED
    BY <2>1, <2>2, WireKept, WireAppend
<1>8. CASE Complete \/ Abandon
  <2>1. list' = list /\ wire' = wire
    BY <1>8 DEF Complete, Abandon, pageVars
  <2> QED
    BY <1>8, <2>1, Talks, WireKept
<1> QED
  BY <1>1, <1>2, <1>3, <1>4, <1>5, <1>7, <1>8, WireSteps

(* Before the first connection there is no generation to ask for.          *)
LEMMA FirstStep ==
  ASSUME TypeOK, NoDuplicateAnswer, NamesKnown, LineOK, WireOK, FirstLine, [Next]_vars,
         ~uprooted, ~uprooted'
  PROVE  FirstLine'
<1> DEFINE Fresh == ws = "CLOSED" \/ \E k \in DOMAIN wire : wire[k].type = "connection"
           FreshNext == ws' = "CLOSED" \/ \E k \in DOMAIN wire' : wire'[k].type = "connection"
<1>1. ASSUME Receive \/ syncGenerationAfterReconnect
      PROVE  ~FreshNext
  <2>1. wire # <<>> /\ wire' = Tail(wire) /\ ws' = ws /\ wire \in Seq(Events)
    BY <1>1 DEF Receive, syncGenerationAfterReconnect, TypeOK
  <2>2. ws' # "CLOSED"
    BY <2>1 DEF LineOK
  <2>3. ASSUME NEW k \in DOMAIN wire'
        PROVE  wire'[k].type # "connection"
    <3>1. k + 1 \in DOMAIN wire /\ wire'[k] = wire[k + 1] /\ k \in 1..(Len(wire) - 1)
      BY <2>1, Tailed
    <3>2. k + 1 # 1
      BY <2>1, <3>1, SeqIs
    <3> QED
      BY <3>1, <3>2 DEF WireOK, ConnectionFirst
  <2> QED
    BY <2>2, <2>3
<1>2. ASSUME wire' = wire /\ server' = server /\ ~Connect /\ ~Drop
      PROVE  FreshNext => Fresh
  BY <1>2, WsSteps
<1>3. Connect \/ Drop => (FreshNext => Fresh)
  BY DEF Connect, Drop
<1>4. ASSUME \E e : Says(e) /\ wire' = Append(wire, e), ~Connect, ~Drop
      PROVE  FreshNext => Fresh
  <2>1. PICK e : Says(e) /\ wire' = Append(wire, e)
    BY <1>4
  <2>2. e \in Events /\ e.type # "connection" /\ wire \in Seq(Events)
    BY <2>1 DEF Says, TypeOK
  <2> QED
    BY <1>4, <2>1, <2>2, Appended, WsSteps
<1>5. ASSUME Chunk \/ ToolEvent \/ Record \/ Raise \/ Refuse \/ (\E g \in Gen : Start(g)) \/ StopCommand
      PROVE  FreshNext => Fresh
  <2>1. list' = list /\ ws' = ws
    BY <1>5 DEF Chunk, ToolEvent, Record, Raise, Refuse, Start, StopCommand, pageVars
  <2>2. ~Connect /\ ~Drop
    BY <2>1 DEF Connect, Drop
  <2>3. wire' = wire \/ \E e : Says(e) /\ wire' = Append(wire, e)
    BY <1>5, <2>1, Talks
  <2> QED
    BY <1>4, <2>1, <2>2, <2>3
<1>6. Complete \/ Abandon => (FreshNext => Fresh)
  BY DEF Complete, Abandon, pageVars
<1>7. ~(Receive \/ syncGenerationAfterReconnect) => (FreshNext => Fresh)
  BY <1>2, <1>3, <1>5, <1>6, WireSteps
<1>8. FreshNext => Gens(list') = {}
  <2>1. CASE Receive \/ syncGenerationAfterReconnect
    BY <1>1, <2>1
  <2>2. CASE ~(Receive \/ syncGenerationAfterReconnect)
    BY <1>7, <2>2, GensStep DEF FirstLine
  <2> QED
    BY <2>1, <2>2
<1>9. ASSUME NEW d \in calls', d.kind = "sync"
      PROVE  d.arg = NoGen
  <2>1. d \in calls \/ (d.arg \in Gens(list) \cup {NoGen} /\ syncGenerationAfterReconnect)
    BY <1>9, CallSteps
  <2>2. syncGenerationAfterReconnect => Gens(list) = {}
    <3>1. syncGenerationAfterReconnect => wire # <<>> /\ Head(wire).type = "connection"
      BY DEF syncGenerationAfterReconnect
    <3>2. wire # <<>> => Head(wire) = wire[1] /\ 1 \in DOMAIN wire
      BY Tailed DEF TypeOK
    <3> QED
      BY <3>1, <3>2 DEF FirstLine
  <2> QED
    BY <1>9, <2>1, <2>2 DEF FirstLine
<1> QED
  BY <1>8, <1>9 DEF FirstLine

-----------------------------------------------------------------------------
(* What is still to come of a generation.                                  *)

ComingNext(g) == BusyNext(g) \/ \E k \in DOMAIN wire' : Ends(wire'[k]) /\ wire'[k].gen = g
OpenNext(g) ==
  /\ \A k \in DOMAIN wire' : ~IsStart(wire'[k], g)
  /\ BusyNext(g) \/ \E k \in DOMAIN wire' : OfAnswer(wire'[k]) /\ wire'[k].gen = g

(* A step that the page survives keeps what is on its way, takes the first *)
(* message of it, or adds one.                                             *)
LEMMA WireMoves ==
  ASSUME TypeOK, NamesKnown, LineOK, [Next]_vars, ~uprooted, ~uprooted'
  PROVE  \/ wire' = wire /\ \A g : BusyNext(g) <=> Busy(g)
         \/ /\ Receive \/ syncGenerationAfterReconnect
            /\ wire # <<>> /\ wire' = Tail(wire) /\ server' = server
         \/ Connect /\ wire = <<>> /\ wire' = <<Event("connection", NoGen)>> /\ list' = list
            /\ \A g : BusyNext(g) <=> Busy(g)
         \/ list' = list /\ \E e : Says(e) /\ wire' = Append(wire, e)
<1>1. CASE wire' = wire /\ server' = server
  BY <1>1 DEF Busy, BusyNext
<1>2. CASE Receive \/ syncGenerationAfterReconnect
  BY <1>2 DEF Receive, syncGenerationAfterReconnect
<1>3. CASE Connect
  <2>1. /\ ws = "CLOSED" /\ wire' = <<Event("connection", NoGen)>> /\ list' = list
        /\ server' = [server EXCEPT !.alive = TRUE]
    BY <1>3 DEF Connect
  <2>2. wire = <<>> /\ server'.pc = server.pc /\ server'.gen = server.gen
    BY <2>1 DEF LineOK, TypeOK
  <2> QED
    BY <1>3, <2>1, <2>2 DEF Busy, BusyNext
<1>4. CASE Drop
  BY <1>4 DEF Drop
<1>5. CASE Chunk \/ ToolEvent \/ Record \/ Raise \/ Refuse \/ (\E g \in Gen : Start(g)) \/ StopCommand
           \/ Complete \/ Abandon
  <2>1. list' = list
    BY <1>5 DEF Chunk, ToolEvent, Record, Raise, Refuse, Start, StopCommand, Complete, Abandon, pageVars
  <2>2. Complete => wire' = wire
    BY DEF Complete
  <2> QED
    BY <1>5, <2>1, <2>2, Talks
<1> QED
  BY <1>1, <1>2, <1>3, <1>4, <1>5, WireSteps

LEMMA ComingStays ==
  ASSUME TypeOK, NamesKnown, LineOK, [Next]_vars, ~uprooted, ~uprooted', NEW g, Coming(g)
  PROVE  ComingNext(g) \/ (Receive /\ Ends(Head(wire)) /\ Head(wire).gen = g)
<1>0. wire \in Seq(Events)
  BY DEF TypeOK
<1>1. CASE wire' = wire /\ \A h : BusyNext(h) <=> Busy(h)
  BY <1>1 DEF Coming, ComingNext
<1>2. CASE /\ Receive \/ syncGenerationAfterReconnect
           /\ wire # <<>> /\ wire' = Tail(wire) /\ server' = server
  <2>1. CASE Busy(g)
    BY <1>2, <2>1 DEF Busy, BusyNext, ComingNext
  <2>2. CASE \E k \in DOMAIN wire : Ends(wire[k]) /\ wire[k].gen = g
    <3>1. PICK k \in DOMAIN wire : Ends(wire[k]) /\ wire[k].gen = g
      BY <2>2
    <3>2. CASE k # 1
      <4>1. k - 1 \in DOMAIN wire' /\ wire'[k - 1] = wire[k]
        BY <1>0, <1>2, <3>2, Tailed
      <4> QED
        BY <3>1, <4>1 DEF ComingNext
    <3>3. CASE k = 1
      <4>1. Head(wire) = wire[k]
        BY <1>0, <1>2, <3>3, Tailed
      <4>2. Head(wire).type # "connection"
        BY <3>1, <4>1 DEF Ends
      <4>3. Receive
        BY <1>2, <4>2 DEF syncGenerationAfterReconnect
      <4> QED
        BY <3>1, <4>1, <4>3
    <3> QED
      BY <3>2, <3>3
  <2> QED
    BY <2>1, <2>2 DEF Coming
<1>3. CASE Connect /\ wire = <<>> /\ \A h : BusyNext(h) <=> Busy(h)
  BY <1>3 DEF Coming, ComingNext
<1>4. CASE \E e : Says(e) /\ wire' = Append(wire, e)
  <2>1. PICK e : Says(e) /\ wire' = Append(wire, e)
    BY <1>4
  <2>2. /\ DOMAIN wire' = DOMAIN wire \cup {Len(wire) + 1} /\ wire'[Len(wire) + 1] = e
        /\ \A k \in DOMAIN wire : wire'[k] = wire[k]
    BY <1>0, <2>1, Appended DEF Says
  <2>3. Busy(g) => BusyNext(g) \/ (Ends(e) /\ e.gen = g)
    BY <2>1 DEF Says
  <2> QED
    BY <2>2, <2>3 DEF Coming, ComingNext
<1> QED
  BY <1>1, <1>2, <1>3, <1>4, WireMoves

LEMMA BusyStep ==
  ASSUME TypeOK, [Next]_vars, NEW g, BusyNext(g)
  PROVE  Busy(g) \/ (g \in Gen /\ Start(g))
<1>0. server \in [pc : {"idle", "stream", "record"}, gen : Gen \cup {NoGen},
                  alive : BOOLEAN, tool : BOOLEAN]
  BY DEF TypeOK
<1>1. CASE server' = server
  BY <1>1 DEF Busy, BusyNext
<1>2. CASE Connect \/ Drop \/ ToolEvent \/ Complete
  <2>1. server'.gen = server.gen /\ (server'.pc # "idle" => server.pc # "idle")
    BY <1>0, <1>2 DEF Connect, Drop, ToolEvent, Complete
  <2> QED
    BY <2>1 DEF Busy, BusyNext
<1>3. CASE Abandon \/ Record \/ Raise
  BY <1>3 DEF Abandon, Record, Raise, Resting, BusyNext
<1>4. ASSUME NEW h \in Gen, Start(h)
      PROVE  h = g
  BY <1>0, <1>4 DEF Start, BusyNext
<1>5. Receive \/ syncGenerationAfterReconnect \/ Chunk \/ Refuse \/ StopCommand => server' = server
  BY DEF Receive, syncGenerationAfterReconnect, Chunk, Refuse, StopCommand
<1> QED
  BY <1>1, <1>2, <1>3, <1>4, <1>5, WireSteps

LEMMA ComingNew ==
  ASSUME TypeOK, NamesKnown, LineOK, [Next]_vars, ~uprooted, ~uprooted', NEW g, ComingNext(g)
  PROVE  Coming(g) \/ (g \in Gen /\ Start(g))
<1>0. wire \in Seq(Events)
  BY DEF TypeOK
<1>1. CASE BusyNext(g)
  BY <1>1, BusyStep DEF Coming
<1>2. CASE \E k \in DOMAIN wire' : Ends(wire'[k]) /\ wire'[k].gen = g
  <2>1. PICK k \in DOMAIN wire' : Ends(wire'[k]) /\ wire'[k].gen = g
    BY <1>2
  <2>2. CASE wire' = wire
    BY <2>1, <2>2 DEF Coming
  <2>3. CASE wire # <<>> /\ wire' = Tail(wire)
    BY <1>0, <2>1, <2>3, Tailed DEF Coming
  <2>4. CASE wire' = <<Event("connection", NoGen)>>
    <3>1. k = 1 /\ wire'[k].type = "connection"
      BY <2>1, <2>4 DEF Event
    <3> QED
      BY <2>1, <3>1 DEF Ends
  <2>5. CASE \E e : Says(e) /\ wire' = Append(wire, e)
    <3>1. PICK e : Says(e) /\ wire' = Append(wire, e)
      BY <2>5
    <3>2. /\ DOMAIN wire' = DOMAIN wire \cup {Len(wire) + 1} /\ wire'[Len(wire) + 1] = e
          /\ \A q \in DOMAIN wire : wire'[q] = wire[q]
      BY <1>0, <3>1, Appended DEF Says
    <3>3. Ends(e) => Busy(e.gen)
      BY <3>1 DEF Says, OfAnswer, Ends
    <3> QED
      BY <2>1, <3>2, <3>3 DEF Coming
  <2> QED
    BY <2>2, <2>3, <2>4, <2>5, WireMoves
<1> QED
  BY <1>1, <1>2 DEF ComingNext

LEMMA OpenStep ==
  ASSUME TypeOK, NamesKnown, LineOK, [Next]_vars, ~uprooted, ~uprooted', NEW g, OpenNext(g)
  PROVE  Open(g) \/ (Receive /\ IsStart(Head(wire), g))
<1>0. wire \in Seq(Events)
  BY DEF TypeOK
<1>1. /\ \A k \in DOMAIN wire' : ~IsStart(wire'[k], g)
      /\ BusyNext(g) \/ \E k \in DOMAIN wire' : OfAnswer(wire'[k]) /\ wire'[k].gen = g
  BY DEF OpenNext
<1>2. CASE wire' = wire /\ \A h : BusyNext(h) <=> Busy(h)
  BY <1>1, <1>2 DEF Open, Started, InWire
<1>3. CASE /\ Receive \/ syncGenerationAfterReconnect
           /\ wire # <<>> /\ wire' = Tail(wire) /\ server' = server
  <2>1. /\ Head(wire) = wire[1] /\ 1 \in DOMAIN wire
        /\ \A k \in DOMAIN wire' : k + 1 \in DOMAIN wire /\ wire'[k] = wire[k + 1]
        /\ \A k \in DOMAIN wire : k # 1 => k - 1 \in DOMAIN wire' /\ wire'[k - 1] = wire[k]
    BY <1>0, <1>3, Tailed
  <2>2. Busy(g) \/ InWire(g)
    BY <1>1, <1>3, <2>1 DEF Busy, BusyNext, InWire
  <2>3. CASE IsStart(wire[1], g)
    <3>1. Receive
      BY <1>3, <2>1, <2>3 DEF syncGenerationAfterReconnect, IsStart
    <3> QED
      BY <2>1, <2>3, <3>1
  <2>4. CASE ~IsStart(wire[1], g)
    <3>1. Started(g)
      BY <1>1, <2>1, <2>4 DEF Started
    <3> QED
      BY <2>2, <3>1 DEF Open
  <2> QED
    BY <2>3, <2>4
<1>4. CASE /\ wire = <<>> /\ wire' = <<Event("connection", NoGen)>>
           /\ \A h : BusyNext(h) <=> Busy(h)
  <2>1. ASSUME NEW k \in DOMAIN wire'
        PROVE  ~OfAnswer(wire'[k])
    <3>1. wire'[k].type = "connection"
      BY <1>4, <2>1 DEF Event
    <3> QED
      BY <3>1 DEF OfAnswer, Body, Ends
  <2>2. DOMAIN wire = {}
    BY <1>4
  <2> QED
    BY <1>1, <1>4, <2>1, <2>2 DEF Open, Started
<1>5. CASE \E e : Says(e) /\ wire' = Append(wire, e)
  <2>1. PICK e : Says(e) /\ wire' = Append(wire, e)
    BY <1>5
  <2>2. /\ DOMAIN wire' = DOMAIN wire \cup {Len(wire) + 1} /\ wire'[Len(wire) + 1] = e
        /\ \A k \in DOMAIN wire : wire'[k] = wire[k]
    BY <1>0, <2>1, Appended DEF Says
  <2>3. Started(g) /\ ~IsStart(e, g)
    BY <1>1, <2>2 DEF Started
  <2>4. BusyNext(g) => Busy(g)
    BY <2>1, <2>3 DEF Says
  <2>5. OfAnswer(e) /\ e.gen = g => Busy(g)
    BY <2>1, <2>3 DEF Says, IsStart
  <2> QED
    BY <1>1, <2>2, <2>3, <2>4, <2>5 DEF Open, InWire
<1> QED
  BY <1>2, <1>3, <1>4, <1>5, WireMoves

(* When a start is received nothing else has been started and is to come.  *)
LEMMA StartAlone ==
  ASSUME TypeOK, NamesKnown, WireOK, wire # <<>>, Head(wire).type = "start", NEW g, Open(g)
  PROVE  FALSE
<1>1. Head(wire) = wire[1] /\ 1 \in DOMAIN wire /\ DOMAIN wire = 1..Len(wire) /\ Len(wire) \in Nat
      /\ wire \in Seq(Events)
  BY Tailed, SeqIs DEF TypeOK
<1>2. /\ \A q \in DOMAIN wire : OfAnswer(wire[q]) /\ wire[q].gen # wire[1].gen /\ q > 1 =>
           \E r \in DOMAIN wire : 1 < r /\ r <= q /\ IsStart(wire[r], wire[q].gen)
      /\ \A h \in Gen : Busy(h) /\ h # wire[1].gen =>
           \E r \in DOMAIN wire : 1 < r /\ IsStart(wire[r], h)
  BY <1>1 DEF WireOK, StartsFirst
<1>3. g # wire[1].gen
  BY <1>1 DEF Open, Started, IsStart
<1>4. CASE Busy(g)
  <2>1. g \in Gen
    BY <1>4 DEF Busy, NamesKnown, StoreKnown
  <2> QED
    BY <1>2, <1>3, <1>4, <2>1 DEF Open, Started
<1>5. CASE InWire(g)
  <2>1. PICK q \in DOMAIN wire : OfAnswer(wire[q]) /\ wire[q].gen = g
    BY <1>5 DEF InWire
  <2>2. q > 1
    BY <1>1, <1>3, <2>1
  <2> QED
    BY <1>2, <1>3, <2>1, <2>2 DEF Open, Started
<1> QED
  BY <1>4, <1>5 DEF Open

(* An event that is no start is of a generation that was started.          *)
LEMMA BodyOpen ==
  ASSUME TypeOK, WireOK, wire # <<>>, OfAnswer(Head(wire)), Head(wire).type # "start"
  PROVE  Open(Head(wire).gen)
<1>1. Head(wire) = wire[1] /\ 1 \in DOMAIN wire /\ DOMAIN wire = 1..Len(wire)
  BY Tailed, SeqIs DEF TypeOK
<1>2. ASSUME NEW k \in DOMAIN wire, IsStart(wire[k], wire[1].gen)
      PROVE  FALSE
  <2>1. 1 >= k
    BY <1>1, <1>2 DEF WireOK, StartsNew, IsStart
  <2>2. k = 1
    BY <1>1, <2>1
  <2> QED
    BY <1>1, <1>2, <2>2 DEF IsStart
<1> QED
  BY <1>1, <1>2 DEF Open, Started, InWire

-----------------------------------------------------------------------------
(* Questions and answers.                                                  *)

LEMMA RevisedGens ==
  ASSUME NEW i, Revised(i), list'[i].gen = list[i].gen
  PROVE  /\ Gens(list') = Gens(list) /\ Last(list').gen = Last(list).gen
         /\ \A k \in DOMAIN list : list'[k].gen = list[k].gen
<1>1. \A k \in DOMAIN list : list'[k].gen = list[k].gen
  BY DEF Revised
<1>2. DOMAIN list' = DOMAIN list /\ Len(list') = Len(list) /\ list' \in Seq(Message)
      /\ i \in DOMAIN list
  BY DEF Revised
<1>3. Gens(list') = Gens(list)
  BY <1>1, <1>2 DEF Gens
<1>4. Len(list) \in DOMAIN list
  BY <1>2, SeqIs
<1> QED
  BY <1>1, <1>2, <1>3, <1>4 DEF Last

LEMMA NotReceived ==
  ASSUME TypeOK, Receive
  PROVE  wire' # wire
<1>1. wire # <<>> /\ wire' = Tail(wire) /\ wire \in Seq(Events)
  BY DEF Receive, TypeOK
<1>2. Len(wire') = Len(wire) - 1 /\ Len(wire) \in Nat
  BY <1>1, Tailed, SeqIs
<1> QED
  BY <1>2

LEMMA PairsStay ==
  ASSUME TypeOK, NoDuplicateAnswer, NamesKnown, FirstLine, PairsOK, [Next]_vars, ~uprooted'
  PROVE  \A i \in DOMAIN list' : list'[i].role = "assistant" => i > 1 /\ list'[i - 1].role = "user"
<1>0. /\ list \in Seq(Message) /\ DOMAIN list = 1..Len(list) /\ Len(list) \in Nat
      /\ \A i \in DOMAIN list : list[i].role = "assistant" => i > 1 /\ list[i - 1].role = "user"
  BY SeqIs DEF TypeOK, PairsOK
<1>1. ASSUME NEW i, Revised(i), NEW k \in DOMAIN list', list'[k].role = "assistant"
      PROVE  k > 1 /\ list'[k - 1].role = "user"
  <2>1. DOMAIN list' = DOMAIN list /\ \A q \in DOMAIN list : list'[q].role = list[q].role
    BY <1>1 DEF Revised
  <2>2. k > 1 /\ list[k - 1].role = "user" /\ k - 1 \in DOMAIN list
    BY <1>0, <1>1, <2>1
  <2> QED
    BY <2>1, <2>2
<1>2. CASE Send
  <2> DEFINE n == Len(list)
  <2>1. /\ DOMAIN list' = DOMAIN list \cup {n + 1, n + 2} /\ list'[n + 1].role = "user"
        /\ \A k \in DOMAIN list : list'[k] = list[k]
    BY <1>2, SendIs, NewMessages DEF Pushed
  <2>2. ASSUME NEW k \in DOMAIN list', list'[k].role = "assistant"
        PROVE  k > 1 /\ list'[k - 1].role = "user"
    <3>1. CASE k \in DOMAIN list
      <4>1. k > 1 /\ list[k - 1].role = "user" /\ k - 1 \in DOMAIN list
        BY <1>0, <2>1, <2>2, <3>1
      <4> QED
        BY <2>1, <4>1
    <3>2. CASE k = n + 2
      <4>1. k - 1 = n + 1 /\ k > 1
        BY <1>0, <3>2
      <4> QED
        BY <2>1, <4>1
    <3> QED
      BY <2>1, <2>2, <3>1, <3>2
  <2> QED
    BY <2>2
<1>3. CASE Receive
  <2>1. list' = list \/ \E i \in DOMAIN list : Revised(i)
    BY <1>3, ReceiveIs DEF Ignored, Applied
  <2> QED
    BY <1>0, <1>1, <2>1
<1>4. ASSUME NEW c \in calls, Stop(c), NEW k \in DOMAIN list', list'[k].role = "assistant"
      PROVE  k > 1 /\ list'[k - 1].role = "user"
  <2>1. CASE Shortened
    <3>1. k \in DOMAIN list /\ list'[k] = list[k] /\ k \in 1..(Len(list) - 1)
          /\ \A q \in 1..(Len(list) - 1) : list'[q] = list[q]
      BY <2>1 DEF Shortened
    <3>2. k > 1 /\ list[k - 1].role = "user"
      BY <1>0, <1>4, <3>1
    <3>3. k - 1 \in 1..(Len(list) - 1)
      BY <1>0, <3>1, <3>2
    <3> QED
      BY <3>1, <3>2, <3>3
  <2>2. CASE Revised(Len(list))
    BY <1>1, <1>4, <2>2
  <2>3. CASE list' = list
    BY <1>0, <1>4, <2>3
  <2> QED
    BY <1>4, <2>1, <2>2, <2>3, StopIs DEF Stopped
<1>5. ASSUME NEW c \in calls, Checked(c) \/ Synced(c), NEW k \in DOMAIN list', list'[k].role = "assistant"
      PROVE  k > 1 /\ list'[k - 1].role = "user"
  <2>1. list' = list \/ \E i \in DOMAIN list : Revised(i)
    BY <1>5, NotUprooted DEF Settles
  <2> QED
    BY <1>0, <1>1, <1>5, <2>1
<1>6. CASE Replaced
  BY <1>6 DEF Replaced, Renewed
<1>7. CASE list' = list
  BY <1>0, <1>7
<1> QED
  BY <1>2, <1>3, <1>4, <1>5, <1>6, <1>7, ListSteps

LEMMA LastStep ==
  ASSUME TypeOK, NoDuplicateAnswer, NamesKnown, LineOK, WireOK, FirstLine, PairsOK, [Next]_vars,
         ~uprooted, ~uprooted', NEW g \in Gen, OpenNext(g), g \notin Gens(list'), list' # <<>>
  PROVE  Last(list').gen = NoGen
<1>0. /\ list \in Seq(Message) /\ DOMAIN list = 1..Len(list) /\ Len(list) \in Nat
      /\ list # <<>> => Last(list) = list[Len(list)] /\ Len(list) \in DOMAIN list
      /\ g # NoGen
  BY SeqIs, Lasts, ChatAssumption DEF TypeOK
<1>1. Open(g) /\ g \notin Gens(list) /\ list # <<>> => Last(list).gen = NoGen
  BY DEF PairsOK
<1>2. ASSUME Open(g), NEW i, Revised(i), list'[i].gen = list[i].gen
      PROVE  Last(list').gen = NoGen
  <2>1. list # <<>>
    BY <1>0, <1>2, SeqIs DEF Revised
  <2> QED
    BY <1>1, <1>2, <2>1, RevisedGens
<1>3. CASE Receive
  <2> DEFINE e == Head(wire)
  <2>1. wire # <<>> /\ (Ignored \/ \E i \in DOMAIN list : Applied(i))
    BY <1>3, ReceiveIs
  <2>2. CASE Ignored
    <3>1. Last(list).role = "user" /\ list' = list
      BY <2>2 DEF Ignored
    <3> QED
      BY <1>0, <3>1 DEF NamesKnown, ScreenKnown
  <2>3. ASSUME NEW i \in DOMAIN list, Applied(i)
        PROVE  Last(list').gen = NoGen
    <3>1. Revised(i) /\ list'[i].gen = IF e.type = "start" THEN e.gen ELSE list[i].gen
      BY <2>3 DEF Applied
    <3>2. CASE e.type = "start"
      <4>1. g = e.gen
        BY <2>1, <3>2, OpenStep, StartAlone DEF IsStart
      <4>2. i \in DOMAIN list' /\ list'[i].gen = g
        BY <3>1, <3>2, <4>1 DEF Revised
      <4>3. g \in Gens(list')
        BY <1>0, <4>2 DEF Gens
      <4> QED
        BY <4>3
    <3>3. CASE e.type # "start"
      <4>1. Open(g)
        BY <3>3, OpenStep DEF IsStart
      <4> QED
        BY <1>2, <3>1, <3>3, <4>1
    <3> QED
      BY <3>2, <3>3
  <2> QED
    BY <2>1, <2>2, <2>3
<1>4. CASE ~Receive
  <2>0. Open(g)
    BY <1>4, OpenStep
  <2>1. CASE Send
    <3>1. list' \in Seq(Message) /\ Len(list') = Len(list) + 2 /\ list'[Len(list) + 2].gen = NoGen
      BY <2>1, SendIs DEF Pushed
    <3> QED
      BY <3>1, Lasts
  <2>2. ASSUME NEW c \in calls, Stop(c)
        PROVE  Last(list').gen = NoGen
    <3>1. CASE Shortened /\ ~Last(list).text
      <4> DEFINE n == Len(list)
      <4>1. /\ list # <<>> /\ list' \in Seq(Message) /\ Len(list') = n - 1 /\ n >= 1
            /\ \A k \in 1..(n - 1) : list'[k] = list[k]
        BY <3>1 DEF Shortened
      <4>2. Last(list).role # "user"
        BY <1>0, <3>1, <4>1 DEF NamesKnown, ScreenKnown
      <4>3. Last(list) \in Message
        BY <1>0, <4>1, Lasts
      <4>4. Last(list).role = "assistant"
        BY <4>2, <4>3 DEF Message
      <4>5. n > 1 /\ list[n - 1].role = "user"
        BY <1>0, <4>1, <4>4 DEF PairsOK
      <4>6. list[n - 1].gen = NoGen /\ n - 1 \in 1..(n - 1)
        BY <1>0, <4>5 DEF NamesKnown, ScreenKnown
      <4>7. Last(list') = list'[n - 1]
        BY <4>1, Lasts
      <4> QED
        BY <4>1, <4>6, <4>7
    <3>2. CASE Revised(Len(list)) /\ list'[Len(list)].gen = list[Len(list)].gen
      BY <1>2, <2>0, <3>2
    <3> QED
      BY <2>2, <3>1, <3>2, StopIs DEF Stopped
  <2>3. ASSUME NEW c \in calls, Checked(c) \/ Synced(c)
        PROVE  Last(list').gen = NoGen
    <3>1. list' = list \/ \E i \in DOMAIN list : Revised(i) /\ list'[i].gen = list[i].gen
      BY <2>3, NotUprooted DEF Settles
    <3> QED
      BY <1>1, <1>2, <2>0, <3>1
  <2>4. CASE Replaced /\ server' = server /\ wire' = wire
    <3>1. server'.pc = "idle" /\ wire' = <<>>
      BY <2>4 DEF Replaced
    <3>2. DOMAIN wire' = {}
      BY <3>1
    <3> QED
      BY <3>1, <3>2 DEF OpenNext, BusyNext
  <2>5. CASE list' = list
    BY <1>1, <2>0, <2>5
  <2> QED
    BY <1>4, <2>1, <2>2, <2>3, <2>4, <2>5, ListSteps
<1> QED
  BY <1>3, <1>4

LEMMA PairsStep ==
  ASSUME TypeOK, NoDuplicateAnswer, NamesKnown, LineOK, WireOK, FirstLine, PairsOK, [Next]_vars,
         ~uprooted, ~uprooted'
  PROVE  PairsOK'
<1>1. ASSUME NEW g \in Gen, Open(g)'
      PROVE  OpenNext(g)
  BY <1>1 DEF Open, Started, Busy, InWire, OpenNext, BusyNext
<1> QED
  BY <1>1, PairsStay, LastStep DEF PairsOK

-----------------------------------------------------------------------------
(* What spins.                                                             *)

PendingNext ==
  \/ \E k \in DOMAIN cmds' : cmds'[k].type = "chat"
  \/ \E k \in DOMAIN wire' : wire'[k].type = "start" \/ wire'[k] = Event("error", NoGen)
  \/ \E g \in Gen : ComingNext(g) /\ g \notin Gens(list')

(* A question that is taken is answered with a start or an error.          *)
LEMMA AskedStays ==
  ASSUME TypeOK, LineOK, [Next]_vars, ~uprooted',
         NEW k \in DOMAIN cmds, cmds[k].type = "chat"
  PROVE  PendingNext
<1>0. cmds \in Seq(Commands) /\ wire \in Seq(Events)
  BY DEF TypeOK
<1>1. CASE cmds' = cmds
  BY <1>1 DEF PendingNext
<1>2. CASE Send \/ \E c \in calls : Stop(c)
  <2>1. \E e \in Commands : cmds' = Append(cmds, e)
    <3>1. Event("chat", NoGen) \in Commands
      BY DEF Event, Commands
    <3>2. ASSUME NEW c \in calls, Stop(c)
          PROVE  \E e \in Commands : cmds' = Append(cmds, e)
      <4>1. list # <<>> => Last(list) \in Message
        BY Lasts DEF TypeOK
      <4>2. Event("stop", IF list = <<>> THEN NoGen ELSE Last(list).gen) \in Commands
        BY <4>1 DEF Event, Commands, Message
      <4> QED
        BY <3>2, <4>2 DEF Stop
    <3> QED
      BY <1>2, <3>1, <3>2 DEF Send
  <2> QED
    BY <1>0, <2>1, Appended DEF PendingNext
<1>3. CASE Drop
  BY <1>3 DEF Drop
<1>4. CASE /\ cmds # <<>> /\ cmds' = Tail(cmds)
           /\ Refuse \/ (\E g \in Gen : Start(g)) \/ StopCommand
  <2>1. CASE k # 1
    <3>1. k - 1 \in DOMAIN cmds' /\ cmds'[k - 1] = cmds[k]
      BY <1>0, <1>4, <2>1, Tailed
    <3> QED
      BY <3>1 DEF PendingNext
  <2>2. CASE k = 1
    <3>1. Head(cmds).type = "chat"
      BY <1>0, <1>4, <2>2, Tailed
    <3>2. \E e \in Events : /\ wire' = Append(wire, e)
                            /\ e.type = "start" \/ e = Event("error", NoGen)
      <4>1. CASE Refuse
        <5>1. wire' = Append(wire, Event("error", NoGen))
          BY <4>1 DEF Refuse, Emit
        <5> QED
          BY <5>1, NewEvents
      <4>2. ASSUME NEW g \in Gen, Start(g)
            PROVE  wire' = Append(wire, Event("start", g))
        BY <4>2 DEF Start, Emit
      <4>3. \A g \in Gen : Event("start", g) \in Events /\ Event("start", g).type = "start"
        BY NewEvents DEF Event
      <4>4. ~StopCommand
        BY <3>1 DEF StopCommand
      <4> QED
        BY <1>4, <4>1, <4>2, <4>3, <4>4
    <3> QED
      BY <1>0, <3>2, Appended DEF PendingNext
  <2> QED
    BY <2>1, <2>2
<1> QED
  BY <1>1, <1>2, <1>3, <1>4, CmdSteps

LEMMA PendingStays ==
  ASSUME TypeOK, NamesKnown, LineOK, [Next]_vars, ~uprooted, ~uprooted', Pending, ~Receive,
         Gens(list') \subseteq Gens(list)
  PROVE  PendingNext
<1>0. wire \in Seq(Events)
  BY DEF TypeOK
<1>1. CASE \E k \in DOMAIN cmds : cmds[k].type = "chat"
  BY <1>1, AskedStays
<1>2. CASE \E k \in DOMAIN wire : wire[k].type = "start" \/ wire[k] = Event("error", NoGen)
  <2>1. PICK k \in DOMAIN wire : wire[k].type = "start" \/ wire[k] = Event("error", NoGen)
    BY <1>2
  <2>2. CASE wire' = wire
    BY <2>1, <2>2 DEF PendingNext
  <2>3. CASE syncGenerationAfterReconnect /\ wire # <<>> /\ wire' = Tail(wire)
    <3>1. Head(wire).type = "connection"
      BY <2>3 DEF syncGenerationAfterReconnect
    <3>2. k # 1
      BY <1>0, <2>1, <2>3, <3>1, Tailed DEF Event
    <3>3. k - 1 \in DOMAIN wire' /\ wire'[k - 1] = wire[k]
      BY <1>0, <2>1, <2>3, <3>2, Tailed
    <3> QED
      BY <2>1, <3>3 DEF PendingNext
  <2>4. CASE wire = <<>>
    BY <2>1, <2>4
  <2>5. CASE \E e : Says(e) /\ wire' = Append(wire, e)
    BY <1>0, <2>1, <2>5, Appended DEF PendingNext, Says
  <2> QED
    BY <2>2, <2>3, <2>4, <2>5, WireMoves
<1>3. CASE \E g \in Gen : Coming(g) /\ g \notin Gens(list)
  <2>1. PICK g \in Gen : Coming(g) /\ g \notin Gens(list)
    BY <1>3
  <2>2. ComingNext(g)
    BY <2>1, ComingStays
  <2> QED
    BY <2>1, <2>2 DEF PendingNext
<1> QED
  BY <1>1, <1>2, <1>3 DEF Pending

(* What holds of a message that is as it was.                              *)
Spins(m) == Unsettled(m) \/ m.executing
SpinsNext(i) ==
  /\ Spins(list'[i]) /\ list'[i].gen # NoGen => ComingNext(list'[i].gen)
  /\ Unsettled(list'[i]) /\ list'[i].gen = NoGen => i = Len(list') /\ PendingNext

LEMMA SpinsStay ==
  ASSUME TypeOK, NamesKnown, LineOK, SpinsOK, [Next]_vars, ~uprooted, ~uprooted', ~Receive,
         Gens(list') \subseteq Gens(list), NEW i \in DOMAIN list, list'[i] = list[i],
         (Unsettled(list[i]) /\ list[i].gen = NoGen) => Len(list') = Len(list)
  PROVE  SpinsNext(i)
<1>1. Spins(list[i]) /\ list[i].gen # NoGen => ComingNext(list[i].gen)
  BY ComingStays DEF SpinsOK, Spins
<1>2. Unsettled(list[i]) /\ list[i].gen = NoGen => i = Len(list) /\ PendingNext
  BY PendingStays DEF SpinsOK
<1> QED
  BY <1>1, <1>2 DEF SpinsNext

(* A message of the socket leaves nothing spinning whose end has come.     *)
LEMMA SpinsReceive ==
  ASSUME TypeOK, NoDuplicateAnswer, NamesKnown, LineOK, WireOK, FirstLine, PairsOK, SpinsOK,
         [Next]_vars, ~uprooted, ~uprooted', Receive, NEW k \in DOMAIN list'
  PROVE  SpinsNext(k)
<1> DEFINE e == Head(wire)
<1>0. /\ list \in Seq(Message) /\ DOMAIN list = 1..Len(list) /\ Len(list) \in Nat
      /\ list # <<>> => Last(list) = list[Len(list)] /\ Len(list) \in DOMAIN list
      /\ \A i \in DOMAIN list : list[i] \in Message
      /\ wire \in Seq(Events) /\ NoGen \notin Gen
  BY SeqIs, Lasts, ChatAssumption DEF TypeOK
<1>1. /\ wire # <<>> /\ e \in Events /\ e.type # "connection" /\ wire' = Tail(wire)
      /\ server' = server /\ cmds' = cmds
      /\ Ignored \/ \E i \in DOMAIN list : Applied(i)
  BY ReceiveIs DEF Receive
<1>2. /\ e = wire[1] /\ 1 \in DOMAIN wire
      /\ \A q \in DOMAIN wire : q # 1 => q - 1 \in DOMAIN wire' /\ wire'[q - 1] = wire[q]
  BY <1>0, <1>1, Tailed
<1>3. ASSUME NEW i \in DOMAIN list, Spins(list[i])
      PROVE  list[i].role = "assistant"
  <2>1. list[i].role # "user"
    BY <1>3 DEF Spins, Unsettled, NamesKnown, ScreenKnown
  <2> QED
    BY <1>0, <2>1 DEF Message
<1>4. ASSUME NEW g, Coming(g), ~(Ends(e) /\ e.gen = g)
      PROVE  ComingNext(g)
  BY <1>4, ComingStays
<1>5. CASE Ignored
  <2>1. list' = list /\ Absent(list, e.gen) /\ (list = <<>> \/ Last(list).role = "user")
    BY <1>5 DEF Ignored
  <2>2. ASSUME Spins(list[k]), list[k].gen # NoGen
        PROVE  ComingNext(list[k].gen)
    <3>1. list[k].role = "assistant" /\ Coming(list[k].gen)
      BY <1>3, <2>1, <2>2 DEF SpinsOK, Spins
    <3>2. list[k].gen # e.gen
      BY <2>1, <2>2, <3>1 DEF Absent
    <3> QED
      BY <1>4, <3>1, <3>2
  <2>3. ASSUME Unsettled(list[k]), list[k].gen = NoGen
        PROVE  FALSE
    <3>1. k = Len(list) /\ list[k].role = "assistant" /\ list # <<>>
      BY <1>0, <2>1, <2>3 DEF SpinsOK, Unsettled
    <3> QED
      BY <1>0, <2>1, <3>1
  <2> QED
    BY <2>1, <2>2, <2>3 DEF SpinsNext
<1>6. ASSUME NEW i \in DOMAIN list, Applied(i), k # i
      PROVE  SpinsNext(k)
  <2>1. /\ Revised(i) /\ list[i].role = "assistant"
        /\ (list[i].gen = e.gen /\ e.gen # NoGen) \/ (Absent(list, e.gen) /\ i = Len(list))
        /\ list'[i].gen = IF e.type = "start" THEN e.gen ELSE list[i].gen
    BY <1>6 DEF Applied
  <2>2. k \in DOMAIN list /\ list'[k] = list[k] /\ Len(list') = Len(list)
    BY <1>6, <2>1 DEF Revised
  <2>3. ASSUME Spins(list[k]), list[k].gen # NoGen
        PROVE  ComingNext(list[k].gen)
    <3>1. list[k].role = "assistant" /\ Coming(list[k].gen)
      BY <1>3, <2>2, <2>3 DEF SpinsOK, Spins
    <3>2. list[k].gen # e.gen
      BY <1>6, <2>1, <2>2, <2>3, <3>1 DEF Absent, NoDuplicateAnswer
    <3> QED
      BY <1>4, <3>1, <3>2
  <2>4. ASSUME Unsettled(list[k]), list[k].gen = NoGen
        PROVE  k = Len(list) /\ PendingNext
    <3>1. k = Len(list) /\ Pending
      BY <2>2, <2>4 DEF SpinsOK
    <3>2. list[i].gen = e.gen /\ e.gen # NoGen
      BY <1>6, <2>1, <3>1
    <3>3. e.gen \in Gens(list)
      BY <3>2 DEF Gens
    <3>4. e.type # "start"
      BY <1>2, <3>3 DEF WireOK, StartsNew
    <3>5. Gens(list') = Gens(list)
      BY <2>1, <3>4, RevisedGens
    <3>6. CASE \E q \in DOMAIN cmds : cmds[q].type = "chat"
      BY <1>1, <3>1, <3>6 DEF PendingNext
    <3>7. CASE \E q \in DOMAIN wire : wire[q].type = "start" \/ wire[q] = Event("error", NoGen)
      <4>1. PICK q \in DOMAIN wire : wire[q].type = "start" \/ wire[q] = Event("error", NoGen)
        BY <3>7
      <4>2. q # 1
        BY <1>2, <3>2, <3>4, <4>1 DEF Event
      <4>3. q - 1 \in DOMAIN wire' /\ wire'[q - 1] = wire[q]
        BY <1>2, <4>2
      <4> QED
        BY <3>1, <4>1, <4>3 DEF PendingNext
    <3>8. CASE \E g \in Gen : Coming(g) /\ g \notin Gens(list)
      <4>1. PICK g \in Gen : Coming(g) /\ g \notin Gens(list)
        BY <3>8
      <4>2. ComingNext(g)
        BY <1>4, <3>3, <4>1
      <4> QED
        BY <3>1, <3>5, <4>1, <4>2 DEF PendingNext
    <3> QED
      BY <3>1, <3>6, <3>7, <3>8 DEF Pending
  <2> QED
    BY <2>2, <2>3, <2>4 DEF SpinsNext
<1>7. ASSUME NEW i \in DOMAIN list, Applied(i), k = i, Spins(list'[i])
      PROVE  SpinsNext(k)
  <2>1. /\ Revised(i) /\ list[i].role = "assistant"
        /\ (list[i].gen = e.gen /\ e.gen # NoGen) \/ (Absent(list, e.gen) /\ i = Len(list))
        /\ list'[i].gen = IF e.type = "start" THEN e.gen ELSE list[i].gen
        /\ e.type \notin Body => list'[i].status \in {"finished", "error"} /\ ~list'[i].executing
    BY <1>7 DEF Applied
  <2>2. e.type \in Body /\ e.gen \in Gen /\ e.gen # NoGen
    <3>1. e.type \in Body
      BY <1>7, <2>1 DEF Spins, Unsettled
    <3> QED
      BY <1>0, <1>1, <3>1, EventIs
  <2>3. ComingNext(e.gen)
    <3>1. CASE Busy(e.gen)
      BY <1>1, <3>1 DEF Busy, BusyNext, ComingNext
    <3>2. CASE \E q \in DOMAIN wire : q > 1 /\ Ends(wire[q]) /\ wire[q].gen = e.gen
      BY <1>2, <3>2 DEF ComingNext
    <3> QED
      BY <1>2, <2>2, <3>1, <3>2 DEF WireOK, EndComes
  <2>4. ASSUME list'[i].gen # e.gen
        PROVE  /\ list'[i].gen = NoGen /\ i = Len(list')
               /\ e.gen \notin Gens(list')
    <3>1. e.type # "start" /\ list'[i].gen = list[i].gen /\ Absent(list, e.gen) /\ i = Len(list)
      BY <2>1, <2>4
    <3>2. e.gen \notin Gens(list)
      <4>1. ASSUME NEW q \in DOMAIN list, list[q].gen = e.gen
            PROVE  FALSE
        <5>1. list[q].role # "user"
          BY <2>2, <4>1 DEF NamesKnown, ScreenKnown
        <5>2. list[q].role = "assistant"
          BY <1>0, <5>1 DEF Message
        <5> QED
          BY <2>2, <3>1, <4>1, <5>2 DEF Absent
      <4> QED
        BY <4>1 DEF Gens
    <3>3. Open(e.gen)
      BY <1>1, <2>2, <3>1, BodyOpen DEF OfAnswer
    <3>4. list[i].gen = NoGen
      BY <1>0, <2>2, <3>1, <3>2, <3>3, SeqIs DEF PairsOK
    <3>5. Gens(list') = Gens(list) /\ Len(list') = Len(list)
      BY <2>1, <3>1, RevisedGens DEF Revised
    <3> QED
      BY <3>1, <3>2, <3>4, <3>5
  <2>5. list'[i].gen # e.gen => PendingNext
    BY <2>2, <2>3, <2>4 DEF PendingNext
  <2> QED
    BY <1>7, <2>2, <2>3, <2>4, <2>5 DEF SpinsNext
<1>8. ASSUME NEW i \in DOMAIN list, k = i, ~Spins(list'[i])
      PROVE  SpinsNext(k)
  BY <1>8 DEF SpinsNext, Spins
<1> QED
  BY <1>1, <1>5, <1>6, <1>7, <1>8

LEMMA SpinsStep ==
  ASSUME TypeOK, NoDuplicateAnswer, NamesKnown, LineOK, WireOK, FirstLine, PairsOK, SpinsOK,
         [Next]_vars, ~uprooted, ~uprooted'
  PROVE  SpinsOK'
<1>0. /\ list \in Seq(Message) /\ DOMAIN list = 1..Len(list) /\ Len(list) \in Nat
      /\ list # <<>> => Last(list) = list[Len(list)] /\ Len(list) \in DOMAIN list
  BY SeqIs, Lasts DEF TypeOK
<1>1. SUFFICES ASSUME NEW k \in DOMAIN list'
               PROVE  SpinsNext(k)
  <2>1. \A g : Coming(g)' <=> ComingNext(g)
    BY DEF Coming, Busy, ComingNext, BusyNext
  <2>2. Pending' <=> PendingNext
    BY <2>1 DEF Pending, PendingNext
  <2> QED
    BY <2>1, <2>2 DEF SpinsOK, SpinsNext, Spins
<1>2. CASE Receive
  BY <1>2, SpinsReceive
<1>3. CASE Send
  <2>1. /\ Pushed(NoGen) /\ list'[Len(list) + 2].status = "pending" /\ ~Receive
        /\ ~isSending /\ cmds' = Append(cmds, Event("chat", NoGen)) /\ cmds \in Seq(Commands)
    BY <1>3, SendIs, NotReceived DEF Send, TypeOK
  <2>2. /\ list' \in Seq(Message) /\ Len(list') = Len(list) + 2
        /\ DOMAIN list' = DOMAIN list \cup {Len(list) + 1, Len(list) + 2}
        /\ \A q \in DOMAIN list : list'[q] = list[q]
        /\ list'[Len(list) + 1] = User
        /\ list'[Len(list) + 2].gen = NoGen /\ ~list'[Len(list) + 2].executing
    BY <2>1 DEF Pushed
  <2>3. CASE k \in DOMAIN list
    <3>1. Gens(list') \subseteq Gens(list)
      BY <2>2, NewMessages DEF Gens
    <3>2. ~(Unsettled(list[k]) /\ list[k].gen = NoGen)
      <4>1. SUFFICES ASSUME Unsettled(list[k]), list[k].gen = NoGen
                     PROVE  FALSE
        OBVIOUS
      <4>2. k = Len(list) /\ list # <<>>
        BY <1>0, <2>3, <4>1, SeqIs DEF SpinsOK
      <4> QED
        BY <1>0, <2>1, <4>1, <4>2 DEF isSending
    <3> QED
      BY <2>1, <2>2, <2>3, <3>1, <3>2, SpinsStay
  <2>4. CASE k = Len(list) + 1
    BY <2>2, <2>4, NewMessages DEF SpinsNext, Spins, Unsettled
  <2>5. CASE k = Len(list) + 2
    <3>1. Event("chat", NoGen) \in Commands /\ Event("chat", NoGen).type = "chat"
      BY DEF Event, Commands
    <3>2. PendingNext
      BY <2>1, <3>1, Appended DEF PendingNext
    <3> QED
      BY <2>2, <2>5, <3>2 DEF SpinsNext, Spins
  <2> QED
    BY <2>2, <2>3, <2>4, <2>5
<1>4. ASSUME NEW c \in calls, Stop(c)
      PROVE  SpinsNext(k)
  <2>0. ~Receive
    BY <1>4, NotReceived DEF Stop
  <2>1. CASE list' = list
    BY <2>0, <2>1, SpinsStay
  <2>2. CASE Shortened
    <3>1. /\ k \in DOMAIN list /\ k < Len(list) /\ list'[k] = list[k]
          /\ \A q \in DOMAIN list' : q \in DOMAIN list /\ list'[q] = list[q]
      BY <2>2 DEF Shortened
    <3>2. Gens(list') \subseteq Gens(list)
      BY <3>1 DEF Gens
    <3>3. ~(Unsettled(list[k]) /\ list[k].gen = NoGen)
      BY <1>0, <3>1 DEF SpinsOK
    <3> QED
      BY <2>0, <3>1, <3>2, <3>3, SpinsStay
  <2>3. ASSUME list # <<>>, Revised(Len(list)), list'[Len(list)].status = "finished",
               list'[Len(list)].gen = list[Len(list)].gen,
               list'[Len(list)].executing = list[Len(list)].executing
        PROVE  SpinsNext(k)
    <3>1. /\ Gens(list') = Gens(list) /\ Len(list') = Len(list) /\ k \in DOMAIN list
          /\ k # Len(list) => list'[k] = list[k]
      BY <2>3, RevisedGens DEF Revised
    <3>2. CASE k # Len(list)
      BY <2>0, <3>1, <3>2, SpinsStay
    <3>3. CASE k = Len(list)
      <4>1. list[k].executing /\ list[k].gen # NoGen => ComingNext(list[k].gen)
        BY <2>0, <3>1, ComingStays DEF SpinsOK
      <4> QED
        BY <2>3, <3>3, <4>1 DEF SpinsNext, Spins, Unsettled
    <3> QED
      BY <3>2, <3>3
  <2> QED
    BY <1>4, <2>1, <2>2, <2>3, StopIs DEF Stopped
<1>5. ASSUME NEW c \in calls, Checked(c) \/ Synced(c)
      PROVE  SpinsNext(k)
  <2>0. ~Receive
    BY <1>5, NotReceived DEF Checked, Synced
  <2>1. CASE list' = list
    BY <2>0, <2>1, SpinsStay
  <2>2. ASSUME NEW i \in DOMAIN list, Settles(c.arg, i), ~list'[i].executing,
               list'[i].status \in {"finished", "error"}
        PROVE  SpinsNext(k)
    <3>1. Revised(i) /\ list'[i].gen = list[i].gen
      BY <2>2 DEF Settles
    <3>2. /\ Gens(list') = Gens(list) /\ Len(list') = Len(list) /\ k \in DOMAIN list
          /\ k # i => list'[k] = list[k]
      BY <3>1, RevisedGens DEF Revised
    <3>3. CASE k # i
      BY <2>0, <3>2, <3>3, SpinsStay
    <3>4. CASE k = i
      BY <2>2, <3>4 DEF SpinsNext, Spins, Unsettled
    <3> QED
      BY <3>3, <3>4
  <2> QED
    BY <1>5, <2>1, <2>2, NotUprooted
<1>6. CASE Replaced
  BY <1>6 DEF Replaced, Renewed, SpinsNext, Spins
<1>7. CASE list' = list /\ ~Receive
  BY <1>7, SpinsStay
<1> QED
  BY <1>2, <1>3, <1>4, <1>5, <1>6, <1>7, ListSteps

-----------------------------------------------------------------------------
(* The calls about sessions.                                               *)

Rooted ==
  /\ TypeOK /\ NoDuplicateAnswer /\ NamesKnown /\ LineOK
  /\ WireOK /\ FirstLine /\ PairsOK /\ SpinsOK
Calm == CallsOK /\ LeavesOK /\ PointerOK

WorkNext ==
  \/ cmds' # <<>> \/ server'.pc # "idle"
  \/ \E k \in DOMAIN wire' : wire'[k].type # "connection"
Holds(c) == c.kind \in {"token", "check"} \/ (c.kind = "messages" /\ c.then # NoConv)
AskingNext == WorkNext \/ \E c \in calls' : Holds(c)
MovesNext(g) == ComingNext(g) \/ \E c \in calls' : c.kind = "check" /\ c.arg = g

LEMMA ComingWork ==
  ASSUME NEW g, Coming(g)
  PROVE  Work
BY DEF Coming, Busy, Ends, Work

(* An answer that is being sent is being served, or its end is on its way. *)
LEMMA SendingWork ==
  ASSUME TypeOK, SpinsOK
  PROVE  /\ isSending => Work
         /\ \A i \in DOMAIN list : Unsettled(list[i]) => Work
<1>1. Pending => Work
  <2>1. (\E k \in DOMAIN cmds : cmds[k].type = "chat") => cmds # <<>>
    OBVIOUS
  <2>2. ASSUME NEW k \in DOMAIN wire, wire[k].type = "start" \/ wire[k] = Event("error", NoGen)
        PROVE  wire[k].type # "connection"
    BY <2>2 DEF Event
  <2> QED
    BY <2>1, <2>2, ComingWork DEF Pending, Work
<1>2. \A i \in DOMAIN list : Unsettled(list[i]) => Work
  BY <1>1, ComingWork DEF SpinsOK
<1>3. isSending => Len(list) \in DOMAIN list /\ Unsettled(list[Len(list)])
  BY Lasts DEF isSending, TypeOK
<1> QED
  BY <1>2, <1>3

LEMMA MovesAsking ==
  ASSUME TypeOK, NamesKnown, NEW g, Moves(g)
  PROVE  Asking /\ Known(g) /\ g \in Gen
<1>1. CASE Coming(g)
  <2>1. g \in Gen /\ Known(g)
    <3>1. CASE Busy(g)
      BY <3>1 DEF Busy, NamesKnown, StoreKnown
    <3>2. ASSUME NEW k \in DOMAIN wire, Ends(wire[k]), wire[k].gen = g
          PROVE  g \in Gen /\ Known(g)
      <4>1. wire[k] \in Events
        BY SeqIs DEF TypeOK
      <4> QED
        BY <3>2, <4>1, EventIs DEF NamesKnown, WayKnown
    <3> QED
      BY <1>1, <3>1, <3>2 DEF Coming
  <2> QED
    BY <1>1, <2>1, ComingWork DEF Asking
<1>2. ASSUME NEW c \in calls, c.kind = "check", c.arg = g
      PROVE  Asking /\ Known(g) /\ g \in Gen
  <2>1. c \in Calls
    BY DEF TypeOK
  <2>2. c.arg \in Gen /\ Known(c.arg)
    BY <1>2, <2>1, CallIs DEF NamesKnown, CallsKnown
  <2> QED
    BY <1>2, <2>2 DEF Asking
<1> QED
  BY <1>1, <1>2 DEF Moves

(* What a step does to the calls unless it is of the sidebar: it drops     *)
(* others than switches, watches an answer, and loads the messages of the  *)
(* conversation it moves the page to.                                      *)
Usual ==
  /\ \A d \in calls' :
       \/ d \in calls
       \/ d.kind \in {"token", "sync"} /\ d.then = NoConv
       \/ d.kind = "check" /\ d.then = NoConv /\ Moves(d.arg)
       \/ d = Call("messages", conv')
       \/ d = Call("sessions", NoConv) /\ Asking /\ conv' # NoConv
  /\ \A d \in Served : d \in calls'
  /\ conv' = conv \/ \E g \in Gen : Moves(g) /\ Known(g) /\ conv' = home[g]
  /\ AskingNext => Asking \/ SessionCalls = {}

(* A step with nothing new to do.                                          *)
LEMMA WorkSame ==
  ASSUME cmds' = cmds, server' = server, wire' = wire, calls' \subseteq calls
  PROVE  AskingNext => Asking
BY DEF AskingNext, WorkNext, Asking, Work, Holds

LEMMA UsualPage ==
  ASSUME Rooted, Send \/ AskStop \/ MonitorTick \/ syncGenerationAfterReconnect \/ Connect,
         ~disturbed'
  PROVE  Usual
<1>0. TypeOK /\ NoDuplicateAnswer /\ SpinsOK /\ wire \in Seq(Events) /\ LineOK
  BY DEF Rooted, TypeOK
<1>1. CASE Send
  <2>1. calls' = calls /\ conv' = conv /\ SessionCalls = {}
    BY <1>1 DEF Send
  <2> QED
    BY <2>1 DEF Usual, Served
<1>2. CASE AskStop
  <2>1. calls' = calls \cup {Call("token", NoGen)} /\ conv' = conv /\ Asking
    BY <1>0, <1>2, SendingWork DEF AskStop, Asking
  <2> QED
    BY <2>1 DEF Usual, Served, Call, CallThen
<1>3. CASE MonitorTick
  <2>1. /\ conv' = conv /\ cmds' = cmds /\ server' = server /\ wire' = wire
    BY <1>3 DEF MonitorTick
  <2>2. CASE calls' = calls
    BY <2>1, <2>2, WorkSame DEF Usual, Served
  <2>3. ASSUME NEW i \in DOMAIN list, Unsettled(list[i]), list[i].gen # NoGen,
               calls' = calls \cup {Call("check", list[i].gen)}
        PROVE  Usual
    <3>1. Coming(list[i].gen)
      BY <1>0, <2>3 DEF SpinsOK
    <3>2. Moves(list[i].gen) /\ Asking
      BY <3>1, ComingWork DEF Moves, Asking
    <3>3. Call("check", list[i].gen).kind = "check" /\ Call("check", list[i].gen).then = NoConv
          /\ Call("check", list[i].gen).arg = list[i].gen
      BY DEF Call, CallThen
    <3> QED
      BY <2>1, <2>3, <3>2, <3>3 DEF Usual, Served
  <2> QED
    BY <1>0, <1>3, <2>2, <2>3, TickIs
<1>4. CASE syncGenerationAfterReconnect
  <2> DEFINE g == getPendingGenerationId
  <2>1. /\ wire # <<>> /\ wire' = Tail(wire) /\ conv' = conv /\ cmds' = cmds /\ server' = server
        /\ calls' = calls \cup {Call("sync", g)}
    BY <1>4 DEF syncGenerationAfterReconnect
  <2> HIDE DEF g
  <2>2. Call("sync", g).kind = "sync" /\ Call("sync", g).then = NoConv
    BY DEF Call, CallThen
  <2>3. WorkNext => Work
    BY <1>0, <2>1, Tailed DEF WorkNext, Work
  <2>4. AskingNext => Asking
    BY <2>1, <2>2, <2>3 DEF AskingNext, Asking, Holds
  <2> QED
    BY <2>1, <2>2, <2>4 DEF Usual, Served
<1>5. CASE Connect
  <2>1. /\ calls' = calls /\ conv' = conv /\ cmds' = cmds /\ wire' = <<Event("connection", NoGen)>>
        /\ server.pc = "idle" /\ server' = [server EXCEPT !.alive = TRUE]
    BY <1>5 DEF Connect
  <2>2. server'.pc = "idle"
    BY <1>0, <2>1 DEF TypeOK
  <2>3. WorkNext => Work
    BY <2>1, <2>2 DEF WorkNext, Work, Event
  <2>4. AskingNext => Asking
    BY <2>1, <2>3 DEF AskingNext, Asking, Holds
  <2> QED
    BY <2>1, <2>4 DEF Usual, Served
<1> QED
  BY <1>1, <1>2, <1>3, <1>4, <1>5

LEMMA UsualServer ==
  ASSUME Rooted, ~uprooted,
         Chunk \/ ToolEvent \/ Refuse \/ (\E g \in Gen : Start(g)) \/ Abandon \/ Complete
         \/ Record \/ Raise \/ StopCommand
  PROVE  Usual /\ Asking
<1>1. calls' = calls /\ conv' = conv
  BY DEF Chunk, ToolEvent, Refuse, Start, Abandon, Complete, Record, Raise, StopCommand, pageVars
<1>2. server.pc # "idle" \/ cmds # <<>>
  BY DEF Chunk, ToolEvent, Refuse, Start, Abandon, Complete, Record, Raise, StopCommand
<1>3. Asking
  BY <1>2 DEF Asking, Work
<1> QED
  BY <1>1, <1>3 DEF Usual, Served

LEMMA UsualReceive ==
  ASSUME Rooted, Receive
  PROVE  Usual /\ Asking
<1> DEFINE e == Head(wire)
<1>0. TypeOK /\ NoDuplicateAnswer /\ NamesKnown
  BY DEF Rooted
<1>1. wire # <<>> /\ e \in Events /\ e.type # "connection" /\ e = wire[1] /\ 1 \in DOMAIN wire
  BY <1>0, ReceiveIs, Tailed DEF TypeOK
<1>2. Asking
  BY <1>1 DEF Asking, Work
<1>3. CASE conv' = conv /\ calls' = calls
  BY <1>2, <1>3 DEF Usual, Served
<1>4. CASE e.type = "completion" /\ SetConv(home[e.gen], calls \cup {Call("sessions", NoConv)})
  <2>1. Moves(e.gen)
    BY <1>1, <1>4 DEF Moves, Coming, Ends
  <2>2. Known(e.gen) /\ e.gen \in Gen
    BY <1>0, <2>1, MovesAsking
  <2>3. conv' = home[e.gen] /\ conv' # NoConv
    BY <1>4, <2>2, SetConvIs, ChatAssumption DEF Known
  <2>4. /\ calls \subseteq calls'
        /\ \A d \in calls' : d \in calls \/ d = Call("sessions", NoConv) \/ d = Call("messages", conv')
    BY <1>4, <2>3, SetConvIs
  <2> QED
    BY <1>2, <2>1, <2>2, <2>3, <2>4 DEF Usual, Served
<1> QED
  BY <1>0, <1>2, <1>3, <1>4, ReceiveIs DEF Ignored, Applied

LEMMA UsualCall ==
  ASSUME Rooted, Calm, ~uprooted', ~disturbed', NEW c \in calls,
         Stop(c) \/ Checked(c) \/ Synced(c) \/ Loaded(c) \/ Fail(c)
  PROVE  Usual
<1>0. /\ TypeOK /\ NoDuplicateAnswer /\ NamesKnown /\ FirstLine /\ calls \subseteq Calls
      /\ c \in Calls
  BY DEF Rooted, TypeOK
<1>1. ASSUME c.kind # "switch", calls' = calls \ {c}
      PROVE  \A d \in Served : d \in calls'
  BY <1>1 DEF Served
<1>2. CASE Stop(c)
  <2>1. c.kind = "token" /\ calls' = calls \ {c} /\ conv' = conv
    BY <1>2 DEF Stop
  <2>2. Asking
    BY <2>1 DEF Asking
  <2> QED
    BY <1>1, <2>1, <2>2 DEF Usual
<1>3. CASE Checked(c)
  <2>1. c.kind = "check" /\ cmds' = cmds /\ server' = server /\ wire' = wire
    BY <1>3 DEF Checked
  <2>2. Asking /\ Moves(c.arg)
    BY <2>1 DEF Asking, Moves
  <2>3. CASE conv' = conv /\ calls' = calls \ {c}
    BY <1>1, <2>1, <2>2, <2>3 DEF Usual
  <2>4. CASE c.arg \in Gen /\ Known(c.arg) /\ SetConv(home[c.arg], calls \ {c})
    <3>1. conv' = home[c.arg] /\ calls \ {c} \subseteq calls'
          /\ \A d \in calls' : d \in calls \/ d = Call("messages", conv')
      BY <2>4, SetConvIs
    <3>2. \A d \in Served : d \in calls'
      BY <2>1, <3>1 DEF Served
    <3> QED
      BY <2>2, <2>4, <3>1, <3>2 DEF Usual
  <2> QED
    BY <1>0, <1>3, <2>3, <2>4, NotUprooted
<1>4. CASE Synced(c)
  <2>1. c.kind = "sync" /\ cmds' = cmds /\ server' = server /\ wire' = wire
    BY <1>4 DEF Synced
  <2>2. conv' = conv /\ calls' = calls \ {c}
    BY <1>0, <1>4, NotUprooted
  <2>3. AskingNext => Asking
    BY <2>1, <2>2, WorkSame
  <2> QED
    BY <1>1, <2>1, <2>2, <2>3 DEF Usual
<1>5. ASSUME c.kind = "messages", c.then # NoConv
      PROVE  conv # c.then
  BY <1>5 DEF Calm, LeavesOK
<1>6. CASE Loaded(c)
  <2>1. c.kind = "messages" /\ cmds' = cmds /\ server' = server /\ wire' = wire
    BY <1>6 DEF Loaded
  <2>2. conv' = conv /\ calls' = calls \ {c}
    BY <1>5, <1>6, <2>1 DEF Loaded
  <2>3. AskingNext => Asking
    BY <2>1, <2>2, WorkSame
  <2> QED
    BY <1>1, <2>1, <2>2, <2>3 DEF Usual
<1>7. CASE Fail(c)
  <2>1. c \notin SessionCalls /\ cmds' = cmds /\ server' = server /\ wire' = wire
        /\ Leave(c, c.then)
    BY <1>7 DEF Fail
  <2>2. c.kind \notin {"sessions", "create", "switch", "archive", "unarchive"}
    BY <2>1 DEF SessionCalls
  <2>3. c.then # NoConv => c.kind = "messages"
    BY <1>0, <2>2, CallIs
  <2>4. conv' = conv /\ calls' = calls \ {c}
    BY <1>5, <2>1, <2>3 DEF Leave
  <2>5. AskingNext => Asking
    BY <2>1, <2>4, WorkSame
  <2> QED
    BY <1>1, <2>2, <2>4, <2>5 DEF Usual
<1> QED
  BY <1>2, <1>3, <1>4, <1>5, <1>6, <1>7

(* Which steps are of the sidebar.                                         *)
LEMMA UsualStep ==
  ASSUME Rooted, Calm, [Next]_vars, ~uprooted, ~uprooted', ~disturbed'
  PROVE  \/ Usual /\ (Asking \/ storeVars' = storeVars)
         \/ Clicked
         \/ \E c \in calls :
              Serve(c) \/ SessionsLoaded(c) \/ Created(c) \/ Switched(c) \/ Archived(c)
<1>1. CASE UNCHANGED vars
  <2>1. /\ calls' = calls /\ conv' = conv /\ cmds' = cmds /\ server' = server /\ wire' = wire
        /\ storeVars' = storeVars
    BY <1>1 DEF vars, pageVars
  <2> QED
    BY <2>1, WorkSame DEF Usual, Served
<1>2. CASE Send \/ AskStop \/ MonitorTick \/ syncGenerationAfterReconnect \/ Connect
  <2>1. storeVars' = storeVars
    BY <1>2 DEF Send, AskStop, MonitorTick, syncGenerationAfterReconnect, Connect
  <2> QED
    BY <1>2, <2>1, UsualPage
<1>3. ASSUME NEW c \in calls, Stop(c) \/ Checked(c) \/ Synced(c) \/ Loaded(c) \/ Fail(c)
      PROVE  Usual /\ storeVars' = storeVars
  <2>1. storeVars' = storeVars
    BY <1>3 DEF Stop, Checked, Synced, Loaded, Fail
  <2> QED
    BY <1>3, <2>1, UsualCall
<1>4. ~Drop
  BY DEF Drop
<1> QED
  BY <1>1, <1>2, <1>3, <1>4, UsualServer, UsualReceive, Steps

(* The calls about sessions of the next state.                             *)
SessionCallsNext ==
  {c \in calls' : c.kind \in {"sessions", "create", "switch", "archive", "unarchive"}}

LEMMA CallsOKUsual ==
  ASSUME TypeOK, NamesKnown, CallsOK, Usual
  PROVE  CallsOK'
<1>0. calls \subseteq Calls
  BY DEF TypeOK
<1>1. ASSUME NEW d \in SessionCallsNext
      PROVE  d \in SessionCalls \/ (d = Call("sessions", NoConv) /\ Asking /\ conv' # NoConv)
  <2>1. Call("messages", conv').kind = "messages"
    BY DEF Call, CallThen
  <2> QED
    BY <1>1, <2>1 DEF Usual, SessionCalls, SessionCallsNext
<1>2. ASSUME Asking, NEW d \in SessionCalls
      PROVE  d = Call("sessions", NoConv) /\ conv' # NoConv
  <2>1. d.kind = "sessions" /\ d.then = NoConv /\ conv # NoConv
    BY <1>2 DEF CallsOK
  <2>2. d \in Calls
    BY <1>0, <1>2 DEF SessionCalls
  <2>3. d = Call("sessions", NoConv)
    BY <2>1, <2>2, CallIs DEF Call
  <2>4. \A g \in Gen : Known(g) => home[g] # NoConv
    BY ChatAssumption DEF Known
  <2> QED
    BY <2>1, <2>3, <2>4 DEF Usual
<1>3. \A c, d \in SessionCallsNext : c = d
  <2>1. CASE Asking
    BY <1>1, <1>2, <2>1
  <2>2. CASE ~Asking
    BY <1>1, <2>2 DEF CallsOK
  <2> QED
    BY <2>1, <2>2
<1>4. ASSUME AskingNext, NEW d \in SessionCallsNext
      PROVE  d.kind = "sessions" /\ d.then = NoConv /\ conv' # NoConv
  <2>1. d = Call("sessions", NoConv) /\ conv' # NoConv
    BY <1>1, <1>2, <1>4 DEF Usual
  <2> QED
    BY <2>1 DEF Call, CallThen
<1>5. Asking' <=> AskingNext
  BY DEF Asking, Work, AskingNext, WorkNext, Holds
<1> QED
  BY <1>3, <1>4, <1>5 DEF CallsOK, SessionCalls, SessionCallsNext

(* The store stands still, or a generation starts in a conversation that   *)
(* is not archived.                                                        *)
LEMMA StoreUsual ==
  ASSUME TypeOK, CallsOK, [Next]_vars, Asking \/ storeVars' = storeVars
  PROVE  \/ pointer' = pointer /\ session' = session /\ home' = home
         \/ Asking /\ \E g \in Gen : Start(g)
<1>1. CASE storeVars' = storeVars
  BY <1>1 DEF storeVars
<1>2. CASE Asking
  <2>1. ASSUME NEW c \in calls, Serve(c) \/ Created(c) \/ Archived(c)
        PROVE  FALSE
    <3>1. c.kind \in {"switch", "create", "archive", "unarchive"}
      BY <2>1 DEF Serve, Created, Archived
    <3> QED
      BY <1>2, <3>1 DEF CallsOK, SessionCalls
  <2>2. Complete \/ Record \/ Raise \/ StopCommand
        => pointer' = pointer /\ session' = session /\ home' = home
    BY DEF Complete, Record, Raise, StopCommand
  <2> QED
    BY <1>1, <1>2, <2>1, <2>2, StoreSteps
<1> QED
  BY <1>1, <1>2

LEMMA HereStays ==
  ASSUME TypeOK, NamesKnown, NEW d \in Conv, Here(d),
         \/ pointer' = pointer /\ session' = session
         \/ \E g \in Gen : Start(g)
  PROVE  pointer' = d \/ session'[d] = "ARCHIVED"
<1>1. CASE pointer' = pointer /\ session' = session
  BY <1>1 DEF Here
<1>2. ASSUME NEW g \in Gen, Start(g)
      PROVE  pointer' = d \/ session'[d] = "ARCHIVED"
  <2>1. \/ session' = session /\ pointer' = pointer
        \/ /\ session[pointer'] = "none" /\ session' = [session EXCEPT ![pointer'] = "ACTIVE"]
           /\ pointer = NoConv \/ session[pointer] # "ACTIVE"
    BY <1>2, StartIs
  <2>2. ASSUME session[pointer'] = "none", session' = [session EXCEPT ![pointer'] = "ACTIVE"],
               pointer = NoConv \/ session[pointer] # "ACTIVE", pointer' # d
        PROVE  session'[d] = "ARCHIVED"
    <3>1. session'[d] = session[d] /\ session[d] \in {"none", "ACTIVE", "ARCHIVED"}
      BY <2>2 DEF TypeOK
    <3>2. pointer = d => session[d] # "ACTIVE" /\ session[d] # "none"
      BY <2>2, ChatAssumption DEF NamesKnown, StoreKnown
    <3> QED
      BY <3>1, <3>2 DEF Here
  <2> QED
    BY <2>1, <2>2 DEF Here
<1> QED
  BY <1>1, <1>2

LEMMA MovesNew ==
  ASSUME Rooted, [Next]_vars, ~uprooted, ~uprooted', Usual, NEW g \in Gen, MovesNext(g)
  PROVE  Moves(g) \/ Start(g)
<1>1. CASE ComingNext(g)
  BY <1>1, ComingNew DEF Rooted, Moves
<1>2. ASSUME NEW d \in calls', d.kind = "check", d.arg = g
      PROVE  Moves(g)
  <2>1. Call("messages", conv').kind = "messages" /\ Call("sessions", NoConv).kind = "sessions"
    BY DEF Call, CallThen
  <2>2. d \in calls \/ Moves(g)
    BY <1>2, <2>1 DEF Usual
  <2> QED
    BY <1>2, <2>2 DEF Moves
<1> QED
  BY <1>1, <1>2 DEF MovesNext

LeavesNext(d) ==
  d.then # NoConv =>
    /\ session'[d.then] = "ARCHIVED"
    /\ d.kind = "switch" => d.arg # d.then
    /\ d.kind = "messages" => conv' # d.then /\ \A g \in Gen : MovesNext(g) => home'[g] # d.then

PointerNext ==
  /\ \A c \in calls' : c.kind = "switch" /\ c.served => pointer' = c.arg
  /\ conv' # NoConv =>
       \/ pointer' = conv' \/ session'[conv'] = "ARCHIVED"
       \/ \E c \in calls' : c.kind = "switch" /\ c.served
  /\ \A g \in Gen : MovesNext(g) => pointer' = home'[g] \/ session'[home'[g]] = "ARCHIVED"

LEMMA CalmNext ==
  ASSUME CallsOK', \A d \in calls' : LeavesNext(d), PointerNext
  PROVE  Calm'
<1>1. \A g : Moves(g)' <=> MovesNext(g)
  BY DEF Moves, Coming, Busy, MovesNext, ComingNext, BusyNext
<1>2. LeavesOK'
  BY <1>1 DEF LeavesOK, LeavesNext
<1>3. Served' = {c \in calls' : c.kind = "switch" /\ c.served}
  BY DEF Served
<1>4. PointerOK'
  BY <1>1, <1>3 DEF PointerOK, PointerNext, Here
<1> QED
  BY <1>2, <1>4 DEF Calm

LEMMA UsualCalm ==
  ASSUME Rooted, Calm, [Next]_vars, ~uprooted, ~uprooted', Usual, Asking \/ storeVars' = storeVars
  PROVE  Calm'
<1>0. TypeOK /\ NamesKnown /\ CallsOK /\ LeavesOK /\ PointerOK /\ calls \subseteq Calls
  BY DEF Rooted, Calm, TypeOK
<1>1. CallsOK'
  BY <1>0, CallsOKUsual
<1>2. \/ pointer' = pointer /\ session' = session /\ home' = home
      \/ Asking /\ \E g \in Gen : Start(g)
  BY <1>0, StoreUsual
<1>3. ASSUME NEW g \in Gen, Start(g)
      PROVE  pointer' = home'[g] /\ session'[home'[g]] = "ACTIVE"
  <2>1. home' = [home EXCEPT ![g] = pointer'] /\ session'[pointer'] = "ACTIVE"
    BY <1>0, <1>3, StartIs
  <2>2. home'[g] = pointer'
    BY <1>0, <1>3, <2>1 DEF TypeOK
  <2> QED
    BY <2>1, <2>2
<1>4. ASSUME NEW g \in Gen, ~Start(g)
      PROVE  home'[g] = home[g]
  <2>1. ASSUME NEW h \in Gen, Start(h)
        PROVE  home'[g] = home[g]
    BY <1>0, <1>4, <2>1, StartIs DEF TypeOK
  <2> QED
    BY <1>2, <2>1
<1>5. ASSUME NEW g \in Gen, MovesNext(g), ~Start(g)
      PROVE  Moves(g) /\ home'[g] = home[g]
  BY <1>4, <1>5, MovesNew
<1>6. ASSUME NEW d \in calls', d.then # NoConv \/ (d.kind = "switch" /\ d.served)
      PROVE  d \in calls
  <2>1. \A kind, arg : Call(kind, arg).then = NoConv /\ ~Call(kind, arg).served
    BY DEF Call, CallThen
  <2> QED
    BY <1>6, <2>1 DEF Usual
<1>7. ASSUME NEW d \in calls'
      PROVE  LeavesNext(d)
  <2>1. SUFFICES ASSUME d.then # NoConv, d \in calls, d.then \in Conv
                 PROVE  LeavesNext(d)
    BY <1>0, <1>6, CallIs DEF LeavesNext
  <2>2. session[d.then] = "ARCHIVED" /\ (d.kind = "switch" => d.arg # d.then)
    BY <1>0, <2>1 DEF LeavesOK
  <2>3. session'[d.then] = "ARCHIVED"
    <3>1. ASSUME NEW g \in Gen, Start(g)
          PROVE  session'[d.then] = "ARCHIVED"
      <4>1. \/ session' = session
            \/ session[pointer'] = "none" /\ session' = [session EXCEPT ![pointer'] = "ACTIVE"]
        BY <1>0, <3>1, StartIs
      <4> QED
        BY <1>0, <2>1, <2>2, <4>1 DEF TypeOK
    <3> QED
      BY <1>2, <2>2, <3>1
  <2>4. ASSUME d.kind = "messages"
        PROVE  conv' # d.then
    BY <1>0, <2>1, <2>4 DEF Usual, LeavesOK
  <2>5. ASSUME d.kind = "messages", NEW g \in Gen, MovesNext(g)
        PROVE  home'[g] # d.then
    <3>1. CASE Start(g)
      BY <1>3, <2>3, <3>1
    <3>2. CASE ~Start(g)
      BY <1>0, <1>5, <2>1, <2>5, <3>2 DEF LeavesOK
    <3> QED
      BY <3>1, <3>2
  <2> QED
    BY <2>2, <2>3, <2>4, <2>5 DEF LeavesNext
<1>8. ASSUME NEW d \in Conv, Here(d)
      PROVE  pointer' = d \/ session'[d] = "ARCHIVED"
  BY <1>0, <1>2, <1>8, HereStays
<1>9. ASSUME NEW g \in Gen, Moves(g)
      PROVE  Here(home[g]) /\ home[g] \in Conv
  BY <1>0, <1>9, MovesAsking DEF PointerOK, Known
<1>10. PointerNext
  <2>1. ASSUME NEW c \in calls', c.kind = "switch", c.served
        PROVE  pointer' = c.arg
    <3>1. c \in Served /\ c \in SessionCalls /\ pointer = c.arg
      BY <1>0, <1>6, <2>1 DEF Served, SessionCalls, PointerOK
    <3>2. ~Asking
      BY <1>0, <2>1, <3>1 DEF CallsOK
    <3> QED
      BY <1>2, <3>1, <3>2
  <2>2. ASSUME conv' # NoConv
        PROVE  \/ pointer' = conv' \/ session'[conv'] = "ARCHIVED"
               \/ \E c \in calls' : c.kind = "switch" /\ c.served
    <3>1. CASE conv' = conv /\ Here(conv)
      BY <1>0, <1>8, <2>2, <3>1 DEF TypeOK
    <3>2. CASE conv' = conv /\ Served # {}
      BY <3>2 DEF Usual, Served
    <3>3. CASE \E g \in Gen : Moves(g) /\ conv' = home[g]
      BY <1>8, <1>9, <3>3
    <3> QED
      BY <1>0, <2>2, <3>1, <3>2, <3>3 DEF Usual, PointerOK
  <2>3. ASSUME NEW g \in Gen, MovesNext(g)
        PROVE  pointer' = home'[g] \/ session'[home'[g]] = "ARCHIVED"
    <3>1. CASE Start(g)
      BY <1>3, <3>1
    <3>2. CASE ~Start(g)
      BY <1>5, <1>8, <1>9, <2>3, <3>2
    <3> QED
      BY <3>1, <3>2
  <2> QED
    BY <2>1, <2>2, <2>3 DEF PointerNext
<1> QED
  BY <1>1, <1>7, <1>10, CalmNext

(* A step of the sidebar: its call makes place for another, x, when        *)
(* nothing is asked.                                                       *)
LEMMA CalmSidebar ==
  ASSUME Rooted, Calm, ~Asking, cmds' = cmds, server' = server, wire' = wire, NEW x,
         \A d \in calls' :
           d = x \/ d = Call("messages", conv') \/ (d \in calls /\ d \notin SessionCalls),
         x.kind # "check" /\ x.kind # "token",
         x.kind = "messages" => conv' # x.then,
         x.then # NoConv => session'[x.then] = "ARCHIVED" /\ (x.kind = "switch" => x.arg # x.then),
         x.kind = "switch" /\ x.served => pointer' = x.arg,
         conv' # NoConv =>
           \/ pointer' = conv' \/ session'[conv'] = "ARCHIVED"
           \/ x \in calls' /\ x.kind = "switch" /\ x.served
  PROVE  Calm'
<1>0. TypeOK /\ NamesKnown /\ CallsOK /\ LeavesOK /\ PointerOK /\ calls \subseteq Calls
  BY DEF Rooted, Calm, TypeOK
<1>1. Call("messages", conv').kind = "messages" /\ Call("messages", conv').then = NoConv
      /\ ~Call("messages", conv').served
  BY DEF Call, CallThen
<1>2. ASSUME NEW d \in calls, d \notin SessionCalls
      PROVE  /\ d.then = NoConv /\ d.kind # "check" /\ d.kind # "token"
             /\ d.kind \notin {"sessions", "create", "switch", "archive", "unarchive"}
  <2>1. d.kind \notin {"sessions", "create", "switch", "archive", "unarchive"}
    BY <1>2 DEF SessionCalls
  <2>2. d.kind \notin {"check", "token"} /\ (d.kind = "messages" => d.then = NoConv)
    BY DEF Asking
  <2>3. d.then = NoConv
    BY <1>0, <2>1, <2>2, CallIs
  <2> QED
    BY <2>1, <2>2, <2>3
<1>3. ASSUME NEW g, MovesNext(g)
      PROVE  FALSE
  <2>1. ~Coming(g)
    BY ComingWork DEF Asking
  <2>2. ~ComingNext(g)
    BY <2>1 DEF Coming, ComingNext, Busy, BusyNext
  <2>3. \A d \in calls' : d.kind # "check"
    BY <1>1, <1>2
  <2> QED
    BY <1>3, <2>2, <2>3 DEF MovesNext
<1>4. \A d \in SessionCallsNext : d = x
  BY <1>1, <1>2 DEF SessionCallsNext
<1>5. AskingNext => x.kind = "messages"
  <2>1. ~WorkNext
    BY DEF Asking, Work, WorkNext
  <2> QED
    BY <1>1, <1>2, <2>1 DEF AskingNext, Holds
<1>6. CallsOK'
  <2>1. Asking' <=> AskingNext
    BY DEF Asking, Work, AskingNext, WorkNext, Holds
  <2> QED
    BY <1>4, <1>5, <2>1 DEF CallsOK, SessionCalls, SessionCallsNext
<1>7. ASSUME NEW d \in calls'
      PROVE  LeavesNext(d)
  BY <1>1, <1>2, <1>3 DEF LeavesNext
<1>8. PointerNext
  BY <1>1, <1>2, <1>3 DEF PointerNext
<1> QED
  BY <1>6, <1>7, <1>8, CalmNext

LEMMA SidebarIs ==
  ASSUME TypeOK, CallsOK, NEW c \in SessionCalls
  PROVE  /\ c \in Calls /\ \A d \in calls : d # c => d \notin SessionCalls
         /\ c.kind # "sessions" \/ c.then # NoConv \/ conv = NoConv => ~Asking
BY DEF TypeOK, CallsOK, SessionCalls

LEMMA ClickedCalm ==
  ASSUME Rooted, Calm, Clicked, ~disturbed'
  PROVE  Calm'
<1>0. TypeOK /\ CallsOK /\ PointerOK /\ calls \subseteq Calls
  BY DEF Rooted, Calm, TypeOK
<1>1. Quiet /\ conv' = conv /\ cmds' = cmds /\ server' = server /\ wire' = wire
      /\ pointer' = pointer /\ session' = session
  BY ClickedIs DEF storeVars
<1>2. PICK c \in Calls : /\ calls' = calls \cup {c} /\ c.then = NoConv /\ ~c.served
                         /\ c.kind \in {"create", "switch", "archive", "unarchive"}
  BY ClickedIs
<1>3. \A d \in calls : d.kind = "sync"
  BY <1>1 DEF Quiet
<1>4. ~Asking
  BY <1>1, <1>3 DEF Quiet, Asking, Work
<1>5. SessionCalls = {} /\ Served = {}
  BY <1>3 DEF SessionCalls, Served
<1>6. conv # NoConv => pointer = conv \/ session[conv] = "ARCHIVED"
  BY <1>0, <1>5 DEF PointerOK, Here
<1> QED
  BY <1>1, <1>2, <1>4, <1>5, <1>6, CalmSidebar

LEMMA ServeCalm ==
  ASSUME Rooted, Calm, NEW c \in calls, Serve(c)
  PROVE  Calm'
<1> DEFINE x == [c EXCEPT !.served = TRUE]
<1>0. /\ TypeOK /\ CallsOK /\ LeavesOK /\ c.kind = "switch" /\ c \in SessionCalls
      /\ calls' = (calls \ {c}) \cup {x} /\ pointer' = c.arg
      /\ cmds' = cmds /\ server' = server /\ wire' = wire /\ session' = session
  BY DEF Rooted, Calm, Serve, SessionCalls
<1>1. ~Asking /\ c \in Calls /\ \A d \in calls : d # c => d \notin SessionCalls
  BY <1>0, SidebarIs
<1>2. x \in Calls /\ x.kind = "switch" /\ x.arg = c.arg /\ x.then = c.then /\ x.served
  BY <1>0, <1>1, ServedCall
<1> HIDE DEF x
<1>3. x.then # NoConv => session'[x.then] = "ARCHIVED" /\ x.arg # x.then
  BY <1>0, <1>2 DEF LeavesOK
<1> QED
  BY <1>0, <1>1, <1>2, <1>3, CalmSidebar

LEMMA LoadedCalm ==
  ASSUME Rooted, Calm, NEW c \in calls, SessionsLoaded(c)
  PROVE  Calm' \/ (Usual /\ storeVars' = storeVars)
<1>0. /\ TypeOK /\ CallsOK /\ LeavesOK /\ c.kind = "sessions" /\ c \in SessionCalls
      /\ cmds' = cmds /\ server' = server /\ wire' = wire /\ storeVars' = storeVars
      /\ session' = session
  BY DEF Rooted, Calm, SessionsLoaded, SessionCalls, storeVars
<1>1. /\ c.then # NoConv \/ conv = NoConv => ~Asking
      /\ c \in Calls /\ \A d \in calls : d # c => d \notin SessionCalls
  BY <1>0, SidebarIs
<1>2. ASSUME conv = NoConv, conv' = conv, NEW d \in ActiveSessions,
             calls' = (calls \ {c}) \cup {CallThen("switch", d, c.then)}
      PROVE  Calm'
  <2> DEFINE x == CallThen("switch", d, c.then)
  <2>1. x.kind = "switch" /\ x.then = c.then /\ x.arg = d /\ ~x.served
    BY DEF CallThen
  <2>2. session[d] = "ACTIVE"
    BY DEF ActiveSessions
  <2> HIDE DEF x
  <2>3. x.then # NoConv => session'[x.then] = "ARCHIVED" /\ x.arg # x.then
    BY <1>0, <2>1, <2>2 DEF LeavesOK
  <2>4. \A e \in calls' : e = x \/ (e \in calls /\ e \notin SessionCalls)
    BY <1>1, <1>2 DEF x
  <2> QED
    BY <1>0, <1>1, <1>2, <2>1, <2>3, <2>4, CalmSidebar
<1>3. CASE c.then # NoConv /\ SetConv(NoConv, calls \ {c})
  <2> DEFINE x == Call("messages", NoConv)
  <2>1. conv' = NoConv /\ \A d \in calls' : d = x \/ (d \in calls /\ d \notin SessionCalls)
    BY <1>1, <1>3, SetConvIs
  <2> DEFINE y == Call("sync", NoGen)
  <2>2. y.kind = "sync" /\ y.then = NoConv
    BY DEF Call, CallThen
  <2>3. \A d \in calls' :
          d = y \/ d = Call("messages", conv') \/ (d \in calls /\ d \notin SessionCalls)
    BY <2>1
  <2> HIDE DEF x, y
  <2> QED
    BY <1>0, <1>1, <1>3, <2>1, <2>2, <2>3, CalmSidebar
<1>4. CASE conv' = conv /\ calls' = calls \ {c}
  <2>1. AskingNext => Asking
    BY <1>0, <1>4, WorkSame
  <2> QED
    BY <1>0, <1>4, <2>1 DEF Usual, Served
<1> QED
  BY <1>2, <1>3, <1>4 DEF SessionsLoaded, Leave

LEMMA CreatedCalm ==
  ASSUME Rooted, Calm, NEW c \in calls, Created(c)
  PROVE  Calm'
<1> DEFINE x == Call("sessions", NoConv)
<1>0. /\ TypeOK /\ CallsOK /\ c.kind = "create" /\ c \in SessionCalls
      /\ cmds' = cmds /\ server' = server /\ wire' = wire
  BY DEF Rooted, Calm, Created, SessionCalls
<1>1. ~Asking /\ \A d \in calls : d # c => d \notin SessionCalls
  BY <1>0, SidebarIs
<1>2. PICK d \in Conv : pointer' = d /\ SetConv(d, (calls \ {c}) \cup {x})
  BY DEF Created
<1>3. x.kind = "sessions" /\ x.then = NoConv
  BY DEF Call, CallThen
<1> HIDE DEF x
<1>4. /\ conv' = d
      /\ \A e \in calls' : e = x \/ e = Call("messages", conv') \/ (e \in calls /\ e \notin SessionCalls)
  BY <1>1, <1>2, SetConvIs
<1> QED
  BY <1>0, <1>1, <1>2, <1>3, <1>4, CalmSidebar

LEMMA SwitchedCalm ==
  ASSUME Rooted, Calm, NEW c \in calls, Switched(c)
  PROVE  Calm'
<1> DEFINE x == CallThen("messages", c.arg, c.then)
<1>0. /\ TypeOK /\ CallsOK /\ LeavesOK /\ PointerOK /\ c.kind = "switch" /\ c.served
      /\ c \in SessionCalls /\ cmds' = cmds /\ server' = server /\ wire' = wire
      /\ session' = session /\ pointer' = pointer /\ SetConv(c.arg, (calls \ {c}) \cup {x})
  BY DEF Rooted, Calm, Switched, SessionCalls, storeVars
<1>1. ~Asking /\ c \in Calls /\ \A d \in calls : d # c => d \notin SessionCalls
  BY <1>0, SidebarIs
<1>2. x.kind = "messages" /\ x.then = c.then
  BY DEF CallThen
<1> HIDE DEF x
<1>3. /\ conv' = c.arg
      /\ \A e \in calls' : e = x \/ e = Call("messages", conv') \/ (e \in calls /\ e \notin SessionCalls)
  BY <1>0, <1>1, SetConvIs
<1>4. pointer = c.arg
  BY <1>0 DEF PointerOK, Served
<1>5. c.arg \in Conv
  BY <1>0, <1>1, CallIs
<1>6. c.then # NoConv => session[c.then] = "ARCHIVED" /\ c.arg # c.then
  BY <1>0 DEF LeavesOK
<1>7. conv' # x.then
  BY <1>2, <1>3, <1>5, <1>6, ChatAssumption
<1> QED
  BY <1>0, <1>1, <1>2, <1>3, <1>4, <1>6, <1>7, CalmSidebar

LEMMA ArchivedCalm ==
  ASSUME Rooted, Calm, NEW c \in calls, Archived(c), ~disturbed'
  PROVE  Calm'
<1> DEFINE t == IF c.kind = "archive" THEN c.arg ELSE NoConv
           x == CallThen("sessions", NoConv, t)
<1>0. /\ TypeOK /\ CallsOK /\ PointerOK /\ c.kind \in {"archive", "unarchive"}
      /\ c \in SessionCalls /\ cmds' = cmds /\ server' = server /\ wire' = wire
      /\ pointer' = pointer /\ conv' = conv /\ calls' = (calls \ {c}) \cup {x}
      /\ session' = [session EXCEPT ![c.arg] = IF c.kind = "archive" THEN "ARCHIVED" ELSE "ACTIVE"]
      /\ ~(c.kind = "unarchive" /\ c.arg = conv /\ Elsewhere)
  BY DEF Rooted, Calm, Archived, SessionCalls
<1>1. ~Asking /\ c \in Calls /\ \A d \in calls : d # c => d \notin SessionCalls
  BY <1>0, SidebarIs
<1>2. x.kind = "sessions" /\ x.then = t
  BY DEF CallThen
<1>3. c.arg \in Conv /\ session \in [Conv -> {"none", "ACTIVE", "ARCHIVED"}] /\ conv \in Conv \cup {NoConv}
  BY <1>0, <1>1, CallIs DEF TypeOK
<1>4. t # NoConv => session'[t] = "ARCHIVED"
  BY <1>0, <1>3
<1> HIDE DEF t, x
<1>5. Served = {}
  <2>1. ASSUME NEW d \in Served
        PROVE  FALSE
    BY <1>0, <1>1, <2>1 DEF Served, SessionCalls
  <2> QED
    BY <2>1
<1>6. conv # NoConv => pointer = conv \/ session[conv] = "ARCHIVED"
  BY <1>0, <1>5 DEF PointerOK, Here
<1>7. conv # NoConv => pointer = conv \/ session'[conv] = "ARCHIVED"
  BY <1>0, <1>3, <1>6 DEF Elsewhere
<1> QED
  BY <1>0, <1>1, <1>2, <1>4, <1>7, CalmSidebar

-----------------------------------------------------------------------------
(* The invariant.                                                          *)

LEMMA ChatInit ==
  ASSUME Init
  PROVE  ChatInv
<1>1. /\ list = <<>> /\ wire = <<>> /\ cmds = <<>> /\ ws = "CLOSED" /\ monitor = FALSE
      /\ server = Resting(FALSE) /\ uprooted = FALSE /\ disturbed = FALSE
      /\ status = [g \in Gen |-> "none"] /\ home = [g \in Gen |-> NoConv]
      /\ running = NoGen /\ recorded = {} /\ session \in [Conv -> {"none", "ACTIVE"}]
      /\ pointer \in {NoConv} \cup ActiveSessions /\ conv \in {NoConv, pointer}
      /\ acts \in {0, 1}
  BY DEF Init
<1>2. calls \subseteq {Call("sessions", NoConv), Call("messages", NoConv)}
  BY DEF Init, Mounting, Mounted
<1>3. \A c \in calls : /\ c \in Calls /\ c.then = NoConv /\ ~c.served
                       /\ c = Call("sessions", NoConv) \/ c.kind = "messages"
                       /\ c.kind \in {"sessions", "messages"}
  BY <1>2, NewCalls DEF Call, CallThen
<1>4. DOMAIN list = {} /\ DOMAIN wire = {} /\ DOMAIN cmds = {}
  BY <1>1
<1>5. server.pc = "idle" /\ server.alive = FALSE
      /\ server \in [pc : {"idle", "stream", "record"}, gen : Gen \cup {NoGen},
                      alive : BOOLEAN, tool : BOOLEAN]
  BY <1>1 DEF Resting
<1>6. \A d \in ActiveSessions : d \in Conv /\ session[d] = "ACTIVE"
  BY DEF ActiveSessions
<1>7. TypeOK
  <2>1. list \in Seq(Message) /\ wire \in Seq(Events) /\ cmds \in Seq(Commands)
    BY <1>1
  <2>2. calls \subseteq Calls /\ acts \in Nat /\ IsFiniteSet(recorded)
    BY <1>1, <1>3, FS_EmptySet
  <2>3. session \in [Conv -> {"none", "ACTIVE", "ARCHIVED"}]
    BY <1>1
  <2> QED
    BY <1>1, <1>5, <1>6, <2>1, <2>2, <2>3 DEF TypeOK
<1>8. NoDuplicateAnswer /\ LineOK
  BY <1>1, <1>4, <1>5 DEF NoDuplicateAnswer, LineOK
<1>9. NamesKnown
  <2>1. ScreenKnown /\ WayKnown
    BY <1>4 DEF ScreenKnown, WayKnown
  <2>2. CallsKnown
    BY <1>3 DEF CallsKnown
  <2>3. StoreKnown
    BY <1>1, <1>5, <1>6 DEF StoreKnown
  <2> QED
    BY <2>1, <2>2, <2>3 DEF NamesKnown
<1>10. WireOK
  BY <1>4 DEF WireOK, EndComes, ConnectionFirst, StartsNew, StartsFirst
<1>11. FirstLine /\ PairsOK /\ SpinsOK
  BY <1>1, <1>3, <1>4 DEF FirstLine, PairsOK, SpinsOK, Gens
<1>12. ~Work /\ ~Asking
  <2>1. ~Work
    BY <1>1, <1>4, <1>5 DEF Work
  <2> QED
    BY <1>3, <2>1 DEF Asking
<1>13. \A g : ~Moves(g)
  <2>1. \A g : ~Coming(g)
    BY <1>12, ComingWork
  <2> QED
    BY <1>3, <2>1 DEF Moves
<1>14. CallsOK
  BY <1>3, <1>12 DEF CallsOK, SessionCalls
<1>15. LeavesOK
  BY <1>3 DEF LeavesOK
<1>16. PointerOK
  <2>1. Served = {}
    BY <1>3 DEF Served
  <2> QED
    BY <1>1, <1>13, <2>1 DEF PointerOK, Here
<1> QED
  BY <1>7, <1>8, <1>9, <1>10, <1>11, <1>14, <1>15, <1>16 DEF ChatInv

LEMMA ChatStep ==
  ASSUME ChatInv, [Next]_vars
  PROVE  ChatInv'
<1>0. TypeOK /\ NoDuplicateAnswer /\ NamesKnown /\ LineOK
  BY DEF ChatInv
<1>1. TypeOK' /\ NoDuplicateAnswer' /\ LineOK'
  BY <1>0, TypeStep, SingleStep, LineStep
<1>2. NamesKnown'
  <2>1. ScreenKnown'
    BY <1>0, ScreenStep
  <2>2. WayKnown'
    BY <1>0, WayStep
  <2>3. CallsKnown'
    BY <1>0, CallsStep
  <2>4. StoreKnown'
    BY <1>0, StoreStep
  <2> QED
    BY <2>1, <2>2, <2>3, <2>4 DEF NamesKnown
<1>3. (~uprooted' => ~uprooted) /\ (~disturbed' => ~disturbed)
  BY <1>0, FlagType DEF TypeOK
<1>4. ASSUME ~uprooted'
      PROVE  WireOK' /\ FirstLine' /\ PairsOK' /\ SpinsOK'
  <2>1. WireOK /\ FirstLine /\ PairsOK /\ SpinsOK /\ ~uprooted
    BY <1>3, <1>4 DEF ChatInv
  <2>2. WireOK' /\ FirstLine'
    BY <1>0, <1>4, <2>1, WireStep, FirstStep
  <2>3. PairsOK'
    BY <1>0, <1>4, <2>1, PairsStep
  <2>4. SpinsOK'
    BY <1>0, <1>4, <2>1, SpinsStep
  <2> QED
    BY <2>2, <2>3, <2>4
<1>5. ASSUME ~uprooted', ~disturbed'
      PROVE  Calm'
  <2>1. Rooted /\ Calm /\ ~uprooted
    BY <1>3, <1>5 DEF ChatInv, Rooted, Calm
  <2>2. CASE Clicked
    BY <1>5, <2>1, <2>2, ClickedCalm
  <2>3. ASSUME NEW c \in calls,
               Serve(c) \/ SessionsLoaded(c) \/ Created(c) \/ Switched(c) \/ Archived(c)
        PROVE  Calm' \/ (Usual /\ storeVars' = storeVars)
    BY <1>5, <2>1, <2>3, ServeCalm, LoadedCalm, CreatedCalm, SwitchedCalm, ArchivedCalm
  <2>4. CASE Usual /\ (Asking \/ storeVars' = storeVars)
    BY <1>5, <2>1, <2>4, UsualCalm
  <2> QED
    BY <1>5, <2>1, <2>2, <2>3, <2>4, UsualStep
<1> QED
  BY <1>1, <1>2, <1>4, <1>5 DEF ChatInv, Calm

LEMMA InvShown ==
  ASSUME ChatInv
  PROVE  ShownIsCurrent
<1>1. SUFFICES ASSUME ~disturbed, ~uprooted, Quiet, conv # NoConv
               PROVE  pointer = conv \/ session[conv] = "ARCHIVED"
  BY DEF ShownIsCurrent, SameConversation
<1>2. Served = {}
  BY <1>1 DEF Quiet, Served
<1> QED
  BY <1>1, <1>2 DEF ChatInv, PointerOK, Here

LEMMA InvSettled ==
  ASSUME ChatInv
  PROVE  QuietMeansSettled
<1>1. SUFFICES ASSUME ~uprooted, wire = <<>>, cmds = <<>>, server.pc = "idle", NEW i \in DOMAIN list
               PROVE  /\ ~Unsettled(list[i]) /\ Shown(list[i]) # "dots"
                      /\ list[i].executing => list[i].gen = NoGen
  BY DEF QuietMeansSettled
<1>2. TypeOK /\ NamesKnown /\ SpinsOK
  BY <1>1 DEF ChatInv
<1>3. ~Work
  BY <1>1 DEF Work
<1>4. ~Unsettled(list[i])
  BY <1>2, <1>3, SendingWork
<1>5. list[i].executing => list[i].gen = NoGen
  BY <1>2, <1>3, ComingWork DEF SpinsOK
<1>6. list[i].role = "user" => list[i].status \in {"none", "finished"}
  BY <1>2 DEF NamesKnown, ScreenKnown
<1>7. list[i].role \in {"user", "assistant"}
  <2>1. list[i] \in Message
    BY <1>2, SeqIs DEF TypeOK
  <2> QED
    BY <2>1 DEF Message
<1>8. Shown(list[i]) # "dots"
  BY <1>4, <1>6, <1>7 DEF Shown, Unsettled
<1> QED
  BY <1>4, <1>5, <1>8

(* ChatInv holds of every state of the page and its server: it is what the *)
(* two theorems below are read from.                                       *)
THEOREM ChatInvariance == Spec => []ChatInv
BY ChatInit, ChatStep, PTL DEF Spec

(* The list of the chat page, whatever the order in which calls are        *)
(* answered and messages arrive: no answer is in it twice -- the start     *)
(* message, the sync and the monitor find the one that is there -- and the *)
(* server puts the next question where the page shows it (upsert and find  *)
(* of the chat store, the handlers of input-box.vue, the sidebar).         *)
THEOREM ChatListTrue == Spec => []ListTrue
<1>1. ChatInv => ListTrue
  BY InvShown DEF ListTrue
<1> QED
  BY <1>1, ChatInvariance, PTL

(* When the server has said all, the page is still: every answer was       *)
(* settled by its end, a refusal, a stop or a snapshot (input-box.vue).    *)
THEOREM ChatSettled == Spec => []QuietMeansSettled
<1>1. ChatInv => QuietMeansSettled
  BY InvSettled
<1> QED
  BY <1>1, ChatInvariance, PTL
=============================================================================
