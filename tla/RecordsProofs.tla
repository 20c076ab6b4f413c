---------------------------- MODULE RecordsProofs ----------------------------
(* The smaller records of the server: the conversation a user is in, the     *)
(* long-term memory, the tree of tags and the tags of a user keep their      *)
(* invariants for every number of tabs, requests, turns and tags. Then the   *)
(* page's record of the documents: the upload queue and the table keep       *)
(* theirs for every number of files, chunks, uploads at a time and pages.    *)
EXTENDS Conversations, MemoryExtraction, OrganizationTags, KnowledgeBaseClient,
        FiniteSetTheorems, SequenceTheorems, WellFoundedInduction, TLAPS

-----------------------------------------------------------------------------
(* Conversations                                                             *)

LEMMA ConversationStarts == ConversationInit => ConversationInv
BY ConversationAssumption
DEF ConversationInit, ConversationInv, ConversationTypeOK, Deed, Idle, DeedOK, LoneOK, QuietOK,
    TurnsHaveSession, ConversationGoesOn

(* A step that leaves the turns alone and takes no session away.             *)
LEMMA TurnsKept ==
  ASSUME ConversationInv, turns' = turns,
         \A s \in SessionIds : sessions[s] # "none" => sessions'[s] # "none"
  PROVE  /\ \A i \in DOMAIN turns' : sessions'[turns'[i].sid] # "none"
         /\ ConversationGoesOn'
<1>1. ASSUME NEW i \in DOMAIN turns
      PROVE  turns[i].sid \in SessionIds /\ sessions[turns[i].sid] # "none"
  <2>1. turns \in Seq(TurnRecord)
    BY DEF ConversationInv, ConversationTypeOK
  <2>2. i \in 1..Len(turns)
    BY <2>1
  <2>4. turns[i] \in TurnRecord
    BY <2>1, <2>2
  <2>3. sessions[turns[i].sid] # "none"
    BY DEF ConversationInv, TurnsHaveSession
  <2> QED
    BY <2>4, <2>3 DEF TurnRecord
<1>2. ConversationGoesOn
  BY DEF ConversationInv
<1> QED
  BY <1>1, <1>2 DEF ConversationGoesOn

(* What a request that begins makes of the tabs.                             *)
LEMMA BeginsTyped ==
  ASSUME ConversationTypeOK, NEW t \in UserTabs, NEW step \in {"made", "read"},
         NEW sid \in SessionIds \cup {"none"}, NEW asks \in BOOLEAN,
         Starts(t), Begins(t, step, sid, asks)
  PROVE  /\ doing' \in [UserTabs -> Deed]
         /\ past' \in [acts : 0..MaxConvActs, given : SUBSET SessionIds, quiet : BOOLEAN,
                       slips : SUBSET SessionIds]
         /\ doing'[t] = [step |-> step, sid |-> sid, fresh |-> FALSE, lone |-> AllIdle]
         /\ \A u \in UserTabs \ {t} : doing'[u] = [doing[u] EXCEPT !.lone = FALSE]
         /\ past'.quiet = (past.quiet /\ asks /\ AllIdle)
         /\ past'.slips = past.slips
<1>1. AllIdle \in BOOLEAN
  BY DEF AllIdle
<1>2. [step |-> step, sid |-> sid, fresh |-> FALSE, lone |-> AllIdle] \in Deed
  BY <1>1 DEF Deed
<1>3. \A u \in UserTabs : [doing[u] EXCEPT !.lone = FALSE] \in Deed
  <2>1. \A d \in Deed : [d EXCEPT !.lone = FALSE] \in Deed
    BY DEF Deed
  <2>2. \A u \in UserTabs : doing[u] \in Deed
    BY DEF ConversationTypeOK
  <2> QED
    BY <2>1, <2>2
<1>4. (past.quiet /\ asks /\ AllIdle) \in BOOLEAN
  BY <1>1 DEF ConversationTypeOK
<1>5. past'.quiet = (past.quiet /\ asks /\ AllIdle) /\ past'.slips = past.slips
  BY DEF Begins, ConversationTypeOK
<1>6. past' \in [acts : 0..MaxConvActs, given : SUBSET SessionIds, quiet : BOOLEAN,
                 slips : SUBSET SessionIds]
  <2>1. past' = [acts |-> past.acts + 1,
                 given |-> past.given \cup (IF sid = "none" THEN {} ELSE {sid}),
                 quiet |-> past.quiet /\ asks /\ AllIdle, slips |-> past.slips]
    BY DEF Begins, ConversationTypeOK
  <2>2. past.acts + 1 \in 0..MaxConvActs
    BY ConversationAssumption DEF Starts, ConversationTypeOK
  <2>3. past.given \cup (IF sid = "none" THEN {} ELSE {sid}) \in SUBSET SessionIds
    BY DEF ConversationTypeOK
  <2> QED
    BY <1>4, <2>1, <2>2, <2>3 DEF ConversationTypeOK
<1> QED
  BY <1>2, <1>3, <1>5, <1>6 DEF Begins

LEMMA ExpireKeeps == ConversationInv /\ Expire => ConversationInv'
<1> SUFFICES ASSUME ConversationInv, Expire PROVE ConversationInv'
  OBVIOUS
<1>1. ConversationTypeOK'
  BY DEF ConversationInv, ConversationTypeOK, Expire
<1>2. \A t \in UserTabs : DeedOK(t)' /\ LoneOK(t)'
  BY DEF ConversationInv, ConversationTypeOK, Deed, DeedOK, LoneOK, Expire, AllIdle
<1>3. QuietOK'
  BY DEF ConversationInv, ConversationTypeOK, QuietOK, Expire
<1>4. TurnsHaveSession' /\ ConversationGoesOn'
  BY TurnsKept DEF Expire, TurnsHaveSession
<1> QED
  BY <1>1, <1>2, <1>3, <1>4 DEF ConversationInv

LEMMA ReadsKeeps ==
  ASSUME ConversationInv, NEW t \in UserTabs, EnsureReads(t) PROVE ConversationInv'
<1>t. ConversationTypeOK /\ Starts(t) /\ Begins(t, "read", current, TRUE)
      /\ UNCHANGED <<sessions, current, turns>> /\ current \in SessionIds \cup {"none"}
  BY DEF ConversationInv, ConversationTypeOK, EnsureReads
<1>b. /\ doing' \in [UserTabs -> Deed]
      /\ past' \in [acts : 0..MaxConvActs, given : SUBSET SessionIds, quiet : BOOLEAN,
                    slips : SUBSET SessionIds]
      /\ doing'[t] = [step |-> "read", sid |-> current, fresh |-> FALSE, lone |-> AllIdle]
      /\ \A u \in UserTabs \ {t} : doing'[u] = [doing[u] EXCEPT !.lone = FALSE]
      /\ past'.quiet = (past.quiet /\ TRUE /\ AllIdle)
      /\ past'.slips = past.slips
  BY <1>t, BeginsTyped
<1>1. ConversationTypeOK'
  BY <1>t, <1>b DEF ConversationTypeOK
<1>2. \A u \in UserTabs : DeedOK(u)' /\ LoneOK(u)'
  BY <1>t, <1>b DEF ConversationInv, ConversationTypeOK, Deed, DeedOK, LoneOK, Starts, AllIdle
<1>3. QuietOK'
  BY <1>t, <1>b DEF ConversationInv, ConversationTypeOK, Deed, QuietOK, Starts, AllIdle
<1>4. TurnsHaveSession' /\ ConversationGoesOn'
  BY <1>t, <1>b, TurnsKept DEF ConversationInv, ConversationTypeOK, Deed, DeedOK, TurnsHaveSession, Starts
<1> QED
  BY <1>1, <1>2, <1>3, <1>4 DEF ConversationInv

LEMMA CreateKeeps ==
  ASSUME ConversationInv, NEW t \in UserTabs, NEW s \in SessionIds, CreateSession(t, s)
  PROVE  ConversationInv'
<1>t. /\ ConversationTypeOK /\ Starts(t) /\ Begins(t, "made", s, FALSE)
      /\ UNCHANGED <<current, turns>> /\ sessions' = [sessions EXCEPT ![s] = "ACTIVE"]
      /\ s # "none"
  BY ConversationAssumption DEF ConversationInv, CreateSession
<1>b. /\ doing' \in [UserTabs -> Deed]
      /\ past' \in [acts : 0..MaxConvActs, given : SUBSET SessionIds, quiet : BOOLEAN,
                    slips : SUBSET SessionIds]
      /\ doing'[t] = [step |-> "made", sid |-> s, fresh |-> FALSE, lone |-> AllIdle]
      /\ \A u \in UserTabs \ {t} : doing'[u] = [doing[u] EXCEPT !.lone = FALSE]
      /\ past'.quiet = (past.quiet /\ FALSE /\ AllIdle)
      /\ past'.slips = past.slips
  BY <1>t, BeginsTyped
<1>1. ConversationTypeOK'
  BY <1>t, <1>b DEF ConversationTypeOK
<1>2. \A u \in UserTabs : DeedOK(u)' /\ LoneOK(u)'
  BY <1>t, <1>b DEF ConversationInv, ConversationTypeOK, Deed, DeedOK, LoneOK, Starts, AllIdle
<1>3. QuietOK'
  BY <1>b DEF QuietOK
<1>4. TurnsHaveSession' /\ ConversationGoesOn'
  BY <1>t, <1>b, TurnsKept DEF ConversationInv, ConversationTypeOK, Deed, DeedOK, TurnsHaveSession, Starts
<1> QED
  BY <1>1, <1>2, <1>3, <1>4 DEF ConversationInv

LEMMA SwitchKeeps ==
  ASSUME ConversationInv, NEW t \in UserTabs, NEW s \in SessionIds, SwitchConversation(t, s)
  PROVE  ConversationInv'
<1>t. /\ ConversationTypeOK /\ Starts(t) /\ Begins(t, "made", s, FALSE)
      /\ UNCHANGED <<sessions, current, turns>> /\ sessions[s] # "none" /\ s # "none"
  BY ConversationAssumption DEF ConversationInv, SwitchConversation
<1>b. /\ doing' \in [UserTabs -> Deed]
      /\ past' \in [acts : 0..MaxConvActs, given : SUBSET SessionIds, quiet : BOOLEAN,
                    slips : SUBSET SessionIds]
      /\ doing'[t] = [step |-> "made", sid |-> s, fresh |-> FALSE, lone |-> AllIdle]
      /\ \A u \in UserTabs \ {t} : doing'[u] = [doing[u] EXCEPT !.lone = FALSE]
      /\ past'.quiet = (past.quiet /\ FALSE /\ AllIdle)
      /\ past'.slips = past.slips
  BY <1>t, BeginsTyped
<1>1. ConversationTypeOK'
  BY <1>t, <1>b DEF ConversationTypeOK
<1>2. \A u \in UserTabs : DeedOK(u)' /\ LoneOK(u)'
  BY <1>t, <1>b DEF ConversationInv, ConversationTypeOK, Deed, DeedOK, LoneOK, Starts, AllIdle
<1>3. QuietOK'
  BY <1>b DEF QuietOK
<1>4. TurnsHaveSession' /\ ConversationGoesOn'
  BY <1>t, <1>b, TurnsKept DEF ConversationInv, ConversationTypeOK, Deed, DeedOK, TurnsHaveSession, Starts
<1> QED
  BY <1>1, <1>2, <1>3, <1>4 DEF ConversationInv

LEMMA SetCurrentKeeps ==
  ASSUME ConversationInv, NEW t \in UserTabs, SetCurrent(t) PROVE ConversationInv'
<1>t. /\ ConversationTypeOK /\ doing[t].step = "made" /\ doing[t].sid \in SessionIds
      /\ sessions[doing[t].sid] # "none" /\ ~doing[t].fresh
  BY DEF ConversationInv, ConversationTypeOK, Deed, DeedOK, SetCurrent
<1>1. ConversationTypeOK'
  BY <1>t DEF ConversationTypeOK, Deed, Idle, SetCurrent
<1>2. \A u \in UserTabs : DeedOK(u)' /\ LoneOK(u)'
  BY <1>t DEF ConversationInv, ConversationTypeOK, Deed, DeedOK, LoneOK, SetCurrent, Idle
<1>3. QuietOK'
  BY <1>t DEF ConversationInv, ConversationTypeOK, Deed, QuietOK, SetCurrent, Idle
<1>4. TurnsHaveSession' /\ ConversationGoesOn'
  BY <1>t, TurnsKept DEF TurnsHaveSession, SetCurrent
<1> QED
  BY <1>1, <1>2, <1>3, <1>4 DEF ConversationInv

LEMMA StatusKeeps ==
  ASSUME ConversationInv, NEW t \in UserTabs, NEW s \in SessionIds,
         NEW status \in {"ACTIVE", "ARCHIVED"}, SetStatus(t, s, status)
  PROVE  ConversationInv'
<1>t. /\ ConversationTypeOK /\ sessions[s] # "none" /\ ~past'.quiet /\ past'.slips = past.slips
      /\ \A u \in UserTabs : doing'[u] = [doing[u] EXCEPT !.lone = FALSE]
  BY DEF ConversationInv, ConversationTypeOK, SetStatus
<1>p. past' \in [acts : 0..MaxConvActs, given : SUBSET SessionIds, quiet : BOOLEAN, slips : SUBSET SessionIds]
  <2>1. past' = [past EXCEPT !.acts = @ + 1, !.quiet = FALSE] /\ past.acts < MaxConvActs
    BY DEF SetStatus, Starts
  <2>2. past.acts + 1 \in 0..MaxConvActs
    BY <1>t, <2>1, ConversationAssumption DEF ConversationTypeOK
  <2> QED
    BY <1>t, <2>1, <2>2 DEF ConversationTypeOK
<1>d. \A u \in UserTabs : /\ doing'[u] \in Deed /\ ~doing'[u].lone /\ doing'[u].step = doing[u].step
                          /\ doing'[u].sid = doing[u].sid /\ doing'[u].fresh = doing[u].fresh
  <2> SUFFICES ASSUME NEW u \in UserTabs
               PROVE  /\ doing'[u] \in Deed /\ ~doing'[u].lone /\ doing'[u].step = doing[u].step
                      /\ doing'[u].sid = doing[u].sid /\ doing'[u].fresh = doing[u].fresh
    OBVIOUS
  <2>1. doing[u] \in Deed /\ doing'[u] = [doing[u] EXCEPT !.lone = FALSE]
    BY <1>t DEF ConversationTypeOK
  <2> QED
    BY <2>1 DEF Deed
<1>s. /\ sessions' \in [SessionIds -> {"none", "ACTIVE", "ARCHIVED"}]
      /\ \A x \in SessionIds : sessions[x] # "none" => sessions'[x] # "none"
  BY <1>t DEF ConversationTypeOK, SetStatus
<1>1. ConversationTypeOK'
  BY <1>t, <1>p, <1>d, <1>s DEF ConversationTypeOK, SetStatus
<1>2. \A u \in UserTabs : DeedOK(u)' /\ LoneOK(u)'
  BY <1>t, <1>d, <1>s DEF ConversationInv, ConversationTypeOK, Deed, DeedOK, LoneOK
<1>3. QuietOK'
  BY <1>t DEF QuietOK
<1>4. TurnsHaveSession' /\ ConversationGoesOn'
  BY <1>t, TurnsKept DEF ConversationInv, ConversationTypeOK, Deed, TurnsHaveSession, SetStatus
<1> QED
  BY <1>1, <1>2, <1>3, <1>4 DEF ConversationInv

LEMMA FindsKeeps ==
  ASSUME ConversationInv, NEW t \in UserTabs, EnsureFinds(t) PROVE ConversationInv'
<1>t. ConversationTypeOK /\ doing[t].step = "read" /\ UNCHANGED <<sessions, current, turns>>
      /\ ~doing[t].fresh
  BY DEF ConversationInv, DeedOK, EnsureFinds
<1>1. CASE Usable(doing[t].sid)
  <2>1. doing' = [doing EXCEPT ![t].step = "resolving"] /\ past' = past
    BY <1>1 DEF EnsureFinds
  <2>2. ConversationTypeOK'
    BY <1>t, <2>1 DEF ConversationTypeOK, Deed
  <2>3. \A u \in UserTabs : DeedOK(u)' /\ LoneOK(u)'
    BY <1>t, <1>1, <2>1 DEF ConversationInv, ConversationTypeOK, Deed, DeedOK, LoneOK, Usable
  <2>4. QuietOK'
    BY <1>t, <1>1, <2>1 DEF ConversationInv, ConversationTypeOK, Deed, QuietOK
  <2>5. TurnsHaveSession' /\ ConversationGoesOn'
    BY <1>t, <2>1, TurnsKept DEF ConversationInv, ConversationTypeOK, Deed, TurnsHaveSession
  <2> QED
    BY <2>2, <2>3, <2>4, <2>5 DEF ConversationInv
<1>2. CASE ~Usable(doing[t].sid)
  <2>1. PICK s \in SessionIds :
          /\ doing' = [doing EXCEPT ![t].step = "flushed", ![t].sid = s, ![t].fresh = TRUE]
          /\ past' = [past EXCEPT !.given = @ \cup {s}]
    BY <1>2 DEF EnsureFinds
  <2>2. ConversationTypeOK'
    BY <1>t, <2>1 DEF ConversationTypeOK, Deed
  <2>3. \A u \in UserTabs : DeedOK(u)' /\ LoneOK(u)'
    BY <1>t, <2>1, ConversationAssumption DEF ConversationInv, ConversationTypeOK, Deed, DeedOK, LoneOK
  <2>4. QuietOK'
    BY <1>t, <1>2, <2>1, ConversationAssumption
    DEF ConversationInv, ConversationTypeOK, Deed, QuietOK, Usable, TurnsHaveSession
  <2>5. TurnsHaveSession' /\ ConversationGoesOn'
    BY <1>t, <2>1, TurnsKept DEF ConversationInv, ConversationTypeOK, Deed, TurnsHaveSession
  <2> QED
    BY <2>2, <2>3, <2>4, <2>5 DEF ConversationInv
<1> QED
  BY <1>1, <1>2

LEMMA PointsKeeps ==
  ASSUME ConversationInv, NEW t \in UserTabs, EnsurePoints(t) PROVE ConversationInv'
<1>t. /\ ConversationTypeOK /\ doing[t].step = "flushed" /\ UNCHANGED <<sessions, turns, past>>
      /\ doing[t].fresh /\ doing[t].sid \in SessionIds /\ current' = doing[t].sid
      /\ doing' = [doing EXCEPT ![t].step = "resolving"] /\ ~past.quiet
  BY DEF ConversationInv, ConversationTypeOK, Deed, DeedOK, QuietOK, EnsurePoints, Pointed
<1>1. ConversationTypeOK'
  <2>1. doing \in [UserTabs -> Deed]
    BY <1>t DEF ConversationTypeOK
  <2>2. [doing[t] EXCEPT !.step = "resolving"] \in Deed
    BY <2>1 DEF Deed
  <2>3. doing' \in [UserTabs -> Deed]
    BY <1>t, <2>1, <2>2
  <2> QED
    BY <1>t, <2>3 DEF ConversationTypeOK
<1>2. \A u \in UserTabs : DeedOK(u)' /\ LoneOK(u)'
  BY <1>t DEF ConversationInv, ConversationTypeOK, Deed, DeedOK, LoneOK
<1>3. QuietOK'
  BY <1>t DEF QuietOK
<1>4. TurnsHaveSession' /\ ConversationGoesOn'
  BY <1>t, TurnsKept DEF ConversationTypeOK, Deed, TurnsHaveSession
<1> QED
  BY <1>1, <1>2, <1>3, <1>4 DEF ConversationInv

LEMMA ResolveKeeps ==
  ASSUME ConversationInv, NEW t \in UserTabs, Resolve(t) PROVE ConversationInv'
<1>t. /\ ConversationTypeOK /\ doing[t].step = "resolving" /\ UNCHANGED <<current, turns, past>>
      /\ doing[t].sid \in SessionIds
      /\ doing' = [doing EXCEPT ![t].step = "answering", ![t].fresh = FALSE]
      /\ sessions' = IF doing[t].fresh THEN [sessions EXCEPT ![doing[t].sid] = "ACTIVE"] ELSE sessions
      /\ sessions'[doing[t].sid] # "none"
  BY DEF ConversationInv, ConversationTypeOK, Deed, DeedOK, Resolve, Committed
<1>1. ConversationTypeOK'
  <2>1. doing \in [UserTabs -> Deed] /\ sessions \in [SessionIds -> {"none", "ACTIVE", "ARCHIVED"}]
    BY <1>t DEF ConversationTypeOK
  <2>2. [doing[t] EXCEPT !.step = "answering", !.fresh = FALSE] \in Deed
    BY <2>1 DEF Deed
  <2>3. doing' \in [UserTabs -> Deed]
    BY <1>t, <2>1, <2>2
  <2>4. sessions' \in [SessionIds -> {"none", "ACTIVE", "ARCHIVED"}]
    BY <1>t, <2>1
  <2> QED
    BY <1>t, <2>3, <2>4 DEF ConversationTypeOK
<1>2. \A u \in UserTabs : DeedOK(u)' /\ LoneOK(u)'
  BY <1>t DEF ConversationInv, ConversationTypeOK, Deed, DeedOK, LoneOK
<1>3. QuietOK'
  BY <1>t DEF ConversationInv, ConversationTypeOK, Deed, QuietOK
<1>4. TurnsHaveSession' /\ ConversationGoesOn'
  BY <1>t, TurnsKept DEF ConversationInv, ConversationTypeOK, Deed, TurnsHaveSession
<1> QED
  BY <1>1, <1>2, <1>3, <1>4 DEF ConversationInv

LEMMA RollBackKeeps ==
  ASSUME ConversationInv, NEW t \in UserTabs, RollBack(t) PROVE ConversationInv'
<1>t. /\ ConversationTypeOK /\ doing[t].step \in {"flushed", "resolving"}
      /\ UNCHANGED <<sessions, current, turns>> /\ doing' = [doing EXCEPT ![t] = Idle]
      /\ doing[t].sid \in SessionIds /\ ~past'.quiet
      /\ past'.slips = past.slips \cup (IF doing[t].fresh THEN {doing[t].sid} ELSE {})
  BY DEF ConversationInv, ConversationTypeOK, Deed, DeedOK, RollBack
<1>p. past' \in [acts : 0..MaxConvActs, given : SUBSET SessionIds, quiet : BOOLEAN, slips : SUBSET SessionIds]
  <2>1. past.slips \cup (IF doing[t].fresh THEN {doing[t].sid} ELSE {}) \in SUBSET SessionIds
    BY <1>t DEF ConversationTypeOK
  <2> QED
    BY <1>t, <2>1 DEF ConversationTypeOK, RollBack
<1>1. ConversationTypeOK'
  BY <1>t, <1>p, ConversationAssumption DEF ConversationTypeOK, Deed, Idle
<1>2. \A u \in UserTabs : DeedOK(u)' /\ LoneOK(u)'
  BY <1>t DEF ConversationInv, ConversationTypeOK, Deed, DeedOK, LoneOK, Idle
<1>3. QuietOK'
  BY <1>t DEF QuietOK
<1>4. TurnsHaveSession' /\ ConversationGoesOn'
  BY <1>t, TurnsKept DEF ConversationInv, ConversationTypeOK, Deed, TurnsHaveSession, Idle
<1> QED
  BY <1>1, <1>2, <1>3, <1>4 DEF ConversationInv

LEMMA NoTurnKeeps ==
  ASSUME ConversationInv, NEW t \in UserTabs, NoTurn(t) PROVE ConversationInv'
<1>t. /\ ConversationTypeOK /\ doing[t].step = "answering" /\ ~doing[t].fresh
      /\ UNCHANGED <<sessions, current, turns>> /\ doing' = [doing EXCEPT ![t] = Idle]
      /\ ~past'.quiet /\ past'.slips = past.slips
  BY DEF ConversationInv, ConversationTypeOK, Deed, DeedOK, NoTurn
<1>p. past' \in [acts : 0..MaxConvActs, given : SUBSET SessionIds, quiet : BOOLEAN, slips : SUBSET SessionIds]
  BY <1>t DEF ConversationTypeOK, NoTurn
<1>1. ConversationTypeOK'
  BY <1>t, <1>p DEF ConversationTypeOK, Deed, Idle
<1>2. \A u \in UserTabs : DeedOK(u)' /\ LoneOK(u)'
  BY <1>t DEF ConversationInv, ConversationTypeOK, Deed, DeedOK, LoneOK, Idle
<1>3. QuietOK'
  BY <1>t DEF QuietOK
<1>4. TurnsHaveSession' /\ ConversationGoesOn'
  BY <1>t, TurnsKept DEF ConversationInv, ConversationTypeOK, Deed, TurnsHaveSession, Idle
<1> QED
  BY <1>1, <1>2, <1>3, <1>4 DEF ConversationInv

(* A turn is recorded in the session its question found.                     *)
LEMMA RecordKeeps ==
  ASSUME ConversationInv, NEW t \in UserTabs, RecordTurn(t) PROVE ConversationInv'
<1> DEFINE sid == doing[t].sid
           e == [sid |-> sid, goesOn |-> past.quiet /\ doing[t].lone]
<1>t. /\ ConversationTypeOK /\ doing[t].step = "answering" /\ ~doing[t].fresh /\ sid \in SessionIds
      /\ sessions[sid] # "none"
      /\ UNCHANGED <<sessions, current>> /\ doing' = [doing EXCEPT ![t] = Idle]
      /\ turns' = Append(turns, e) /\ past' = [past EXCEPT !.quiet = doing[t].lone]
  BY DEF ConversationInv, ConversationTypeOK, Deed, DeedOK, RecordTurn
<1>e. e \in TurnRecord /\ turns \in Seq(TurnRecord) /\ doing[t].lone \in BOOLEAN
  BY <1>t DEF ConversationTypeOK, Deed, TurnRecord
<1>a. /\ turns' \in Seq(TurnRecord) /\ Len(turns') = Len(turns) + 1 /\ turns'[Len(turns')] = e
      /\ \A i \in 1..Len(turns) : turns'[i] = turns[i]
      /\ DOMAIN turns = 1..Len(turns) /\ DOMAIN turns' = 1..Len(turns') /\ Len(turns) \in Nat
  BY <1>t, <1>e
<1>1. ConversationTypeOK'
  BY <1>t, <1>e, <1>a DEF ConversationTypeOK, Deed, Idle
<1>2. \A u \in UserTabs : DeedOK(u)' /\ LoneOK(u)'
  BY <1>t DEF ConversationInv, ConversationTypeOK, Deed, DeedOK, LoneOK, Idle
<1>3. QuietOK'
  <2>1. SUFFICES ASSUME past'.quiet PROVE QuietOK'
    BY DEF QuietOK
  <2>2. doing[t].lone
    BY <1>t, <2>1 DEF ConversationTypeOK
  <2>3. sid = current /\ sessions[current] = "ACTIVE"
    BY <1>t, <2>2 DEF ConversationInv, LoneOK
  <2>4. \A u \in UserTabs : doing'[u].step = "idle"
    BY <1>t, <2>2 DEF ConversationInv, ConversationTypeOK, LoneOK, Idle
  <2>5. turns' # <<>> /\ turns'[Len(turns')].sid = sid
    BY <1>a
  <2> QED
    BY <1>t, <2>3, <2>4, <2>5 DEF QuietOK
<1>4. TurnsHaveSession'
  <2>1. \A i \in DOMAIN turns' : sessions[turns'[i].sid] # "none"
    BY <1>t, <1>a DEF ConversationInv, TurnsHaveSession
  <2> QED
    BY <1>t, <2>1 DEF ConversationInv, ConversationTypeOK, Deed, TurnsHaveSession, Idle
<1>5. ConversationGoesOn'
  <2>1. SUFFICES ASSUME NEW i \in DOMAIN turns', turns'[i].goesOn
                 PROVE  i > 1 /\ turns'[i].sid = turns'[i - 1].sid
    BY DEF ConversationGoesOn
  <2>2. CASE i \in 1..Len(turns)
    <3>1. i > 1 /\ turns[i].sid = turns[i - 1].sid
      BY <1>a, <2>1, <2>2 DEF ConversationInv, ConversationGoesOn
    <3> QED
      BY <1>a, <2>2, <3>1
  <2>3. CASE i = Len(turns')
    <3>1. past.quiet /\ doing[t].lone
      <4>1. turns'[i] = e
        BY <1>a, <2>3
      <4>2. e.goesOn
        BY <2>1, <4>1
      <4> QED
        BY <4>2
    <3>2. turns # <<>> /\ sid = turns[Len(turns)].sid
      BY <1>t, <3>1 DEF ConversationInv, QuietOK
    <3>3. Len(turns) > 0
      BY <1>e, <1>a, <3>2
    <3> QED
      BY <1>a, <2>3, <3>2, <3>3
  <2> QED
    BY <1>a, <2>1, <2>2, <2>3
<1> QED
  BY <1>1, <1>2, <1>3, <1>4, <1>5 DEF ConversationInv

LEMMA ConversationStep == ConversationInv /\ [ConversationNext]_convVars => ConversationInv'
<1> SUFFICES ASSUME ConversationInv, [ConversationNext]_convVars PROVE ConversationInv'
  OBVIOUS
<1>1. CASE Expire
  BY <1>1, ExpireKeeps
<1>2. ASSUME NEW t \in UserTabs,
             \/ EnsureReads(t) \/ EnsureFinds(t) \/ EnsurePoints(t) \/ Resolve(t) \/ RollBack(t)
             \/ RecordTurn(t) \/ NoTurn(t) \/ SetCurrent(t)
      PROVE  ConversationInv'
  BY <1>2, ReadsKeeps, FindsKeeps, PointsKeeps, ResolveKeeps, RollBackKeeps, RecordKeeps,
     NoTurnKeeps, SetCurrentKeeps
<1>3. ASSUME NEW t \in UserTabs, NEW s \in SessionIds,
             \/ CreateSession(t, s) \/ SwitchConversation(t, s)
             \/ \E st \in {"ACTIVE", "ARCHIVED"} : SetStatus(t, s, st)
      PROVE  ConversationInv'
  BY <1>3, CreateKeeps, SwitchKeeps, StatusKeeps
<1>4. CASE UNCHANGED convVars
  BY <1>4
  DEF convVars, ConversationInv, ConversationTypeOK, DeedOK, LoneOK, QuietOK, TurnsHaveSession,
      ConversationGoesOn
<1> QED
  BY <1>1, <1>2, <1>3, <1>4 DEF ConversationNext

(* Turns have their session, and questions asked one after the other are one *)
(* conversation (conversation_service, websocket_handler): the inductive     *)
(* invariant.                                                                *)
THEOREM ConversationInvariance == ConversationSpec => []ConversationInv
<1> QED
  BY ConversationStarts, ConversationStep, PTL DEF ConversationSpec

(* Every turn is of a session there is, and the key points to one, but for   *)
(* one that is about to be committed or was rolled back.                     *)
THEOREM TurnSessions == ConversationSpec => []TurnsHaveSession
<1>1. ConversationInv => TurnsHaveSession
  BY DEF ConversationInv
<1> QED
  BY <1>1, ConversationInvariance, PTL

(* Questions asked one after the other with nothing else going on are one    *)
(* conversation, through commits, expiries and what others did before.       *)
THEOREM GoesOn == ConversationSpec => []ConversationGoesOn
<1>1. ConversationInv => ConversationGoesOn
  BY DEF ConversationInv
<1> QED
  BY <1>1, ConversationInvariance, PTL

-----------------------------------------------------------------------------
(* The tree of the tags                                                      *)

(* Of some numbers one is the first.                                         *)
LEMMA Least ==
  ASSUME NEW T, T \subseteq Nat, T # {}
  PROVE  \E n \in T : \A k \in T : ~(k < n)
<1>1. PICK R : R = {ss \in Nat \X Nat : ss[1] < ss[2]}
  OBVIOUS
<1>2. IsWellFoundedOn(R, Nat)
  BY <1>1, NatLessThanWellFounded DEF OpToRel
<1>3. \E n \in T : \A k \in T : ~(<<k, n>> \in R)
  BY <1>2, WFMin
<1> QED
  BY <1>1, <1>3

(* What holds of 0, and of n + 1 when it holds of n, holds up to N.          *)
LEMMA UpTo ==
  ASSUME NEW N \in Nat, NEW B, 0 \in B, \A n \in 0..(N - 1) : n \in B => n + 1 \in B
  PROVE  \A n \in 0..N : n \in B
<1> DEFINE T == {n \in 0..N : n \notin B}
<1>1. SUFFICES ASSUME T # {} PROVE FALSE
  OBVIOUS
<1>2. PICK n \in T : \A k \in T : ~(k < n)
  <2>1. T \subseteq Nat
    OBVIOUS
  <2> HIDE DEF T
  <2> QED
    BY <1>1, <2>1, Least
<1>3. n \in 0..N /\ n \notin B /\ n # 0
  BY <1>2
<1>4. n - 1 \in 0..(N - 1) /\ (n - 1) + 1 = n
  BY <1>3
<1>5. n - 1 \notin B
  BY <1>3, <1>4
<1>6. n - 1 \in T /\ n - 1 < n
  BY <1>3, <1>4, <1>5
<1> QED
  BY <1>2, <1>6

TagCount == Cardinality(TagIds)
Grown(S, next) == S \cup UNION {next[t] : t \in S \cap TagIds}

LEMMA TagsFinite == IsFiniteSet(TagIds) /\ TagCount \in Nat
<1>1. IsFiniteSet({"DEFAULT", "PRIVATE"})
  <2>1. IsFiniteSet({"DEFAULT"})
    BY FS_Singleton
  <2>2. {"DEFAULT"} \cup {"PRIVATE"} = {"DEFAULT", "PRIVATE"}
    OBVIOUS
  <2>3. IsFiniteSet({"DEFAULT"} \cup {"PRIVATE"})
    BY <2>1, FS_AddElement
  <2> QED
    BY <2>2, <2>3
<1>2. IsFiniteSet(TagIds)
  BY <1>1, TagAssumption, FS_Union DEF TagIds
<1> QED
  BY <1>2, FS_CardinalityType DEF TagCount

(* The steps of MetFrom exist, and its value is the last of them.             *)
LEMMA MetSteps ==
  ASSUME NEW A, NEW next
  PROVE  \E f : /\ f = [n \in 0..TagCount |-> IF n = 0 THEN A ELSE Grown(f[n - 1], next)]
                /\ MetFrom(A, next) = f[TagCount]
<1> DEFINE Is(f) == f = [n \in 0..TagCount |-> IF n = 0 THEN A ELSE Grown(f[n - 1], next)]
           B == {k \in 0..TagCount : \E f : f = [n \in 0..k |-> IF n = 0 THEN A ELSE Grown(f[n - 1], next)]}
<1>1. 0 \in B
  <2>1. 0 \in 0..TagCount
    BY TagsFinite
  <2> DEFINE f == [n \in 0..0 |-> A]
  <2>2. f = [n \in 0..0 |-> IF n = 0 THEN A ELSE Grown(f[n - 1], next)]
    OBVIOUS
  <2> QED
    BY <2>1, <2>2
<1>2. ASSUME NEW k \in 0..(TagCount - 1), k \in B PROVE k + 1 \in B
  <2>1. PICK f : f = [n \in 0..k |-> IF n = 0 THEN A ELSE Grown(f[n - 1], next)]
    BY <1>2
  <2> DEFINE g == [n \in 0..(k + 1) |-> IF n = k + 1 THEN Grown(f[k], next) ELSE f[n]]
  <2>2. k \in Nat /\ k + 1 \in 0..TagCount
    BY TagsFinite
  <2>3. ASSUME NEW n \in 0..(k + 1)
        PROVE  g[n] = IF n = 0 THEN A ELSE Grown(g[n - 1], next)
    <3>1. CASE n = k + 1
      <4>1. n # 0 /\ n - 1 = k /\ k \in 0..(k + 1) /\ k # k + 1
        BY <2>2, <3>1
      <4>2. g[n] = Grown(f[k], next) /\ g[k] = f[k]
        BY <3>1, <4>1
      <4> QED
        BY <4>1, <4>2
    <3>2. CASE n # k + 1 /\ n # 0
      <4>1. n \in 0..k /\ n - 1 \in 0..(k + 1) /\ n - 1 # k + 1
        BY <2>2, <3>2
      <4>2. g[n] = f[n] /\ g[n - 1] = f[n - 1]
        BY <3>2, <4>1
      <4>3. f[n] = Grown(f[n - 1], next)
        BY <2>1, <3>2, <4>1
      <4> QED
        BY <3>2, <4>2, <4>3
    <3>3. CASE n = 0
      <4>1. n \in 0..k /\ n # k + 1
        BY <2>2, <3>3
      <4>2. g[n] = f[n] /\ f[n] = A
        BY <2>1, <3>3, <4>1
      <4> QED
        BY <3>3, <4>2
    <3> QED
      BY <2>2, <3>1, <3>2, <3>3
  <2>4. g = [n \in 0..(k + 1) |-> IF n = 0 THEN A ELSE Grown(g[n - 1], next)]
    <3>1. g = [n \in 0..(k + 1) |-> g[n]]
      OBVIOUS
    <3> HIDE DEF g
    <3> QED
      BY <2>3, <3>1
  <2> HIDE DEF g
  <2> QED
    BY <2>2, <2>4
<1>3. \E f : Is(f)
  <2>1. \A n \in 0..TagCount : n \in B
    <3> HIDE DEF B
    <3> QED
      BY <1>1, <1>2, TagsFinite, UpTo
  <2>2. TagCount \in 0..TagCount
    BY TagsFinite
  <2> QED
    BY <2>1, <2>2
<1>4. Is(CHOOSE f : Is(f))
  <2> HIDE DEF Is
  <2> QED
    BY <1>3
<1>5. MetFrom(A, next) = (CHOOSE f : Is(f))[TagCount]
  BY DEF MetFrom, TagCount, Grown
<1> QED
  BY <1>4, <1>5

(* MetFrom has what it started from, keeps to what that leads to, and leads   *)
(* nowhere else.                                                             *)
LEMMA MetWithin ==
  ASSUME NEW A, NEW next, NEW C, A \subseteq C, \A t \in C \cap TagIds : next[t] \subseteq C
  PROVE  MetFrom(A, next) \subseteq C /\ A \subseteq MetFrom(A, next)
<1>1. PICK f : /\ f = [n \in 0..TagCount |-> IF n = 0 THEN A ELSE Grown(f[n - 1], next)]
               /\ MetFrom(A, next) = f[TagCount]
  BY MetSteps
<1>2. ASSUME NEW n \in 0..(TagCount - 1) PROVE f[n + 1] = Grown(f[n], next)
  <2>1. n + 1 \in 0..TagCount /\ n + 1 # 0 /\ (n + 1) - 1 = n
    BY TagsFinite
  <2> QED
    BY <1>1, <2>1
<1>3. f[0] = A
  BY <1>1, TagsFinite
<1> DEFINE B == {n \in 0..TagCount : f[n] \subseteq C /\ A \subseteq f[n]}
<1>4. 0 \in B
  BY <1>3, TagsFinite
<1>5. ASSUME NEW n \in 0..(TagCount - 1), n \in B PROVE n + 1 \in B
  <2>1. n + 1 \in 0..TagCount
    BY TagsFinite
  <2> QED
    BY <1>2, <1>5, <2>1 DEF Grown
<1>6. TagCount \in B
  <2> HIDE DEF B
  <2>1. \A n \in 0..TagCount : n \in B
    BY <1>4, <1>5, TagsFinite, UpTo
  <2> QED
    BY <2>1, TagsFinite
<1> QED
  BY <1>1, <1>6

Closes(S, next) == \A t \in S \cap TagIds : next[t] \subseteq S

LEMMA MetCloses ==
  ASSUME NEW A, NEW next
  PROVE  Closes(MetFrom(A, next), next)
<1>1. PICK f : /\ f = [n \in 0..TagCount |-> IF n = 0 THEN A ELSE Grown(f[n - 1], next)]
               /\ MetFrom(A, next) = f[TagCount]
  BY MetSteps
<1>2. ASSUME NEW n \in 0..(TagCount - 1) PROVE f[n + 1] = Grown(f[n], next)
  <2>1. n + 1 \in 0..TagCount /\ n + 1 # 0 /\ (n + 1) - 1 = n
    BY TagsFinite
  <2> QED
    BY <1>1, <2>1
<1> DEFINE Met(n) == f[n] \cap TagIds
           B == {n \in 0..TagCount : Closes(f[n], next) \/ Cardinality(Met(n)) >= n + 1}
<1>3. \A n : IsFiniteSet(Met(n)) /\ Cardinality(Met(n)) \in Nat /\ Cardinality(Met(n)) <= TagCount
  BY TagsFinite, FS_Subset, FS_CardinalityType DEF TagCount
<1>4. 0 \in B
  <2>1. CASE Met(0) = {}
    BY <2>1, TagsFinite DEF Closes
  <2>2. CASE Met(0) # {}
    <3>1. Cardinality(Met(0)) # 0
      BY <1>3, <2>2, FS_EmptySet
    <3> HIDE DEF Met
    <3>2. Cardinality(Met(0)) >= 0 + 1
      BY <1>3, <3>1
    <3> QED
      BY <3>2, TagsFinite
  <2> QED
    BY <2>1, <2>2
<1>5. ASSUME NEW n \in 0..(TagCount - 1), n \in B PROVE n + 1 \in B
  <2>1. n + 1 \in 0..TagCount /\ n \in Nat
    BY TagsFinite
  <2>2. CASE Closes(f[n], next)
    <3>1. UNION {next[t] : t \in f[n] \cap TagIds} \subseteq f[n]
      BY <2>2 DEF Closes
    <3>2. Grown(f[n], next) = f[n]
      BY <3>1 DEF Grown
    <3>3. f[n + 1] = f[n]
      BY <1>2, <3>2
    <3> QED
      BY <2>1, <2>2, <3>3
  <2>3. CASE ~Closes(f[n], next) /\ Met(n + 1) = Met(n)
    <3>1. Closes(f[n + 1], next)
      BY <1>2, <2>3 DEF Closes, Grown
    <3> QED
      BY <2>1, <3>1
  <2>4. CASE ~Closes(f[n], next) /\ Met(n + 1) # Met(n)
    <3>1. Met(n) \subseteq Met(n + 1)
      BY <1>2 DEF Grown
    <3>2. Cardinality(Met(n)) < Cardinality(Met(n + 1))
      <4> HIDE DEF Met
      <4> QED
        BY <1>3, <2>4, <3>1, FS_Subset
    <3>3. Cardinality(Met(n)) >= n + 1
      BY <1>5, <2>4
    <3> HIDE DEF Met
    <3>4. Cardinality(Met(n + 1)) >= (n + 1) + 1
      BY <1>3, <2>1, <3>2, <3>3
    <3> QED
      BY <2>1, <3>4
  <2> QED
    BY <2>2, <2>3, <2>4
<1>6. TagCount \in B
  <2> HIDE DEF B
  <2>1. \A n \in 0..TagCount : n \in B
    BY <1>4, <1>5, TagsFinite, UpTo
  <2> QED
    BY <2>1, TagsFinite
<1>7. ~(Cardinality(Met(TagCount)) >= TagCount + 1)
  <2> HIDE DEF Met
  <2> QED
    BY <1>3, TagsFinite
<1> QED
  BY <1>1, <1>6, <1>7

(* A tree without circles is reached from its roots.                         *)
LEMMA RootedIsReached == Rooted => InTree = Existing
<1> SUFFICES ASSUME Rooted PROVE InTree = Existing
  OBVIOUS
<1> DEFINE A == ChildrenOf("root")
           next == [t \in TagIds |-> ChildrenOf(t)]
           rest == Existing \ InTree
<1>1. InTree = MetFrom(A, next)
  BY DEF InTree
<1>2. A \subseteq Existing /\ \A t \in TagIds : next[t] \subseteq Existing
  BY DEF ChildrenOf
<1>3. InTree \subseteq Existing /\ A \subseteq InTree
  <2> HIDE DEF A, next
  <2> QED
    BY <1>1, <1>2, MetWithin
<1>4. Closes(InTree, next)
  <2> HIDE DEF A, next
  <2> QED
    BY <1>1, MetCloses
<1>5. SUFFICES ASSUME rest # {} PROVE FALSE
  BY <1>3
<1>6. PICK t \in rest : parentOf[t] \notin rest
  <2> HIDE DEF rest
  <2>1. rest \in SUBSET Existing
    BY DEF rest
  <2> QED
    BY <1>5, <2>1 DEF Rooted
<1>7. t \in Existing /\ t \notin InTree /\ parentOf[t] \in Existing \cup {"root"}
  BY <1>6 DEF Rooted
<1>8. CASE parentOf[t] = "root"
  BY <1>3, <1>7, <1>8 DEF ChildrenOf
<1>9. CASE parentOf[t] \in InTree
  <2>1. parentOf[t] \in TagIds
    BY <1>3, <1>9 DEF Existing
  <2>2. t \in next[parentOf[t]]
    BY <1>7, <2>1 DEF ChildrenOf
  <2> HIDE DEF next
  <2> QED
    BY <1>4, <1>7, <1>9, <2>1, <2>2 DEF Closes
<1> QED
  BY <1>6, <1>7, <1>8, <1>9

(* What is not at or below a tag has a way up that does not meet it.         *)
LEMMA WayUp ==
  ASSUME NEW a, NEW t, ~AtOrBelow(a, t)
  PROVE  \E U : a \in U /\ t \notin U /\ \A x \in U \cap TagIds : parentOf[x] \in U
<1> DEFINE next == [x \in TagIds |-> {parentOf[x]}]
           U == MetFrom({a}, next)
           Wide == {a} \cup {parentOf[x] : x \in TagIds}
<1>1. t \notin U
  BY DEF AtOrBelow
<1>2. a \in U
  <2>1. {a} \subseteq Wide /\ \A x \in Wide \cap TagIds : next[x] \subseteq Wide
    OBVIOUS
  <2> HIDE DEF next, Wide
  <2> QED
    BY <2>1, MetWithin
<1>3. \A x \in U \cap TagIds : next[x] \subseteq U
  <2> HIDE DEF next
  <2> QED
    BY MetCloses DEF Closes
<1>4. \A x \in U \cap TagIds : parentOf[x] \in U
  <2> HIDE DEF U
  <2> QED
    BY <1>3
<1> HIDE DEF U
<1> QED
  BY <1>1, <1>2, <1>4

-----------------------------------------------------------------------------
(* The tags of a user                                                        *)

LEMMA MemberStarts == OrganizationInit => MemberInv
BY TagAssumption
DEF OrganizationInit, MemberInv, OrganizationTypeOK, CallsAgree, OnMember, PrimaryIsOwn, TagIds

(* A request that is validated reads the user's row as it is.                *)
LEMMA ValidatedKeeps ==
  ASSUME MemberInv, NEW op \in {"create", "update", "delete", "assign", "primary"},
         NEW tag \in TagIds, NEW parent \in TagIds \cup {"root"}, NEW tags \in SUBSET TagIds,
         op = "assign" => {"DEFAULT", "PRIVATE"} \subseteq tags,
         op = "primary" => tag \in member.tags,
         Validated(op, tag, parent, tags)
  PROVE  MemberInv'
<1> DEFINE was == IF op \in {"assign", "primary"} THEN member.primary ELSE parentOf[tag]
           call == [op |-> op, tag |-> tag, parent |-> parent, tags |-> tags, was |-> was]
<1>1. /\ tagCalls' = tagCalls \cup {call} /\ mishaps' = [mishaps EXCEPT !.acts = @ + 1]
      /\ parentOf' = parentOf /\ member' = member /\ mishaps.acts < MaxTagActs
  BY DEF Validated
<1>2. OrganizationTypeOK
  BY DEF MemberInv
<1>3. call \in TagCall
  BY <1>2 DEF OrganizationTypeOK, TagCall
<1>4. /\ mishaps' \in [acts : 0..MaxTagActs, slips : SUBSET {"crossed", "cycle"}]
      /\ mishaps'.slips = mishaps.slips
  <2>1. mishaps.acts + 1 \in 0..MaxTagActs
    BY <1>1, <1>2, TagAssumption DEF OrganizationTypeOK
  <2> QED
    BY <1>1, <1>2, <2>1 DEF OrganizationTypeOK
<1>5. OrganizationTypeOK'
  BY <1>1, <1>2, <1>3, <1>4 DEF OrganizationTypeOK
<1>6. CallsAgree'
  BY <1>1, <1>4 DEF MemberInv, CallsAgree, OnMember
<1>7. PrimaryIsOwn'
  BY <1>1, <1>4 DEF MemberInv, PrimaryIsOwn
<1> QED
  BY <1>5, <1>6, <1>7 DEF MemberInv

(* The commit of a request about a tag leaves the user's row alone.          *)
LEMMA CommitTagKeeps ==
  ASSUME MemberInv, NEW c \in tagCalls, CommitTag(c) PROVE MemberInv'
<1>1. OrganizationTypeOK /\ c \in TagCall /\ member' = member /\ tagCalls' = tagCalls \ {c}
  BY DEF MemberInv, OrganizationTypeOK, CommitTag
<1>2. parentOf' \in [TagIds -> TagIds \cup {"root", "absent"}]
  BY <1>1 DEF OrganizationTypeOK, CommitTag, TagCall
<1>3. \E S \in SUBSET {"crossed", "cycle"} : mishaps' = [mishaps EXCEPT !.slips = @ \cup S]
  <2>1. CASE UNCHANGED mishaps
    <3>1. mishaps = [mishaps EXCEPT !.slips = @ \cup {}]
      BY <1>1 DEF OrganizationTypeOK
    <3> QED
      BY <2>1, <3>1
  <2>2. CASE ~UNCHANGED mishaps
    BY <2>2 DEF CommitTag, Slip
  <2> QED
    BY <2>1, <2>2
<1>4. /\ mishaps' \in [acts : 0..MaxTagActs, slips : SUBSET {"crossed", "cycle"}]
      /\ "crossed" \notin mishaps'.slips => "crossed" \notin mishaps.slips
  BY <1>1, <1>3 DEF OrganizationTypeOK
<1>5. OrganizationTypeOK'
  BY <1>1, <1>2, <1>4 DEF OrganizationTypeOK
<1>6. CallsAgree' /\ PrimaryIsOwn'
  BY <1>1, <1>4 DEF MemberInv, CallsAgree, OnMember, PrimaryIsOwn
<1> QED
  BY <1>5, <1>6 DEF MemberInv

(* The commit of a request about the user's row: unless another such request *)
(* is on its way, nobody has read what it changes.                           *)
LEMMA CommitMemberKeeps ==
  ASSUME MemberInv, NEW c \in tagCalls, CommitMember(c) PROVE MemberInv'
<1>1. OrganizationTypeOK /\ c \in TagCall /\ c \in OnMember /\ parentOf' = parentOf
      /\ tagCalls' = tagCalls \ {c} /\ CallsAgree /\ PrimaryIsOwn
  BY DEF MemberInv, OrganizationTypeOK, CommitMember, OnMember
<1>2. c.op = "assign" => PrimaryAfter(c) \in TagIds
  BY <1>1 DEF PrimaryAfter, OrganizationTypeOK, TagIds
<1>3. member' \in [tags : SUBSET TagIds, primary : TagIds]
  BY <1>1, <1>2 DEF OrganizationTypeOK, CommitMember, TagCall
<1>4. \E S \in SUBSET {"crossed"} : mishaps' = [mishaps EXCEPT !.slips = @ \cup S]
  BY DEF CommitMember, Slip
<1>5. /\ mishaps' \in [acts : 0..MaxTagActs, slips : SUBSET {"crossed", "cycle"}]
      /\ "crossed" \notin mishaps'.slips => "crossed" \notin mishaps.slips /\ OnMember \ {c} = {}
  <2>1. mishaps' \in [acts : 0..MaxTagActs, slips : SUBSET {"crossed", "cycle"}]
        /\ ("crossed" \notin mishaps'.slips => "crossed" \notin mishaps.slips)
    BY <1>1, <1>4 DEF OrganizationTypeOK
  <2>2. OnMember \ {c} # {} => "crossed" \in mishaps'.slips
    BY <1>1 DEF CommitMember, Slip, OnMember, OrganizationTypeOK
  <2> QED
    BY <2>1, <2>2
<1>6. {"DEFAULT", "PRIVATE"} \subseteq member'.tags
  BY <1>1 DEF CommitMember, CallsAgree, PrimaryIsOwn, OrganizationTypeOK, OnMember
<1>7. "crossed" \notin mishaps'.slips => member'.primary \in member'.tags
  <2>1. SUFFICES ASSUME "crossed" \notin mishaps'.slips PROVE member'.primary \in member'.tags
    OBVIOUS
  <2>2. c.was = member.primary /\ member.primary \in member.tags
        /\ (c.op = "primary" => c.tag \in member.tags)
    BY <1>1, <1>5, <2>1 DEF CallsAgree, PrimaryIsOwn
  <2>3. CASE c.op = "assign"
    BY <1>1, <2>2, <2>3 DEF CommitMember, PrimaryAfter, CallsAgree
  <2>4. CASE c.op = "primary"
    BY <1>1, <2>2, <2>4 DEF CommitMember, OrganizationTypeOK
  <2> QED
    BY <1>1, <2>3, <2>4 DEF OnMember
<1>8. OnMember' \subseteq OnMember \ {c}
  BY <1>1 DEF OnMember
<1>9. CallsAgree'
  BY <1>1, <1>5, <1>8 DEF CallsAgree
<1>10. OrganizationTypeOK'
  BY <1>1, <1>3, <1>5 DEF OrganizationTypeOK
<1> QED
  BY <1>6, <1>7, <1>9, <1>10 DEF MemberInv, PrimaryIsOwn

LEMMA MemberStep == MemberInv /\ [OrganizationNext]_tagVars => MemberInv'
<1> SUFFICES ASSUME MemberInv, [OrganizationNext]_tagVars PROVE MemberInv'
  OBVIOUS
<1>t. {"DEFAULT", "PRIVATE"} \subseteq member.tags /\ member.tags \subseteq TagIds
      /\ OwnTags \subseteq TagIds /\ Existing \subseteq TagIds
  BY DEF MemberInv, PrimaryIsOwn, OrganizationTypeOK, TagIds, Existing
<1>1. ASSUME NEW t \in TagIds, NEW parent \in TagIds \cup {"root"},
             CreateTag(t, parent) \/ UpdateTag(t, parent)
      PROVE  MemberInv'
  BY <1>1, ValidatedKeeps DEF CreateTag, UpdateTag
<1>2. ASSUME NEW t \in TagIds, DeleteTag(t) \/ SetPrimary(t) PROVE MemberInv'
  BY <1>2, ValidatedKeeps DEF DeleteTag, SetPrimary
<1>3. ASSUME NEW S \in SUBSET TagIds, AssignTags(S) PROVE MemberInv'
  <2>1. S \cup {"DEFAULT"} \cup (member.tags \cap {"PRIVATE"}) \in SUBSET TagIds
        /\ {"DEFAULT", "PRIVATE"} \subseteq S \cup {"DEFAULT"} \cup (member.tags \cap {"PRIVATE"})
        /\ "DEFAULT" \in TagIds
    BY <1>t
  <2> QED
    BY <1>3, <2>1, ValidatedKeeps DEF AssignTags
<1>4. ASSUME NEW c \in tagCalls, CommitTag(c) \/ CommitMember(c) PROVE MemberInv'
  BY <1>4, CommitTagKeeps, CommitMemberKeeps
<1>5. CASE UNCHANGED tagVars
  BY <1>5 DEF tagVars, MemberInv, OrganizationTypeOK, CallsAgree, OnMember, PrimaryIsOwn
<1> QED
  BY <1>1, <1>2, <1>3, <1>4, <1>5 DEF OrganizationNext

(* A user keeps the default and the private tag, and his primary tag is one  *)
(* of his, unless he chose it while it was being taken away                  *)
(* (organization_service.py): the inductive invariant.                       *)
THEOREM MemberInvariance == OrganizationSpec => []MemberInv
<1> QED
  BY MemberStarts, MemberStep, PTL DEF OrganizationSpec

-----------------------------------------------------------------------------
(* The tree keeps all its tags                                               *)

LEMMA TreeStarts == OrganizationInit => TreeInv
<1> SUFFICES ASSUME OrganizationInit PROVE TreeInv
  OBVIOUS
<1>1. /\ parentOf = [t \in TagIds |-> IF t \in OwnTags THEN "absent" ELSE "root"] /\ tagCalls = {}
  BY DEF OrganizationInit
<1>2. \A t \in Existing : parentOf[t] = "root" /\ t # "root"
  BY <1>1, TagAssumption DEF Existing, TagIds
<1>3. Rooted
  BY <1>2 DEF Rooted
<1>4. CallsPlaced
  BY <1>1 DEF CallsPlaced
<1> QED
  BY <1>3, <1>4, RootedIsReached DEF TreeInv, TreeHasAll

(* It is enough to keep the tree and the requests.                           *)
LEMMA TreeParts ==
  ASSUME mishaps'.slips = {} => Rooted' /\ CallsPlaced'
  PROVE  TreeInv'
<1>1. (Rooted => InTree = Existing)'
  BY RootedIsReached, PTL
<1> QED
  BY <1>1 DEF TreeInv, TreeHasAll

LEMMA TreeValidated ==
  ASSUME TreeInv, NEW op \in {"create", "update", "delete", "assign", "primary"},
         NEW tag \in TagIds, NEW parent \in TagIds \cup {"root"}, NEW tags \in SUBSET TagIds,
         op \in {"create", "update"} => parent \in Existing \cup {"root"},
         op = "delete" => ChildrenOf(tag) = {} /\ parent = "root",
         mishaps.acts \in Nat, mishaps = [acts |-> mishaps.acts, slips |-> mishaps.slips],
         Validated(op, tag, parent, tags)
  PROVE  TreeInv'
<1> DEFINE was == IF op \in {"assign", "primary"} THEN member.primary ELSE parentOf[tag]
           call == [op |-> op, tag |-> tag, parent |-> parent, tags |-> tags, was |-> was]
<1>1. tagCalls' = tagCalls \cup {call} /\ mishaps' = [mishaps EXCEPT !.acts = @ + 1] /\ parentOf' = parentOf
  BY DEF Validated
<1>2. call.op = op /\ call.tag = tag /\ call.parent = parent
  OBVIOUS
<1> HIDE DEF call
<1>3. mishaps'.slips = mishaps.slips
  BY <1>1
<1>4. mishaps.slips = {} => Rooted' /\ CallsPlaced'
  BY <1>1, <1>2 DEF TreeInv, Rooted, CallsPlaced, Existing, ChildrenOf
<1> QED
  BY <1>3, <1>4, TreeParts

(* A row goes, or gets another parent, and nobody's findings are disturbed.  *)
LEMMA TagRemoved ==
  ASSUME OrganizationTypeOK, Rooted, NEW t \in Existing, ChildrenOf(t) = {},
         parentOf' = [parentOf EXCEPT ![t] = "absent"]
  PROVE  /\ Rooted' /\ Existing' = Existing \ {t}
         /\ \A u : ChildrenOf(u)' \subseteq ChildrenOf(u)
<1>1. /\ \A u \in TagIds \ {t} : parentOf'[u] = parentOf[u]
      /\ parentOf'[t] = "absent" /\ t \in TagIds
  BY DEF OrganizationTypeOK, Existing
<1>2. Existing' = Existing \ {t}
  BY <1>1 DEF Existing
<1>3. ASSUME NEW u \in Existing' PROVE parentOf'[u] = parentOf[u] /\ parentOf[u] # t
  BY <1>1, <1>2 DEF ChildrenOf, Existing
<1>4. Rooted'
  <2>1. \A u \in Existing' : parentOf'[u] \in Existing' \cup {"root"}
    BY <1>2, <1>3 DEF Rooted
  <2>2. ASSUME NEW S \in SUBSET Existing', S # {} PROVE \E u \in S : parentOf'[u] \notin S
    <3>1. S \in SUBSET Existing
      BY <1>2
    <3> QED
      BY <1>3, <2>2, <3>1 DEF Rooted
  <2> QED
    BY <2>1, <2>2 DEF Rooted
<1>5. \A u : ChildrenOf(u)' \subseteq ChildrenOf(u)
  BY <1>2, <1>3 DEF ChildrenOf
<1> QED
  BY <1>2, <1>4, <1>5

LEMMA TagPlaced ==
  ASSUME OrganizationTypeOK, Rooted, NEW t \in TagIds, NEW p \in Existing \cup {"root"},
         t \notin Existing \/ ~AtOrBelow(p, t),
         parentOf' = [parentOf EXCEPT ![t] = p]
  PROVE  /\ Rooted' /\ Existing' = Existing \cup {t}
         /\ \A u : u # p => ChildrenOf(u)' \subseteq ChildrenOf(u)
<1>1. /\ \A u \in TagIds \ {t} : parentOf'[u] = parentOf[u]
      /\ parentOf'[t] = p
  BY DEF OrganizationTypeOK
<1>2. Existing' = Existing \cup {t}
  <2>1. p # "absent"
    BY TagAssumption DEF Existing, TagIds
  <2> QED
    BY <1>1, <2>1 DEF Existing
<1>3. PICK U : p \in U /\ t \notin U /\ \A x \in U \cap Existing : parentOf[x] \in U
  <2>1. CASE ~AtOrBelow(p, t)
    BY <2>1, WayUp DEF Existing
  <2>2. CASE t \notin Existing
    <3>1. p \in Existing \cup {"root"} /\ t \notin Existing \cup {"root"}
      BY <2>2, TagAssumption DEF TagIds
    <3>2. \A x \in (Existing \cup {"root"}) \cap Existing : parentOf[x] \in Existing \cup {"root"}
      BY DEF Rooted
    <3> QED
      BY <3>1, <3>2
  <2> QED
    BY <2>1, <2>2
<1>4. \A u \in Existing' : parentOf'[u] \in Existing' \cup {"root"}
  BY <1>1, <1>2 DEF Rooted, Existing
<1>5. ASSUME NEW S \in SUBSET Existing', S # {}, \A u \in S : parentOf'[u] \in S PROVE FALSE
  <2>1. CASE t \notin S
    <3>1. S \in SUBSET Existing /\ \A u \in S : parentOf[u] \in S
      BY <1>1, <1>2, <1>5, <2>1 DEF Existing
    <3> QED
      BY <1>5, <3>1 DEF Rooted
  <2>2. CASE t \in S
    <3> DEFINE R == S \cap U
    <3>1. p \in R /\ t \notin R
      BY <1>1, <1>3, <1>5, <2>2
    <3>2. R \in SUBSET Existing
      BY <1>2, <3>1
    <3>3. ASSUME NEW x \in R PROVE parentOf[x] \in R
      <4>1. parentOf'[x] = parentOf[x]
        BY <1>1, <3>1, <3>2 DEF Existing
      <4> QED
        BY <1>3, <1>5, <3>2, <4>1
    <3> HIDE DEF R
    <3> QED
      BY <3>1, <3>2, <3>3 DEF Rooted
  <2> QED
    BY <2>1, <2>2
<1>6. Rooted'
  BY <1>4, <1>5 DEF Rooted
<1>7. \A u : u # p => ChildrenOf(u)' \subseteq ChildrenOf(u)
  BY <1>1, <1>2 DEF ChildrenOf, Existing
<1> QED
  BY <1>2, <1>6, <1>7

LEMMA TreeCommitted ==
  ASSUME MemberInv, TreeInv, NEW c \in tagCalls, CommitTag(c)
  PROVE  TreeInv'
<1>1. OrganizationTypeOK /\ c \in TagCall /\ tagCalls' = tagCalls \ {c} /\ mishaps = [acts |-> mishaps.acts, slips |-> mishaps.slips]
  BY DEF MemberInv, OrganizationTypeOK, CommitTag
<1> SUFFICES ASSUME mishaps'.slips = {} PROVE Rooted' /\ CallsPlaced'
  BY TreeParts
<1>2. CASE parentOf' = parentOf /\ mishaps'.slips = mishaps.slips
  BY <1>1, <1>2 DEF TreeInv, Rooted, CallsPlaced, Existing, ChildrenOf
<1>3. CASE (c.op = "create") # (c.tag \in Existing)
  <2> DEFINE crossed == IF c.op = "delete" /\ \E o \in tagCalls : o.parent = c.tag THEN {"crossed"} ELSE {}
             deleted == IF \E o \in tagCalls : o.op = "delete" /\ o.tag = c.parent THEN {"crossed"} ELSE {}
             circle == IF c.op = "update" /\ c.parent # c.was /\ AtOrBelow(c.parent, c.tag) THEN {"cycle"} ELSE {}
  <2>1. /\ parentOf' = [parentOf EXCEPT ![c.tag] =
                          IF c.op = "delete" THEN "absent" ELSE IF c.parent = c.was THEN parentOf[c.tag] ELSE c.parent]
        /\ mishaps' = [mishaps EXCEPT !.slips = mishaps.slips \cup ((crossed \cup deleted) \cup circle)]
        /\ c.op \in {"create", "update", "delete"}
    BY <1>3 DEF CommitTag, Slip
  <2>2. mishaps'.slips = mishaps.slips \cup ((crossed \cup deleted) \cup circle)
    <3> HIDE DEF crossed, deleted, circle
    <3> QED
      BY <1>1, <2>1
  <2>3. mishaps.slips = {} /\ crossed = {} /\ deleted = {} /\ circle = {}
    <3> HIDE DEF crossed, deleted, circle
    <3> QED
      BY <2>2
  <2>4. Rooted /\ CallsPlaced
    BY <2>3 DEF TreeInv
  <2>5. /\ c.op = "delete" => \A o \in tagCalls : o.parent # c.tag
        /\ \A o \in tagCalls : o.op = "delete" => o.tag # c.parent
        /\ c.op = "update" /\ c.parent # c.was => ~AtOrBelow(c.parent, c.tag)
    BY <2>3
  <2> HIDE DEF crossed, deleted, circle
  <2>6. CASE c.op = "delete"
    <3>1. c.tag \in Existing /\ ChildrenOf(c.tag) = {} /\ parentOf' = [parentOf EXCEPT ![c.tag] = "absent"]
      BY <1>3, <2>1, <2>4, <2>6 DEF CallsPlaced
    <3>2. /\ Rooted' /\ Existing' = Existing \ {c.tag}
          /\ \A u : ChildrenOf(u)' \subseteq ChildrenOf(u)
      BY <1>1, <2>4, <3>1, TagRemoved
    <3>3. CallsPlaced'
      BY <1>1, <2>4, <2>5, <2>6, <3>2 DEF CallsPlaced
    <3> QED
      BY <3>2, <3>3
  <2>7. CASE c.op # "delete" /\ c.parent = c.was
    <3>1. parentOf' = parentOf
      BY <1>1, <2>1, <2>7 DEF OrganizationTypeOK
    <3> QED
      BY <1>1, <2>4, <3>1 DEF Rooted, CallsPlaced, Existing, ChildrenOf
  <2>8. CASE c.op # "delete" /\ c.parent # c.was
    <3>1. /\ c.tag \in TagIds /\ c.parent \in Existing \cup {"root"}
          /\ c.tag \notin Existing \/ ~AtOrBelow(c.parent, c.tag)
          /\ parentOf' = [parentOf EXCEPT ![c.tag] = c.parent]
      BY <1>1, <1>3, <2>1, <2>4, <2>5, <2>8 DEF CallsPlaced, TagCall
    <3>2. /\ Rooted' /\ Existing' = Existing \cup {c.tag}
          /\ \A u : u # c.parent => ChildrenOf(u)' \subseteq ChildrenOf(u)
      BY <1>1, <2>4, <3>1, TagPlaced
    <3>3. CallsPlaced'
      BY <1>1, <2>4, <2>5, <3>2 DEF CallsPlaced
    <3> QED
      BY <3>2, <3>3
  <2> QED
    BY <2>6, <2>7, <2>8
<1> QED
  BY <1>2, <1>3 DEF CommitTag

LEMMA TreeStep == MemberInv /\ TreeInv /\ [OrganizationNext]_tagVars => TreeInv'
<1> SUFFICES ASSUME MemberInv, TreeInv, [OrganizationNext]_tagVars PROVE TreeInv'
  OBVIOUS
<1>t. /\ OwnTags \subseteq TagIds /\ Existing \subseteq TagIds /\ member.tags \subseteq TagIds /\ "DEFAULT" \in TagIds
      /\ mishaps.acts \in Nat /\ mishaps = [acts |-> mishaps.acts, slips |-> mishaps.slips]
  BY DEF MemberInv, OrganizationTypeOK, TagIds, Existing
<1>1. ASSUME NEW t \in TagIds, NEW parent \in TagIds \cup {"root"},
             CreateTag(t, parent) \/ UpdateTag(t, parent)
      PROVE  TreeInv'
  <2>1. parent \in Existing \cup {"root"} /\ {} \subseteq TagIds
    BY <1>1 DEF CreateTag, UpdateTag, ValidateParent
  <2> QED
    BY <1>t, <1>1, <2>1, TreeValidated DEF CreateTag, UpdateTag
<1>2. ASSUME NEW t \in TagIds, DeleteTag(t) PROVE TreeInv'
  BY <1>t, <1>2, TreeValidated DEF DeleteTag, MayDelete
<1>3. ASSUME NEW t \in TagIds, SetPrimary(t) PROVE TreeInv'
  BY <1>t, <1>3, TreeValidated DEF SetPrimary
<1>4. ASSUME NEW S \in SUBSET TagIds, AssignTags(S) PROVE TreeInv'
  <2>1. S \cup {"DEFAULT"} \cup (member.tags \cap {"PRIVATE"}) \in SUBSET TagIds
    BY <1>t
  <2> QED
    BY <1>t, <1>4, <2>1, TreeValidated DEF AssignTags
<1>5. ASSUME NEW c \in tagCalls, CommitTag(c) PROVE TreeInv'
  BY <1>5, TreeCommitted
<1>6. ASSUME NEW c \in tagCalls, CommitMember(c) PROVE TreeInv'
  <2>1. parentOf' = parentOf /\ tagCalls' = tagCalls \ {c} /\ (mishaps'.slips = {} => mishaps.slips = {})
    BY <1>t, <1>6 DEF CommitMember, Slip
  <2> QED
    BY <2>1, TreeParts DEF TreeInv, Rooted, CallsPlaced, Existing, ChildrenOf
<1>7. CASE UNCHANGED tagVars
  <2>1. parentOf' = parentOf /\ tagCalls' = tagCalls /\ mishaps' = mishaps
    BY <1>7 DEF tagVars
  <2> QED
    BY <2>1, TreeParts DEF TreeInv, Rooted, CallsPlaced, Existing, ChildrenOf
<1> QED
  BY <1>1, <1>2, <1>3, <1>4, <1>5, <1>6, <1>7 DEF OrganizationNext

(* Every tag is in the tree, for every number of tags and of requests at     *)
(* once, unless one was moved below its own descendant or a tag was deleted  *)
(* while another was being put below it (organization_service.py).           *)
THEOREM TagsInTree == OrganizationSpec => [](MemberInv /\ TreeInv)
<1> QED
  BY MemberStarts, MemberStep, TreeStarts, TreeStep, PTL DEF OrganizationSpec

-----------------------------------------------------------------------------
(* Long-term memory                                                          *)

(* One task is replaced.                                                     *)
LEMMA Replaced ==
  ASSUME MemoryTypeOK, NEW k \in DOMAIN begun, NEW x \in Extraction,
         begun' = [begun EXCEPT ![k] = x]
  PROVE  /\ begun' \in Seq(Extraction) /\ Len(begun') = Len(begun) /\ DOMAIN begun' = DOMAIN begun
         /\ begun'[k] = x
         /\ \A o \in DOMAIN begun : o # k => begun'[o] = begun[o]
BY DEF MemoryTypeOK

(* What a task is.                                                           *)
LEMMA TaskIs ==
  ASSUME MemoryTypeOK, NEW k \in DOMAIN begun
  PROVE  /\ begun[k] \in Extraction
         /\ begun[k].rows \in Table /\ begun[k].snapshot \in Table /\ begun[k].items \in Seq(Item)
         /\ begun[k].id \in MemoryIds \cup {0} /\ k \in 1..turnCount
<1>1. begun \in Seq(Extraction) /\ k \in 1..Len(begun) /\ Len(begun) = turnCount
  BY DEF MemoryTypeOK
<1>2. begun[k] \in Extraction
  BY <1>1
<1> QED
  BY <1>1, <1>2 DEF Extraction

LEMMA StartedIs ==
  /\ NoMemories \in Table /\ <<>> \in Seq(Item)
  /\ Started \in Extraction /\ [Started EXCEPT !.step = "done"] \in Extraction
  /\ Payloads \subseteq Seq(Item)
<1>1. NoMemories \in Table
  BY DEF NoMemories, Table
<1>2. <<>> \in Seq(Item)
  OBVIOUS
<1>3. Started \in Extraction /\ [Started EXCEPT !.step = "done"] \in Extraction
  <2> HIDE DEF Item, Table, NoMemories
  <2> QED
    BY <1>1, <1>2 DEF Started, Extraction
<1>4. ASSUME NEW n \in 1..2, NEW p \in [1..n -> Item] PROVE p \in Seq(Item)
  <2> HIDE DEF Item
  <2> QED
    BY <1>4
<1> QED
  BY <1>1, <1>2, <1>3, <1>4 DEF Payloads

(* The turns that wait to be counted stay, and so do the counts.             *)
LEMMA CountsStay ==
  ASSUME CountsKept, DOMAIN begun' = DOMAIN begun, turnCount' = turnCount,
         story'.late = story.late, story'.extractions = story.extractions,
         story'.lost = story.lost, \A k \in DOMAIN begun : Pending(k)' <=> Pending(k)
  PROVE  CountsKept'
BY DEF CountsKept, Due

LEMMA CountedIsDue == CountsKept => DueIsExtracted
BY DEF CountsKept, DueIsExtracted

LEMMA MemoryStarts == MemoryInit => MemoryInv
<1> SUFFICES ASSUME MemoryInit PROVE MemoryInv
  OBVIOUS
<1>1. MemoryTypeOK
  <2>1. Len(begun) = 0 /\ begun \in Seq(Extraction) /\ NoMemories \in Table
    BY StartedIs DEF MemoryInit
  <2> QED
    BY <2>1, MemoryAssumption DEF MemoryInit, MemoryTypeOK
<1>2. IdsGiven /\ RowsHeld /\ IndexOfRows
  BY DEF MemoryInit, IdsGiven, RowsHeld, IndexOfRows, NoMemories, Writes
<1>3. CountsKept
  BY DEF MemoryInit, CountsKept
<1> QED
  BY <1>1, <1>2, <1>3, CountedIsDue DEF MemoryInv

LEMMA TurnKeeps == MemoryInv /\ Turn => MemoryInv'
<1> SUFFICES ASSUME MemoryInv, Turn PROVE MemoryInv'
  OBVIOUS
<1>1. begun \in Seq(Extraction) /\ Len(begun) = turnCount /\ turnCount \in Nat /\ MaxTurns \in Nat
  BY MemoryAssumption DEF MemoryInv, MemoryTypeOK
<1>2. PICK n \in Nat : n = turnCount + 1
  BY <1>1
<1>n. /\ begun' \in Seq(Extraction) /\ Len(begun') = n /\ begun'[n] = Started
      /\ DOMAIN begun' = DOMAIN begun \cup {n}
      /\ \A k \in DOMAIN begun : begun'[k] = begun[k] /\ k # n
  <2> HIDE DEF Started, Extraction
  <2> QED
    BY <1>1, <1>2, StartedIs DEF Turn
<1>3. story' = [story EXCEPT !.late = @ \/ \E k \in DOMAIN begun : Pending(k)]
  BY DEF Turn
<1>4. /\ story'.given = story.given /\ story'.extractions = story.extractions
      /\ story'.misses = story.misses /\ story'.touched = story.touched
      /\ story'.lost = story.lost
      /\ story'.late = (story.late \/ \E k \in DOMAIN begun : Pending(k))
      /\ story' \in [given : 0..MaxMemories, extractions : SUBSET (1..MaxTurns), misses : 0..MaxMisses,
                     lost : SUBSET (1..MaxTurns), touched : SUBSET MemoryIds, late : BOOLEAN]
  BY <1>3 DEF MemoryInv, MemoryTypeOK
<1>5. MemoryTypeOK'
  BY <1>1, <1>2, <1>n, <1>4 DEF Turn, MemoryInv, MemoryTypeOK
<1>6. \A i \in MemoryIds : ~Writes(n, i)'
  BY <1>n DEF Writes, Running, Started
<1>7. \A k \in DOMAIN begun, i \in MemoryIds : Writes(k, i)' <=> Writes(k, i)
  BY <1>n DEF Writes, Running
<1>8. RowsHeld'
  <2>1. ASSUME NEW k \in DOMAIN begun'
        PROVE  /\ begun'[k].step \in {"billing", "counting", "asking"} => begun'[k].rows = NoMemories
               /\ begun'[k].step = "indexing" =>
                    (begun'[k].id # 0 /\ Writes(k, begun[k].id)' /\ begun'[k].items # <<>>)
    BY <1>n, <1>7 DEF MemoryInv, RowsHeld, Started, Writes, Running
  <2>2. ASSUME NEW k \in DOMAIN begun', NEW i \in MemoryIds, Writes(k, i)'
        PROVE  /\ \A o \in DOMAIN begun' : Writes(o, i)' => o = k
               /\ ~(begun'[k].step = "indexing" /\ begun'[k].id = i) => entries'[i] = begun'[k].rows[i]
    BY <1>n, <1>4, <1>6, <1>7, <2>2 DEF MemoryInv, RowsHeld, Turn
  <2> QED
    BY <2>1, <2>2 DEF RowsHeld
<1>i. IdsGiven'
  BY <1>n, <1>4 DEF MemoryInv, IdsGiven, Turn, Started, NoMemories
<1>9. IndexOfRows'
  BY <1>n, <1>4, <1>7 DEF MemoryInv, IndexOfRows, Turn, Writes, Running
<1>10. CountsKept'
  <2>1. turnCount' = n /\ n \in DOMAIN begun' /\ Pending(n)'
    BY <1>2, <1>n DEF Turn, Started, Pending
  <2>2. \A k \in DOMAIN begun : k # n /\ (Pending(k)' <=> Pending(k))
    BY <1>n DEF Pending
  <2>3. \A k \in story'.lost : k \in DOMAIN begun' /\ ~Pending(k)'
    BY <1>n, <1>4, <2>2 DEF MemoryInv, CountsKept
  <2>4. ASSUME ~story'.late
        PROVE  /\ \A k \in DOMAIN begun' : Pending(k)' => k = n
               /\ story'.extractions = {k \in DOMAIN begun' : Due(k) /\ ~Pending(k)'} \ story'.lost
    <3>1. ~story.late /\ \A k \in DOMAIN begun : ~Pending(k)
      BY <1>4, <2>4
    <3>2. story.extractions = {k \in DOMAIN begun : Due(k) /\ ~Pending(k)} \ story.lost
      BY <3>1 DEF MemoryInv, CountsKept
    <3> QED
      BY <1>n, <1>4, <2>1, <2>2, <3>1, <3>2
  <2> QED
    BY <2>1, <2>3, <2>4 DEF CountsKept, Due
<1> QED
  BY <1>5, <1>8, <1>i, <1>9, <1>10, CountedIsDue DEF MemoryInv, CountsKept, DueIsExtracted

(* The story keeps its kind.                                                 *)
Story == [given : 0..MaxMemories, extractions : SUBSET (1..MaxTurns), misses : 0..MaxMisses,
          lost : SUBSET (1..MaxTurns), touched : SUBSET MemoryIds, late : BOOLEAN]

LEMMA CountTurnsKeeps ==
  ASSUME MemoryInv, NEW k \in DOMAIN begun, CountTurns(k) PROVE MemoryInv'
<1> DEFINE due == Due(turnCount)
           x == [begun[k] EXCEPT !.step = IF due THEN "asking" ELSE "done",
                                 !.snapshot = IF due THEN memories ELSE @]
<1>0. MemoryTypeOK /\ k \in 1..turnCount /\ k \in 1..MaxTurns /\ story \in Story
  BY TaskIs, MemoryAssumption DEF MemoryInv, MemoryTypeOK, Story
<1>1. /\ x \in Extraction /\ x.rows = NoMemories /\ x.step \in {"asking", "done"}
      /\ \A i \in MemoryIds : x.snapshot[i] \in {begun[k].snapshot[i], memories[i]}
  <2>1. /\ begun[k] \in Extraction /\ memories \in Table /\ begun[k].step = "counting"
        /\ begun[k].rows = NoMemories
    BY <1>0, TaskIs DEF MemoryInv, RowsHeld, CountTurns, MemoryTypeOK
  <2> HIDE DEF due
  <2> QED
    BY <2>1 DEF Extraction
<1>2. begun' = [begun EXCEPT ![k] = x]
  BY DEF CountTurns
<1> HIDE DEF x
<1>3. /\ begun' \in Seq(Extraction) /\ Len(begun') = Len(begun) /\ DOMAIN begun' = DOMAIN begun
      /\ begun'[k] = x /\ \A o \in DOMAIN begun : o # k => begun'[o] = begun[o]
  BY <1>0, <1>1, <1>2, Replaced
<1>4. /\ story'.given = story.given /\ story'.misses = story.misses /\ story'.touched = story.touched
      /\ story'.late = story.late /\ story'.lost = story.lost
      /\ story'.extractions = IF due THEN story.extractions \cup {k} ELSE story.extractions
      /\ story' \in Story
  BY <1>0 DEF CountTurns, Story
<1>5. MemoryTypeOK'
  BY <1>0, <1>3, <1>4 DEF CountTurns, MemoryTypeOK, Story
<1>6. \A o \in DOMAIN begun, i \in MemoryIds : Writes(o, i)' <=> Writes(o, i)
  <2>1. \A i \in MemoryIds : ~Writes(k, i)' /\ ~Writes(k, i)
    BY <1>1, <1>3 DEF Writes, Running, NoMemories, CountTurns
  <2> QED
    BY <1>3, <2>1 DEF Writes, Running
<1>7. RowsHeld'
  <2>1. ASSUME NEW o \in DOMAIN begun'
        PROVE  /\ begun'[o].step \in {"billing", "counting", "asking"} => begun'[o].rows = NoMemories
               /\ begun'[o].step = "indexing" =>
                    (begun'[o].id # 0 /\ Writes(o, begun[o].id)' /\ begun'[o].items # <<>>)
    BY <1>1, <1>3, <1>6 DEF MemoryInv, RowsHeld, Writes, Running
  <2>2. ASSUME NEW o \in DOMAIN begun', NEW i \in MemoryIds, Writes(o, i)'
        PROVE  /\ \A p \in DOMAIN begun' : Writes(p, i)' => p = o
               /\ ~(begun'[o].step = "indexing" /\ begun'[o].id = i) => entries'[i] = begun'[o].rows[i]
    <3>1. o # k
      BY <1>1, <1>3, <2>2 DEF Writes, NoMemories
    <3> QED
      BY <1>3, <1>4, <1>6, <2>2, <3>1 DEF MemoryInv, RowsHeld, CountTurns
  <2> QED
    BY <2>1, <2>2 DEF RowsHeld
<1>i. IdsGiven'
  BY <1>1, <1>3, <1>4 DEF MemoryInv, IdsGiven, CountTurns, NoMemories
<1>8. IndexOfRows'
  BY <1>3, <1>4, <1>6 DEF MemoryInv, IndexOfRows, CountTurns, Writes
<1>9. CountsKept'
  <2>1. Pending(k) /\ ~Pending(k)'
    BY <1>1, <1>3 DEF Pending, CountTurns
  <2>2. \A o \in DOMAIN begun : o # k => (Pending(o)' <=> Pending(o))
    BY <1>3 DEF Pending
  <2>3. k \notin story.lost /\ \A o \in story'.lost : o \in DOMAIN begun' /\ ~Pending(o)'
    BY <1>3, <1>4, <2>1, <2>2 DEF MemoryInv, CountsKept
  <2>4. ASSUME ~story'.late
        PROVE  /\ \A o \in DOMAIN begun' : ~Pending(o)'
               /\ story'.extractions = {o \in DOMAIN begun' : Due(o) /\ ~Pending(o)'} \ story'.lost
    <3>1. k = turnCount /\ \A o \in DOMAIN begun : Pending(o) => o = k
      BY <1>4, <2>1, <2>4 DEF MemoryInv, CountsKept
    <3>2. story.extractions = {o \in DOMAIN begun : Due(o) /\ ~Pending(o)} \ story.lost
      BY <1>4, <2>4 DEF MemoryInv, CountsKept
    <3> QED
      BY <1>3, <1>4, <2>1, <2>2, <2>3, <3>1, <3>2
  <2> QED
    BY <2>3, <2>4 DEF CountsKept, Due
<1> QED
  BY <1>5, <1>7, <1>i, <1>8, <1>9, CountedIsDue DEF MemoryInv, CountsKept, DueIsExtracted

(* One task goes on: what is left to show,                                   *)
LEMMA OneTask ==
  ASSUME MemoryInv, NEW k \in DOMAIN begun, NEW x \in Extraction, begun' = [begun EXCEPT ![k] = x],
         turnCount' = turnCount, memories' \in Table, entries' \in Table, story' \in Story,
         IdsGiven', RowsHeld', IndexOfRows', CountsKept'
  PROVE  MemoryInv'
<1>1. begun' \in Seq(Extraction) /\ Len(begun') = Len(begun)
  BY Replaced DEF MemoryInv
<1>2. MemoryTypeOK'
  BY <1>1 DEF MemoryInv, MemoryTypeOK, Story
<1> QED
  BY <1>2, CountedIsDue DEF MemoryInv, CountsKept, DueIsExtracted

(* and when it goes on after counting.                                       *)
LEMMA Others ==
  ASSUME MemoryInv, NEW k \in DOMAIN begun, NEW x \in Extraction, begun' = [begun EXCEPT ![k] = x],
         x.step \notin {"billing", "counting"}, begun[k].step \notin {"billing", "counting"},
         turnCount' = turnCount, memories' \in Table, entries' \in Table, story' \in Story,
         story'.late = story.late, story'.extractions = story.extractions,
         story'.lost = story.lost, IdsGiven', RowsHeld', IndexOfRows'
  PROVE  MemoryInv'
<1>1. /\ DOMAIN begun' = DOMAIN begun
      /\ begun'[k] = x /\ \A o \in DOMAIN begun : o # k => begun'[o] = begun[o]
  BY Replaced DEF MemoryInv
<1>2. CountsKept'
  BY <1>1, CountsStay DEF MemoryInv, Pending
<1> QED
  BY <1>2, OneTask

LEMMA ScheduleKeeps ==
  ASSUME MemoryInv, NEW k \in DOMAIN begun, Schedule(k) PROVE MemoryInv'
<1> DEFINE x == [begun[k] EXCEPT !.step = "counting"]
<1>0. /\ MemoryTypeOK /\ begun[k] \in Extraction /\ begun[k].rows = NoMemories
      /\ begun[k].step = "billing" /\ begun' = [begun EXCEPT ![k] = x]
      /\ memories' = memories /\ entries' = entries /\ story' = story /\ turnCount' = turnCount
  BY TaskIs DEF MemoryInv, RowsHeld, Schedule
<1>1. /\ x \in Extraction /\ x.rows = NoMemories /\ x.step = "counting"
      /\ x.snapshot = begun[k].snapshot
  BY <1>0 DEF Extraction
<1> HIDE DEF x
<1>2. /\ DOMAIN begun' = DOMAIN begun
      /\ begun'[k] = x /\ \A o \in DOMAIN begun : o # k => begun'[o] = begun[o]
  BY <1>0, <1>1, Replaced
<1>3. \A o \in DOMAIN begun, i \in MemoryIds : Writes(o, i)' <=> Writes(o, i)
  BY <1>0, <1>1, <1>2 DEF Writes, Running
<1>4. RowsHeld'
  <2>1. ASSUME NEW o \in DOMAIN begun'
        PROVE  /\ begun'[o].step \in {"billing", "counting", "asking"} => begun'[o].rows = NoMemories
               /\ begun'[o].step = "indexing" =>
                    (begun'[o].id # 0 /\ Writes(o, begun[o].id)' /\ begun'[o].items # <<>>)
    BY <1>1, <1>2, <1>3 DEF MemoryInv, RowsHeld, Writes, Running
  <2>2. ASSUME NEW o \in DOMAIN begun', NEW i \in MemoryIds, Writes(o, i)'
        PROVE  /\ \A p \in DOMAIN begun' : Writes(p, i)' => p = o
               /\ ~(begun'[o].step = "indexing" /\ begun'[o].id = i) => entries'[i] = begun'[o].rows[i]
    BY <1>0, <1>1, <1>2, <1>3, <2>2 DEF MemoryInv, RowsHeld, Writes, Running
  <2> QED
    BY <2>1, <2>2 DEF RowsHeld
<1>5. IdsGiven'
  BY <1>0, <1>1, <1>2 DEF MemoryInv, IdsGiven
<1>6. IndexOfRows'
  BY <1>0, <1>2, <1>3 DEF MemoryInv, IndexOfRows, Writes
<1>7. CountsKept'
  BY <1>0, <1>1, <1>2, CountsStay DEF MemoryInv, Pending
<1>8. memories' \in Table /\ entries' \in Table /\ story' \in Story
  BY <1>0 DEF MemoryTypeOK, Story
<1> QED
  BY <1>0, <1>1, <1>4, <1>5, <1>6, <1>7, <1>8, OneTask

LEMMA ModelAnswersKeeps ==
  ASSUME MemoryInv, NEW k \in DOMAIN begun, NEW items \in Payloads, ModelAnswers(k, items)
  PROVE  MemoryInv'
<1> DEFINE x == IF items = <<>> THEN [Started EXCEPT !.step = "done"]
                ELSE [begun[k] EXCEPT !.step = "writing", !.items = items]
<1>0. /\ MemoryTypeOK /\ begun[k] \in Extraction /\ begun[k].rows = NoMemories
      /\ begun[k].step = "asking" /\ items \in Seq(Item)
      /\ memories' = memories /\ entries' = entries /\ story' = story /\ turnCount' = turnCount
  BY TaskIs, StartedIs DEF MemoryInv, RowsHeld, ModelAnswers
<1>1. /\ x \in Extraction /\ x.rows = NoMemories /\ x.step \in {"writing", "done"}
      /\ x.snapshot \in {begun[k].snapshot, NoMemories}
  <2>1. [Started EXCEPT !.step = "done"].rows = NoMemories /\
        [Started EXCEPT !.step = "done"].snapshot = NoMemories /\ [Started EXCEPT !.step = "done"].step = "done"
    BY DEF Started
  <2>2. [begun[k] EXCEPT !.step = "writing", !.items = items] \in Extraction
        /\ [begun[k] EXCEPT !.step = "writing", !.items = items].rows = NoMemories
        /\ [begun[k] EXCEPT !.step = "writing", !.items = items].step = "writing"
        /\ [begun[k] EXCEPT !.step = "writing", !.items = items].snapshot = begun[k].snapshot
    BY <1>0 DEF Extraction
  <2> QED
    BY <2>1, <2>2, StartedIs
<1>2. begun' = [begun EXCEPT ![k] = x]
  BY DEF ModelAnswers
<1> HIDE DEF x
<1>3. /\ DOMAIN begun' = DOMAIN begun
      /\ begun'[k] = x /\ \A o \in DOMAIN begun : o # k => begun'[o] = begun[o]
  BY <1>0, <1>1, <1>2, Replaced
<1>4. \A i \in MemoryIds : ~Writes(k, i)' /\ ~Writes(k, i)
  BY <1>0, <1>1, <1>3 DEF Writes, NoMemories
<1>5. \A o \in DOMAIN begun, i \in MemoryIds : Writes(o, i)' <=> Writes(o, i)
  BY <1>3, <1>4 DEF Writes, Running
<1>6. RowsHeld'
  <2>1. ASSUME NEW o \in DOMAIN begun'
        PROVE  /\ begun'[o].step \in {"billing", "counting", "asking"} => begun'[o].rows = NoMemories
               /\ begun'[o].step = "indexing" =>
                    (begun'[o].id # 0 /\ Writes(o, begun[o].id)' /\ begun'[o].items # <<>>)
    BY <1>1, <1>3, <1>5 DEF MemoryInv, RowsHeld, Writes, Running
  <2>2. ASSUME NEW o \in DOMAIN begun', NEW i \in MemoryIds, Writes(o, i)'
        PROVE  /\ \A p \in DOMAIN begun' : Writes(p, i)' => p = o
               /\ ~(begun'[o].step = "indexing" /\ begun'[o].id = i) => entries'[i] = begun'[o].rows[i]
    BY <1>0, <1>3, <1>4, <1>5, <2>2 DEF MemoryInv, RowsHeld
  <2> QED
    BY <2>1, <2>2 DEF RowsHeld
<1>7. IndexOfRows'
  BY <1>0, <1>3, <1>5 DEF MemoryInv, IndexOfRows, Writes
<1>i. IdsGiven'
  BY <1>0, <1>1, <1>3 DEF MemoryInv, IdsGiven, NoMemories
<1>8. memories' \in Table /\ entries' \in Table /\ story' \in Story
  BY <1>0 DEF MemoryTypeOK, Story
<1> QED
  BY <1>0, <1>1, <1>2, <1>6, <1>7, <1>i, <1>8, Others

(* What a task writes leaves the other tasks' rows alone: the first clause   *)
(* of RowsHeld for every task, the second for the rows of the others.        *)
LEMMA WriteRowKeeps ==
  ASSUME MemoryInv, NEW k \in DOMAIN begun, WriteRow(k) PROVE MemoryInv'
<1> DEFINE item == Head(begun[k].items)
<1>0. /\ MemoryTypeOK /\ begun[k] \in Extraction /\ begun[k].rows \in Table
      /\ begun[k].items \in Seq(Item) /\ begun[k].items # <<>> /\ begun[k].step = "writing"
      /\ memories' = memories /\ entries' = entries /\ turnCount' = turnCount
      /\ memories \in Table /\ entries \in Table /\ story \in Story
  BY TaskIs DEF MemoryInv, MemoryTypeOK, WriteRow, Story
<1>1. /\ item \in Item /\ Tail(begun[k].items) \in Seq(Item)
      /\ item.content \in Contents /\ item.content # "none"
      /\ (item.action = "update" => item.id \in MemoryIds)
  <2>1. item \in Item /\ Tail(begun[k].items) \in Seq(Item)
    <3> HIDE DEF Item
    <3> QED
      BY <1>0
  <2> QED
    BY <2>1, MemoryAssumption DEF Item
<1>2. RowFor(k, item) \subseteq MemoryIds \cup {0}
  <2>1. ASSUME \E i \in MemoryIds : Sees(k)[i] = item.content
        PROVE  (CHOOSE i \in MemoryIds : Sees(k)[i] = item.content) \in MemoryIds
    BY <2>1
  <2> HIDE DEF item
  <2> QED
    BY <1>1, <2>1 DEF RowFor
<1>3. CASE RowFor(k, item) = {}
  <2> DEFINE x == [begun[k] EXCEPT !.items = Tail(@)]
  <2>1. x \in Extraction /\ x.rows = begun[k].rows /\ x.step = "writing"
        /\ x.snapshot = begun[k].snapshot
    BY <1>0, <1>1 DEF Extraction
  <2>2. begun' = [begun EXCEPT ![k] = x] /\ story' = story
    BY <1>3 DEF WriteRow
  <2> HIDE DEF x
  <2>3. /\ DOMAIN begun' = DOMAIN begun
        /\ begun'[k] = x /\ \A o \in DOMAIN begun : o # k => begun'[o] = begun[o]
    BY <1>0, <2>1, <2>2, Replaced
  <2>4. \A o \in DOMAIN begun, i \in MemoryIds : Writes(o, i)' <=> Writes(o, i)
    BY <1>0, <2>1, <2>3 DEF Writes, Running
  <2>5. RowsHeld'
    <3>1. ASSUME NEW o \in DOMAIN begun'
          PROVE  /\ begun'[o].step \in {"billing", "counting", "asking"} => begun'[o].rows = NoMemories
                 /\ begun'[o].step = "indexing" =>
                      (begun'[o].id # 0 /\ Writes(o, begun[o].id)' /\ begun'[o].items # <<>>)
      BY <2>1, <2>3, <2>4 DEF MemoryInv, RowsHeld, Writes, Running
    <3>2. ASSUME NEW o \in DOMAIN begun', NEW i \in MemoryIds, Writes(o, i)'
          PROVE  /\ \A p \in DOMAIN begun' : Writes(p, i)' => p = o
                 /\ ~(begun'[o].step = "indexing" /\ begun'[o].id = i) => entries'[i] = begun'[o].rows[i]
      BY <1>0, <2>1, <2>2, <2>3, <2>4, <3>2 DEF MemoryInv, RowsHeld
    <3> QED
      BY <3>1, <3>2 DEF RowsHeld
  <2>6. IndexOfRows'
    BY <1>0, <2>2, <2>3, <2>4 DEF MemoryInv, IndexOfRows, Writes
  <2>7. IdsGiven'
    BY <1>0, <2>1, <2>2, <2>3 DEF MemoryInv, IdsGiven
  <2> QED
    BY <1>0, <2>1, <2>2, <2>5, <2>6, <2>7, Others
<1>4. ASSUME NEW r \in RowFor(k, item), r = 0 => story.given + 1 \in MemoryIds,
             r # 0 => ~Locked(r, k),
             NEW id, id = (IF r = 0 THEN story.given + 1 ELSE r),
             begun' = [begun EXCEPT ![k].step = "indexing", ![k].rows[id] = item.content, ![k].id = id],
             story' = [story EXCEPT !.given = IF r = 0 THEN id ELSE @]
      PROVE  MemoryInv'
  <2> DEFINE rows == [begun[k].rows EXCEPT ![id] = item.content]
             x == [begun[k] EXCEPT !.step = "indexing", !.rows = rows, !.id = id]
  <2> HIDE DEF item
  <2>1. /\ id \in MemoryIds /\ rows \in Table /\ rows[id] = item.content
        /\ \A i \in MemoryIds : i # id => rows[i] = begun[k].rows[i]
    <3>1. id \in MemoryIds
      BY <1>2, <1>4
    <3> QED
      BY <1>0, <1>1, <3>1 DEF Table
  <2>2. begun' = [begun EXCEPT ![k] = x]
    BY <1>0, <1>4
  <2> HIDE DEF rows
  <2>3. x \in Extraction /\ x.rows = rows /\ x.step = "indexing" /\ x.id = id
        /\ x.items = begun[k].items /\ x.snapshot = begun[k].snapshot
    BY <1>0, <2>1 DEF Extraction
  <2> HIDE DEF x
  <2>4. /\ DOMAIN begun' = DOMAIN begun
        /\ begun'[k] = x /\ \A o \in DOMAIN begun : o # k => begun'[o] = begun[o]
    BY <1>0, <2>2, <2>3, Replaced
  <2>5. /\ story' \in Story /\ story'.late = story.late /\ story'.extractions = story.extractions
        /\ story'.lost = story.lost
        /\ story'.touched = story.touched /\ story'.given >= story.given /\ id <= story'.given
    <3>1. story.given \in Nat /\ MaxMemories \in Nat
      BY <1>0, MemoryAssumption DEF Story
    <3>2. story'.given = IF r = 0 THEN id ELSE story.given
      BY <1>0, <1>4 DEF Story
    <3>3. story' \in Story /\ story'.late = story.late /\ story'.extractions = story.extractions
          /\ story'.lost = story.lost /\ story'.touched = story.touched
      BY <1>0, <1>4, <2>1 DEF Story, MemoryIds
    <3>4. r # 0 => id <= story.given
      <4>1. ASSUME r # 0, Sees(k)[r] # "none" PROVE id <= story.given
        <5>1. id = r /\ id \in MemoryIds
          BY <1>4, <2>1, <4>1
        <5>2. Sees(k)[id] # "none" => ~(id > story.given)
          BY <1>0, <5>1 DEF Sees, MemoryInv, IdsGiven
        <5>3. id \in Nat
          BY <5>1 DEF MemoryIds
        <5> QED
          BY <3>1, <4>1, <5>1, <5>2, <5>3
      <4>2. ASSUME \E i \in MemoryIds : Sees(k)[i] = item.content
            PROVE  Sees(k)[CHOOSE i \in MemoryIds : Sees(k)[i] = item.content] = item.content
        BY <4>2
      <4> QED
        BY <1>1, <1>4, <4>1, <4>2 DEF RowFor
    <3> QED
      BY <1>4, <3>1, <3>2, <3>3, <3>4
  <2>6. \A o \in DOMAIN begun : o # k => ~Writes(o, id)
    <3>1. CASE r = 0
      <4>1. story.given \in Nat /\ id > story.given
        BY <1>0, <1>4, <3>1 DEF Story
      <4> QED
        BY <2>1, <4>1 DEF MemoryInv, IdsGiven, Writes
    <3>2. CASE r # 0
      BY <1>4, <3>2 DEF Locked, Writes
    <3> QED
      BY <3>1, <3>2
  <2>7. /\ Writes(k, id)'
        /\ \A i \in MemoryIds : i # id => (Writes(k, i)' <=> Writes(k, i))
        /\ \A o \in DOMAIN begun, i \in MemoryIds : o # k => (Writes(o, i)' <=> Writes(o, i))
    <3>1. x.rows[id] # "none"
      BY <1>1, <2>1, <2>3
    <3> QED
      BY <1>0, <2>1, <2>3, <2>4, <3>1 DEF Writes, Running
  <2>8. IdsGiven'
    <3>1. ASSUME NEW i \in MemoryIds, i > story'.given
          PROVE  i > story.given /\ i # id
      <4>1. i \in Nat /\ id \in Nat /\ story.given \in Nat /\ story'.given \in Nat
        BY <1>0, <2>1, <2>5 DEF MemoryIds, Story
      <4> QED
        BY <2>5, <3>1, <4>1
    <3> QED
      BY <1>0, <2>1, <2>3, <2>4, <3>1 DEF MemoryInv, IdsGiven
  <2>9. RowsHeld'
    <3>1. ASSUME NEW o \in DOMAIN begun'
          PROVE  /\ begun'[o].step \in {"billing", "counting", "asking"} => begun'[o].rows = NoMemories
                 /\ begun'[o].step = "indexing" =>
                      (begun'[o].id # 0 /\ Writes(o, begun[o].id)' /\ begun'[o].items # <<>>)
      <4>1. CASE o = k
        BY <1>0, <2>1, <2>3, <2>4, <2>7, <4>1 DEF MemoryIds
      <4>2. CASE o # k
        BY <2>4, <4>2, <3>1 DEF MemoryInv, RowsHeld, Writes, Running
      <4> QED
        BY <4>1, <4>2
    <3>2. ASSUME NEW o \in DOMAIN begun', NEW i \in MemoryIds, Writes(o, i)'
          PROVE  /\ \A p \in DOMAIN begun' : Writes(p, i)' => p = o
                 /\ ~(begun'[o].step = "indexing" /\ begun'[o].id = i) => entries'[i] = begun'[o].rows[i]
      <4>1. CASE i = id
        BY <2>3, <2>4, <2>6, <2>7, <3>2, <4>1
      <4>2. CASE i # id
        BY <1>0, <2>1, <2>3, <2>4, <2>7, <3>2, <4>2 DEF MemoryInv, RowsHeld
      <4> QED
        BY <4>1, <4>2
    <3> QED
      BY <3>1, <3>2 DEF RowsHeld
  <2>10. IndexOfRows'
    <3>1. ASSUME NEW i \in MemoryIds, i \notin story'.touched,
                 ~\E o \in DOMAIN begun' : Writes(o, i)'
          PROVE  entries'[i] = memories'[i]
      <4>1. i # id
        BY <2>4, <2>7, <3>1
      <4>2. ~\E o \in DOMAIN begun : Writes(o, i)
        BY <2>4, <2>7, <3>1, <4>1
      <4> QED
        BY <1>0, <2>5, <3>1, <4>2 DEF MemoryInv, IndexOfRows, Writes
    <3> QED
      BY <3>1 DEF IndexOfRows, Writes
  <2> QED
    BY <1>0, <2>2, <2>3, <2>5, <2>8, <2>9, <2>10, Others
<1> QED
  <2> DEFINE Effect(r, id) ==
               /\ begun' = [begun EXCEPT ![k].step = "indexing", ![k].rows[id] = item.content, ![k].id = id]
               /\ story' = [story EXCEPT !.given = IF r = 0 THEN id ELSE @]
  <2>1. CASE RowFor(k, item) # {}
    <3>1. \E r \in RowFor(k, item) : /\ r = 0 => story.given + 1 \in MemoryIds
                                     /\ r # 0 => ~Locked(r, k)
                                     /\ Effect(r, IF r = 0 THEN story.given + 1 ELSE r)
      BY <2>1 DEF WriteRow
    <3> QED
      BY <1>4, <3>1
  <2> QED
    BY <1>3, <2>1

LEMMA IndexRowKeeps ==
  ASSUME MemoryInv, NEW k \in DOMAIN begun, IndexRow(k) PROVE MemoryInv'
<1> DEFINE x == [begun[k] EXCEPT !.step = "writing", !.items = Tail(@), !.id = 0]
           c == begun[k].id
<1>0. /\ MemoryTypeOK /\ begun[k] \in Extraction /\ begun[k].rows \in Table
      /\ begun[k].items \in Seq(Item) /\ begun[k].items # <<>> /\ begun[k].step = "indexing"
      /\ memories' = memories /\ story' = story /\ turnCount' = turnCount
      /\ memories \in Table /\ entries \in Table /\ story \in Story
      /\ c \in MemoryIds /\ Writes(k, c)
  BY TaskIs DEF MemoryInv, MemoryTypeOK, RowsHeld, IndexRow, Story
<1>1. entries' = [entries EXCEPT ![c] = begun[k].rows[c]]
  BY DEF IndexRow, Indexed
<1>2. begun' = [begun EXCEPT ![k] = x]
  BY DEF IndexRow
<1>3. x \in Extraction /\ x.rows = begun[k].rows /\ x.snapshot = begun[k].snapshot /\ x.step = "writing"
  <2>1. Tail(begun[k].items) \in Seq(Item)
    <3> HIDE DEF Item
    <3> QED
      BY <1>0
  <2> QED
    BY <1>0, <2>1 DEF Extraction
<1> HIDE DEF x, c
<1>4. /\ DOMAIN begun' = DOMAIN begun
      /\ begun'[k] = x /\ \A o \in DOMAIN begun : o # k => begun'[o] = begun[o]
  BY <1>0, <1>2, <1>3, Replaced
<1>5. \A o \in DOMAIN begun, i \in MemoryIds : Writes(o, i)' <=> Writes(o, i)
  BY <1>0, <1>3, <1>4 DEF Writes, Running
<1>6. /\ entries' \in Table /\ entries'[c] = begun[k].rows[c]
      /\ \A i \in MemoryIds : i # c => entries'[i] = entries[i]
  BY <1>0, <1>1 DEF Table
<1>7. IdsGiven'
  BY <1>0, <1>3, <1>4 DEF MemoryInv, IdsGiven
<1>8. RowsHeld'
  <2>1. ASSUME NEW o \in DOMAIN begun'
        PROVE  /\ begun'[o].step \in {"billing", "counting", "asking"} => begun'[o].rows = NoMemories
               /\ begun'[o].step = "indexing" =>
                    (begun'[o].id # 0 /\ Writes(o, begun[o].id)' /\ begun'[o].items # <<>>)
    BY <1>3, <1>4, <1>5 DEF MemoryInv, RowsHeld, Writes, Running
  <2>2. ASSUME NEW o \in DOMAIN begun', NEW i \in MemoryIds, Writes(o, i)'
        PROVE  /\ \A p \in DOMAIN begun' : Writes(p, i)' => p = o
               /\ ~(begun'[o].step = "indexing" /\ begun'[o].id = i) => entries'[i] = begun'[o].rows[i]
    <3>1. \A p \in DOMAIN begun : Writes(p, i) => p = o
      BY <1>4, <1>5, <2>2 DEF MemoryInv, RowsHeld
    <3>2. CASE i = c
      BY <1>0, <1>3, <1>4, <1>5, <1>6, <3>1, <3>2
    <3>3. CASE i # c
      <4>1. ~(begun'[o].step = "indexing" /\ begun'[o].id = i)
               => ~(begun[o].step = "indexing" /\ begun[o].id = i)
        BY <1>4, <3>3 DEF c
      <4> QED
        BY <1>3, <1>4, <1>5, <1>6, <2>2, <3>1, <3>3, <4>1 DEF MemoryInv, RowsHeld
    <3> QED
      BY <3>2, <3>3
  <2> QED
    BY <2>1, <2>2 DEF RowsHeld
<1>9. IndexOfRows'
  <2>1. ASSUME NEW i \in MemoryIds, i \notin story'.touched,
               ~\E o \in DOMAIN begun' : Writes(o, i)'
        PROVE  entries'[i] = memories'[i]
    <3>1. ~\E o \in DOMAIN begun : Writes(o, i)
      BY <1>4, <1>5, <2>1
    <3>2. i # c
      BY <1>0, <3>1
    <3> QED
      BY <1>0, <1>6, <2>1, <3>1, <3>2 DEF MemoryInv, IndexOfRows, Writes
  <2> QED
    BY <2>1 DEF IndexOfRows, Writes
<1> QED
  BY <1>0, <1>2, <1>3, <1>6, <1>7, <1>8, <1>9, Others

(* A task that ends: its rows are committed, or rolled back and remembered   *)
(* as touched.                                                               *)
LEMMA EndKeeps ==
  ASSUME MemoryInv, NEW k \in DOMAIN begun, CommitMemories(k) \/ ExtractionFails(k)
  PROVE  MemoryInv'
<1> DEFINE x == [Started EXCEPT !.step = "done"]
<1>0. /\ MemoryTypeOK /\ begun[k] \in Extraction /\ begun[k].rows \in Table
      /\ begun[k].step # "done" /\ (Pending(k) => begun[k].rows = NoMemories)
      /\ turnCount' = turnCount /\ entries' = entries
      /\ memories \in Table /\ entries \in Table /\ story \in Story
  BY TaskIs DEF MemoryInv, MemoryTypeOK, RowsHeld, Pending, CommitMemories, ExtractionFails, Story
<1>a. Pending(k) \/ Running(k)
  BY <1>0 DEF Pending, Running, Extraction
<1>1. begun' = [begun EXCEPT ![k] = x]
  BY DEF CommitMemories, ExtractionFails
<1>2. x \in Extraction /\ x.rows = NoMemories /\ x.snapshot = NoMemories /\ x.step = "done"
  BY StartedIs DEF Started
<1> HIDE DEF x
<1>3. /\ DOMAIN begun' = DOMAIN begun
      /\ begun'[k] = x /\ \A o \in DOMAIN begun : o # k => begun'[o] = begun[o]
  BY <1>0, <1>1, <1>2, Replaced
<1>4. /\ \A i \in MemoryIds : ~Writes(k, i)' /\ (Writes(k, i) <=> begun[k].rows[i] # "none")
      /\ \A o \in DOMAIN begun, i \in MemoryIds : o # k => (Writes(o, i)' <=> Writes(o, i))
  BY <1>0, <1>a, <1>2, <1>3 DEF Writes, Running, NoMemories
<1>5. RowsHeld'
  <2>1. ASSUME NEW o \in DOMAIN begun'
        PROVE  /\ begun'[o].step \in {"billing", "counting", "asking"} => begun'[o].rows = NoMemories
               /\ begun'[o].step = "indexing" =>
                    (begun'[o].id # 0 /\ Writes(o, begun[o].id)' /\ begun'[o].items # <<>>)
    BY <1>2, <1>3, <1>4 DEF MemoryInv, RowsHeld, Writes, Running
  <2>2. ASSUME NEW o \in DOMAIN begun', NEW i \in MemoryIds, Writes(o, i)'
        PROVE  /\ \A p \in DOMAIN begun' : Writes(p, i)' => p = o
               /\ ~(begun'[o].step = "indexing" /\ begun'[o].id = i) => entries'[i] = begun'[o].rows[i]
    BY <1>0, <1>3, <1>4, <2>2 DEF MemoryInv, RowsHeld
  <2> QED
    BY <2>1, <2>2 DEF RowsHeld
<1>6. /\ memories' \in Table /\ story' \in Story /\ story'.late = story.late
      /\ story'.extractions = story.extractions /\ story'.given = story.given
      /\ story'.lost = IF Pending(k) THEN story.lost \cup {k} ELSE story.lost
      /\ story.touched \subseteq story'.touched
      /\ \A i \in MemoryIds \ story'.touched :
           memories'[i] = IF begun[k].rows[i] # "none" THEN begun[k].rows[i] ELSE memories[i]
      /\ (ExtractionFails(k) => memories' = memories)
  <2>1. CASE CommitMemories(k)
    <3>1. memories' = [i \in MemoryIds |-> IF begun[k].rows[i] # "none" THEN begun[k].rows[i]
                                                                      ELSE memories[i]]
          /\ story' = story /\ begun[k].step = "writing" /\ ~Pending(k)
      BY <2>1 DEF CommitMemories, Pending
    <3>2. memories' \in Table
      BY <1>0, <3>1 DEF Table
    <3>3. ~ExtractionFails(k) \/ memories' = memories
      BY DEF ExtractionFails
    <3> QED
      BY <1>0, <3>1, <3>2, <3>3
  <2>2. CASE ExtractionFails(k)
    <3>1. /\ story' = [story EXCEPT !.misses = @ + 1,
                         !.lost = IF Pending(k) THEN @ \cup {k} ELSE @,
                         !.touched = @ \cup {i \in MemoryIds : begun[k].rows[i] # "none"}]
          /\ story.misses < MaxMisses /\ memories' = memories
      BY <2>2 DEF ExtractionFails
    <3>2. story.misses + 1 \in 0..MaxMisses /\ k \in 1..MaxTurns
      BY <1>0, <3>1, TaskIs, MemoryAssumption DEF MemoryTypeOK, Story
    <3> QED
      BY <1>0, <2>2, <3>1, <3>2 DEF Story
  <2> QED
    BY <2>1, <2>2
<1>7. IdsGiven'
  <2>1. ASSUME NEW i \in MemoryIds, i > story'.given
        PROVE  memories'[i] = "none"
    <3>1. memories[i] = "none" /\ begun[k].rows[i] = "none"
      BY <1>6, <2>1 DEF MemoryInv, IdsGiven
    <3> QED
      BY <3>1 DEF CommitMemories, ExtractionFails
  <2> QED
    BY <1>2, <1>3, <1>6, <2>1 DEF MemoryInv, IdsGiven, NoMemories
<1>8. IndexOfRows'
  <2>1. ASSUME NEW i \in MemoryIds, i \notin story'.touched,
               ~\E o \in DOMAIN begun' : Writes(o, i)'
        PROVE  entries'[i] = memories'[i]
    <3>1. CASE begun[k].rows[i] # "none"
      <4>1. begun[k].step # "indexing"
        <5>1. ASSUME ExtractionFails(k) PROVE i \in story'.touched
          BY <1>0, <3>1, <5>1 DEF ExtractionFails, Story
        <5> QED
          BY <2>1, <5>1 DEF CommitMemories
      <4>2. entries[i] = begun[k].rows[i]
        BY <1>4, <3>1, <4>1 DEF MemoryInv, RowsHeld
      <4> QED
        BY <1>0, <1>6, <2>1, <3>1, <4>2
    <3>2. CASE begun[k].rows[i] = "none"
      <4>1. ~\E o \in DOMAIN begun : Writes(o, i)
        BY <1>3, <1>4, <2>1, <3>2
      <4> QED
        BY <1>0, <1>6, <2>1, <3>2, <4>1 DEF MemoryInv, IndexOfRows, Writes
    <3> QED
      BY <3>1, <3>2
  <2> QED
    BY <2>1 DEF IndexOfRows, Writes
<1>9. CountsKept'
  <2>1. ~Pending(k)'
    BY <1>2, <1>3 DEF Pending
  <2>2. \A o \in DOMAIN begun : o # k => (Pending(o)' <=> Pending(o))
    BY <1>3 DEF Pending
  <2>3. \A o \in story'.lost : o \in DOMAIN begun' /\ ~Pending(o)'
    BY <1>3, <1>6, <2>1, <2>2 DEF MemoryInv, CountsKept
  <2>4. ASSUME ~story'.late
        PROVE  /\ \A o \in DOMAIN begun' : Pending(o)' => o = turnCount
               /\ story'.extractions = {o \in DOMAIN begun' : Due(o) /\ ~Pending(o)'} \ story'.lost
    <3>1. /\ \A o \in DOMAIN begun : Pending(o) => o = turnCount
          /\ story.extractions = {o \in DOMAIN begun : Due(o) /\ ~Pending(o)} \ story.lost
      BY <1>6, <2>4 DEF MemoryInv, CountsKept
    <3> QED
      BY <1>3, <1>6, <2>1, <2>2, <3>1
  <2> QED
    BY <1>0, <2>3, <2>4 DEF CountsKept, Due
<1> QED
  BY <1>0, <1>1, <1>2, <1>5, <1>6, <1>7, <1>8, <1>9, OneTask

LEMMA MemoryStep == MemoryInv /\ [MemoryNext]_memoryVars => MemoryInv'
<1> SUFFICES ASSUME MemoryInv, [MemoryNext]_memoryVars PROVE MemoryInv'
  OBVIOUS
<1>1. CASE Turn
  BY <1>1, TurnKeeps
<1>2. ASSUME NEW k \in DOMAIN begun,
             Schedule(k) \/ CountTurns(k) \/ WriteRow(k) \/ IndexRow(k)
      PROVE  MemoryInv'
  BY <1>2, ScheduleKeeps, CountTurnsKeeps, WriteRowKeeps, IndexRowKeeps
<1>3. ASSUME NEW k \in DOMAIN begun, CommitMemories(k) \/ ExtractionFails(k) PROVE MemoryInv'
  BY <1>3, EndKeeps
<1>4. ASSUME NEW k \in DOMAIN begun, NEW items \in Payloads, ModelAnswers(k, items)
      PROVE  MemoryInv'
  BY <1>4, ModelAnswersKeeps
<1>5. CASE UNCHANGED memoryVars
  <2>1. turnCount' = turnCount /\ begun' = begun /\ memories' = memories /\ entries' = entries
        /\ story' = story
    BY <1>5 DEF memoryVars
  <2> QED
    BY <2>1 DEF MemoryInv, MemoryTypeOK, IdsGiven, RowsHeld, CountsKept, IndexOfRows, DueIsExtracted,
                Writes, Running, Pending, Due
<1> QED
  BY <1>1, <1>2, <1>3, <1>4, <1>5 DEF MemoryNext

(* The index follows the rows, and every so many turns there is exactly one  *)
(* extraction, failures and overtaken counts aside (memory/service.py): the  *)
(* inductive invariant, for every interleaving of the tasks.                 *)
THEOREM MemoryInvariance == MemorySpec => []MemoryInv
<1> QED
  BY MemoryStarts, MemoryStep, PTL DEF MemorySpec

(* What the runs check of tags, conversations and memories together, for     *)
(* every number of each.                                                     *)
THEOREM RecordsHold == OrganizationSpec /\ ConversationSpec /\ MemorySpec => []RecordsAgree
<1>1. MemberInv /\ TreeInv /\ ConversationInv /\ MemoryInv => RecordsAgree
  BY DEF RecordsAgree, MemberInv, TreeInv, ConversationInv, MemoryInv
<1> QED
  BY <1>1, TagsInTree, ConversationInvariance, MemoryInvariance, PTL

-----------------------------------------------------------------------------
(* The table of documents: sequences and sets                                *)

LEMMA SeqIs ==
  ASSUME NEW S, NEW s \in Seq(S)
  PROVE  DOMAIN s = 1..Len(s) /\ Len(s) \in Nat /\ \A k \in DOMAIN s : s[k] \in S
BY LenProperties, ElementOfSeq

(* A nonempty set of numbers has a least one.                                *)
LEMMA LeastOf ==
  ASSUME NEW T, T \subseteq Nat, T # {}
  PROVE  Min(T) \in T /\ \A k \in T : Min(T) <= k
<1>4. \E n \in T : \A k \in T : ~(k < n)
  BY Least
<1>5. \E n \in T : \A k \in T : n <= k
  <2>1. \A k, n \in T : ~(k < n) => n <= k
    OBVIOUS
  <2> QED
    BY <1>4, <2>1
<1> QED
  BY <1>5 DEF Min

(* How many of I come before: the places of its elements in their order.     *)
LEMMA RankIs ==
  ASSUME NEW n \in Nat, NEW I \in SUBSET (1..n)
  PROVE  /\ Cardinality(I) \in Nat
         /\ \A j \in 1..Cardinality(I) : \E i \in I : Rank(i, I) = j
<1> DEFINE upto(i) == {x \in I : x <= i}
           f == [i \in I |-> Rank(i, I)]
<1>1. IsFiniteSet(I) /\ Cardinality(I) \in Nat
  <2>1. IsFiniteSet(1..n)
    BY FS_Interval
  <2>2. IsFiniteSet(I)
    BY <2>1, FS_Subset
  <2> QED
    BY <2>2, FS_CardinalityType
<1>2. \A i : /\ IsFiniteSet(upto(i)) /\ Cardinality(upto(i)) \in Nat
             /\ Cardinality(upto(i)) <= Cardinality(I)
  BY <1>1, FS_Subset, FS_CardinalityType
<1>3. ASSUME NEW i \in I, NEW j \in I, i < j
      PROVE  Rank(i, I) < Rank(j, I)
  <2>1. j \notin upto(i) /\ \A x \in I : x \in Nat
    BY <1>3
  <2>2. IsFiniteSet(upto(i) \cup {j}) /\ Cardinality(upto(i) \cup {j}) = Cardinality(upto(i)) + 1
    BY <1>2, <2>1, FS_AddElement
  <2>3. upto(i) \cup {j} \in SUBSET upto(j)
    <3>1. j <= j /\ \A x \in I : x <= i => x <= j
      BY <1>3, <2>1
    <3> QED
      BY <3>1, Zenon
  <2>4. Cardinality(upto(i) \cup {j}) <= Cardinality(upto(j))
    BY <1>2, <2>3, FS_Subset
  <2> QED
    BY <1>2, <2>2, <2>4 DEF Rank
<1>4. ASSUME NEW i \in I PROVE Rank(i, I) \in 1..Cardinality(I)
  <2>1. i \in upto(i)
    OBVIOUS
  <2>2. Cardinality(upto(i)) # 0
    BY <1>2, <2>1, FS_EmptySet
  <2> QED
    BY <1>1, <1>2, <2>2 DEF Rank
<1>5. \A i, j \in I : Rank(i, I) = Rank(j, I) => i = j
  <2>1. \A i \in I : Rank(i, I) \in Nat
    BY <1>1, <1>4
  <2> QED
    BY <1>3, <2>1
<1>6. f \in Injection(I, 1..Cardinality(I))
  BY <1>4, <1>5 DEF Injection, IsInjective
<1>7. IsFiniteSet(1..Cardinality(I)) /\ Cardinality(1..Cardinality(I)) = Cardinality(I)
  BY <1>1, FS_Interval
<1>8. f \in Surjection(I, 1..Cardinality(I))
  <2> HIDE DEF f
  <2> QED
    BY <1>6, <1>7, FS_Injection
<1> QED
  BY <1>1, <1>8 DEF Surjection

(* What is picked of a sequence are its elements, once if they are there     *)
(* once.                                                                     *)
LEMMA PickedIs ==
  ASSUME NEW S, NEW s \in Seq(S), NEW I \in SUBSET (1..Len(s)),
         \A i, k \in DOMAIN s : s[i] = s[k] => i = k
  PROVE  /\ Picked(s, I) \in Seq(S)
         /\ \A j \in DOMAIN Picked(s, I) : \E i \in I : Picked(s, I)[j] = s[i]
         /\ \A j, k \in DOMAIN Picked(s, I) : Picked(s, I)[j] = Picked(s, I)[k] => j = k
<1> DEFINE n == Cardinality(I)
           f == [j \in 1..n |-> CHOOSE i \in I : Rank(i, I) = j]
<1>1. DOMAIN s = 1..Len(s) /\ Len(s) \in Nat /\ \A k \in DOMAIN s : s[k] \in S
  BY SeqIs
<1>2. n \in Nat /\ \A j \in 1..n : \E i \in I : Rank(i, I) = j
  BY <1>1, RankIs
<1>3. f \in [1..n -> I] /\ \A j \in 1..n : Rank(f[j], I) = j
  BY <1>2
<1>4. Picked(s, I) = [j \in 1..n |-> s[f[j]]]
  BY DEF Picked
<1> HIDE DEF n, f
<1>5. DOMAIN Picked(s, I) = 1..n /\ \A j \in 1..n : Picked(s, I)[j] = s[f[j]] /\ f[j] \in I
  BY <1>3, <1>4
<1>6. Picked(s, I) \in Seq(S)
  <2>1. Picked(s, I) \in [1..n -> S]
    BY <1>1, <1>3, <1>4
  <2> QED
    BY <1>2, <2>1, SeqDef
<1>7. ASSUME NEW j \in 1..n, NEW k \in 1..n, Picked(s, I)[j] = Picked(s, I)[k] PROVE j = k
  <2>1. s[f[j]] = s[f[k]] /\ f[j] \in DOMAIN s /\ f[k] \in DOMAIN s
    BY <1>1, <1>5, <1>7
  <2>2. f[j] = f[k]
    BY <2>1
  <2> QED
    BY <1>3, <2>2
<1> QED
  BY <1>5, <1>6, <1>7

(* One sequence after the other.                                             *)
LEMMA JoinedIs ==
  ASSUME NEW S, NEW s \in Seq(S), NEW t \in Seq(S)
  PROVE  /\ s \o t \in Seq(S) /\ DOMAIN s \subseteq DOMAIN (s \o t)
         /\ \A i \in DOMAIN s : (s \o t)[i] = s[i]
         /\ \A i \in DOMAIN (s \o t) \ DOMAIN s :
              i - Len(s) \in DOMAIN t /\ (s \o t)[i] = t[i - Len(s)]
<1>1. /\ s \o t \in Seq(S) /\ Len(s \o t) = Len(s) + Len(t)
      /\ \A i \in 1..Len(s) + Len(t) :
           (s \o t)[i] = IF i <= Len(s) THEN s[i] ELSE t[i - Len(s)]
  BY ConcatProperties
<1>2. /\ DOMAIN s = 1..Len(s) /\ DOMAIN t = 1..Len(t) /\ DOMAIN (s \o t) = 1..(Len(s) + Len(t))
      /\ Len(s) \in Nat /\ Len(t) \in Nat
  BY <1>1, SeqIs
<1> QED
  BY <1>1, <1>2

(* What is left when one element is removed: the others.                     *)
LEMMA RemovedIs ==
  ASSUME NEW S, NEW s \in Seq(S), NEW k \in DOMAIN s
  PROVE  /\ RemoveAt(s, k) \in Seq(S)
         /\ \A j \in DOMAIN RemoveAt(s, k) :
              \E i \in DOMAIN s \ {k} : /\ (j < k /\ i = j) \/ (~(j < k) /\ i = j + 1)
                                        /\ RemoveAt(s, k)[j] = s[i]
<1> DEFINE a == SubSeq(s, 1, k - 1)
           b == SubSeq(s, k + 1, Len(s))
<1>1. DOMAIN s = 1..Len(s) /\ Len(s) \in Nat /\ k \in 1..Len(s) /\ \A i \in 1..Len(s) : s[i] \in S
  BY SeqIs
<1>2. a \in Seq(S) /\ Len(a) = k - 1 /\ \A i \in 1..(k - 1) : a[i] = s[i]
  BY <1>1
<1>3. b \in Seq(S) /\ Len(b) = Len(s) - k /\ \A i \in 1..(Len(s) - k) : b[i] = s[i + k]
  BY <1>1
<1> HIDE DEF a, b
<1>4. RemoveAt(s, k) = a \o b
  BY DEF RemoveAt, a, b
<1>5. /\ a \o b \in Seq(S) /\ DOMAIN (a \o b) = 1..(Len(s) - 1)
      /\ \A j \in 1..(Len(s) - 1) : (a \o b)[j] = IF j <= k - 1 THEN a[j] ELSE b[j - (k - 1)]
  <2>1. /\ a \o b \in Seq(S) /\ Len(a \o b) = Len(a) + Len(b)
        /\ \A j \in 1..(Len(a) + Len(b)) : (a \o b)[j] = IF j <= Len(a) THEN a[j] ELSE b[j - Len(a)]
    BY <1>2, <1>3, ConcatProperties
  <2>2. DOMAIN (a \o b) = 1..Len(a \o b)
    BY <2>1, SeqIs
  <2> QED
    BY <1>1, <1>2, <1>3, <2>1, <2>2
<1>6. ASSUME NEW j \in 1..(Len(s) - 1)
      PROVE  (a \o b)[j] = s[IF j < k THEN j ELSE j + 1]
  <2>1. CASE j <= k - 1
    <3>1. j \in 1..(k - 1) /\ j < k
      BY <1>1, <2>1
    <3>2. (a \o b)[j] = a[j] /\ a[j] = s[j]
      BY <1>2, <1>5, <3>1, <2>1
    <3> QED
      BY <3>1, <3>2
  <2>2. CASE ~(j <= k - 1)
    <3>1. PICK i \in 1..(Len(s) - k) : i = j - (k - 1)
      BY <1>1, <2>2
    <3>2. i + k = j + 1 /\ b[i] = s[i + k]
      BY <1>1, <1>3, <3>1
    <3>3. (a \o b)[j] = b[i]
      BY <1>5, <2>2, <3>1
    <3> QED
      BY <1>1, <2>2, <3>2, <3>3
  <2> QED
    BY <2>1, <2>2
<1>7. ASSUME NEW j \in 1..(Len(s) - 1)
      PROVE  \E i \in DOMAIN s \ {k} : /\ (j < k /\ i = j) \/ (~(j < k) /\ i = j + 1)
                                       /\ (a \o b)[j] = s[i]
  <2>1. CASE j < k
    <3>1. j \in DOMAIN s \ {k}
      BY <1>1, <2>1
    <3>2. (a \o b)[j] = s[j]
      BY <1>6, <2>1
    <3> QED
      BY <2>1, <3>1, <3>2
  <2>2. CASE ~(j < k)
    <3>1. j + 1 \in DOMAIN s \ {k}
      BY <1>1, <2>2
    <3>2. (a \o b)[j] = s[j + 1]
      BY <1>6, <2>2
    <3> QED
      BY <2>2, <3>1, <3>2
  <2> QED
    BY <2>1, <2>2
<1> QED
  BY <1>4, <1>5, <1>7

(* There are finitely many files.                                            *)
LEMMA FilesFinite ==
  /\ File \in Seq(Files) /\ DOMAIN File = 1..Len(File) /\ Len(File) \in Nat
  /\ \A S \in SUBSET Files : IsFiniteSet(S) /\ Cardinality(S) \in Nat
<1>1. File \in Seq(Files) /\ DOMAIN File = 1..Len(File) /\ Len(File) \in Nat
  BY KnowledgeBaseAssumption, SeqIs
<1>2. IsFiniteSet(DOMAIN File)
  BY <1>1, FS_Interval
<1>3. IsFiniteSet(Files)
  <2>1. Files = {File[i] : i \in DOMAIN File}
    BY DEF Files, ToSet
  <2> QED
    <3>1. File \in Surjection(DOMAIN File, Files)
      BY <1>1, <2>1 DEF Surjection
    <3> QED
      BY <1>2, <3>1, FS_Surjection
<1> QED
  BY <1>1, <1>3, FS_Subset, FS_CardinalityType

LEMMA ChunksFinite == \A S \in SUBSET Chunk : IsFiniteSet(S) /\ Cardinality(S) \in Nat
<1>1. IsFiniteSet(Chunk)
  <2>1. 0 \in Int /\ TotalChunks - 1 \in Int
    BY KnowledgeBaseAssumption
  <2>2. IsFiniteSet(0..(TotalChunks - 1))
    BY <2>1, FS_Interval
  <2> QED
    BY <2>2 DEF Chunk
<1> QED
  BY <1>1, FS_Subset, FS_CardinalityType

(* No more than the first Parallel chunks are taken.                         *)
LEMMA WorkersIs ==
  ASSUME NEW todo \in SUBSET Chunk
  PROVE  /\ Workers(todo) \in Jobs /\ Workers(todo).ph = "chunks"
         /\ Cardinality(Workers(todo).work) <= Parallel
<1> DEFINE before(c) == {d \in todo : d < c}
           first == {c \in todo : Cardinality(before(c)) < Parallel}
<1>1. TotalChunks \in Nat /\ Parallel \in Nat \ {0} /\ Chunk \subseteq Nat /\ \A c \in Chunk : c < TotalChunks
  BY KnowledgeBaseAssumption DEF Chunk
<1>2. \A S \in SUBSET Chunk : IsFiniteSet(S) /\ Cardinality(S) \in Nat
  BY ChunksFinite
<1>3. Cardinality(first) <= Parallel
  <2>1. CASE first = {}
    <3>1. Cardinality(first) = 0
      BY <2>1, FS_EmptySet, Zenon
    <3> QED
      BY <1>1, <3>1
  <2>2. CASE first # {}
    <3> DEFINE T == {TotalChunks - c : c \in first}
    <3>0. \A c \in first : c \in Chunk /\ TotalChunks - c \in Nat
      BY <1>1
    <3>1. T \subseteq Nat /\ T # {}
      <4> HIDE DEF first
      <4> QED
        BY <2>2, <3>0
    <3>2. \E m \in first : \A c \in first : c <= m
      <4>1. Min(T) \in T /\ \A k \in T : Min(T) <= k
        <5> HIDE DEF T
        <5> QED
          BY <3>1, LeastOf
      <4>2. PICK m \in first : Min(T) = TotalChunks - m
        BY <4>1
      <4>3. \A c \in first : TotalChunks - m <= TotalChunks - c
        BY <4>1, <4>2
      <4> QED
        BY <1>1, <4>3
    <3>3. PICK m \in first : \A c \in first : c <= m
      BY <3>2
    <3>4. first \ {m} \in SUBSET before(m)
      <4>1. \A c \in first : c \in todo /\ c \in Nat
        BY <1>1
      <4>2. \A c \in first \ {m} : c \in todo /\ c < m
        <5> HIDE DEF first
        <5> QED
          BY <3>3, <4>1
      <4> QED
        BY <4>2
    <3>5. before(m) \in SUBSET Chunk /\ first \in SUBSET Chunk /\ Cardinality(before(m)) < Parallel
      BY <3>3
    <3> HIDE DEF before, first
    <3>6. Cardinality(first \ {m}) <= Cardinality(before(m))
      BY <1>2, <3>4, <3>5, FS_Subset
    <3>7. Cardinality(first \ {m}) = Cardinality(first) - 1
      BY <1>2, <3>3, <3>5, FS_RemoveElement
    <3> QED
      BY <1>1, <1>2, <3>5, <3>6, <3>7
  <2> QED
    BY <2>1, <2>2
<1>4. first \in SUBSET Chunk /\ todo \ first \in SUBSET Chunk
  OBVIOUS
<1>5. Workers(todo) = [ph |-> "chunks", queue |-> todo \ first, work |-> first, bad |-> FALSE]
  BY DEF Workers
<1> HIDE DEF first
<1> QED
  BY <1>3, <1>4, <1>5 DEF Jobs

-----------------------------------------------------------------------------
(* The store and what the queue makes of it                                  *)

(* A store as the page keeps it: one row a file, no more uploads than there  *)
(* may be.                                                                   *)
Stores == [ts : Seq(Tasks), act : SUBSET Files, jb : [Files -> Jobs]]
Once(ts) == \A i, k \in DOMAIN ts : ts[i].f = ts[k].f => i = k
Active(s) ==
  /\ s.act = {f \in Files : s.jb[f].ph # "none"}
  /\ Cardinality(s.act) <= MaxUploads
  /\ \A f \in Files : Cardinality(s.jb[f].work) <= Parallel
StoreOK(s) == s \in Stores /\ Once(s.ts) /\ Active(s)

(* A row that is being uploaded is served.                                   *)
Served(s) ==
  \A i \in DOMAIN s.ts : s.ts[i].file /\ s.ts[i].st = "Uploading" => s.ts[i].f \in s.act

(* The rows of r are those of s: it completes those of done only, and asks   *)
(* for a merge only of a file that is whole.                                 *)
Follows(s, r, done) ==
  /\ DOMAIN r.ts = DOMAIN s.ts
  /\ \A i \in DOMAIN s.ts : /\ r.ts[i].f = s.ts[i].f /\ r.ts[i].got = s.ts[i].got
                            /\ r.ts[i].st = "Completed" => s.ts[i].st = "Completed" \/ s.ts[i].f \in done
  /\ \A f \in Files : r.jb[f].ph = "merging" =>
       \/ s.jb[f].ph = "merging"
       \/ \E i \in DOMAIN s.ts : s.ts[i].f = f /\ s.ts[i].got = Chunk

LEMMA NoWork ==
  /\ NoJob \in Jobs /\ NoJob.ph = "none" /\ Cardinality(NoJob.work) <= Parallel
  /\ Merging \in Jobs /\ Merging.ph = "merging" /\ Cardinality(Merging.work) <= Parallel
<1>1. Cardinality({}) = 0 /\ Parallel \in Nat
  BY FS_EmptySet, KnowledgeBaseAssumption
<1>2. [ph |-> "none", queue |-> {}, work |-> {}, bad |-> FALSE] \in Jobs
  BY DEF Jobs
<1>3. NoJob \in Jobs /\ NoJob.ph = "none" /\ NoJob.work = {}
  BY <1>2 DEF NoJob
<1>4. Merging \in Jobs /\ Merging.ph = "merging" /\ Merging.work = {}
  <2>1. \A j \in Jobs : /\ [j EXCEPT !.ph = "merging"] \in Jobs
                        /\ [j EXCEPT !.ph = "merging"].ph = "merging"
                        /\ [j EXCEPT !.ph = "merging"].work = j.work
    BY DEF Jobs
  <2> QED
    BY <1>3, <2>1 DEF Merging
<1> QED
  BY <1>1, <1>3, <1>4

LEMMA StatusPut ==
  ASSUME NEW ts \in Seq(Tasks), NEW f, NEW st \in Status
  PROVE  /\ Set(ts, f, st) \in Seq(Tasks) /\ DOMAIN Set(ts, f, st) = DOMAIN ts
         /\ \A i \in DOMAIN ts :
              /\ Set(ts, f, st)[i].f = ts[i].f /\ Set(ts, f, st)[i].got = ts[i].got
              /\ Set(ts, f, st)[i].file = ts[i].file
              /\ Set(ts, f, st)[i].st = IF ts[i].f = f THEN st ELSE ts[i].st
<1>1. DOMAIN ts = 1..Len(ts) /\ Len(ts) \in Nat /\ \A k \in DOMAIN ts : ts[k] \in Tasks
  BY SeqIs
<1>2. \A t \in Tasks : /\ [t EXCEPT !["st"] = st] \in Tasks
                       /\ [t EXCEPT !["st"] = st].f = t.f /\ [t EXCEPT !["st"] = st].got = t.got
                       /\ [t EXCEPT !["st"] = st].file = t.file /\ [t EXCEPT !["st"] = st].st = st
  BY DEF Tasks
<1>3. Set(ts, f, st) = [i \in DOMAIN ts |-> IF ts[i].f = f THEN [ts[i] EXCEPT !["st"] = st] ELSE ts[i]]
  BY DEF Set, Put
<1>4. Set(ts, f, st) \in Seq(Tasks)
  <2>1. Set(ts, f, st) \in [1..Len(ts) -> Tasks]
    BY <1>1, <1>2, <1>3
  <2> QED
    BY <1>1, <2>1, SeqDef
<1> QED
  BY <1>1, <1>2, <1>3, <1>4

LEMMA VecPut ==
  ASSUME NEW ts \in Seq(Tasks), NEW f, NEW v \in Vec
  PROVE  /\ Put(ts, f, "vec", v) \in Seq(Tasks) /\ DOMAIN Put(ts, f, "vec", v) = DOMAIN ts
         /\ \A i \in DOMAIN ts :
              /\ Put(ts, f, "vec", v)[i].f = ts[i].f /\ Put(ts, f, "vec", v)[i].got = ts[i].got
              /\ Put(ts, f, "vec", v)[i].file = ts[i].file
              /\ Put(ts, f, "vec", v)[i].st = ts[i].st
<1>1. DOMAIN ts = 1..Len(ts) /\ Len(ts) \in Nat /\ \A k \in DOMAIN ts : ts[k] \in Tasks
  BY SeqIs
<1>2. \A t \in Tasks : /\ [t EXCEPT !["vec"] = v] \in Tasks
                       /\ [t EXCEPT !["vec"] = v].f = t.f /\ [t EXCEPT !["vec"] = v].got = t.got
                       /\ [t EXCEPT !["vec"] = v].file = t.file /\ [t EXCEPT !["vec"] = v].st = t.st
  BY DEF Tasks
<1>3. Put(ts, f, "vec", v) = [i \in DOMAIN ts |-> IF ts[i].f = f THEN [ts[i] EXCEPT !["vec"] = v] ELSE ts[i]]
  BY DEF Put
<1>4. Put(ts, f, "vec", v) \in Seq(Tasks)
  <2>1. Put(ts, f, "vec", v) \in [1..Len(ts) -> Tasks]
    BY <1>1, <1>2, <1>3
  <2> QED
    BY <1>1, <2>1, SeqDef
<1> QED
  BY <1>1, <1>2, <1>3, <1>4

LEMMA GotPut ==
  ASSUME NEW ts \in Seq(Tasks), NEW f, NEW got \in SUBSET Chunk
  PROVE  /\ Put(ts, f, "got", got) \in Seq(Tasks) /\ DOMAIN Put(ts, f, "got", got) = DOMAIN ts
         /\ \A i \in DOMAIN ts :
              /\ Put(ts, f, "got", got)[i].f = ts[i].f
              /\ Put(ts, f, "got", got)[i].got = IF ts[i].f = f THEN got ELSE ts[i].got
              /\ Put(ts, f, "got", got)[i].file = ts[i].file
              /\ Put(ts, f, "got", got)[i].st = ts[i].st
<1>1. DOMAIN ts = 1..Len(ts) /\ Len(ts) \in Nat /\ \A k \in DOMAIN ts : ts[k] \in Tasks
  BY SeqIs
<1>2. \A t \in Tasks : /\ [t EXCEPT !["got"] = got] \in Tasks
                       /\ [t EXCEPT !["got"] = got].f = t.f /\ [t EXCEPT !["got"] = got].got = got
                       /\ [t EXCEPT !["got"] = got].file = t.file /\ [t EXCEPT !["got"] = got].st = t.st
  BY DEF Tasks
<1>3. Put(ts, f, "got", got) = [i \in DOMAIN ts |-> IF ts[i].f = f THEN [ts[i] EXCEPT !["got"] = got] ELSE ts[i]]
  BY DEF Put
<1>4. Put(ts, f, "got", got) \in Seq(Tasks)
  <2>1. Put(ts, f, "got", got) \in [1..Len(ts) -> Tasks]
    BY <1>1, <1>2, <1>3
  <2> QED
    BY <1>1, <2>1, SeqDef
<1>5. ASSUME NEW i \in DOMAIN ts
      PROVE  /\ Put(ts, f, "got", got)[i].f = ts[i].f
             /\ Put(ts, f, "got", got)[i].got = IF ts[i].f = f THEN got ELSE ts[i].got
             /\ Put(ts, f, "got", got)[i].file = ts[i].file
             /\ Put(ts, f, "got", got)[i].st = ts[i].st
  <2>1. CASE ts[i].f = f
    <3>1. Put(ts, f, "got", got)[i] = [ts[i] EXCEPT !["got"] = got]
      BY <1>3, <2>1
    <3>2. ts[i] \in Tasks
      BY <1>1
    <3>3. PICK t \in Tasks : t = ts[i]
      BY <3>2
    <3>4. PICK u : u = [t EXCEPT !["got"] = got]
      OBVIOUS
    <3>5. u.f = t.f /\ u.got = got /\ u.file = t.file /\ u.st = t.st
      BY <1>2, <3>4
    <3> QED
      BY <2>1, <3>1, <3>3, <3>4, <3>5
  <2>2. CASE ts[i].f # f
    <3>1. Put(ts, f, "got", got)[i] = ts[i]
      BY <1>3, <2>2
    <3> QED
      BY <2>2, <3>1
  <2> QED
    BY <2>1, <2>2
<1> QED
  BY <1>3, <1>4, <1>5

(* The first row that has what is asked for.                                 *)
LEMMA FoundIs ==
  ASSUME NEW ts \in Seq(Tasks), NEW f, Has(ts, f)
  PROVE  /\ Min(Find(ts, f)) \in DOMAIN ts /\ Row(ts, f) = ts[Min(Find(ts, f))]
         /\ Row(ts, f).f = f /\ Row(ts, f) \in Tasks
<1>1. DOMAIN ts = 1..Len(ts) /\ Len(ts) \in Nat /\ \A k \in DOMAIN ts : ts[k] \in Tasks
  BY SeqIs
<1>2. Find(ts, f) \subseteq Nat /\ Find(ts, f) # {}
  BY <1>1 DEF Find, Has
<1>3. Min(Find(ts, f)) \in Find(ts, f)
  BY <1>2, LeastOf
<1> QED
  BY <1>1, <1>3 DEF Find, Row

(* The queue takes the first row that waits: no row is completed, and the    *)
(* row it takes is served.                                                   *)
LEMMA StartIs ==
  ASSUME NEW s, StoreOK(s)
  PROVE  /\ StoreOK(startUpload(s)) /\ Follows(s, startUpload(s), {})
         /\ Served(s) => Served(startUpload(s))
<1> DEFINE w == Waiting(s.ts, s.act)
           real == {i \in w : s.ts[i].file}
           first == IF real = {} THEN Len(s.ts) + 1 ELSE Min(real)
           empty == {i \in w : i < first}
           cleaned == [i \in DOMAIN s.ts |->
                         IF i \in empty THEN [s.ts[i] EXCEPT !.st = "Break"] ELSE s.ts[i]]
           t == s.ts[first]
           taken == IF t.got = Chunk THEN Merging ELSE Workers(Chunk \ t.got)
           r == [ts |-> Set(cleaned, t.f, "Uploading"), act |-> s.act \cup {t.f},
                 jb |-> [s.jb EXCEPT ![t.f] = taken]]
<1>1. /\ s.ts \in Seq(Tasks) /\ s.act \in SUBSET Files /\ s.jb \in [Files -> Jobs]
      /\ s = [ts |-> s.ts, act |-> s.act, jb |-> s.jb]
      /\ Once(s.ts) /\ Active(s)
  BY DEF StoreOK, Stores
<1>2. DOMAIN s.ts = 1..Len(s.ts) /\ Len(s.ts) \in Nat /\ \A k \in DOMAIN s.ts : s.ts[k] \in Tasks
  BY <1>1, SeqIs
<1>3. /\ cleaned \in Seq(Tasks) /\ DOMAIN cleaned = DOMAIN s.ts
      /\ \A i \in DOMAIN s.ts :
           /\ cleaned[i].f = s.ts[i].f /\ cleaned[i].got = s.ts[i].got
           /\ cleaned[i].file = s.ts[i].file
           /\ cleaned[i].st = s.ts[i].st \/ cleaned[i].st = "Break"
  <2> HIDE DEF empty
  <2>1. \A k \in DOMAIN s.ts :
          /\ [s.ts[k] EXCEPT !.st = "Break"] \in Tasks
          /\ [s.ts[k] EXCEPT !.st = "Break"].f = s.ts[k].f
          /\ [s.ts[k] EXCEPT !.st = "Break"].got = s.ts[k].got
          /\ [s.ts[k] EXCEPT !.st = "Break"].file = s.ts[k].file
          /\ [s.ts[k] EXCEPT !.st = "Break"].st = "Break"
    BY <1>2 DEF Tasks, Status
  <2> QED
    BY <1>2, <2>1, SeqDef
<1>4. startUpload(s) = IF Cardinality(s.act) >= MaxUploads \/ w = {} THEN s
                       ELSE IF real = {} THEN [s EXCEPT !.ts = cleaned] ELSE r
  BY DEF startUpload
<1>5. Follows(s, s, {})
  BY DEF Follows
<1>6. CASE Cardinality(s.act) >= MaxUploads \/ w = {}
  BY <1>4, <1>5, <1>6
<1> HIDE DEF cleaned
<1>7. CASE ~(Cardinality(s.act) >= MaxUploads \/ w = {}) /\ real = {}
  <2> HIDE DEF w, real
  <2>1. PICK q : q = [s EXCEPT !.ts = cleaned]
    OBVIOUS
  <2>2. startUpload(s) = q /\ q.ts = cleaned /\ q.act = s.act /\ q.jb = s.jb /\ q \in Stores
    BY <1>1, <1>3, <1>4, <1>7, <2>1 DEF Stores
  <2>3. Once(q.ts) /\ Active(q)
    BY <1>1, <1>3, <2>2 DEF Once, Active
  <2>4. Follows(s, q, {})
    BY <1>3, <2>2 DEF Follows
  <2>5. Served(s) => Served(q)
    BY <1>3, <2>2 DEF Served
  <2> QED
    BY <2>2, <2>3, <2>4, <2>5 DEF StoreOK
<1>8. CASE ~(Cardinality(s.act) >= MaxUploads \/ w = {}) /\ real # {}
  <2>1. real \subseteq Nat /\ real \subseteq DOMAIN s.ts
    BY <1>2 DEF Waiting
  <2>2. Min(real) \in real
    <3> HIDE DEF real
    <3> QED
      BY <1>8, <2>1, LeastOf
  <2>3. first \in DOMAIN s.ts /\ t \in Tasks /\ t.f \notin s.act
    BY <1>2, <1>8, <2>2 DEF Waiting
  <2> HIDE DEF w, real, first
  <2>4. t.f \in Files /\ t.got \in SUBSET Chunk /\ Chunk \ t.got \in SUBSET Chunk
    BY <2>3 DEF Tasks
  <2>5. /\ taken \in Jobs /\ taken.ph # "none" /\ Cardinality(taken.work) <= Parallel
        /\ taken.ph = "merging" => t.got = Chunk
    <3>1. CASE t.got = Chunk
      BY <3>1, NoWork
    <3>2. CASE t.got # Chunk
      <4>1. taken = Workers(Chunk \ t.got)
        BY <3>2
      <4> HIDE DEF t
      <4> QED
        BY <2>4, <4>1, WorkersIs
    <3> QED
      BY <3>1, <3>2
  <2> HIDE DEF t, taken
  <2>6. /\ Set(cleaned, t.f, "Uploading") \in Seq(Tasks)
        /\ DOMAIN Set(cleaned, t.f, "Uploading") = DOMAIN cleaned
        /\ \A i \in DOMAIN cleaned :
             /\ Set(cleaned, t.f, "Uploading")[i].f = cleaned[i].f
             /\ Set(cleaned, t.f, "Uploading")[i].got = cleaned[i].got
             /\ Set(cleaned, t.f, "Uploading")[i].file = cleaned[i].file
             /\ Set(cleaned, t.f, "Uploading")[i].st = IF cleaned[i].f = t.f THEN "Uploading" ELSE cleaned[i].st
    <3>1. "Uploading" \in Status
      BY DEF Status
    <3> QED
      BY <1>3, <3>1, StatusPut
  <2>7. PICK q : q = r
    OBVIOUS
  <2>8. /\ startUpload(s) = q /\ q.ts = Set(cleaned, t.f, "Uploading") /\ q.act = s.act \cup {t.f}
        /\ q.jb = [s.jb EXCEPT ![t.f] = taken]
    BY <1>4, <1>8, <2>7
  <2>9. q \in Stores
    BY <1>1, <2>4, <2>5, <2>6, <2>7 DEF Stores
  <2>10. Once(q.ts)
    BY <1>1, <1>3, <2>6, <2>8 DEF Once
  <2>11. Active(q)
    <3>1. Cardinality(s.act \cup {t.f}) = Cardinality(s.act) + 1 /\ Cardinality(s.act) \in Nat
      BY <1>1, <2>3, FilesFinite, FS_AddElement
    <3>2. Cardinality(s.act) + 1 <= MaxUploads
      BY <1>8, <3>1, KnowledgeBaseAssumption
    <3>3. q.act = {f \in Files : q.jb[f].ph # "none"}
      BY <1>1, <2>4, <2>5, <2>8 DEF Active
    <3>4. \A f \in Files : Cardinality(q.jb[f].work) <= Parallel
      BY <1>1, <2>4, <2>5, <2>8 DEF Active
    <3> QED
      BY <2>8, <3>1, <3>2, <3>3, <3>4 DEF Active
  <2>12. Follows(s, q, {})
    <3>1. \A i \in DOMAIN s.ts : /\ q.ts[i].f = s.ts[i].f /\ q.ts[i].got = s.ts[i].got
                                 /\ q.ts[i].st = "Completed" => s.ts[i].st = "Completed"
      BY <1>3, <2>6, <2>8
    <3>2. \A f \in Files : q.jb[f].ph = "merging" =>
            s.jb[f].ph = "merging" \/ \E i \in DOMAIN s.ts : s.ts[i].f = f /\ s.ts[i].got = Chunk
      BY <1>1, <2>3, <2>4, <2>5, <2>8 DEF t
    <3> QED
      BY <1>3, <2>6, <2>8, <3>1, <3>2 DEF Follows
  <2>13. Served(s) => Served(q)
    BY <1>3, <2>6, <2>8 DEF Served
  <2> QED
    BY <2>8, <2>9, <2>10, <2>11, <2>12, <2>13 DEF StoreOK
<1> QED
  BY <1>6, <1>7, <1>8

(* An upload ends: its row gets its status, the next one starts.             *)
LEMMA EndedIs ==
  ASSUME NEW s, StoreOK(s), NEW f \in Files, NEW st \in {"Completed", "Break"}
  PROVE  /\ StoreOK(Ended(s, f, st))
         /\ Follows(s, Ended(s, f, st), IF st = "Completed" THEN {f} ELSE {})
         /\ Served(s) => Served(Ended(s, f, st))
<1> DEFINE done == IF st = "Completed" THEN {f} ELSE {}
<1>1. /\ s.ts \in Seq(Tasks) /\ s.act \in SUBSET Files /\ s.jb \in [Files -> Jobs]
      /\ Once(s.ts) /\ Active(s)
  BY DEF StoreOK, Stores
<1>2. /\ Set(s.ts, f, st) \in Seq(Tasks) /\ DOMAIN Set(s.ts, f, st) = DOMAIN s.ts
      /\ \A i \in DOMAIN s.ts :
           /\ Set(s.ts, f, st)[i].f = s.ts[i].f /\ Set(s.ts, f, st)[i].got = s.ts[i].got
           /\ Set(s.ts, f, st)[i].file = s.ts[i].file
           /\ Set(s.ts, f, st)[i].st = IF s.ts[i].f = f THEN st ELSE s.ts[i].st
  <2>1. st \in Status
    BY DEF Status
  <2> QED
    BY <1>1, <2>1, StatusPut
<1>3. NoJob \in Jobs /\ NoJob.ph = "none" /\ Cardinality(NoJob.work) <= Parallel
  BY NoWork
<1>4. PICK q : q = [ts |-> Set(s.ts, f, st), act |-> s.act \ {f}, jb |-> [s.jb EXCEPT ![f] = NoJob]]
  OBVIOUS
<1>5. /\ q.ts = Set(s.ts, f, st) /\ q.act = s.act \ {f} /\ q.jb = [s.jb EXCEPT ![f] = NoJob]
      /\ Ended(s, f, st) = startUpload(q)
  BY <1>4 DEF Ended
<1>6. q \in Stores
  BY <1>1, <1>2, <1>3, <1>4 DEF Stores
<1>7. Once(q.ts)
  BY <1>1, <1>2, <1>5 DEF Once
<1>8. Active(q)
  <2>1. Cardinality(s.act \ {f}) <= Cardinality(s.act) /\ Cardinality(s.act) \in Nat /\ Cardinality(s.act \ {f}) \in Nat
    <3>1. s.act \ {f} \in SUBSET s.act /\ s.act \ {f} \in SUBSET Files
      BY <1>1
    <3> QED
      BY <1>1, <3>1, FilesFinite, FS_Subset
  <2>2. q.act = {g \in Files : q.jb[g].ph # "none"}
    BY <1>1, <1>3, <1>5 DEF Active
  <2>3. \A g \in Files : Cardinality(q.jb[g].work) <= Parallel
    BY <1>1, <1>3, <1>5 DEF Active
  <2>4. Cardinality(q.act) <= MaxUploads
    BY <1>1, <1>5, <2>1, KnowledgeBaseAssumption DEF Active
  <2> QED
    BY <2>2, <2>3, <2>4 DEF Active
<1>9. /\ \A i \in DOMAIN s.ts : q.ts[i].st = "Completed" => s.ts[i].st = "Completed" \/ s.ts[i].f \in done
      /\ \A g \in Files : q.jb[g].ph = "merging" => s.jb[g].ph = "merging"
  BY <1>1, <1>2, <1>3, <1>5
<1>10. Served(s) => Served(q)
  BY <1>2, <1>5 DEF Served
<1>11. /\ StoreOK(startUpload(q)) /\ Follows(q, startUpload(q), {})
       /\ Served(q) => Served(startUpload(q))
  BY <1>6, <1>7, <1>8, StartIs DEF StoreOK
<1> HIDE DEF done
<1>12. Follows(s, startUpload(q), done)
  BY <1>2, <1>5, <1>9, <1>11 DEF Follows
<1> QED
  BY <1>5, <1>10, <1>11, <1>12 DEF done

(* The chunks are done: a merge is asked for, or the upload is broken off.   *)
LEMMA ChunksDoneIs ==
  ASSUME NEW s, StoreOK(s), NEW f \in Files, s.jb[f].ph # "none"
  PROVE  /\ StoreOK(ChunksDone(s, f)) /\ Follows(s, ChunksDone(s, f), {})
         /\ Served(s) => Served(ChunksDone(s, f))
<1>1. CASE s.jb[f].bad \/ ~Has(s.ts, f) \/ Row(s.ts, f).got # Chunk
  <2>1. ChunksDone(s, f) = Ended(s, f, "Break")
    BY <1>1 DEF ChunksDone
  <2>2. StoreOK(Ended(s, f, "Break")) /\ Follows(s, Ended(s, f, "Break"), {})
        /\ (Served(s) => Served(Ended(s, f, "Break")))
    BY EndedIs
  <2> QED
    BY <2>1, <2>2
<1>2. CASE ~(s.jb[f].bad \/ ~Has(s.ts, f) \/ Row(s.ts, f).got # Chunk)
  <2>1. /\ s.ts \in Seq(Tasks) /\ s.act \in SUBSET Files /\ s.jb \in [Files -> Jobs]
        /\ s = [ts |-> s.ts, act |-> s.act, jb |-> s.jb]
        /\ Once(s.ts) /\ Active(s)
    BY DEF StoreOK, Stores
  <2>2. PICK q : q = [s EXCEPT !.jb[f] = Merging]
    OBVIOUS
  <2>3. ChunksDone(s, f) = q
    BY <1>2, <2>2 DEF ChunksDone
  <2>4. Merging \in Jobs /\ Merging.ph = "merging" /\ Cardinality(Merging.work) <= Parallel
    BY NoWork
  <2>5. q.ts = s.ts /\ q.act = s.act /\ q.jb = [s.jb EXCEPT ![f] = Merging] /\ q \in Stores
    BY <2>1, <2>2, <2>4 DEF Stores
  <2>6. Active(q)
    BY <2>1, <2>4, <2>5 DEF Active
  <2>7. \E i \in DOMAIN s.ts : s.ts[i].f = f /\ s.ts[i].got = Chunk
    BY <1>2, <2>1, FoundIs
  <2>8. Follows(s, q, {})
    BY <2>1, <2>4, <2>5, <2>7 DEF Follows
  <2>9. Served(s) => Served(q)
    BY <2>5 DEF Served
  <2> QED
    BY <2>1, <2>3, <2>5, <2>6, <2>8, <2>9 DEF StoreOK
<1> QED
  BY <1>1, <1>2
-----------------------------------------------------------------------------
(* What a step of the page keeps                                             *)

LEMMA StoreIs ==
  ASSUME TasksTrue
  PROVE  /\ StoreOK(Store) /\ Store \in Stores
         /\ Store.ts = tasks /\ Store.act = active /\ Store.jb = job
         /\ "demoted" \notin slips => Served(Store)
<1>1. Store.ts = tasks /\ Store.act = active /\ Store.jb = job
  BY DEF Store
<1>2. Store \in Stores
  BY DEF TasksTrue, TypeOK, Store, Stores
<1>3. Once(Store.ts) /\ Active(Store)
  BY <1>1 DEF TasksTrue, RowsOnce, JobsOK, Once, Active
<1>4. "demoted" \notin slips => Served(Store)
  BY <1>1 DEF TasksTrue, UploadingIsServed, Served
<1> QED
  BY <1>1, <1>2, <1>3, <1>4 DEF StoreOK

(* The store after a step is a store.                                        *)
LEMMA StoreSet ==
  ASSUME NEW r, StoreOK(r), SetStore(r), slips \subseteq slips',
         "demoted" \notin slips' => Served(r)
  PROVE  /\ tasks' \in Seq(Tasks) /\ active' \subseteq Files /\ job' \in [Files -> Jobs]
         /\ RowsOnce' /\ JobsOK' /\ UploadingIsServed'
<1>1. r \in Stores /\ Once(r.ts) /\ Active(r) /\ tasks' = r.ts /\ active' = r.act /\ job' = r.jb
  BY DEF StoreOK, SetStore
<1>2. tasks' \in Seq(Tasks) /\ active' \subseteq Files /\ job' \in [Files -> Jobs]
  BY <1>1 DEF Stores
<1>3. RowsOnce' /\ JobsOK'
  BY <1>1 DEF RowsOnce, JobsOK, Once, Active
<1>4. UploadingIsServed'
  <2>1. CASE "demoted" \in slips'
    BY <2>1 DEF UploadingIsServed
  <2>2. CASE "demoted" \notin slips'
    BY <1>1, <2>2 DEF UploadingIsServed, Served
  <2> QED
    BY <2>1, <2>2
<1> QED
  BY <1>2, <1>3, <1>4

(* Documents stay: a completed one is completed, any other keeps its chunks. *)
DocsStay ==
  \A f \in Files :
    \/ docs'[f].row = "completed"
    \/ docs[f].row # "completed" /\ docs[f].chunks \subseteq docs'[f].chunks

(* What the page has of a file was there before, or is there now.            *)
GotStays ==
  \A i \in DOMAIN tasks' :
    \/ docs'[tasks'[i].f].row = "completed"
    \/ tasks'[i].got \subseteq docs'[tasks'[i].f].chunks
    \/ \E k \in DOMAIN tasks : tasks[k].f = tasks'[i].f /\ tasks'[i].got \subseteq tasks[k].got
MergesAreWhole ==
  \A f \in Files : job'[f].ph = "merging" =>
    job[f].ph = "merging" \/ \E i \in DOMAIN tasks' : tasks'[i].f = f /\ tasks'[i].got = Chunk
AnswersStay ==
  \A l \in lists' : \A r \in l.rows : r.row = "completed" =>
    \/ docs'[r.f].row = "completed"
    \/ \E m \in lists : r \in m.rows

LEMMA GotKept ==
  ASSUME TasksTrue, tasks' \in Seq(Tasks), docs' \in [Files -> Docs], lists' \subseteq Lists,
         slips \subseteq slips', "deleted" \notin slips' => DocsStay /\ GotStays,
         MergesAreWhole, AnswersStay
  PROVE  GotOK' /\ MergeIsWhole'
<1>1. /\ tasks \in Seq(Tasks) /\ docs \in [Files -> Docs] /\ lists \subseteq Lists
      /\ GotOK /\ MergeIsWhole
  BY DEF TasksTrue, TypeOK
<1>2. CASE "deleted" \in slips'
  BY <1>2 DEF GotOK, MergeIsWhole
<1>3. CASE "deleted" \notin slips'
  <2>1. DocsStay /\ GotStays /\ "deleted" \notin slips
    BY <1>3
  <2>2. /\ \A k \in DOMAIN tasks : tasks[k] \in Tasks
        /\ \A i \in DOMAIN tasks' : tasks'[i] \in Tasks
    BY <1>1, SeqIs
  <2>3. ASSUME NEW i \in DOMAIN tasks'
        PROVE  docs'[tasks'[i].f].row = "completed" \/ tasks'[i].got \subseteq docs'[tasks'[i].f].chunks
    <3>1. CASE \E k \in DOMAIN tasks : tasks[k].f = tasks'[i].f /\ tasks'[i].got \subseteq tasks[k].got
      <4>1. PICK k \in DOMAIN tasks : tasks[k].f = tasks'[i].f /\ tasks'[i].got \subseteq tasks[k].got
        BY <3>1
      <4>2. docs[tasks[k].f].row = "completed" \/ tasks[k].got \subseteq docs[tasks[k].f].chunks
        BY <1>1, <2>1 DEF GotOK
      <4>3. tasks[k].f \in Files
        BY <2>2 DEF Tasks
      <4> QED
        BY <2>1, <4>1, <4>2, <4>3 DEF DocsStay
    <3> QED
      BY <2>1, <3>1 DEF GotStays
  <2>4. ASSUME NEW l \in lists', NEW r \in l.rows, r.row = "completed"
        PROVE  docs'[r.f].row = "completed"
    <3>1. CASE \E m \in lists : r \in m.rows
      <4>1. docs[r.f].row = "completed"
        BY <1>1, <2>1, <2>4, <3>1 DEF GotOK
      <4>2. r.f \in Files
        BY <1>1, <3>1 DEF Lists, Rows
      <4> QED
        BY <2>1, <4>1, <4>2 DEF DocsStay
    <3> QED
      BY <2>4, <3>1 DEF AnswersStay
  <2>5. ASSUME NEW f \in Files, job'[f].ph = "merging"
        PROVE  docs'[f].row = "completed" \/ docs'[f].chunks = Chunk
    <3>0. docs'[f].chunks \subseteq Chunk
      BY DEF Docs
    <3>1. CASE job[f].ph = "merging"
      <4>1. docs[f].row = "completed" \/ docs[f].chunks = Chunk
        BY <1>1, <2>1, <3>1 DEF MergeIsWhole
      <4> QED
        BY <2>1, <3>0, <4>1 DEF DocsStay
    <3>2. CASE \E i \in DOMAIN tasks' : tasks'[i].f = f /\ tasks'[i].got = Chunk
      BY <2>3, <3>0, <3>2
    <3> QED
      BY <2>5, <3>1, <3>2 DEF MergesAreWhole
  <2> QED
    BY <2>3, <2>4, <2>5 DEF GotOK, MergeIsWhole
<1> QED
  BY <1>2, <1>3

(* What is shown as completed was, or is stored.                             *)
Undone(s) == s \cap {"stale", "wrongRow", "revived"} # {}
DoneStays ==
  \A i \in DOMAIN tasks' : tasks'[i].st = "Completed" =>
    \/ docs'[tasks'[i].f].row = "completed"
    \/ \E k \in DOMAIN tasks : tasks[k].f = tasks'[i].f /\ tasks[k].st = "Completed"
DeletionsStay ==
  /\ \A f \in Files : docs[f].row = "completed" =>
       docs'[f].row = "completed" \/ \E d \in deleting' : d.f = f /\ d.got = "ok"
  /\ \A d \in deleting : d.got = "ok" => d \in deleting'

LEMMA DoneKept ==
  ASSUME TasksTrue, slips \subseteq slips', ~Undone(slips') => DoneStays, DeletionsStay
  PROVE  CompletedIsStored'
<1>1. CASE Undone(slips')
  BY <1>1 DEF CompletedIsStored, Undone
<1>2. CASE ~Undone(slips')
  <2>1. CompletedIsStored /\ tasks \in Seq(Tasks) /\ ~Undone(slips) /\ DoneStays
    BY <1>2 DEF TasksTrue, TypeOK, Undone
  <2>2. ASSUME NEW i \in DOMAIN tasks', tasks'[i].st = "Completed"
        PROVE  docs'[tasks'[i].f].row = "completed" \/ \E d \in deleting' : d.f = tasks'[i].f /\ d.got = "ok"
    <3>1. CASE \E k \in DOMAIN tasks : tasks[k].f = tasks'[i].f /\ tasks[k].st = "Completed"
      <4>1. PICK k \in DOMAIN tasks : tasks[k].f = tasks'[i].f /\ tasks[k].st = "Completed"
        BY <3>1
      <4>2. tasks[k].f \in Files
        <5>1. tasks[k] \in Tasks
          BY <2>1, SeqIs
        <5> QED
          BY <5>1 DEF Tasks
      <4>3. docs[tasks[k].f].row = "completed" \/ \E d \in deleting : d.f = tasks[k].f /\ d.got = "ok"
        BY <2>1, <4>1 DEF CompletedIsStored, Undone
      <4> QED
        BY <4>1, <4>2, <4>3 DEF DeletionsStay
    <3> QED
      BY <2>1, <2>2, <3>1 DEF DoneStays
  <2> QED
    BY <2>2 DEF CompletedIsStored
<1> QED
  BY <1>1, <1>2

(* What the queue starts from is what the page had: nothing is taken for     *)
(* uploaded or completed that was not, or is not.                            *)
Prepared(s) ==
  /\ \A i \in DOMAIN s.ts : "deleted" \notin slips' =>
       \/ docs'[s.ts[i].f].row = "completed"
       \/ s.ts[i].got \subseteq docs'[s.ts[i].f].chunks
       \/ \E k \in DOMAIN tasks : tasks[k].f = s.ts[i].f /\ s.ts[i].got \subseteq tasks[k].got
  /\ \A i \in DOMAIN s.ts : ~Undone(slips') /\ s.ts[i].st = "Completed" =>
       \/ docs'[s.ts[i].f].row = "completed"
       \/ \E k \in DOMAIN tasks : tasks[k].f = s.ts[i].f /\ tasks[k].st = "Completed"
  /\ \A f \in Files : s.jb[f].ph = "merging" => job[f].ph = "merging"

QueueOK == /\ tasks \in Seq(Tasks) /\ active \subseteq Files /\ job \in [Files -> Jobs]
           /\ RowsOnce /\ JobsOK /\ GotOK
           /\ UploadingIsServed /\ CompletedIsStored /\ MergeIsWhole

LEMMA QueueStep ==
  ASSUME TasksTrue, NEW s, NEW r, NEW done,
         StoreOK(r), SetStore(r), Prepared(s), Follows(s, r, done),
         docs' \in [Files -> Docs], lists' \subseteq Lists, slips \subseteq slips',
         "demoted" \notin slips' => Served(r),
         "deleted" \notin slips' => DocsStay,
         ~Undone(slips') =>
           \A i \in DOMAIN s.ts : s.ts[i].f \in done => docs'[s.ts[i].f].row = "completed",
         AnswersStay, DeletionsStay
  PROVE  QueueOK'
<1>1. /\ tasks' \in Seq(Tasks) /\ active' \subseteq Files /\ job' \in [Files -> Jobs]
      /\ RowsOnce' /\ JobsOK' /\ UploadingIsServed'
  BY StoreSet
<1>2. tasks' = r.ts /\ active' = r.act /\ job' = r.jb
  BY DEF SetStore
<1>3. /\ DOMAIN tasks' = DOMAIN s.ts
      /\ \A i \in DOMAIN s.ts : /\ tasks'[i].f = s.ts[i].f /\ tasks'[i].got = s.ts[i].got
                                /\ tasks'[i].st = "Completed" => s.ts[i].st = "Completed" \/ s.ts[i].f \in done
      /\ \A f \in Files : job'[f].ph = "merging" =>
           \/ s.jb[f].ph = "merging"
           \/ \E i \in DOMAIN s.ts : s.ts[i].f = f /\ s.ts[i].got = Chunk
  BY <1>2 DEF Follows
<1>4. "deleted" \notin slips' => GotStays
  BY <1>3 DEF GotStays, Prepared
<1>5. MergesAreWhole
  BY <1>3 DEF MergesAreWhole, Prepared
<1>6. ~Undone(slips') => DoneStays
  BY <1>3 DEF DoneStays, Prepared
<1>7. GotOK' /\ MergeIsWhole'
  BY <1>1, <1>4, <1>5, GotKept
<1>8. CompletedIsStored'
  BY <1>6, DoneKept
<1> QED
  BY <1>1, <1>7, <1>8 DEF QueueOK

(* The documents, the answers and the deletions that a step leaves alone.    *)
LEMMA Stays ==
  /\ docs' = docs => DocsStay
  /\ docs' = docs /\ deleting \subseteq deleting' => DeletionsStay
  /\ (\A l \in lists' : l \in lists \/ l.rows = {}) => AnswersStay
<1>1. docs' = docs => DocsStay
  BY DEF DocsStay
<1>2. docs' = docs /\ deleting \subseteq deleting' => DeletionsStay
  BY DEF DeletionsStay
<1>3. (\A l \in lists' : l \in lists \/ l.rows = {}) => AnswersStay
  BY DEF AnswersStay
<1> QED
  BY <1>1, <1>2, <1>3

(* The queue as it is, with the documents and the deletions as they are.     *)
LEMMA QueueStays ==
  ASSUME TasksTrue, UNCHANGED <<tasks, active, job>>, docs' \in [Files -> Docs], lists' \subseteq Lists,
         slips \subseteq slips', "deleted" \notin slips' => DocsStay, AnswersStay, DeletionsStay
  PROVE  QueueOK'
<1>1. /\ StoreOK(Store) /\ Store.ts = tasks /\ Store.act = active /\ Store.jb = job
      /\ "demoted" \notin slips => Served(Store)
  BY StoreIs
<1>2. SetStore(Store)
  BY <1>1 DEF SetStore
<1>3. Prepared(Store)
  BY <1>1 DEF Prepared
<1>4. Follows(Store, Store, {})
  BY DEF Follows
<1> QED
  BY <1>1, <1>2, <1>3, <1>4, QueueStep

LEMMA TimerIs ==
  ASSUME timer \in BOOLEAN
  PROVE  \A ts, m : Watch(ts, m, timer) \in BOOLEAN /\ Polling(ts) \in BOOLEAN
BY DEF Watch, Polling

LEMMA Together == TypeOK' /\ QueueOK' => TasksTrue'
BY DEF TasksTrue, QueueOK

LEMMA TypesAre ==
  ASSUME TasksTrue
  PROVE  /\ tasks \in Seq(Tasks) /\ active \subseteq Files /\ job \in [Files -> Jobs]
         /\ hashing \in Files \cup {None} /\ resuming \subseteq Files /\ deleting \subseteq Deletions
         /\ lists \subseteq Lists /\ shown \subseteq Files /\ page \in Pages
         /\ mounted \in BOOLEAN /\ timer \in BOOLEAN /\ orphans \in BOOLEAN
         /\ docs \in [Files -> Docs]
         /\ acts \in 0..MaxActs /\ fails \in 0..MaxFails /\ slips \subseteq Slips
BY DEF TasksTrue, TypeOK

LEMMA ListIs ==
  ASSUME NEW p \in Pages, NEW by \in {"list", "poll", "data"}, NEW old \in BOOLEAN
  PROVE  List(p, by, old) \in Lists /\ List(p, by, old).rows = {}
BY DEF List, Lists

LEMMA ActTyped ==
  ASSUME acts \in 0..MaxActs, fails \in 0..MaxFails
  PROVE  (Act => acts' \in 0..MaxActs) /\ (Fail => fails' \in 0..MaxFails)
BY KnowledgeBaseAssumption DEF Act, Fail

LEMMA SubmitKeeps ==
  ASSUME TasksTrue, NEW f \in Files, Submit(f)
  PROVE  TasksTrue'
<1>1. QueueOK'
  <2>1. /\ UNCHANGED <<tasks, active, job>> /\ docs' = docs /\ lists' = lists /\ slips' = slips
        /\ deleting' = deleting
    BY DEF Submit, store, table
  <2> QED
    BY <2>1, TypesAre, Stays, QueueStays
<1>2. TypeOK'
  BY TypesAre, ActTyped, <1>1 DEF Submit, store, table, TypeOK
<1> QED
  BY <1>1, <1>2, Together

(* The table asks, the server reads, the answer fails.                       *)
LEMMA AsksKeep ==
  ASSUME TasksTrue, \/ Refresh \/ Poll \/ OrphanPoll \/ Mount
                    \/ \E p \in Pages : ChangePage(p)
  PROVE  TasksTrue'
<1>1. /\ UNCHANGED <<tasks, active, job>> /\ docs' = docs /\ slips' = slips /\ deleting' = deleting
  BY DEF Refresh, Poll, OrphanPoll, Mount, ChangePage, store
<1>2. \E p \in Pages, by \in {"list", "poll", "data"}, old \in BOOLEAN : lists' = lists \cup {List(p, by, old)}
  <2>1. page \in Pages /\ 1 \in Pages
    BY TypesAre DEF Pages
  <2> QED
    BY <2>1 DEF Refresh, Poll, OrphanPoll, Mount, ChangePage, Ask
<1>3. lists' \subseteq Lists /\ \A l \in lists' : l \in lists \/ l.rows = {}
  <2>1. PICK p \in Pages, by \in {"list", "poll", "data"}, old \in BOOLEAN : lists' = lists \cup {List(p, by, old)}
    BY <1>2
  <2>2. List(p, by, old) \in Lists /\ List(p, by, old).rows = {}
    BY ListIs
  <2> QED
    BY <2>1, <2>2, TypesAre
<1>4. QueueOK'
  BY <1>1, <1>3, TypesAre, Stays, QueueStays
<1>5. timer' \in BOOLEAN /\ orphans' \in BOOLEAN /\ mounted' \in BOOLEAN
  BY TypesAre, TimerIs DEF Refresh, Poll, OrphanPoll, Mount, ChangePage
<1>6. page' \in Pages /\ hashing' = hashing /\ resuming' = resuming /\ shown' = shown /\ fails' = fails
      /\ acts' \in 0..MaxActs
  BY TypesAre, ActTyped DEF Refresh, Poll, OrphanPoll, Mount, ChangePage
<1>7. TypeOK'
  BY <1>1, <1>3, <1>5, <1>6, TypesAre DEF TypeOK
<1> QED
  BY <1>4, <1>7, Together

LEMMA UnmountKeeps == TasksTrue /\ Unmount => TasksTrue'
<1> SUFFICES ASSUME TasksTrue, Unmount PROVE TasksTrue'
  OBVIOUS
<1>1. /\ UNCHANGED <<tasks, active, job>> /\ docs' = docs /\ slips' = slips /\ deleting' = deleting
  BY DEF Unmount, store
<1>2. lists' \subseteq Lists /\ \A l \in lists' : \E m \in lists : l.rows = m.rows
  <2>1. \A l \in Lists : [l EXCEPT !.old = TRUE] \in Lists /\ [l EXCEPT !.old = TRUE].rows = l.rows
    BY DEF Lists
  <2>2. lists' = {[l EXCEPT !.old = TRUE] : l \in lists} /\ lists \subseteq Lists
    BY TypesAre DEF Unmount
  <2> SUFFICES ASSUME NEW l \in lists'
               PROVE  l \in Lists /\ \E m \in lists : l.rows = m.rows
    BY Zenon
  <2>3. PICK m \in lists : l = [m EXCEPT !.old = TRUE]
    BY <2>2, Zenon
  <2>4. m \in Lists
    BY <2>2
  <2> QED
    BY <2>1, <2>3, <2>4, Zenon
<1>3. AnswersStay
  BY <1>2 DEF AnswersStay
<1>4. QueueOK'
  BY <1>1, <1>2, <1>3, TypesAre, Stays, QueueStays
<1>5. TypeOK'
  <2>1. 1 \in Pages
    BY DEF Pages
  <2>2. /\ mounted' = FALSE /\ timer' = FALSE /\ shown' = {} /\ page' = 1 /\ acts' \in 0..MaxActs
        /\ hashing' = hashing /\ resuming' = resuming /\ orphans' = orphans /\ fails' = fails
    BY TypesAre, ActTyped DEF Unmount
  <2> QED
    BY <1>1, <1>2, <2>1, <2>2, TypesAre DEF TypeOK
<1> QED
  BY <1>4, <1>5, Together

(* The rows of an answer are the documents there are.                        *)
LEMMA PageOfIs ==
  ASSUME TasksTrue, NEW p \in Pages
  PROVE  PageOf(p) \subseteq Rows /\ \A r \in PageOf(p) : r.row = docs[r.f].row
<1> DEFINE found == {i \in DOMAIN File : docs[File[i]].row # "none"}
           R(i) == [f |-> File[i], row |-> docs[File[i]].row, vec |-> docs[File[i]].vec]
<1>1. \A i \in found : R(i) \in Rows /\ R(i).row = docs[R(i).f].row
  <2>1. \A i \in DOMAIN File : File[i] \in Files /\ docs[File[i]] \in Docs
    BY TypesAre, FilesFinite, SeqIs
  <2>2. \A d \in Docs : d.row \in {"none", "uploading", "completed"} /\ d.vec \in Vec
    BY DEF Docs
  <2> QED
    BY <2>1, <2>2 DEF Rows
<1>2. \A r \in PageOf(p) : \E i \in found : r = R(i)
  BY DEF PageOf
<1> QED
  BY <1>1, <1>2

LEMMA ServeListKeeps ==
  ASSUME TasksTrue, NEW l \in lists, ServeList(l)
  PROVE  TasksTrue'
<1>1. /\ UNCHANGED <<tasks, active, job>> /\ docs' = docs /\ slips' = slips /\ deleting' = deleting
      /\ lists' = (lists \ {l}) \cup {[l EXCEPT !.served = TRUE, !.rows = PageOf(l.p)]}
  BY DEF ServeList, store
<1>2. l \in Lists /\ l.p \in Pages
  <2>1. l \in Lists
    BY TypesAre
  <2> QED
    BY <2>1 DEF Lists
<1>3. PageOf(l.p) \in SUBSET Rows /\ \A r \in PageOf(l.p) : r.row = docs[r.f].row
  BY <1>2, PageOfIs
<1>4. PICK m \in Lists : m = [l EXCEPT !.served = TRUE, !.rows = PageOf(l.p)] /\ m.rows = PageOf(l.p)
  <2>1. \A rows \in SUBSET Rows : /\ [l EXCEPT !.served = TRUE, !.rows = rows] \in Lists
                                  /\ [l EXCEPT !.served = TRUE, !.rows = rows].rows = rows
    BY <1>2 DEF Lists
  <2> QED
    BY <1>3, <2>1
<1>5. lists' \subseteq Lists /\ \A k \in lists' : k \in lists \/ k = m
  BY <1>1, <1>4, TypesAre
<1>6. AnswersStay
  <2>1. ASSUME NEW k \in lists', NEW r \in k.rows, r.row = "completed"
        PROVE  docs'[r.f].row = "completed" \/ \E n \in lists : r \in n.rows
    <3>1. CASE k \in lists
      BY <3>1
    <3>2. CASE k = m
      BY <1>1, <1>3, <1>4, <2>1, <3>2
    <3> QED
      BY <1>5, <3>1, <3>2
  <2> QED
    BY <2>1 DEF AnswersStay
<1>7. QueueOK'
  BY <1>1, <1>5, <1>6, TypesAre, Stays, QueueStays
<1>8. TypeOK'
  BY <1>1, <1>5, TypesAre DEF ServeList, TypeOK
<1> QED
  BY <1>7, <1>8, Together

LEMMA ListFailedKeeps ==
  ASSUME TasksTrue, NEW l \in lists, ListFailed(l)
  PROVE  TasksTrue'
<1>1. /\ UNCHANGED <<tasks, active, job>> /\ docs' = docs /\ slips' = slips /\ deleting' = deleting
      /\ lists' = lists \ {l}
  BY DEF ListFailed, store
<1>2. QueueOK'
  BY <1>1, TypesAre, Stays, QueueStays
<1>3. timer' \in BOOLEAN /\ orphans' \in BOOLEAN
  BY TypesAre, TimerIs DEF ListFailed, Rescheduled
<1>4. shown' \subseteq Files /\ fails' \in 0..MaxFails
  BY TypesAre, ActTyped DEF ListFailed
<1>5. TypeOK'
  BY <1>1, <1>3, <1>4, TypesAre DEF ListFailed, TypeOK
<1> QED
  BY <1>2, <1>5, Together

(* The upload status of a row is asked for, and the answer fails.            *)
LEMMA ResumingKeeps ==
  ASSUME TasksTrue, NEW f \in Files, onBeforeUpload(f) \/ ResumeFailed(f)
  PROVE  TasksTrue'
<1>1. /\ UNCHANGED <<tasks, active, job>> /\ docs' = docs /\ slips' = slips /\ deleting' = deleting
      /\ lists' = lists
  BY DEF onBeforeUpload, ResumeFailed, store, table
<1>2. QueueOK'
  BY <1>1, TypesAre, Stays, QueueStays
<1>3. /\ resuming' \subseteq Files /\ acts' \in 0..MaxActs /\ fails' \in 0..MaxFails /\ hashing' = hashing
      /\ UNCHANGED <<shown, page, mounted, timer, orphans>>
  BY TypesAre, ActTyped DEF onBeforeUpload, ResumeFailed, table
<1>4. TypeOK'
  BY <1>1, <1>3, TypesAre DEF TypeOK
<1> QED
  BY <1>2, <1>4, Together

-----------------------------------------------------------------------------
(* The server.                                                               *)
LEMMA ServeDeleteKeeps ==
  ASSUME TasksTrue, NEW d \in deleting, ServeDelete(d)
  PROVE  TasksTrue'
<1>1. /\ UNCHANGED <<tasks, active, job>> /\ lists' = lists /\ d.got = "no" /\ d \in Deletions
      /\ UNCHANGED <<hashing, resuming, shown, page, mounted, timer, orphans, acts>>
  BY TypesAre DEF ServeDelete, store, table
<1>2. CASE /\ docs' = [docs EXCEPT ![d.f] = NoDoc]
           /\ deleting' = (deleting \ {d}) \cup {[d EXCEPT !.got = "ok"]}
           /\ slips' = slips \cup {"deleted"}
           /\ UNCHANGED fails
  <2>1. PICK e \in Deletions : e = [d EXCEPT !.got = "ok"] /\ e.f = d.f /\ e.got = "ok" /\ d.f \in Files
    <3>1. \A c \in Deletions : /\ [c EXCEPT !.got = "ok"] \in Deletions /\ [c EXCEPT !.got = "ok"].f = c.f
                               /\ [c EXCEPT !.got = "ok"].got = "ok" /\ c.f \in Files
      BY DEF Deletions
    <3> QED
      BY <1>1, <3>1
  <2>2. docs' \in [Files -> Docs]
    <3>1. NoDoc \in Docs
      BY DEF NoDoc, Docs, Vec
    <3> QED
      BY <1>2, <3>1, TypesAre
  <2>3. "deleted" \in slips' /\ slips \subseteq slips' /\ slips' \subseteq Slips
    BY <1>2, TypesAre DEF Slips
  <2>4. DeletionsStay
    <3>1. \A f \in Files : f # d.f => docs'[f] = docs[f]
      BY <1>2, TypesAre
    <3>2. e \in deleting' /\ \A c \in deleting : c.got = "ok" => c \in deleting'
      BY <1>1, <1>2, <2>1
    <3> QED
      BY <2>1, <3>1, <3>2 DEF DeletionsStay
  <2>5. QueueOK'
    BY <1>1, <2>2, <2>3, <2>4, TypesAre, Stays, QueueStays
  <2>6. deleting' \subseteq Deletions
    BY <1>2, <2>1, TypesAre
  <2>7. TypeOK'
    BY <1>1, <1>2, <2>2, <2>3, <2>6, TypesAre DEF TypeOK
  <2> QED
    BY <2>5, <2>7, Together
<1>3. CASE /\ IF docs[d.f].row = "none" THEN UNCHANGED fails ELSE Fail
           /\ deleting' = deleting \ {d}
           /\ UNCHANGED <<docs, slips>>
  <2>1. DeletionsStay
    BY <1>1, <1>3 DEF DeletionsStay
  <2>2. QueueOK'
    BY <1>1, <1>3, <2>1, TypesAre, Stays, QueueStays
  <2>3. fails' \in 0..MaxFails
    BY <1>3, TypesAre, ActTyped
  <2>4. TypeOK'
    BY <1>1, <1>3, <2>3, TypesAre DEF TypeOK
  <2> QED
    BY <2>2, <2>4, Together
<1> QED
  BY <1>2, <1>3 DEF ServeDelete

LEMMA VectorizedKeeps ==
  ASSUME TasksTrue, NEW f \in Files, Vectorized(f)
  PROVE  TasksTrue'
<1>1. /\ UNCHANGED <<tasks, active, job>> /\ lists' = lists /\ deleting' = deleting /\ slips' = slips
      /\ docs' = [docs EXCEPT ![f].vec = "FINISHED"]
  BY DEF Vectorized, store, table
<1>2. /\ docs' \in [Files -> Docs]
      /\ \A g \in Files : docs'[g].row = docs[g].row /\ docs'[g].chunks = docs[g].chunks
  <2>1. \A e \in Docs : /\ [e EXCEPT !.vec = "FINISHED"] \in Docs
                        /\ [e EXCEPT !.vec = "FINISHED"].row = e.row
                        /\ [e EXCEPT !.vec = "FINISHED"].chunks = e.chunks
    BY DEF Docs, Vec
  <2> QED
    BY <1>1, <2>1, TypesAre
<1>3. DocsStay /\ DeletionsStay
  BY <1>1, <1>2 DEF DocsStay, DeletionsStay
<1>4. QueueOK'
  BY <1>1, <1>2, <1>3, TypesAre, Stays, QueueStays
<1>5. TypeOK'
  BY <1>1, <1>2, TypesAre DEF Vectorized, table, TypeOK
<1> QED
  BY <1>4, <1>5, Together

LEMMA ServeMergeKeeps ==
  ASSUME TasksTrue, NEW f \in Files, ServeMerge(f)
  PROVE  TasksTrue'
<1>1. /\ UNCHANGED <<tasks, active>> /\ lists' = lists /\ deleting' = deleting /\ slips' = slips
      /\ UNCHANGED <<hashing, resuming, shown, page, mounted, timer, orphans, acts>>
      /\ fails' \in 0..MaxFails
  BY TypesAre, ActTyped DEF ServeMerge, table
<1>2. PICK ph \in {"merged", "refused"} : job' = [job EXCEPT ![f].ph = ph]
  BY DEF ServeMerge
<1>3. /\ docs' \in [Files -> Docs]
      /\ \A g \in Files : \/ docs'[g] = docs[g]
                          \/ docs'[g].row = "completed"
  <2>1. PICK e \in Docs : e = [row |-> "completed", chunks |-> {}, vec |-> "PROCESSING"] /\ e.row = "completed"
    <3>1. [row |-> "completed", chunks |-> {}, vec |-> "PROCESSING"] \in Docs
      BY DEF Docs, Vec
    <3> QED
      BY <3>1
  <2>2. docs' = docs \/ docs' = [docs EXCEPT ![f] = e]
    BY <2>1 DEF ServeMerge
  <2>3. CASE docs' = docs
    BY <2>3, TypesAre
  <2>4. CASE docs' = [docs EXCEPT ![f] = e]
    <3>1. docs \in [Files -> Docs]
      BY TypesAre
    <3>2. docs' \in [Files -> Docs] /\ docs'[f] = e /\ \A g \in Files : g # f => docs'[g] = docs[g]
      BY <2>4, <3>1
    <3> QED
      BY <2>1, <3>2
  <2> QED
    BY <2>2, <2>3, <2>4
<1>4. DocsStay /\ DeletionsStay
  BY <1>1, <1>3 DEF DocsStay, DeletionsStay
<1>5. /\ StoreOK(Store) /\ Store \in Stores /\ Store.ts = tasks /\ Store.act = active /\ Store.jb = job
      /\ "demoted" \notin slips => Served(Store)
  BY StoreIs
<1>6. PICK j \in Jobs : j = [job[f] EXCEPT !.ph = ph] /\ j.ph = ph /\ j.work = job[f].work
  <2>1. job[f] \in Jobs
    BY TypesAre
  <2>2. \A i \in Jobs : /\ [i EXCEPT !.ph = ph] \in Jobs /\ [i EXCEPT !.ph = ph].ph = ph
                        /\ [i EXCEPT !.ph = ph].work = i.work
    BY DEF Jobs
  <2> QED
    BY <2>1, <2>2
<1>7. PICK r : r = [ts |-> tasks, act |-> active, jb |-> [job EXCEPT ![f] = j]]
  OBVIOUS
<1>8. r \in Stores /\ r.ts = tasks /\ r.act = active /\ r.jb = [job EXCEPT ![f] = j]
  BY <1>7, TypesAre DEF Stores
<1>9. SetStore(r)
  <2>1. job' = [job EXCEPT ![f] = j]
    BY <1>2, <1>6
  <2> QED
    BY <1>1, <1>8, <2>1 DEF SetStore
<1>10. StoreOK(r)
  <2>1. job[f].ph # "none" /\ j.ph # "none"
    BY <1>6 DEF ServeMerge
  <2>2. Once(Store.ts) /\ Active(Store)
    BY <1>5 DEF StoreOK
  <2>3. Active(r)
    BY <1>5, <1>6, <1>8, <2>1, <2>2, TypesAre DEF Active
  <2> QED
    BY <1>5, <1>8, <2>2, <2>3 DEF StoreOK
<1>11. "demoted" \notin slips => Served(r)
  BY <1>5, <1>8 DEF Served
<1>12. Prepared(r)
  BY <1>6, <1>8, TypesAre DEF Prepared
<1>13. Follows(r, r, {})
  BY DEF Follows
<1>14. QueueOK'
  BY <1>1, <1>3, <1>4, <1>9, <1>10, <1>11, <1>12, <1>13, TypesAre, Stays, QueueStep
<1>15. TypeOK'
  BY <1>1, <1>3, <1>14, TypesAre DEF QueueOK, TypeOK
<1> QED
  BY <1>14, <1>15, Together

-----------------------------------------------------------------------------
(* Rows that are queued                                                      *)

(* A row is put back into the queue, and the queue goes on.                  *)
LEMMA Requeued ==
  ASSUME TasksTrue, NEW f \in Files, NEW r,
         r = startUpload([Store EXCEPT !.ts = Set(tasks, f, "Pending")]),
         SetStore(r), docs' = docs, slips' = slips, deleting' = deleting, lists' = lists
  PROVE  QueueOK'
<1>1. /\ StoreOK(Store) /\ Store \in Stores /\ Store.ts = tasks /\ Store.act = active /\ Store.jb = job
      /\ "demoted" \notin slips => Served(Store)
  BY StoreIs
<1>2. PICK s : s = [Store EXCEPT !.ts = Set(tasks, f, "Pending")]
  OBVIOUS
<1>3. /\ Set(tasks, f, "Pending") \in Seq(Tasks) /\ DOMAIN Set(tasks, f, "Pending") = DOMAIN tasks
      /\ \A i \in DOMAIN tasks :
           /\ Set(tasks, f, "Pending")[i].f = tasks[i].f
           /\ Set(tasks, f, "Pending")[i].got = tasks[i].got
           /\ Set(tasks, f, "Pending")[i].file = tasks[i].file
           /\ Set(tasks, f, "Pending")[i].st = IF tasks[i].f = f THEN "Pending" ELSE tasks[i].st
  <2>1. "Pending" \in Status
    BY DEF Status
  <2> QED
    BY <2>1, TypesAre, StatusPut
<1>4. s \in Stores /\ s.ts = Set(tasks, f, "Pending") /\ s.act = active /\ s.jb = job
  BY <1>1, <1>2, <1>3 DEF Stores
<1>5. Once(s.ts) /\ Active(s)
  <2>1. Once(tasks) /\ Active(Store)
    BY <1>1 DEF StoreOK
  <2>2. Once(s.ts)
    BY <1>1, <1>3, <1>4, <2>1 DEF Once
  <2>3. Active(s)
    BY <1>1, <1>3, <1>4, <2>1 DEF Active
  <2> QED
    BY <2>2, <2>3
<1>6. "demoted" \notin slips => Served(s)
  BY <1>1, <1>3, <1>4 DEF Served
<1>7. Prepared(s)
  BY <1>3, <1>4 DEF Prepared
<1>8. /\ StoreOK(r) /\ Follows(s, r, {}) /\ (Served(s) => Served(r))
  BY <1>2, <1>4, <1>5, StartIs DEF StoreOK
<1> QED
  BY <1>6, <1>7, <1>8, TypesAre, Stays, QueueStep

LEMMA ResumeKeeps ==
  ASSUME TasksTrue, NEW f \in Files, resumeUpload(f)
  PROVE  TasksTrue'
<1>1. /\ docs' = docs /\ slips' = slips /\ deleting' = deleting /\ lists' = lists
      /\ SetStore(startUpload([Store EXCEPT !.ts = Set(tasks, f, "Pending")]))
  BY DEF resumeUpload, table
<1>2. QueueOK'
  BY <1>1, Requeued
<1>3. TypeOK'
  BY <1>1, <1>2, TypesAre, ActTyped DEF resumeUpload, table, QueueOK, TypeOK
<1> QED
  BY <1>2, <1>3, Together

(* A new row comes last.                                                     *)
LEMMA Enqueued ==
  ASSUME TasksTrue, NEW f \in Files, ~Has(tasks, f), NEW r,
         r = startUpload([Store EXCEPT !.ts = Append(tasks, NewTask(f))]),
         SetStore(r), docs' = docs, slips' = slips, deleting' = deleting, lists' = lists
  PROVE  QueueOK'
<1>1. /\ StoreOK(Store) /\ Store \in Stores /\ Store.ts = tasks /\ Store.act = active /\ Store.jb = job
      /\ "demoted" \notin slips => Served(Store)
  BY StoreIs
<1>2. PICK s : s = [Store EXCEPT !.ts = Append(tasks, NewTask(f))]
  OBVIOUS
<1>3. PICK t \in Tasks : /\ t = NewTask(f) /\ t.f = f /\ t.got = {} /\ t.st = "Pending"
  <2>1. NewTask(f) \in Tasks
    BY DEF NewTask, Tasks, Status, Vec
  <2> QED
    BY <2>1 DEF NewTask
<1>4. /\ Append(tasks, t) \in Seq(Tasks)
      /\ \A i \in DOMAIN Append(tasks, t) : \/ i \in DOMAIN tasks /\ Append(tasks, t)[i] = tasks[i]
                                            \/ i = Len(tasks) + 1 /\ Append(tasks, t)[i] = t
  <2>1. Append(tasks, t) \in Seq(Tasks) /\ Len(Append(tasks, t)) = Len(tasks) + 1
        /\ Append(tasks, t)[Len(tasks) + 1] = t
        /\ \A k \in 1..Len(tasks) : Append(tasks, t)[k] = tasks[k]
    BY TypesAre, AppendProperties
  <2>2. DOMAIN Append(tasks, t) = 1..(Len(tasks) + 1) /\ DOMAIN tasks = 1..Len(tasks) /\ Len(tasks) \in Nat
    BY <2>1, TypesAre, SeqIs
  <2> QED
    BY <2>1, <2>2
<1>5. s \in Stores /\ s.ts = Append(tasks, t) /\ s.act = active /\ s.jb = job
  BY <1>1, <1>2, <1>3, <1>4 DEF Stores
<1>6. \A i \in DOMAIN tasks : tasks[i].f # f
  BY DEF Has, Find
<1>7. Once(s.ts)
  BY <1>1, <1>3, <1>4, <1>5, <1>6 DEF StoreOK, Once
<1>8. Active(s)
  BY <1>1, <1>5 DEF StoreOK, Active
<1>9. "demoted" \notin slips => Served(s)
  BY <1>1, <1>3, <1>4, <1>5 DEF Served
<1>10. Prepared(s)
  BY <1>3, <1>4, <1>5 DEF Prepared
<1>11. /\ StoreOK(r) /\ Follows(s, r, {}) /\ (Served(s) => Served(r))
  BY <1>2, <1>5, <1>7, <1>8, StartIs DEF StoreOK
<1> QED
  BY <1>9, <1>10, <1>11, TypesAre, Stays, QueueStep

LEMMA EnqueueKeeps == TasksTrue /\ enqueueUpload => TasksTrue'
<1> SUFFICES ASSUME TasksTrue, enqueueUpload PROVE TasksTrue'
  OBVIOUS
<1>1. /\ docs' = docs /\ slips' = slips /\ deleting' = deleting /\ lists' = lists /\ hashing \in Files
  BY TypesAre DEF enqueueUpload
<1>2. QueueOK'
  <2>1. CASE Has(tasks, hashing) /\ Row(tasks, hashing).st = "Break"
    <3>1. SetStore(startUpload([Store EXCEPT !.ts = Set(tasks, hashing, "Pending")]))
      BY <2>1 DEF enqueueUpload
    <3> QED
      BY <1>1, <3>1, Requeued
  <2>2. CASE Has(tasks, hashing) /\ Row(tasks, hashing).st # "Break"
    <3>1. UNCHANGED <<tasks, active, job>>
      BY <2>2 DEF enqueueUpload, store
    <3> QED
      BY <1>1, <3>1, TypesAre, Stays, QueueStays
  <2>3. CASE ~Has(tasks, hashing)
    <3>1. SetStore(startUpload([Store EXCEPT !.ts = Append(tasks, NewTask(hashing))]))
      BY <2>3 DEF enqueueUpload
    <3> QED
      BY <1>1, <2>3, <3>1, Enqueued
  <2> QED
    BY <2>1, <2>2, <2>3
<1>3. TypeOK'
  <2>1. timer' \in BOOLEAN
    BY TypesAre, TimerIs DEF enqueueUpload, Same
  <2> QED
    BY <1>1, <1>2, <2>1, TypesAre DEF enqueueUpload, QueueOK, TypeOK
<1> QED
  BY <1>2, <1>3, Together

LEMMA QueuedRow ==
  ASSUME NEW t \in Tasks, NEW got \in SUBSET Chunk
  PROVE  \E u \in Tasks : /\ u = [t EXCEPT !.file = TRUE, !.st = "Pending", !.got = got]
                          /\ u.f = t.f /\ u.st = "Pending" /\ u.got = got
<1>1. /\ [t EXCEPT !.file = TRUE, !.st = "Pending", !.got = got] \in Tasks
      /\ [t EXCEPT !.file = TRUE, !.st = "Pending", !.got = got].f = t.f
      /\ [t EXCEPT !.file = TRUE, !.st = "Pending", !.got = got].st = "Pending"
      /\ [t EXCEPT !.file = TRUE, !.st = "Pending", !.got = got].got = got
  BY DEF Tasks, Status
<1> QED
  BY <1>1

(* The rows whose upload status was asked for are queued with what the       *)
(* server has.                                                               *)
LEMMA AnsweredKeeps ==
  ASSUME TasksTrue, NEW f \in Files, ResumeAnswered(f)
  PROVE  TasksTrue'
<1> DEFINE ts == [k \in DOMAIN tasks |->
                    IF k \in Find(tasks, f)
                    THEN [tasks[k] EXCEPT !.file = TRUE, !.st = "Pending", !.got = docs[f].chunks]
                    ELSE tasks[k]]
<1>1. /\ StoreOK(Store) /\ Store \in Stores /\ Store.ts = tasks /\ Store.act = active /\ Store.jb = job
      /\ "demoted" \notin slips => Served(Store)
  BY StoreIs
<1>2. /\ docs' = docs /\ slips' = slips /\ deleting' = deleting /\ lists' = lists
      /\ SetStore(startUpload([Store EXCEPT !.ts = ts]))
  BY DEF ResumeAnswered, table
<1>3. /\ ts \in Seq(Tasks) /\ DOMAIN ts = DOMAIN tasks
      /\ \A k \in DOMAIN tasks :
           /\ ts[k].f = tasks[k].f
           /\ \/ ts[k] = tasks[k]
              \/ tasks[k].f = f /\ ts[k].st = "Pending" /\ ts[k].got = docs[f].chunks
  <2>1. DOMAIN tasks = 1..Len(tasks) /\ Len(tasks) \in Nat /\ \A k \in DOMAIN tasks : tasks[k] \in Tasks
    BY TypesAre, SeqIs
  <2>2. docs[f].chunks \in SUBSET Chunk
    <3>1. docs[f] \in Docs
      BY TypesAre
    <3> QED
      BY <3>1 DEF Docs
  <2>3. \A k \in DOMAIN tasks :
          /\ ts[k] \in Tasks /\ ts[k].f = tasks[k].f
          /\ \/ ts[k] = tasks[k]
             \/ tasks[k].f = f /\ ts[k].st = "Pending" /\ ts[k].got = docs[f].chunks
    <3> SUFFICES ASSUME NEW k \in DOMAIN tasks
                 PROVE  /\ ts[k] \in Tasks /\ ts[k].f = tasks[k].f
                        /\ \/ ts[k] = tasks[k]
                           \/ tasks[k].f = f /\ ts[k].st = "Pending" /\ ts[k].got = docs[f].chunks
      OBVIOUS
    <3>1. CASE k \in Find(tasks, f)
      <4>1. ts[k] = [tasks[k] EXCEPT !.file = TRUE, !.st = "Pending", !.got = docs[f].chunks]
        BY <3>1
      <4>2. tasks[k].f = f
        BY <3>1 DEF Find
      <4>3. PICK got \in SUBSET Chunk : got = docs[f].chunks
        BY <2>2
      <4>4. PICK t \in Tasks : t = tasks[k]
        BY <2>1
      <4>5. PICK u \in Tasks : /\ u = [t EXCEPT !.file = TRUE, !.st = "Pending", !.got = got]
                               /\ u.f = t.f /\ u.st = "Pending" /\ u.got = got
        BY QueuedRow
      <4> HIDE DEF ts
      <4> QED
        BY <4>1, <4>2, <4>3, <4>4, <4>5
    <3>2. CASE k \notin Find(tasks, f)
      BY <2>1, <3>2
    <3> QED
      BY <3>1, <3>2
  <2>4. ts \in [1..Len(tasks) -> Tasks]
    <3> DOMAIN ts = DOMAIN tasks
      OBVIOUS
    <3> QED
      BY <2>1, <2>3
  <2> QED
    BY <2>1, <2>3, <2>4, SeqDef
<1> HIDE DEF ts
<1>4. PICK s : s = [Store EXCEPT !.ts = ts]
  OBVIOUS
<1>5. s \in Stores /\ s.ts = ts /\ s.act = active /\ s.jb = job
  BY <1>1, <1>3, <1>4 DEF Stores
<1>6. Once(s.ts) /\ Active(s)
  <2>1. Once(tasks) /\ Active(Store)
    BY <1>1 DEF StoreOK
  <2>2. Once(s.ts)
    BY <1>1, <1>3, <1>5, <2>1 DEF Once
  <2>3. Active(s)
    BY <1>1, <1>3, <1>5, <2>1 DEF Active
  <2> QED
    BY <2>2, <2>3
<1>7. "demoted" \notin slips => Served(s)
  BY <1>1, <1>3, <1>5 DEF Served
<1>8. Prepared(s)
  BY <1>2, <1>3, <1>5 DEF Prepared
<1>9. PICK r : r = startUpload(s)
  OBVIOUS
<1>10. SetStore(r) /\ StoreOK(r) /\ Follows(s, r, {}) /\ (Served(s) => Served(r))
  BY <1>2, <1>4, <1>5, <1>6, <1>9, StartIs DEF StoreOK
<1>11. QueueOK'
  BY <1>2, <1>7, <1>8, <1>10, TypesAre, Stays, QueueStep
<1>12. TypeOK'
  BY <1>2, <1>11, TypesAre DEF ResumeAnswered, table, QueueOK, TypeOK
<1> QED
  BY <1>11, <1>12, Together

-----------------------------------------------------------------------------
(* The upload of a file                                                      *)

(* A chunk is on the server: its document has it, or is completed.           *)
LEMMA StoredIs ==
  ASSUME NEW d \in Docs, NEW c \in SUBSET Chunk
  PROVE  /\ Stored(d, c) \in Docs
         /\ d.chunks \subseteq Stored(d, c).chunks
         /\ d.row = "completed" => Stored(d, c).row = "completed"
         /\ Stored(d, c).row = "completed" => d.row = "completed"
<1>1. \A e \in Docs, cs \in SUBSET Chunk :
        /\ [e EXCEPT !.row = "uploading", !.chunks = cs] \in Docs
        /\ [e EXCEPT !.row = "uploading", !.chunks = cs].row = "uploading"
        /\ [e EXCEPT !.row = "uploading", !.chunks = cs].chunks = cs
  BY DEF Docs
<1>2. CASE d.row = "completed"
  BY <1>2 DEF Stored
<1>3. CASE d.row # "completed"
  <2>1. d.chunks \cup c \in SUBSET Chunk
    BY DEF Docs
  <2>2. Stored(d, c) = [d EXCEPT !.row = "uploading", !.chunks = d.chunks \cup c]
    BY <1>3 DEF Stored
  <2>3. PICK cs \in SUBSET Chunk : cs = d.chunks \cup c
    BY <2>1
  <2>4. PICK e \in Docs : e = [d EXCEPT !.row = "uploading", !.chunks = cs] /\ e.row = "uploading" /\ e.chunks = cs
    BY <1>1
  <2>5. Stored(d, c) = e
    BY <2>2, <2>3, <2>4
  <2> QED
    BY <1>3, <2>3, <2>4, <2>5
<1> QED
  BY <1>2, <1>3

(* One document gets chunks, the others stay.                                *)
LEMMA OneStored ==
  ASSUME TasksTrue, NEW f \in Files, NEW c \in SUBSET Chunk,
         docs' = [docs EXCEPT ![f] = Stored(docs[f], c)]
  PROVE  docs' \in [Files -> Docs] /\ DocsStay /\ (deleting \subseteq deleting' => DeletionsStay)
         /\ docs[f].chunks \subseteq docs'[f].chunks
<1>1. PICK e \in Docs : /\ e = Stored(docs[f], c) /\ docs[f].chunks \subseteq e.chunks
                        /\ docs[f].row = "completed" => e.row = "completed"
  <2>1. docs[f] \in Docs
    BY TypesAre
  <2> QED
    BY <2>1, StoredIs
<1>2. /\ docs' \in [Files -> Docs] /\ docs'[f] = e
      /\ \A g \in Files : g # f => docs'[g] = docs[g]
  BY <1>1, TypesAre
<1>3. DocsStay
  BY <1>1, <1>2 DEF DocsStay
<1>4. deleting \subseteq deleting' => DeletionsStay
  BY <1>1, <1>2 DEF DeletionsStay
<1> QED
  BY <1>1, <1>2, <1>3, <1>4

(* A step of an upload: the job of a file is another, its rows may have got  *)
(* what the server has, and the upload ends when no chunk is on its way.     *)
LEMMA JobStep ==
  ASSUME TasksTrue, NEW f \in Files, job[f].ph = "chunks", NEW j \in Jobs, j.ph = "chunks",
         Cardinality(j.work) <= Parallel,
         NEW ts \in Seq(Tasks), DOMAIN ts = DOMAIN tasks,
         \A i \in DOMAIN tasks :
           /\ ts[i].f = tasks[i].f /\ ts[i].file = tasks[i].file /\ ts[i].st = tasks[i].st
           /\ "deleted" \notin slips' =>
                \/ ts[i].got = tasks[i].got
                \/ docs'[tasks[i].f].row = "completed"
                \/ ts[i].got \subseteq docs'[tasks[i].f].chunks,
         NEW s, s = [ts |-> ts, act |-> active, jb |-> [job EXCEPT ![f] = j]],
         SetStore(IF j.work = {} THEN ChunksDone(s, f) ELSE s),
         docs' \in [Files -> Docs], DocsStay, DeletionsStay, lists' = lists, slips' = slips
  PROVE  QueueOK'
<1>1. /\ StoreOK(Store) /\ Store \in Stores /\ Store.ts = tasks /\ Store.act = active /\ Store.jb = job
      /\ "demoted" \notin slips => Served(Store)
  BY StoreIs
<1>2. s \in Stores /\ s.ts = ts /\ s.act = active /\ s.jb = [job EXCEPT ![f] = j]
  BY TypesAre DEF Stores
<1>3. s.jb[f] = j /\ \A g \in Files : g # f => s.jb[g] = job[g]
  BY <1>2, TypesAre
<1>4. StoreOK(s)
  <2>1. Once(tasks) /\ Active(Store)
    BY <1>1 DEF StoreOK
  <2>2. Once(s.ts)
    BY <1>2, <2>1 DEF Once
  <2>3. s.act = {g \in Files : s.jb[g].ph # "none"}
    BY <1>1, <1>2, <1>3, <2>1 DEF Active
  <2>4. \A g \in Files : Cardinality(s.jb[g].work) <= Parallel
    BY <1>1, <1>3, <2>1 DEF Active
  <2>5. Cardinality(s.act) <= MaxUploads
    BY <1>1, <1>2, <2>1 DEF Active
  <2>6. Active(s)
    BY <2>3, <2>4, <2>5 DEF Active
  <2> QED
    BY <1>2, <2>2, <2>6 DEF StoreOK
<1>5. "demoted" \notin slips => Served(s)
  BY <1>1, <1>2 DEF Served
<1>6. Prepared(s)
  <2>1. \A g \in Files : s.jb[g].ph = "merging" => job[g].ph = "merging"
    BY <1>3
  <2>2. ASSUME NEW i \in DOMAIN s.ts, "deleted" \notin slips'
        PROVE  \/ docs'[s.ts[i].f].row = "completed"
               \/ s.ts[i].got \subseteq docs'[s.ts[i].f].chunks
               \/ \E k \in DOMAIN tasks : tasks[k].f = s.ts[i].f /\ s.ts[i].got \subseteq tasks[k].got
    BY <1>2, <2>2
  <2>3. \A i \in DOMAIN s.ts : s.ts[i].st = "Completed" =>
          \E k \in DOMAIN tasks : tasks[k].f = s.ts[i].f /\ tasks[k].st = "Completed"
    BY <1>2
  <2> QED
    BY <2>1, <2>2, <2>3 DEF Prepared
<1>7. PICK r : r = IF j.work = {} THEN ChunksDone(s, f) ELSE s
  OBVIOUS
<1>8. SetStore(r)
  BY <1>7
<1>9. StoreOK(r) /\ Follows(s, r, {}) /\ (Served(s) => Served(r))
  <2>1. CASE j.work = {}
    <3>1. r = ChunksDone(s, f) /\ s.jb[f].ph # "none"
      BY <1>3, <1>7, <2>1
    <3> QED
      BY <1>4, <3>1, ChunksDoneIs
  <2>2. CASE j.work # {}
    <3>1. r = s /\ Follows(s, s, {})
      BY <1>7, <2>2 DEF Follows
    <3> QED
      BY <1>4, <3>1
  <2> QED
    BY <2>1, <2>2
<1> QED
  BY <1>5, <1>6, <1>8, <1>9, TypesAre, Stays, QueueStep

LEMMA Rescheduling ==
  ASSUME NEW i \in Jobs, NEW w \in SUBSET Chunk, NEW q \in SUBSET Chunk
  PROVE  \E u \in Jobs : u = [i EXCEPT !.work = w, !.queue = q] /\ u.ph = i.ph /\ u.work = w
<1>1. /\ [i EXCEPT !.work = w, !.queue = q] \in Jobs
      /\ [i EXCEPT !.work = w, !.queue = q].ph = i.ph
      /\ [i EXCEPT !.work = w, !.queue = q].work = w
  BY DEF Jobs
<1> QED
  BY <1>1

LEMMA ChunkUploadedKeeps ==
  ASSUME TasksTrue, NEW f \in Files, NEW c \in Chunk, ChunkUploaded(f, c)
  PROVE  TasksTrue'
<1> DEFINE j == job[f]
           next == IF j.bad \/ j.queue = {} THEN {} ELSE {Min(j.queue)}
           j2 == [j EXCEPT !.work = (@ \ {c}) \cup next, !.queue = @ \ next]
           got == IF Has(tasks, f) THEN Row(tasks, f).got \cup docs'[f].chunks ELSE {}
           ts == Put(tasks, f, "got", got)
           s == [ts |-> ts, act |-> active, jb |-> [job EXCEPT ![f] = j2]]
<1>1. /\ j.ph = "chunks" /\ c \in j.work /\ docs[f].row # "completed"
      /\ docs' = [docs EXCEPT ![f] = Stored(docs[f], {c})]
      /\ SetStore(IF j2.work = {} THEN ChunksDone(s, f) ELSE s)
      /\ UNCHANGED <<hashing, resuming, deleting, lists, shown, page, mounted, timer, orphans, acts, fails, slips>>
  BY DEF ChunkUploaded, table
<1>2. /\ docs' \in [Files -> Docs] /\ DocsStay /\ DeletionsStay
      /\ docs[f].chunks \subseteq docs'[f].chunks
  <2>1. {c} \in SUBSET Chunk /\ deleting \subseteq deleting'
    BY <1>1
  <2> QED
    BY <1>1, <2>1, OneStored
<1>3. /\ j \in Jobs /\ j.work \in SUBSET Chunk /\ j.queue \in SUBSET Chunk
      /\ Cardinality(j.work) <= Parallel
  <2>1. j \in Jobs
    BY TypesAre
  <2> QED
    BY <2>1 DEF Jobs, TasksTrue, JobsOK
<1>4. next \in SUBSET Chunk /\ (next = {} \/ \E x \in Chunk : next = {x})
  <2>1. CASE j.queue = {}
    BY <2>1
  <2>2. CASE j.queue # {}
    <3>1. j.queue \subseteq Nat
      BY <1>3 DEF Chunk
    <3>2. Min(j.queue) \in j.queue
      BY <2>2, <3>1, LeastOf
    <3> QED
      BY <1>3, <3>2
  <2> QED
    BY <2>1, <2>2
<1> HIDE DEF next
<1>5. j2 \in Jobs /\ j2.ph = "chunks" /\ j2.work = (j.work \ {c}) \cup next
  <2>1. (j.work \ {c}) \cup next \in SUBSET Chunk /\ j.queue \ next \in SUBSET Chunk
    BY <1>3, <1>4
  <2>2. j2 = [j EXCEPT !.work = (j.work \ {c}) \cup next, !.queue = j.queue \ next]
    BY <1>3 DEF Jobs
  <2>3. PICK i \in Jobs, w \in SUBSET Chunk, q \in SUBSET Chunk :
          i = j /\ w = (j.work \ {c}) \cup next /\ q = j.queue \ next
    BY <1>3, <2>1
  <2>4. PICK u \in Jobs : u = [i EXCEPT !.work = w, !.queue = q] /\ u.ph = i.ph /\ u.work = w
    BY Rescheduling
  <2>5. j2 = u
    BY <2>2, <2>3, <2>4
  <2> HIDE DEF j, j2
  <2> QED
    BY <1>1, <2>3, <2>4, <2>5
<1>6. Cardinality(j2.work) <= Parallel
  <2>1. /\ IsFiniteSet(j.work) /\ Cardinality(j.work) \in Nat /\ Parallel \in Nat
    BY <1>3, ChunksFinite, KnowledgeBaseAssumption
  <2>2. /\ IsFiniteSet(j.work \ {c}) /\ Cardinality(j.work \ {c}) = Cardinality(j.work) - 1
    BY <1>1, <2>1, FS_RemoveElement
  <2>3. CASE next = {}
    <3>1. j2.work = j.work \ {c}
      BY <1>5, <2>3
    <3> HIDE DEF j, j2
    <3> QED
      BY <1>3, <2>1, <2>2, <3>1
  <2>4. CASE \E x \in Chunk : next = {x}
    <3>1. PICK x \in Chunk : next = {x}
      BY <2>4
    <3>2. j2.work = (j.work \ {c}) \cup {x}
      BY <1>5, <3>1
    <3> HIDE DEF j, j2
    <3>3. \/ Cardinality((j.work \ {c}) \cup {x}) = Cardinality(j.work \ {c}) + 1
          \/ (j.work \ {c}) \cup {x} = j.work \ {c}
      <4>1. CASE x \in j.work \ {c}
        BY <4>1
      <4>2. CASE x \notin j.work \ {c}
        <5>1. Cardinality((j.work \ {c}) \cup {x}) = Cardinality(j.work \ {c}) + 1
          BY <2>2, <4>2, FS_AddElement
        <5> QED
          BY <5>1
      <4> QED
        BY <4>1, <4>2
    <3>4. Cardinality(j2.work) = Cardinality((j.work \ {c}) \cup {x})
      BY <3>2
    <3> QED
      <4>1. Cardinality(j.work) <= Parallel
        BY <1>3
      <4> QED
        BY <2>1, <2>2, <3>3, <3>4, <4>1
  <2> QED
    BY <1>4, <2>3, <2>4
<1>7. got \in SUBSET Chunk
  <2>1. docs'[f].chunks \subseteq Chunk
    <3>1. docs'[f] \in Docs
      BY <1>2
    <3> QED
      BY <3>1 DEF Docs
  <2>2. Has(tasks, f) => Row(tasks, f).got \subseteq Chunk
    <3>1. Has(tasks, f) => Row(tasks, f) \in Tasks
      BY TypesAre, FoundIs
    <3> QED
      BY <3>1 DEF Tasks
  <2> QED
    BY <2>1, <2>2
<1>8. Has(tasks, f) /\ "deleted" \notin slips => got \subseteq docs'[f].chunks
  <2> SUFFICES ASSUME Has(tasks, f), "deleted" \notin slips PROVE got \subseteq docs'[f].chunks
    OBVIOUS
  <2>1. PICK i \in DOMAIN tasks : Row(tasks, f) = tasks[i] /\ tasks[i].f = f
    BY TypesAre, FoundIs
  <2>2. tasks[i].got \subseteq docs[f].chunks
    BY <1>1, <2>1 DEF TasksTrue, GotOK
  <2> QED
    BY <1>2, <2>1, <2>2
<1> HIDE DEF got
<1>9. /\ ts \in Seq(Tasks) /\ DOMAIN ts = DOMAIN tasks
      /\ \A i \in DOMAIN tasks :
           /\ ts[i].f = tasks[i].f
           /\ ts[i].got = IF tasks[i].f = f THEN got ELSE tasks[i].got
           /\ ts[i].file = tasks[i].file
           /\ ts[i].st = tasks[i].st
  BY <1>7, TypesAre, GotPut
<1>10. \A i \in DOMAIN tasks :
         "deleted" \notin slips' =>
           ts[i].got = tasks[i].got \/ ts[i].got \subseteq docs'[tasks[i].f].chunks
  <2> SUFFICES ASSUME NEW i \in DOMAIN tasks, "deleted" \notin slips'
               PROVE  ts[i].got = tasks[i].got \/ ts[i].got \subseteq docs'[tasks[i].f].chunks
    OBVIOUS
  <2> HIDE DEF ts
  <2>1. CASE tasks[i].f = f
    <3>1. Has(tasks, f) /\ slips' = slips
      BY <1>1, <2>1 DEF Has, Find
    <3> QED
      BY <1>8, <1>9, <2>1, <3>1
  <2>2. CASE tasks[i].f # f
    BY <1>9, <2>2
  <2> QED
    BY <2>1, <2>2
<1>11. PICK u : u = s
  OBVIOUS
<1> HIDE DEF j2, ts
<1>12. QueueOK'
  BY <1>1, <1>2, <1>5, <1>6, <1>9, <1>10, <1>11, JobStep
<1>13. TypeOK'
  BY <1>1, <1>2, <1>12, TypesAre DEF QueueOK, TypeOK
<1> QED
  BY <1>12, <1>13, Together

LEMMA ChunkFailedKeeps ==
  ASSUME TasksTrue, NEW f \in Files, NEW c \in Chunk, ChunkFailed(f, c)
  PROVE  TasksTrue'
<1> DEFINE j == job[f]
           j2 == [j EXCEPT !.work = @ \ {c}, !.bad = TRUE]
           s == [ts |-> tasks, act |-> active, jb |-> [job EXCEPT ![f] = j2]]
<1>1. /\ j.ph = "chunks" /\ c \in j.work
      /\ docs' = docs \/ docs' = [docs EXCEPT ![f] = Stored(docs[f], {c})]
      /\ SetStore(IF j2.work = {} THEN ChunksDone(s, f) ELSE s)
      /\ UNCHANGED <<hashing, resuming, deleting, lists, shown, page, mounted, timer, orphans, acts, slips>>
      /\ fails' \in 0..MaxFails
  <2>1. IF docs[f].row = "completed" THEN UNCHANGED fails ELSE Fail
    BY DEF ChunkFailed
  <2>2. fails' \in 0..MaxFails
    BY <2>1, TypesAre, ActTyped
  <2> QED
    BY <2>2 DEF ChunkFailed, table
<1>2. docs' \in [Files -> Docs] /\ DocsStay /\ DeletionsStay
  <2>1. {c} \in SUBSET Chunk /\ deleting \subseteq deleting'
    BY <1>1
  <2>2. CASE docs' = docs
    BY <2>1, <2>2, TypesAre, Stays
  <2>3. CASE docs' = [docs EXCEPT ![f] = Stored(docs[f], {c})]
    BY <2>1, <2>3, OneStored
  <2> QED
    BY <1>1, <2>2, <2>3
<1>3. /\ j \in Jobs /\ j.work \in SUBSET Chunk /\ Cardinality(j.work) <= Parallel
  <2>1. j \in Jobs
    BY TypesAre
  <2> QED
    BY <2>1 DEF Jobs, TasksTrue, JobsOK
<1>4. j2 \in Jobs /\ j2.ph = "chunks" /\ j2.work = j.work \ {c}
  <2>1. \A i \in Jobs : /\ [i EXCEPT !.work = @ \ {c}, !.bad = TRUE] \in Jobs
                        /\ [i EXCEPT !.work = @ \ {c}, !.bad = TRUE].ph = i.ph
                        /\ [i EXCEPT !.work = @ \ {c}, !.bad = TRUE].work = i.work \ {c}
    BY DEF Jobs
  <2> QED
    BY <1>1, <1>3, <2>1
<1>5. Cardinality(j2.work) <= Parallel
  <2>1. /\ IsFiniteSet(j.work) /\ Cardinality(j.work) \in Nat /\ Parallel \in Nat
    BY <1>3, ChunksFinite, KnowledgeBaseAssumption
  <2>2. Cardinality(j.work \ {c}) = Cardinality(j.work) - 1
    BY <1>1, <2>1, FS_RemoveElement
  <2>3. Cardinality(j2.work) = Cardinality(j.work \ {c}) /\ Cardinality(j.work) <= Parallel
    BY <1>3, <1>4
  <2> QED
    BY <2>1, <2>2, <2>3
<1>6. PICK u : u = s
  OBVIOUS
<1> HIDE DEF j2
<1>7. QueueOK'
  BY <1>1, <1>2, <1>4, <1>5, <1>6, TypesAre, JobStep
<1>8. TypeOK'
  BY <1>1, <1>2, <1>7, TypesAre DEF QueueOK, TypeOK
<1> QED
  BY <1>7, <1>8, Together

(* The merge answers.                                                        *)
LEMMA MergeKeeps ==
  ASSUME TasksTrue, NEW f \in Files, mergeFile(f)
  PROVE  TasksTrue'
<1> DEFINE ts == Put(tasks, f, "vec", "PROCESSING")
<1>1. /\ StoreOK(Store) /\ Store \in Stores /\ Store.ts = tasks /\ Store.act = active /\ Store.jb = job
      /\ "demoted" \notin slips => Served(Store)
  BY StoreIs
<1>2. /\ docs' = docs /\ deleting' = deleting /\ lists' = lists
      /\ IF job[f].ph = "merged" THEN SetStore(Ended([Store EXCEPT !.ts = ts], f, "Completed"))
         ELSE SetStore(Ended(Store, f, "Break"))
  BY DEF mergeFile
<1>3. /\ slips \subseteq slips' /\ slips' \subseteq Slips
      /\ "demoted" \notin slips' => "demoted" \notin slips
      /\ ~Undone(slips') /\ job[f].ph = "merged" /\ Has(tasks, f) => docs[f].row = "completed"
  <2>1. slips' = IF job[f].ph = "merged" /\ Has(tasks, f) /\ docs[f].row # "completed"
                 THEN slips \cup {"revived"} ELSE slips
    BY DEF mergeFile
  <2> QED
    BY <2>1, TypesAre DEF Undone, Slips
<1>4. QueueOK'
  <2>1. CASE job[f].ph = "merged"
    <3>1. /\ ts \in Seq(Tasks) /\ DOMAIN ts = DOMAIN tasks
          /\ \A i \in DOMAIN tasks :
               /\ ts[i].f = tasks[i].f /\ ts[i].got = tasks[i].got
               /\ ts[i].file = tasks[i].file /\ ts[i].st = tasks[i].st
      <4>1. "PROCESSING" \in Vec
        BY DEF Vec
      <4> QED
        BY <4>1, TypesAre, VecPut
    <3> HIDE DEF ts
    <3>2. PICK s : s = [Store EXCEPT !.ts = ts]
      OBVIOUS
    <3>3. s \in Stores /\ s.ts = ts /\ s.act = active /\ s.jb = job
      BY <1>1, <3>1, <3>2 DEF Stores
    <3>4. StoreOK(s)
      <4>1. Once(tasks) /\ Active(Store)
        BY <1>1 DEF StoreOK
      <4>2. Once(s.ts)
        BY <3>1, <3>3, <4>1 DEF Once
      <4>3. Active(s)
        BY <1>1, <3>3, <4>1 DEF Active
      <4> QED
        BY <3>3, <4>2, <4>3 DEF StoreOK
    <3>5. "demoted" \notin slips' => Served(s)
      BY <1>1, <1>3, <3>1, <3>3 DEF Served
    <3>6. Prepared(s)
      BY <3>1, <3>3 DEF Prepared
    <3>7. PICK r : r = Ended(s, f, "Completed")
      OBVIOUS
    <3>8. SetStore(r)
      BY <1>2, <2>1, <3>2, <3>7
    <3>9. StoreOK(r) /\ Follows(s, r, {f}) /\ (Served(s) => Served(r))
      BY <3>4, <3>7, EndedIs
    <3>10. ~Undone(slips') =>
             \A i \in DOMAIN s.ts : s.ts[i].f \in {f} => docs'[s.ts[i].f].row = "completed"
      BY <1>2, <1>3, <2>1, <3>1, <3>3 DEF Has, Find
    <3> QED
      BY <1>2, <1>3, <3>5, <3>6, <3>8, <3>9, <3>10, TypesAre, Stays, QueueStep
  <2>2. CASE job[f].ph # "merged"
    <3>1. PICK r : r = Ended(Store, f, "Break")
      OBVIOUS
    <3>2. SetStore(r)
      BY <1>2, <2>2, <3>1
    <3>3. StoreOK(r) /\ Follows(Store, r, {}) /\ (Served(Store) => Served(r))
      BY <1>1, <3>1, EndedIs
    <3>4. Prepared(Store)
      BY <1>1 DEF Prepared
    <3> QED
      BY <1>1, <1>2, <1>3, <3>2, <3>3, <3>4, TypesAre, Stays, QueueStep
  <2> QED
    BY <2>1, <2>2
<1>5. timer' \in BOOLEAN
  BY TypesAre, TimerIs DEF mergeFile, Same
<1>6. TypeOK'
  BY <1>2, <1>3, <1>4, <1>5, TypesAre DEF mergeFile, QueueOK, TypeOK
<1> QED
  BY <1>4, <1>6, Together

-----------------------------------------------------------------------------
(* The answers of the server                                                 *)

(* A row that the server brings up to date.                                  *)
LEMMA SyncedRow ==
  ASSUME NEW t \in Tasks, NEW d \in Rows
  PROVE  /\ syncTaskFromServer(t, d) \in Tasks
         /\ syncTaskFromServer(t, d).f = t.f /\ syncTaskFromServer(t, d).got = t.got
         /\ syncTaskFromServer(t, d).file = t.file
         /\ syncTaskFromServer(t, d).st = "Completed" => d.row = "completed"
         /\ syncTaskFromServer(t, d).st = "Uploading" => t.st \in {"Pending", "Uploading"}
<1> DEFINE st == IF d.row = "completed" THEN "Completed"
                 ELSE IF isLocalUploading(t) THEN "Uploading" ELSE "Break"
<1>1. /\ st \in Status /\ (st = "Completed" => d.row = "completed")
      /\ st = "Uploading" => t.st \in {"Pending", "Uploading"}
  BY DEF Status, isLocalUploading
<1>2. syncTaskFromServer(t, d) = [t EXCEPT !.st = st, !.vec = d.vec]
  BY DEF syncTaskFromServer
<1>3. d.vec \in Vec
  BY DEF Rows
<1> HIDE DEF st
<1>4. \A x \in Status, v \in Vec :
        /\ [t EXCEPT !.st = x, !.vec = v] \in Tasks
        /\ [t EXCEPT !.st = x, !.vec = v].f = t.f /\ [t EXCEPT !.st = x, !.vec = v].got = t.got
        /\ [t EXCEPT !.st = x, !.vec = v].file = t.file /\ [t EXCEPT !.st = x, !.vec = v].st = x
  BY DEF Tasks
<1>5. PICK v \in Vec : v = d.vec
  BY <1>3
<1>6. PICK u \in Tasks : /\ u = [t EXCEPT !.st = st, !.vec = v]
                         /\ u.f = t.f /\ u.got = t.got /\ u.file = t.file /\ u.st = st
  BY <1>1, <1>4
<1>7. syncTaskFromServer(t, d) = u
  BY <1>2, <1>5, <1>6
<1> QED
  BY <1>1, <1>6, <1>7

(* A row that the server tells of.                                           *)
LEMMA RemoteRow ==
  ASSUME NEW d \in Rows
  PROVE  /\ Remote(d) \in Tasks /\ Remote(d).f = d.f /\ Remote(d).file = FALSE
         /\ Remote(d).st = "Completed" => d.row = "completed"
         /\ d.row # "completed" => Remote(d).got = {}
<1>1. d.f \in Files /\ d.vec \in Vec
  BY DEF Rows
<1>2. CASE d.row = "completed"
  <2>1. [f |-> d.f, file |-> FALSE, got |-> Chunk, st |-> "Completed", vec |-> d.vec] \in Tasks
    BY <1>1 DEF Tasks, Status
  <2>2. Remote(d) = [f |-> d.f, file |-> FALSE, got |-> Chunk, st |-> "Completed", vec |-> d.vec]
    BY <1>2 DEF Remote
  <2> QED
    BY <1>2, <2>1, <2>2
<1>3. CASE d.row # "completed"
  <2>1. [f |-> d.f, file |-> FALSE, got |-> {}, st |-> "Break", vec |-> d.vec] \in Tasks
    BY <1>1 DEF Tasks, Status
  <2>2. Remote(d) = [f |-> d.f, file |-> FALSE, got |-> {}, st |-> "Break", vec |-> d.vec]
    BY <1>3 DEF Remote
  <2> QED
    BY <1>3, <2>1, <2>2
<1> QED
  BY <1>2, <1>3

(* The rows of the list after an answer: those there were, some of them      *)
(* brought up to date, and those it told of.                                 *)
LEMMA SyncedIs ==
  ASSUME TasksTrue, NEW rows \in SUBSET Rows
  PROVE  /\ Synced(rows) \in Seq(Tasks) /\ Once(Synced(rows))
         /\ \A i \in DOMAIN tasks :
              /\ i \in DOMAIN Synced(rows)
              /\ \/ Synced(rows)[i] = tasks[i]
                 \/ \E d \in rows : d.f = tasks[i].f /\ Synced(rows)[i] = syncTaskFromServer(tasks[i], d)
         /\ \A i \in DOMAIN Synced(rows) \ DOMAIN tasks :
              \E d \in rows : Synced(rows)[i] = Remote(d) /\ ~Has(tasks, d.f)
<1> DEFINE listed == {r.f : r \in rows}
           known == [i \in DOMAIN tasks |->
                       IF tasks[i].f \in listed
                       THEN syncTaskFromServer(tasks[i], RowOf(rows, tasks[i].f)) ELSE tasks[i]]
           I == {i \in DOMAIN File : File[i] \in listed /\ ~Has(tasks, File[i])}
           fresh == Picked(File, I)
           new == [i \in DOMAIN fresh |-> Remote(RowOf(rows, fresh[i]))]
<1>1. DOMAIN tasks = 1..Len(tasks) /\ Len(tasks) \in Nat /\ \A k \in DOMAIN tasks : tasks[k] \in Tasks
  BY TypesAre, SeqIs
<1>2. \A f \in listed : RowOf(rows, f) \in rows /\ RowOf(rows, f).f = f
  <2>1. \A f \in listed : \E r \in rows : r.f = f
    OBVIOUS
  <2> QED
    BY <2>1 DEF RowOf
<1> HIDE DEF listed
<1>3. \A i \in DOMAIN tasks :
        /\ known[i] \in Tasks /\ known[i].f = tasks[i].f
        /\ \/ known[i] = tasks[i]
           \/ \E d \in rows : d.f = tasks[i].f /\ known[i] = syncTaskFromServer(tasks[i], d)
  <2> SUFFICES ASSUME NEW i \in DOMAIN tasks
               PROVE  /\ known[i] \in Tasks /\ known[i].f = tasks[i].f
                      /\ \/ known[i] = tasks[i]
                         \/ \E d \in rows : d.f = tasks[i].f /\ known[i] = syncTaskFromServer(tasks[i], d)
    OBVIOUS
  <2>1. CASE tasks[i].f \in listed
    <3>1. PICK d \in rows : d = RowOf(rows, tasks[i].f) /\ d.f = tasks[i].f
      BY <1>2, <2>1
    <3>2. known[i] = syncTaskFromServer(tasks[i], d)
      BY <2>1, <3>1
    <3>3. syncTaskFromServer(tasks[i], d) \in Tasks /\ syncTaskFromServer(tasks[i], d).f = tasks[i].f
      BY <1>1, SyncedRow
    <3> QED
      BY <3>1, <3>2, <3>3
  <2>2. CASE tasks[i].f \notin listed
    BY <1>1, <2>2
  <2> QED
    BY <2>1, <2>2
<1>4. known \in Seq(Tasks) /\ DOMAIN known = DOMAIN tasks
  <2>1. DOMAIN known = DOMAIN tasks
    OBVIOUS
  <2>2. known \in [1..Len(tasks) -> Tasks]
    BY <1>1, <1>3, <2>1
  <2> QED
    BY <1>1, <2>1, <2>2, SeqDef
<1>5. /\ fresh \in Seq(Files)
      /\ \A j \in DOMAIN fresh : \E i \in I : fresh[j] = File[i]
      /\ \A j, k \in DOMAIN fresh : fresh[j] = fresh[k] => j = k
  <2>1. I \in SUBSET (1..Len(File))
    BY FilesFinite
  <2> HIDE DEF I
  <2> QED
    BY <2>1, FilesFinite, KnowledgeBaseAssumption, PickedIs
<1>6. \A j \in DOMAIN fresh : fresh[j] \in listed /\ ~Has(tasks, fresh[j])
  <2> HIDE DEF fresh
  <2> QED
    BY <1>5
<1> HIDE DEF known, I, fresh
<1>7. \A j \in DOMAIN fresh :
        /\ new[j] \in Tasks /\ new[j].f = fresh[j]
        /\ \E d \in rows : new[j] = Remote(d) /\ ~Has(tasks, d.f)
  <2> SUFFICES ASSUME NEW j \in DOMAIN fresh
               PROVE  /\ new[j] \in Tasks /\ new[j].f = fresh[j]
                      /\ \E d \in rows : new[j] = Remote(d) /\ ~Has(tasks, d.f)
    OBVIOUS
  <2>1. PICK d \in rows : d = RowOf(rows, fresh[j]) /\ d.f = fresh[j]
    BY <1>2, <1>6
  <2>2. new[j] = Remote(d)
    BY <2>1
  <2>3. Remote(d) \in Tasks /\ Remote(d).f = d.f
    BY RemoteRow
  <2> QED
    BY <1>6, <2>1, <2>2, <2>3
<1>8. new \in Seq(Tasks) /\ DOMAIN new = DOMAIN fresh
  <2>1. DOMAIN fresh = 1..Len(fresh) /\ Len(fresh) \in Nat
    BY <1>5, SeqIs
  <2>2. DOMAIN new = DOMAIN fresh
    OBVIOUS
  <2>3. new \in [1..Len(fresh) -> Tasks]
    BY <1>7, <2>1, <2>2
  <2> QED
    BY <2>1, <2>2, <2>3, SeqDef
<1>9. Synced(rows) = known \o new
  BY DEF Synced, known, new, fresh, I, listed
<1> HIDE DEF new
<1>10. PICK ts : ts = Synced(rows)
  OBVIOUS
<1>11. /\ ts \in Seq(Tasks) /\ DOMAIN tasks \subseteq DOMAIN ts
       /\ \A i \in DOMAIN tasks : ts[i] = known[i]
       /\ \A i \in DOMAIN ts \ DOMAIN tasks :
            i - Len(known) \in DOMAIN fresh /\ ts[i] = new[i - Len(known)]
  BY <1>4, <1>8, <1>9, <1>10, JoinedIs
<1>12. Once(ts)
  <2> SUFFICES ASSUME NEW i \in DOMAIN ts, NEW k \in DOMAIN ts, ts[i].f = ts[k].f PROVE i = k
    BY DEF Once
  <2>1. ASSUME NEW a \in DOMAIN tasks, NEW b \in DOMAIN ts \ DOMAIN tasks PROVE ts[a].f # ts[b].f
    <3>1. ts[a].f = tasks[a].f
      BY <1>3, <1>11
    <3>2. ts[b].f = fresh[b - Len(known)] /\ ~Has(tasks, ts[b].f)
      BY <1>6, <1>7, <1>11
    <3> QED
      BY <3>1, <3>2 DEF Has, Find
  <2>2. CASE i \in DOMAIN tasks /\ k \in DOMAIN tasks
    BY <1>3, <1>11, <2>2 DEF TasksTrue, RowsOnce
  <2>3. CASE i \notin DOMAIN tasks /\ k \notin DOMAIN tasks
    <3>1. /\ i - Len(known) \in DOMAIN fresh /\ k - Len(known) \in DOMAIN fresh
          /\ fresh[i - Len(known)] = fresh[k - Len(known)]
      BY <1>7, <1>11, <2>3
    <3>2. i - Len(known) = k - Len(known)
      BY <1>5, <3>1
    <3>3. i \in Nat /\ k \in Nat /\ Len(known) \in Nat
      BY <1>4, <1>11, SeqIs
    <3> QED
      BY <3>2, <3>3
  <2> QED
    BY <2>1, <2>2, <2>3
<1>13. \A i \in DOMAIN tasks :
         \/ ts[i] = tasks[i]
         \/ \E d \in rows : d.f = tasks[i].f /\ ts[i] = syncTaskFromServer(tasks[i], d)
  BY <1>3, <1>11
<1>14. \A i \in DOMAIN ts \ DOMAIN tasks : \E d \in rows : ts[i] = Remote(d) /\ ~Has(tasks, d.f)
  BY <1>7, <1>11
<1> QED
  BY <1>10, <1>11, <1>12, <1>13, <1>14

LEMMA GetListKeeps ==
  ASSUME TasksTrue, NEW l \in lists, getList(l)
  PROVE  TasksTrue'
<1> DEFINE ts == IF l.by = "data" THEN tasks ELSE Synced(l.rows)
<1>1. /\ UNCHANGED <<active, job, hashing, resuming, deleting, page, mounted, docs, acts, fails>>
      /\ lists' = lists \ {l} /\ tasks' = ts
      /\ shown' = IF l.old THEN shown ELSE {r.f : r \in l.rows}
      /\ slips' = slips \cup (IF Demoted(ts) THEN {"demoted"} ELSE {})
                        \cup (IF l.by # "data" /\ Stale(l.rows) THEN {"stale"} ELSE {})
                        \cup (IF Unwatched(ts) THEN {"unwatched"} ELSE {})
      /\ Rescheduled(l, ts)
  BY DEF getList
<1>2. /\ StoreOK(Store) /\ Store \in Stores /\ Store.ts = tasks /\ Store.act = active /\ Store.jb = job
      /\ "demoted" \notin slips => Served(Store)
  BY StoreIs
<1>3. l.rows \in SUBSET Rows /\ \A r \in l.rows : r.f \in Files
  <2>1. l \in Lists
    BY TypesAre
  <2>2. l.rows \in SUBSET Rows
    BY <2>1 DEF Lists
  <2> QED
    BY <2>2 DEF Rows
<1>4. /\ slips \subseteq slips' /\ slips' \subseteq Slips
      /\ "deleted" \notin slips' => "deleted" \notin slips
      /\ "demoted" \notin slips' => "demoted" \notin slips /\ ~Demoted(ts)
      /\ ~Undone(slips') => l.by = "data" \/ ~Stale(l.rows)
  BY <1>1, TypesAre DEF Slips, Undone
<1>5. timer' \in BOOLEAN /\ orphans' \in BOOLEAN
  BY <1>1, TypesAre, TimerIs DEF Rescheduled
<1>6. shown' \subseteq Files
  BY <1>1, <1>3, TypesAre
<1>7. QueueOK'
  <2>1. CASE l.by = "data"
    <3>1. tasks' = tasks
      BY <1>1, <2>1
    <3> QED
      BY <1>1, <1>4, <3>1, TypesAre, Stays, QueueStays
  <2>2. CASE l.by # "data"
    <3>1. ts = Synced(l.rows)
      BY <2>2
    <3> HIDE DEF ts
    <3>2. /\ ts \in Seq(Tasks) /\ Once(ts)
          /\ \A i \in DOMAIN tasks :
               /\ i \in DOMAIN ts
               /\ \/ ts[i] = tasks[i]
                  \/ \E d \in l.rows : d.f = tasks[i].f /\ ts[i] = syncTaskFromServer(tasks[i], d)
          /\ \A i \in DOMAIN ts \ DOMAIN tasks :
               \E d \in l.rows : ts[i] = Remote(d) /\ ~Has(tasks, d.f)
      BY <1>3, <3>1, SyncedIs
    <3>3. PICK r : r = [ts |-> ts, act |-> active, jb |-> job]
      OBVIOUS
    <3>4. r \in Stores /\ r.ts = ts /\ r.act = active /\ r.jb = job
      BY <3>2, <3>3, TypesAre DEF Stores
    <3>5. StoreOK(r) /\ SetStore(r)
      <4>1. Active(Store)
        BY <1>2 DEF StoreOK
      <4>2. Active(r)
        BY <1>2, <3>4, <4>1 DEF Active
      <4> QED
        BY <1>1, <3>2, <3>4, <4>2 DEF StoreOK, SetStore
    <3>6. \A k \in DOMAIN tasks : tasks[k] \in Tasks
      BY TypesAre, SeqIs
    <3>7. ASSUME NEW i \in DOMAIN tasks
          PROVE  /\ ts[i].f = tasks[i].f /\ ts[i].got = tasks[i].got /\ ts[i].file = tasks[i].file
                 /\ ts[i].st = "Completed" =>
                      tasks[i].st = "Completed" \/ \E d \in l.rows : d.f = tasks[i].f /\ d.row = "completed"
                 /\ ts[i].st = "Uploading" => tasks[i].st \in {"Pending", "Uploading"}
      <4>1. CASE ts[i] = tasks[i]
        BY <4>1
      <4>2. CASE \E d \in l.rows : d.f = tasks[i].f /\ ts[i] = syncTaskFromServer(tasks[i], d)
        <5>1. PICK d \in l.rows : d.f = tasks[i].f /\ ts[i] = syncTaskFromServer(tasks[i], d)
          BY <4>2
        <5>2. d \in Rows /\ tasks[i] \in Tasks
          BY <1>3, <3>6
        <5> QED
          BY <5>1, <5>2, SyncedRow
      <4> QED
        BY <3>2, <4>1, <4>2
    <3>8. ASSUME NEW i \in DOMAIN ts \ DOMAIN tasks
          PROVE  \E d \in l.rows : /\ ts[i].f = d.f /\ ts[i].file = FALSE
                                   /\ ts[i].st = "Completed" => d.row = "completed"
                                   /\ d.row # "completed" => ts[i].got = {}
      <4>1. PICK d \in l.rows : ts[i] = Remote(d)
        BY <3>2
      <4>2. d \in Rows
        BY <1>3
      <4> QED
        BY <4>1, <4>2, RemoteRow
    <3>9. ASSUME "demoted" \notin slips' PROVE Served(r)
      <4>1. ~Demoted(ts) /\ Served(Store)
        BY <1>2, <1>4, <3>9
      <4> SUFFICES ASSUME NEW i \in DOMAIN ts, ts[i].file, ts[i].st = "Uploading"
                   PROVE  ts[i].f \in active
        BY <3>4 DEF Served
      <4>2. i \in DOMAIN tasks
        BY <3>8
      <4>3. CASE tasks[i].st = "Uploading"
        BY <1>2, <3>7, <4>1, <4>2, <4>3 DEF Served
      <4>4. CASE tasks[i].st = "Pending"
        BY <3>7, <4>1, <4>2, <4>4 DEF Demoted
      <4> QED
        BY <3>7, <4>2, <4>3, <4>4
    <3>10. Prepared(r)
      <4>1. ASSUME NEW i \in DOMAIN ts, "deleted" \notin slips'
            PROVE  \/ docs'[ts[i].f].row = "completed"
                   \/ ts[i].got \subseteq docs'[ts[i].f].chunks
                   \/ \E k \in DOMAIN tasks : tasks[k].f = ts[i].f /\ ts[i].got \subseteq tasks[k].got
        <5>1. CASE i \in DOMAIN tasks
          BY <3>7, <5>1
        <5>2. CASE i \notin DOMAIN tasks
          <6>1. PICK d \in l.rows : ts[i].f = d.f /\ (d.row # "completed" => ts[i].got = {})
            BY <3>8, <5>2
          <6>2. CASE d.row = "completed"
            <7>1. docs[d.f].row = "completed"
              BY <1>4, <4>1, <6>2 DEF TasksTrue, GotOK
            <7> QED
              BY <1>1, <6>1, <7>1
          <6> QED
            BY <6>1, <6>2
        <5> QED
          BY <5>1, <5>2
      <4>2. ASSUME NEW i \in DOMAIN ts, ~Undone(slips'), ts[i].st = "Completed"
            PROVE  \/ docs'[ts[i].f].row = "completed"
                   \/ \E k \in DOMAIN tasks : tasks[k].f = ts[i].f /\ tasks[k].st = "Completed"
        <5>1. \A d \in l.rows : d.row = "completed" => docs'[d.f].row = "completed"
          BY <1>1, <1>4, <2>2, <4>2 DEF Stale
        <5>2. CASE i \in DOMAIN tasks
          BY <3>7, <4>2, <5>1, <5>2
        <5>3. CASE i \notin DOMAIN tasks
          <6>1. PICK d \in l.rows : ts[i].f = d.f /\ (ts[i].st = "Completed" => d.row = "completed")
            BY <3>8, <5>3
          <6> QED
            BY <4>2, <5>1, <6>1
        <5> QED
          BY <5>2, <5>3
      <4> QED
        BY <3>4, <4>1, <4>2 DEF Prepared
    <3>11. Follows(r, r, {})
      BY DEF Follows
    <3>12. lists' \subseteq Lists /\ AnswersStay /\ DocsStay /\ DeletionsStay
      BY <1>1, TypesAre, Stays
    <3>13. docs' \in [Files -> Docs]
      BY <1>1, TypesAre
    <3> QED
      BY <1>4, <3>5, <3>9, <3>10, <3>11, <3>12, <3>13, QueueStep
  <2> QED
    BY <2>1, <2>2
<1>8. TypeOK'
  BY <1>1, <1>4, <1>5, <1>6, <1>7, TypesAre DEF QueueOK, TypeOK
<1> QED
  BY <1>7, <1>8, Together

-----------------------------------------------------------------------------
(* Rows that are removed                                                     *)

LEMMA SplicedIs ==
  ASSUME TasksTrue, NEW k
  PROVE  /\ Spliced(k) \in Seq(Tasks) /\ Once(Spliced(k)) /\ Bound(k) \subseteq Files
         /\ \A j \in DOMAIN Spliced(k) : \E i \in DOMAIN tasks : i # k /\ Spliced(k)[j] = tasks[i]
<1>1. /\ tasks \in Seq(Tasks) /\ DOMAIN tasks = 1..Len(tasks)
      /\ \A i \in DOMAIN tasks : tasks[i] \in Tasks /\ tasks[i].f \in Files
  <2>1. /\ tasks \in Seq(Tasks) /\ DOMAIN tasks = 1..Len(tasks)
        /\ \A i \in DOMAIN tasks : tasks[i] \in Tasks
    BY TypesAre, SeqIs
  <2> QED
    BY <2>1 DEF Tasks
<1>2. Once(tasks)
  BY DEF TasksTrue, RowsOnce, Once
<1>3. CASE k \notin DOMAIN tasks
  <2>1. Spliced(k) = tasks /\ Bound(k) = {}
    BY <1>3 DEF Spliced, Bound
  <2> QED
    BY <1>1, <1>2, <1>3, <2>1
<1>4. CASE k \in DOMAIN tasks
  <2>1. PICK ts : ts = RemoveAt(tasks, k)
    OBVIOUS
  <2>2. Spliced(k) = ts /\ Bound(k) = {tasks[k].f}
    BY <1>4, <2>1 DEF Spliced, Bound
  <2>3. /\ ts \in Seq(Tasks)
        /\ \A j \in DOMAIN ts :
             \E i \in DOMAIN tasks \ {k} : /\ (j < k /\ i = j) \/ (~(j < k) /\ i = j + 1)
                                           /\ ts[j] = tasks[i]
    <3>1. /\ RemoveAt(tasks, k) \in Seq(Tasks)
          /\ \A j \in DOMAIN RemoveAt(tasks, k) :
               \E i \in DOMAIN tasks \ {k} : /\ (j < k /\ i = j) \/ (~(j < k) /\ i = j + 1)
                                             /\ RemoveAt(tasks, k)[j] = tasks[i]
      <4>1. tasks \in Seq(Tasks)
        BY <1>1
      <4> QED
        BY <1>4, <4>1, RemovedIs
    <3> QED
      BY <2>1, <3>1
  <2>4. \A j \in DOMAIN ts : j \in Nat
    BY <2>3, SeqIs
  <2>5. Once(ts)
    <3> SUFFICES ASSUME NEW a \in DOMAIN ts, NEW b \in DOMAIN ts, ts[a].f = ts[b].f PROVE a = b
      BY DEF Once
    <3>1. PICK i \in DOMAIN tasks : /\ (a < k /\ i = a) \/ (~(a < k) /\ i = a + 1)
                                    /\ ts[a] = tasks[i]
      BY <2>3
    <3>2. PICK n \in DOMAIN tasks : /\ (b < k /\ n = b) \/ (~(b < k) /\ n = b + 1)
                                    /\ ts[b] = tasks[n]
      BY <2>3
    <3>3. i = n
      BY <1>2, <3>1, <3>2 DEF Once
    <3>4. a \in Nat /\ b \in Nat /\ k \in Nat
      BY <1>1, <1>4, <2>4
    <3> QED
      BY <3>1, <3>2, <3>3, <3>4
  <2>6. \A j \in DOMAIN ts : \E i \in DOMAIN tasks : i # k /\ ts[j] = tasks[i]
    BY <2>3
  <2> QED
    BY <1>1, <1>4, <2>2, <2>3, <2>5, <2>6
<1> QED
  BY <1>3, <1>4

(* The store with rows that were there before.                               *)
LEMMA FewerRows ==
  ASSUME TasksTrue, NEW ts \in Seq(Tasks), Once(ts),
         \A j \in DOMAIN ts : \E i \in DOMAIN tasks : ts[j] = tasks[i],
         NEW s, s = [ts |-> ts, act |-> active, jb |-> job]
  PROVE  /\ StoreOK(s) /\ s.ts = ts /\ s.act = active /\ s.jb = job /\ Prepared(s)
         /\ "demoted" \notin slips => Served(s)
<1>1. /\ StoreOK(Store) /\ Store.ts = tasks /\ Store.act = active /\ Store.jb = job
      /\ "demoted" \notin slips => Served(Store)
  BY StoreIs
<1>2. s \in Stores /\ s.ts = ts /\ s.act = active /\ s.jb = job
  BY TypesAre DEF Stores
<1>3. StoreOK(s)
  <2>1. Active(Store)
    BY <1>1 DEF StoreOK
  <2>2. Active(s)
    BY <1>1, <1>2, <2>1 DEF Active
  <2> QED
    BY <1>2, <2>2 DEF StoreOK
<1>4. "demoted" \notin slips => Served(s)
  BY <1>1, <1>2 DEF Served
<1>5. Prepared(s)
  <2>1. \A j \in DOMAIN ts : \E i \in DOMAIN tasks : /\ tasks[i].f = ts[j].f /\ ts[j].got \subseteq tasks[i].got
                                                    /\ tasks[i].st = ts[j].st
    OBVIOUS
  <2> QED
    BY <1>2, <2>1 DEF Prepared
<1> QED
  BY <1>2, <1>3, <1>4, <1>5

LEMMA HandleDeleteKeeps ==
  ASSUME TasksTrue, NEW f \in Files, handleDelete(f)
  PROVE  TasksTrue'
<1> DEFINE i == Min(Find(tasks, f))
           cut == job[f].ph = "chunks" /\ job[f].work # {}
           drop == tasks[i].got = {}
           ts == IF drop THEN Spliced(i) ELSE tasks
           asked == [f |-> f, i |-> i, got |-> "no"]
<1>1. /\ Act /\ Has(tasks, f)
      /\ SetStore(IF cut THEN Ended([Store EXCEPT !.ts = ts], f, "Break") ELSE [Store EXCEPT !.ts = ts])
      /\ resuming' = IF drop THEN resuming \ {f} ELSE resuming
      /\ deleting' = IF drop THEN deleting ELSE deleting \cup {asked}
      /\ IF cut THEN \E c \in SUBSET job[f].work : docs' = [docs EXCEPT ![f] = Stored(docs[f], c)]
                ELSE UNCHANGED docs
      /\ timer' = Same(tasks')
      /\ UNCHANGED <<hashing, lists, shown, page, mounted, orphans, fails, slips>>
  BY DEF handleDelete
<1>2. /\ ts \in Seq(Tasks) /\ Once(ts)
      /\ \A j \in DOMAIN ts : \E n \in DOMAIN tasks : ts[j] = tasks[n]
  <2>1. CASE drop
    <3>1. ts = Spliced(i)
      BY <2>1
    <3> HIDE DEF ts, i
    <3> QED
      BY <3>1, SplicedIs
  <2>2. CASE ~drop
    BY <2>2, TypesAre DEF TasksTrue, RowsOnce, Once
  <2> QED
    BY <2>1, <2>2
<1>3. asked \in Deletions
  <2>1. i \in DOMAIN tasks
    BY <1>1, TypesAre, FoundIs
  <2>2. i \in Nat
    BY <2>1, TypesAre, SeqIs
  <2> HIDE DEF i
  <2> QED
    BY <2>2 DEF Deletions
<1>4. deleting' \subseteq Deletions /\ deleting \subseteq deleting' /\ resuming' \subseteq Files
  <2> HIDE DEF asked, drop
  <2> QED
    BY <1>1, <1>3, TypesAre
<1>5. docs' \in [Files -> Docs] /\ DocsStay /\ DeletionsStay
  <2>1. CASE cut
    <3>1. job[f].work \in SUBSET Chunk
      <4>1. job[f] \in Jobs
        BY TypesAre
      <4> QED
        BY <4>1 DEF Jobs
    <3>2. PICK c \in SUBSET job[f].work : docs' = [docs EXCEPT ![f] = Stored(docs[f], c)]
      BY <1>1, <2>1
    <3>3. c \in SUBSET Chunk
      BY <3>1
    <3> QED
      BY <1>4, <3>2, <3>3, OneStored
  <2>2. CASE ~cut
    <3>1. docs' = docs
      BY <1>1, <2>2
    <3> QED
      BY <1>4, <3>1, TypesAre, Stays
  <2> QED
    BY <2>1, <2>2
<1> HIDE DEF ts, asked, i, cut
<1>6. PICK s : s = [ts |-> ts, act |-> active, jb |-> job]
  OBVIOUS
<1>7. s = [Store EXCEPT !.ts = ts]
  BY <1>6 DEF Store
<1>8. StoreOK(s) /\ Prepared(s) /\ ("demoted" \notin slips => Served(s))
  BY <1>2, <1>6, FewerRows
<1>9. PICK r : r = IF cut THEN Ended(s, f, "Break") ELSE s
  OBVIOUS
<1>10. SetStore(r)
  BY <1>1, <1>7, <1>9
<1>11. StoreOK(r) /\ Follows(s, r, {}) /\ (Served(s) => Served(r))
  <2>1. CASE cut
    <3>1. r = Ended(s, f, "Break")
      BY <1>9, <2>1
    <3> QED
      BY <1>8, <3>1, EndedIs
  <2>2. CASE ~cut
    <3>1. r = s /\ Follows(s, s, {})
      BY <1>9, <2>2 DEF Follows
    <3> QED
      BY <1>8, <3>1
  <2> QED
    BY <2>1, <2>2
<1>12. lists' \subseteq Lists /\ AnswersStay /\ slips' = slips
  BY <1>1, TypesAre, Stays
<1>13. QueueOK'
  BY <1>5, <1>8, <1>10, <1>11, <1>12, QueueStep
<1>14. timer' \in BOOLEAN /\ acts' \in 0..MaxActs
  BY <1>1, TypesAre, TimerIs, ActTyped DEF Same
<1>15. TypeOK'
  BY <1>1, <1>4, <1>5, <1>12, <1>13, <1>14, TypesAre DEF QueueOK, TypeOK
<1> QED
  BY <1>13, <1>15, Together

LEMMA DeletedKeeps ==
  ASSUME TasksTrue, NEW d \in deleting, Deleted(d)
  PROVE  TasksTrue'
<1>1. /\ d.got = "ok" /\ deleting' = deleting \ {d} /\ tasks' = Spliced(d.i)
      /\ resuming' = resuming \ Bound(d.i)
      /\ slips' = IF Bound(d.i) = {d.f} THEN slips ELSE slips \cup {"wrongRow"}
      /\ IF mounted THEN Ask("data") ELSE UNCHANGED lists
      /\ timer' = Same(tasks')
      /\ UNCHANGED <<active, job, hashing, shown, page, mounted, orphans, docs, acts, fails>>
  BY DEF Deleted
<1>2. /\ Spliced(d.i) \in Seq(Tasks) /\ Once(Spliced(d.i))
      /\ \A j \in DOMAIN Spliced(d.i) : \E i \in DOMAIN tasks : i # d.i /\ Spliced(d.i)[j] = tasks[i]
  BY SplicedIs
<1>3. lists' \subseteq Lists /\ \A l \in lists' : l \in lists \/ l.rows = {}
  <2>1. List(page, "data", FALSE) \in Lists /\ List(page, "data", FALSE).rows = {}
    BY TypesAre, ListIs
  <2>2. lists' = lists \/ lists' = lists \cup {List(page, "data", FALSE)}
    BY <1>1 DEF Ask
  <2> QED
    BY <2>1, <2>2, TypesAre
<1>4. /\ slips \subseteq slips' /\ slips' \subseteq Slips /\ ("demoted" \notin slips' => "demoted" \notin slips)
      /\ ~Undone(slips') => Bound(d.i) = {d.f}
  BY <1>1, TypesAre DEF Undone, Slips
<1>5. PICK s : s = [ts |-> Spliced(d.i), act |-> active, jb |-> job]
  OBVIOUS
<1>6. /\ StoreOK(s) /\ s.ts = Spliced(d.i) /\ s.act = active /\ s.jb = job
      /\ "demoted" \notin slips => Served(s)
  BY <1>2, <1>5, FewerRows
<1>7. /\ tasks' \in Seq(Tasks) /\ active' \subseteq Files /\ job' \in [Files -> Jobs]
      /\ RowsOnce' /\ JobsOK' /\ UploadingIsServed'
  <2>1. SetStore(s)
    BY <1>1, <1>6 DEF SetStore
  <2> QED
    BY <1>4, <1>6, <2>1, StoreSet
<1>8. GotOK' /\ MergeIsWhole'
  <2>1. GotStays
    BY <1>1, <1>2 DEF GotStays
  <2>2. MergesAreWhole
    BY <1>1 DEF MergesAreWhole
  <2>3. DocsStay /\ AnswersStay /\ docs' \in [Files -> Docs]
    BY <1>1, <1>3, TypesAre, Stays
  <2> QED
    BY <1>3, <1>4, <1>7, <2>1, <2>2, <2>3, GotKept
<1>9. CompletedIsStored'
  <2> SUFFICES ASSUME ~Undone(slips'), NEW j \in DOMAIN tasks', tasks'[j].st = "Completed"
               PROVE  \/ docs'[tasks'[j].f].row = "completed"
                      \/ \E e \in deleting' : e.f = tasks'[j].f /\ e.got = "ok"
    BY DEF CompletedIsStored, Undone
  <2>1. PICK i \in DOMAIN tasks : i # d.i /\ tasks'[j] = tasks[i]
    BY <1>1, <1>2
  <2>2. tasks[i].f # d.f
    <3>1. Bound(d.i) = {d.f}
      BY <1>4
    <3>2. d.i \in DOMAIN tasks /\ tasks[d.i].f = d.f
      BY <3>1 DEF Bound
    <3> QED
      BY <2>1, <3>2 DEF TasksTrue, RowsOnce
  <2>3. docs[tasks[i].f].row = "completed" \/ \E e \in deleting : e.f = tasks[i].f /\ e.got = "ok"
    BY <1>4, <2>1 DEF TasksTrue, CompletedIsStored, Undone
  <2> QED
    BY <1>1, <2>1, <2>2, <2>3
<1>10. TypeOK'
  <2>1. timer' \in BOOLEAN
    BY <1>1, TypesAre, TimerIs DEF Same
  <2> QED
    BY <1>1, <1>3, <1>4, <1>7, <2>1, TypesAre DEF TypeOK
<1> QED
  BY <1>7, <1>8, <1>9, <1>10 DEF TasksTrue

(* The vectorization of a document is retried.                               *)
LEMMA RetryKeeps ==
  ASSUME TasksTrue, NEW f \in Files, handleRetryVectorization(f)
  PROVE  TasksTrue'
<1> DEFINE ts == Put(tasks, f, "vec", "PROCESSING")
<1>1. /\ StoreOK(Store) /\ Store.ts = tasks /\ Store.act = active /\ Store.jb = job
      /\ "demoted" \notin slips => Served(Store)
  BY StoreIs
<1>2. /\ Act /\ docs' = [docs EXCEPT ![f].vec = "PROCESSING"] /\ tasks' = ts
      /\ lists' = lists \cup {List(page, "list", FALSE)} /\ timer' = Same(tasks')
      /\ UNCHANGED <<active, job, hashing, resuming, deleting, shown, page, mounted, orphans, fails, slips>>
  BY DEF handleRetryVectorization, Ask
<1>3. /\ ts \in Seq(Tasks) /\ DOMAIN ts = DOMAIN tasks
      /\ \A i \in DOMAIN tasks :
           /\ ts[i].f = tasks[i].f /\ ts[i].got = tasks[i].got
           /\ ts[i].file = tasks[i].file /\ ts[i].st = tasks[i].st
  <2>1. "PROCESSING" \in Vec
    BY DEF Vec
  <2> QED
    BY <2>1, TypesAre, VecPut
<1> HIDE DEF ts
<1>4. /\ docs' \in [Files -> Docs]
      /\ \A g \in Files : docs'[g].row = docs[g].row /\ docs'[g].chunks = docs[g].chunks
  <2>1. \A e \in Docs : /\ [e EXCEPT !.vec = "PROCESSING"] \in Docs
                        /\ [e EXCEPT !.vec = "PROCESSING"].row = e.row
                        /\ [e EXCEPT !.vec = "PROCESSING"].chunks = e.chunks
    BY DEF Docs, Vec
  <2> QED
    BY <1>2, <2>1, TypesAre
<1>5. DocsStay /\ DeletionsStay
  BY <1>2, <1>4 DEF DocsStay, DeletionsStay
<1>6. lists' \subseteq Lists /\ \A l \in lists' : l \in lists \/ l.rows = {}
  <2>1. List(page, "list", FALSE) \in Lists /\ List(page, "list", FALSE).rows = {}
    BY TypesAre, ListIs
  <2> QED
    BY <1>2, <2>1, TypesAre
<1>7. PICK s : s = [ts |-> ts, act |-> active, jb |-> job]
  OBVIOUS
<1>8. s \in Stores /\ s.ts = ts /\ s.act = active /\ s.jb = job
  BY <1>3, <1>7, TypesAre DEF Stores
<1>9. StoreOK(s) /\ SetStore(s)
  <2>1. Once(tasks) /\ Active(Store)
    BY <1>1 DEF StoreOK
  <2>2. Once(s.ts)
    BY <1>3, <1>8, <2>1 DEF Once
  <2>3. Active(s)
    BY <1>1, <1>8, <2>1 DEF Active
  <2> QED
    BY <1>2, <1>8, <2>2, <2>3 DEF StoreOK, SetStore
<1>10. "demoted" \notin slips => Served(s)
  BY <1>1, <1>3, <1>8 DEF Served
<1>11. Prepared(s)
  BY <1>3, <1>8 DEF Prepared
<1>12. Follows(s, s, {})
  BY DEF Follows
<1>13. QueueOK'
  BY <1>2, <1>4, <1>5, <1>6, <1>9, <1>10, <1>11, <1>12, Stays, QueueStep
<1>14. timer' \in BOOLEAN /\ acts' \in 0..MaxActs
  BY <1>2, TypesAre, TimerIs, ActTyped DEF Same
<1>15. TypeOK'
  BY <1>2, <1>4, <1>6, <1>13, <1>14, TypesAre DEF QueueOK, TypeOK
<1> QED
  BY <1>13, <1>15, Together

-----------------------------------------------------------------------------
LEMMA TasksStart == Init => TasksTrue
<1> SUFFICES ASSUME Init PROVE TasksTrue
  OBVIOUS
<1>1. /\ tasks = <<>> /\ tasks \in Seq(Tasks) /\ DOMAIN tasks = {}
  BY EmptySeq DEF Init
<1>2. NoJob \in Jobs /\ NoJob.ph = "none" /\ Cardinality(NoJob.work) <= Parallel
  BY NoWork
<1>3. job \in [Files -> Jobs] /\ active = {} /\ \A f \in Files : job[f] = NoJob
  BY <1>2 DEF Init
<1>4. lists \subseteq Lists /\ (\A l \in lists : l.rows = {}) /\ 1 \in Pages
  <2>1. 1 \in Pages
    BY DEF Pages
  <2>2. List(1, "list", FALSE) \in Lists /\ List(1, "list", FALSE).rows = {}
    BY <2>1, ListIs
  <2> QED
    BY <2>1, <2>2 DEF Init
<1>5. docs \in [Files -> Docs]
  <2>1. NoDoc \in Docs /\ [NoDoc EXCEPT !.row = "completed", !.vec = "FINISHED"] \in Docs
    <3>1. NoDoc \in Docs
      BY DEF NoDoc, Docs, Vec
    <3>2. \A d \in Docs : [d EXCEPT !.row = "completed", !.vec = "FINISHED"] \in Docs
      BY DEF Docs, Vec
    <3> QED
      BY <3>1, <3>2
  <2>2. Stored(NoDoc, {0}) \in Docs
    <3>1. {0} \in SUBSET Chunk
      BY KnowledgeBaseAssumption DEF Chunk
    <3> QED
      BY <2>1, <3>1, StoredIs
  <2> QED
    BY <2>1, <2>2 DEF Init
<1>6. TypeOK
  <2>1. acts \in 0..MaxActs /\ fails \in 0..MaxFails
    BY KnowledgeBaseAssumption DEF Init
  <2>2. /\ hashing = None /\ resuming = {} /\ deleting = {} /\ shown = {} /\ page = 1
        /\ mounted = TRUE /\ timer = FALSE /\ orphans = FALSE /\ slips = {}
    BY DEF Init
  <2> QED
    BY <1>1, <1>3, <1>4, <1>5, <2>1, <2>2 DEF TypeOK
<1>7. JobsOK
  <2>1. Cardinality({}) = 0 /\ MaxUploads \in Nat
    BY FS_EmptySet, KnowledgeBaseAssumption
  <2> QED
    BY <1>2, <1>3, <2>1 DEF JobsOK
<1>8. RowsOnce /\ UploadingIsServed /\ CompletedIsStored
  BY <1>1 DEF RowsOnce, UploadingIsServed, CompletedIsStored
<1>9. GotOK
  BY <1>1, <1>4 DEF GotOK
<1>10. MergeIsWhole
  BY <1>2, <1>3 DEF MergeIsWhole
<1> QED
  BY <1>6, <1>7, <1>8, <1>9, <1>10 DEF TasksTrue

LEMMA TasksStep == TasksTrue /\ [Next]_vars => TasksTrue'
<1> SUFFICES ASSUME TasksTrue, [Next]_vars PROVE TasksTrue'
  OBVIOUS
<1>1. CASE enqueueUpload
  BY <1>1, EnqueueKeeps
<1>2. CASE Refresh \/ Poll \/ OrphanPoll \/ Mount \/ \E p \in Pages : ChangePage(p)
  BY <1>2, AsksKeep
<1>3. CASE Unmount
  BY <1>3, UnmountKeeps
<1>4. CASE \E f \in Files : Submit(f)
  BY <1>4, SubmitKeeps
<1>5. CASE \E f \in Files : \E c \in Chunk : ChunkUploaded(f, c) \/ ChunkFailed(f, c)
  BY <1>5, ChunkUploadedKeeps, ChunkFailedKeeps
<1>6. CASE \E f \in Files : ServeMerge(f) \/ mergeFile(f)
  BY <1>6, ServeMergeKeeps, MergeKeeps
<1>7. CASE \E f \in Files : resumeUpload(f) \/ onBeforeUpload(f) \/ ResumeAnswered(f) \/ ResumeFailed(f)
  BY <1>7, ResumeKeeps, ResumingKeeps, AnsweredKeeps
<1>8. CASE \E f \in Files : handleDelete(f) \/ handleRetryVectorization(f) \/ Vectorized(f)
  BY <1>8, HandleDeleteKeeps, RetryKeeps, VectorizedKeeps
<1>9. CASE \E l \in lists : ServeList(l) \/ getList(l) \/ ListFailed(l)
  BY <1>9, ServeListKeeps, GetListKeeps, ListFailedKeeps
<1>10. CASE \E d \in deleting : ServeDelete(d) \/ Deleted(d)
  BY <1>10, ServeDeleteKeeps, DeletedKeeps
<1>11. CASE UNCHANGED vars
  BY <1>11 DEF vars, store, table, TasksTrue, TypeOK, RowsOnce, JobsOK, GotOK, UploadingIsServed,
     CompletedIsStored, MergeIsWhole
<1> QED
  BY <1>1, <1>2, <1>3, <1>4, <1>5, <1>6, <1>7, <1>8, <1>9, <1>10, <1>11 DEF Next, Upload, Chunks

(* For every number of files, chunks, uploads at a time and pages, whatever  *)
(* the answers: an upload that is shown has its worker, a completed row is a *)
(* document of the server, and a merge is asked for a whole file only.       *)
THEOREM TasksAreTrue == Spec => []TasksTrue
<1>1. Init => TasksTrue
  BY TasksStart
<1>2. TasksTrue /\ [Next]_vars => TasksTrue'
  BY TasksStep
<1> QED
  BY <1>1, <1>2, PTL DEF Spec
=============================================================================
