----------------------------- MODULE Conversations -----------------------------
(* The conversation a user is in (services/conversation_service.py, and the  *)
(* start of a generation in chat/websocket_handler.py): the sessions are     *)
(* rows, the current one is a key in Redis that expires, and a question asks *)
(* for the current one, or a new one, in a transaction that is committed     *)
(* only when the model and the credits have been checked.  One user with     *)
(* several tabs; module Generation has what follows.  RecordsAgree joins to  *)
(* what is promised here what the tags and the long-term memory promise.     *)
EXTENDS OrganizationTags, MemoryExtraction

CONSTANTS UserTabs,      \* the user's tabs
          SessionIds,    \* what uuid4 returns, each once
          MaxConvActs    \* requests, all in all

ASSUME ConversationAssumption == "none" \notin SessionIds /\ MaxConvActs \in Nat

VARIABLES
    sessions, \* the committed rows: "none", "ACTIVE", "ARCHIVED"
    current,  \* the key in Redis
    doing,    \* of each tab: the step of its request, the session it is about, whether it is new
    turns,    \* the committed turns: session, and whether nothing else went on since the last one
    past      \* requests made; ids given out; a quiet while since the last turn; slips

convVars == <<sessions, current, doing, turns, past>>

Idle == [step |-> "idle", sid |-> "none", fresh |-> FALSE, lone |-> FALSE]

Deed == [step : {"idle", "made", "read", "flushed", "resolving", "answering"},
         sid : SessionIds \cup {"none"}, fresh : BOOLEAN, lone : BOOLEAN]

TurnRecord == [sid : SessionIds, goesOn : BOOLEAN]

ConversationTypeOK ==
    /\ sessions \in [SessionIds -> {"none", "ACTIVE", "ARCHIVED"}]
    /\ current \in SessionIds \cup {"none"}
    /\ doing \in [UserTabs -> Deed]
    /\ turns \in Seq(TurnRecord)
    /\ past \in [acts : 0..MaxConvActs, given : SUBSET SessionIds, quiet : BOOLEAN, slips : SUBSET SessionIds]

ConversationInit ==
    /\ sessions = [s \in SessionIds |-> "none"] /\ current = "none"
    /\ doing = [t \in UserTabs |-> Idle] /\ turns = <<>>
    /\ past = [acts |-> 0, given |-> {}, quiet |-> FALSE, slips |-> {}]

-----------------------------------------------------------------------------
AllIdle == \A t \in UserTabs : doing[t].step = "idle"
Starts(t) == doing[t].step = "idle" /\ past.acts < MaxConvActs
(* A fresh id; which one says nothing, so one is tried.                      *)
NewId(s) == LET fresh == SessionIds \ past.given
            IN fresh # {} /\ s = CHOOSE x \in fresh : TRUE

(* A request of another tab, or one that is no question, ends the quiet.     *)
Begins(t, step, sid, asks) ==
    /\ doing' = [u \in UserTabs |->
                   IF u = t THEN [step |-> step, sid |-> sid, fresh |-> FALSE, lone |-> AllIdle]
                   ELSE [doing[u] EXCEPT !.lone = FALSE]]
    /\ past' = [past EXCEPT !.acts = @ + 1, !.quiet = @ /\ asks /\ AllIdle,
                            !.given = @ \cup IF sid = "none" THEN {} ELSE {sid}]

(* create_session: the row is committed, then the key is set.                *)
CreateSession(t, s) ==
    /\ Starts(t) /\ NewId(s)
    /\ sessions' = [sessions EXCEPT ![s] = "ACTIVE"]
    /\ Begins(t, "made", s, FALSE)
    /\ UNCHANGED <<current, turns>>

(* switch_current_conversation: the row is found, then the key is set.       *)
SwitchConversation(t, s) ==
    /\ Starts(t) /\ sessions[s] # "none"
    /\ Begins(t, "made", s, FALSE)
    /\ UNCHANGED <<sessions, current, turns>>

(* _set_current_conversation_id, the last step of both.                      *)
SetCurrent(t) ==
    /\ doing[t].step = "made"
    /\ current' = doing[t].sid
    /\ doing' = [doing EXCEPT ![t] = Idle]
    /\ UNCHANGED <<sessions, turns, past>>

(* archive_session, unarchive_session.                                       *)
SetStatus(t, s, status) ==
    /\ Starts(t) /\ sessions[s] # "none"
    /\ sessions' = [sessions EXCEPT ![s] = status]
    /\ doing' = [u \in UserTabs |-> [doing[u] EXCEPT !.lone = FALSE]]
    /\ past' = [past EXCEPT !.acts = @ + 1, !.quiet = FALSE]
    /\ UNCHANGED <<current, turns>>

-----------------------------------------------------------------------------
(* A question: ensure_current_session and what follows *)

EnsureReads(t) ==
    /\ Starts(t)
    /\ Begins(t, "read", current, TRUE)
    /\ UNCHANGED <<sessions, current, turns>>

(* The session found is kept if it is there and active, or a new one is      *)
(* written, not yet committed.                                               *)
Usable(s) == s # "none" /\ sessions[s] = "ACTIVE"

EnsureFinds(t) ==
    /\ doing[t].step = "read"
    /\ IF Usable(doing[t].sid)
       THEN /\ doing' = [doing EXCEPT ![t].step = "resolving"]
            /\ UNCHANGED past
       ELSE \E s \in SessionIds :
              /\ NewId(s)
              /\ doing' = [doing EXCEPT ![t].step = "flushed", ![t].sid = s, ![t].fresh = TRUE]
              /\ past' = [past EXCEPT !.given = @ \cup {s}]
    /\ UNCHANGED <<sessions, current, turns>>

(* Mutant: the key is left as it was. *)
PointedAway(t) == current

Pointed(t) == doing[t].sid

EnsurePoints(t) ==
    /\ doing[t].step = "flushed"
    /\ current' = Pointed(t)
    /\ doing' = [doing EXCEPT ![t].step = "resolving"]
    /\ UNCHANGED <<sessions, turns, past>>

(* session.commit: a new session becomes a row.                              *)
Committed(t) == IF doing[t].fresh THEN [sessions EXCEPT ![doing[t].sid] = "ACTIVE"] ELSE sessions

Resolve(t) ==
    /\ doing[t].step = "resolving"
    /\ sessions' = Committed(t)
    /\ doing' = [doing EXCEPT ![t].step = "answering", ![t].fresh = FALSE]
    /\ UNCHANGED <<current, turns, past>>

(* The model or the credits are refused, or the server stops: the            *)
(* transaction is rolled back, the key is not.                               *)
RollBack(t) ==
    /\ doing[t].step \in {"flushed", "resolving"}
    /\ doing' = [doing EXCEPT ![t] = Idle]
    /\ past' = [past EXCEPT !.quiet = FALSE,
                  !.slips = @ \cup IF doing[t].fresh THEN {doing[t].sid} ELSE {}]
    /\ UNCHANGED <<sessions, current, turns>>

(* record_turn, in the session the question began in.                        *)
RecordTurn(t) ==
    /\ doing[t].step = "answering"
    /\ turns' = Append(turns, [sid |-> doing[t].sid, goesOn |-> past.quiet /\ doing[t].lone])
    /\ doing' = [doing EXCEPT ![t] = Idle]
    /\ past' = [past EXCEPT !.quiet = doing[t].lone]
    /\ UNCHANGED <<sessions, current>>

(* The generation fails or is stopped: no turn is recorded.                  *)
NoTurn(t) ==
    /\ doing[t].step = "answering"
    /\ doing' = [doing EXCEPT ![t] = Idle]
    /\ past' = [past EXCEPT !.quiet = FALSE]
    /\ UNCHANGED <<sessions, current, turns>>

(* Seven days without a change of the key.                                   *)
Expire ==
    /\ current # "none" /\ AllIdle
    /\ current' = "none" /\ past' = [past EXCEPT !.quiet = FALSE]
    /\ UNCHANGED <<sessions, doing, turns>>

ConversationNext ==
    \/ Expire
    \/ \E t \in UserTabs :
         \/ EnsureReads(t) \/ EnsureFinds(t) \/ EnsurePoints(t) \/ Resolve(t) \/ RollBack(t)
         \/ RecordTurn(t) \/ NoTurn(t) \/ SetCurrent(t)
         \/ \E s \in SessionIds : CreateSession(t, s) \/ SwitchConversation(t, s)
                                    \/ \E st \in {"ACTIVE", "ARCHIVED"} : SetStatus(t, s, st)

ConversationSpec == ConversationInit /\ [][ConversationNext]_convVars

-----------------------------------------------------------------------------
(* Every turn belongs to a session there is, and the key points to one, but  *)
(* for one that is about to be committed or was rolled back.                 *)
TurnsHaveSession ==
    /\ \A i \in DOMAIN turns : sessions[turns[i].sid] # "none"
    /\ current # "none" /\ sessions[current] = "none" =>
         \/ current \in past.slips
         \/ \E t \in UserTabs : doing[t].fresh /\ doing[t].sid = current

(* Questions asked one after the other, with nothing else going on, are one  *)
(* conversation.  (Two first questions at once are two, and the key stays on *)
(* the later; that is why the quiet is asked for.)                           *)
ConversationGoesOn ==
    \A i \in DOMAIN turns : turns[i].goesOn => i > 1 /\ turns[i].sid = turns[i - 1].sid

-----------------------------------------------------------------------------
(* The inductive invariant.  The session of a request is one there is, from  *)
(* the point where the code has made sure of it; a row that is not committed *)
(* is only in the hands of the question that wrote it.                       *)
DeedOK(t) ==
    /\ doing[t].step \in {"made", "answering"} => doing[t].sid # "none" /\ sessions[doing[t].sid] # "none"
    /\ doing[t].step \in {"flushed", "resolving"} =>
         doing[t].sid # "none" /\ (doing[t].fresh \/ sessions[doing[t].sid] # "none")
    /\ doing[t].step = "flushed" => doing[t].fresh
    /\ doing[t].fresh => doing[t].step \in {"flushed", "resolving"}

(* A request that has been alone so far finds everything as it left it.      *)
LoneOK(t) ==
    doing[t].lone =>
        /\ \A u \in UserTabs \ {t} : doing[u].step = "idle"
        /\ doing[t].step \in {"read", "resolving", "answering"} => doing[t].sid = current
        /\ doing[t].step \in {"resolving", "answering"} =>
             doing[t].fresh \/ sessions[doing[t].sid] = "ACTIVE"

(* In a quiet while the key is on the session of the last turn, which can go *)
(* on, and a question that is being asked is asked in it, alone.             *)
QuietOK ==
    past.quiet =>
        /\ turns # <<>> /\ current = turns[Len(turns)].sid /\ sessions[current] = "ACTIVE"
        /\ \A t \in UserTabs : doing[t].step # "idle" =>
             /\ doing[t].step \in {"read", "resolving", "answering"} /\ doing[t].lone
             /\ doing[t].sid = current /\ ~doing[t].fresh

ConversationInv ==
    /\ ConversationTypeOK /\ \A t \in UserTabs : DeedOK(t) /\ LoneOK(t)
    /\ QuietOK /\ TurnsHaveSession /\ ConversationGoesOn

(* Every organization tag is in the tree and a user's primary tag is his;    *)
(* every turn is of a session of its user, and the next question goes on in  *)
(* it; the index of memories is the rows', and an extraction that was due    *)
(* was made - short of the crossings each part names                         *)
(* (organization_service, conversation_service, memory/service, indexer).    *)
RecordsAgree ==
    /\ TreeHasAll /\ PrimaryIsOwn /\ TurnsHaveSession /\ ConversationGoesOn
    /\ IndexOfRows /\ DueIsExtracted
=============================================================================
