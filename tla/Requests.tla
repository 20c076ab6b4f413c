------------------------------- MODULE Requests -------------------------------
(* The request instance of the front end (packages/axios) as all pages share *)
(* it: the controllers by which a request can be cancelled, and the messages *)
(* of requests that fail (service/request/shared.ts).  Tokens and logouts    *)
(* are in module ClientSession.                                              *)
EXTENDS Naturals, Sequences, FiniteSets

CONSTANTS RequestIds,    \* ids given to requests that may be cancelled
          Causes,        \* texts of errors
          MaxRequests,   \* requests sent
          MaxOnScreen    \* messages on the screen at once

(* The id of a request that cannot be cancelled. *)
NoId == ""

ASSUME RequestsAssumption == NoId \notin RequestIds /\ {MaxRequests, MaxOnScreen} \subseteq Nat

VARIABLES
    net,          \* the requests sent: id, and how they stand
    controllers,  \* abortControllerMap: the last request under each id, never taken out on an answer
    errMsgStack,  \* the texts of messages thought to be on the screen
    messages,     \* the messages on the screen, in order
    clears,       \* timers that will empty errMsgStack
    accidents     \* texts that were on the screen when the stack was emptied

requestVars == <<net, controllers, errMsgStack, messages, clears, accidents>>

SentRequest == [id : RequestIds \cup {NoId}, st : {"sent", "answered", "failed", "cancelled"}]
TextsOf(s) == {s[i] : i \in DOMAIN s}

RequestTypeOK ==
    /\ net \in Seq(SentRequest)
    /\ Len(net) <= MaxRequests /\ clears \in 0..MaxOnScreen
    /\ controllers \in [RequestIds \cup {NoId} -> 0..MaxRequests]
    /\ errMsgStack \subseteq Causes /\ accidents \subseteq Causes
    /\ messages \in Seq(Causes) /\ Len(messages) <= MaxOnScreen

RequestInit ==
    /\ net = <<>> /\ controllers = [id \in RequestIds \cup {NoId} |-> 0]
    /\ errMsgStack = {} /\ messages = <<>> /\ clears = 0 /\ accidents = {}

(* The key of a request's controller.  A request without an id is given one, *)
(* but in a variable of its own: its controller is kept under none.          *)
ControllerKey(id) == id

(* The request interceptor.  An id is used once (nanoid).                    *)
SendRequest(id) ==
    /\ Len(net) < MaxRequests
    /\ id # NoId => \A i \in DOMAIN net : net[i].id # id
    /\ net' = Append(net, [id |-> id, st |-> "sent"])
    /\ controllers' = [controllers EXCEPT ![ControllerKey(id)] = Len(net) + 1]
    /\ UNCHANGED <<errMsgStack, messages, clears, accidents>>

(* showErrorMsg: not if a message with this text is thought to be shown.     *)
ErrorShown(text) ==
    IF text \in errMsgStack THEN <<errMsgStack, messages>>
    ELSE <<errMsgStack \cup {text}, Append(messages, text)>>

ShowErrorMsg(text) ==
    /\ Len(messages) < MaxOnScreen
    /\ errMsgStack' = ErrorShown(text)[1]
    /\ messages' = ErrorShown(text)[2]

(* The response interceptor and flatRequest: an answer, or an error that is  *)
(* shown and handed to the caller in the place of data.                      *)
RequestAnswered(i) ==
    /\ net[i].st = "sent"
    /\ net' = [net EXCEPT ![i].st = "answered"]
    /\ UNCHANGED <<controllers, errMsgStack, messages, clears, accidents>>

RequestFails(i, text) ==
    /\ net[i].st = "sent"
    /\ net' = [net EXCEPT ![i].st = "failed"]
    /\ ShowErrorMsg(text)
    /\ UNCHANGED <<controllers, clears, accidents>>

(* cancelRequest: aborting a request that has ended does nothing; the error  *)
(* of one that has not is not shown.                                         *)
CancelRequest(id) ==
    LET i == controllers[id]
    IN /\ i # 0
       /\ controllers' = [controllers EXCEPT ![id] = 0]
       /\ net' = IF net[i].st = "sent" THEN [net EXCEPT ![i].st = "cancelled"] ELSE net
       /\ UNCHANGED <<errMsgStack, messages, clears, accidents>>

(* Mutant: the text of a message that has gone stays in the stack. *)
LeftBehind(text) == errMsgStack

(* onLeave: the stack without the text of the message that goes.             *)
LeftOf(text) == errMsgStack \ {text}

MessageLeaves(k) ==
    /\ k \in DOMAIN messages
    /\ errMsgStack' = LeftOf(messages[k])
    /\ messages' = SubSeq(messages, 1, k - 1) \o SubSeq(messages, k + 1, Len(messages))
    /\ clears' = IF clears < MaxOnScreen THEN clears + 1 ELSE clears
    /\ UNCHANGED <<net, controllers, accidents>>

(* Five seconds later the whole stack is emptied, whatever is on the screen. *)
ClearStack ==
    /\ clears > 0 /\ clears' = clears - 1
    /\ errMsgStack' = {}
    /\ accidents' = accidents \cup errMsgStack
    /\ UNCHANGED <<net, controllers, messages>>

RequestNext ==
    \/ \E id \in RequestIds \cup {NoId} : SendRequest(id)
    \/ \E i \in DOMAIN net : RequestAnswered(i) \/ \E t \in Causes : RequestFails(i, t)
    \/ \E id \in RequestIds : CancelRequest(id)
    \/ \E k \in DOMAIN messages : MessageLeaves(k)
    \/ ClearStack

RequestSpec == RequestInit /\ [][RequestNext]_requestVars

-----------------------------------------------------------------------------
(* A request that was given an id can be cancelled by it as long as it is    *)
(* under way, and by no other; requests without one cannot be cancelled.     *)
CancelReaches ==
    \A i \in DOMAIN net : net[i].id # NoId /\ net[i].st = "sent" => controllers[net[i].id] = i

(* No error is swallowed: a text that is held back because it is thought to  *)
(* be on the screen is on the screen.                                        *)
ErrorsSeen == errMsgStack \subseteq TextsOf(messages)

(* No text is on the screen twice - unless it was there when the stack was   *)
(* emptied five seconds after another message had gone.                      *)
MessagesOnce ==
    \A j, k \in DOMAIN messages : messages[j] = messages[k] /\ j # k => messages[j] \in accidents

(* An id is of one request, and a controller under it is that request's.     *)
KeysAgree ==
    /\ \A i, k \in DOMAIN net : net[i].id = net[k].id /\ i # k => net[i].id = NoId
    /\ \A id \in RequestIds : controllers[id] # 0 =>
         controllers[id] \in DOMAIN net /\ net[controllers[id]].id = id

(* A message on the screen is known to the stack, or was there when it was   *)
(* emptied.                                                                  *)
MessagesKnown == TextsOf(messages) \subseteq errMsgStack \cup accidents

RequestInv ==
    RequestTypeOK /\ KeysAgree /\ MessagesKnown /\ CancelReaches /\ ErrorsSeen /\ MessagesOnce
=============================================================================
