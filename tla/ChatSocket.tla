----------------------------- MODULE ChatSocket -----------------------------
(***************************************************************************)
(* The WebSocket of the chat store: useWebSocket of vueuse with the        *)
(* callbacks and the flags of the store.  A token comes, changes and goes; *)
(* the store's watcher of the URL runs before any event of a socket, so it *)
(* is part of the step that changes the token.                             *)
(*                                                                         *)
(* A socket the page has closed still fires its close event, any time      *)
(* later: `closing' counts those.                                          *)
(***************************************************************************)
EXTENDS SessionTokens

CONSTANT MaxClosing  \* bound: sockets whose close event is due when the page closes one more

ASSUME SocketAssumption == MaxClosing \in Nat \ {0}

VARIABLES
  wsToken,      \* authStore.token, which the URL contains; NoToken for none
  cur,          \* wsRef: its state, and the token in its URL
  closing,      \* sockets closed by the page whose close event has not fired
  orphans,      \* sockets nobody refers to that are open
  status,       \* wsStatus
  explicit,     \* explicitlyClosed
  retry,        \* the timer of the next attempt
  strays,       \* such timers whose handle was overwritten
  beat, pong,   \* the heartbeat runs; a pong is waited for
  allow, confirmed, intentional, notified,   \* the flags of the store
  buffer,       \* tokens under which the messages in the buffer were written
  asking,       \* the token under which a stop awaits its command token
  crossed,      \* history: an old close event fired when the new socket was open
  late,         \* history: a message was written to a socket already given up,
                \* or a stop whose token had been replaced while it awaited
  leaked        \* history: a message was sent with the token of another user

flags == <<allow, confirmed, intentional, notified>>
timers == <<retry, strays, beat, pong>>
socketHistory == <<crossed, late, leaked>>
socketVars == <<wsToken, cur, closing, orphans, status, explicit, timers, flags, buffer, asking, socketHistory>>

NoSocket == [state |-> "none", url |-> NoToken]
Alive == cur.state \in {"connecting", "open"}

SocketInit ==
  /\ wsToken \in {NoToken} \cup (User \X {1})
  /\ cur = IF wsToken = NoToken THEN NoSocket ELSE [state |-> "connecting", url |-> wsToken]
  /\ closing = 0 /\ orphans = 0
  /\ status = IF wsToken = NoToken THEN "CLOSED" ELSE "CONNECTING"
  /\ explicit = FALSE /\ retry = FALSE /\ strays = 0 /\ beat = FALSE /\ pong = FALSE
  /\ allow = (wsToken # NoToken) /\ confirmed = FALSE
  /\ intentional = (wsToken = NoToken) /\ notified = FALSE
  /\ buffer = {} /\ asking = NoToken
  /\ crossed = FALSE /\ late = FALSE /\ leaked = FALSE

----------------------------------------------------------------------------
(* useWebSocket.                                                           *)

CanClose == Alive => closing < MaxClosing

(* close(): the timer goes, and the socket if there is one.                *)
Closed ==
  IF cur.state = "none"
    THEN [explicit |-> explicit, closing |-> closing, beat |-> beat, pong |-> pong]
    ELSE [explicit |-> TRUE, closing |-> IF Alive THEN closing + 1 ELSE closing,
          beat |-> FALSE, pong |-> FALSE]

rawWsClose ==
  /\ CanClose
  /\ retry' = FALSE
  /\ cur' = NoSocket
  /\ explicit' = Closed.explicit /\ closing' = Closed.closing
  /\ beat' = Closed.beat /\ pong' = Closed.pong
  /\ UNCHANGED <<orphans, status, strays>>

(* open(): close(), and a socket for the URL of now.                       *)
rawWsOpen(t) ==
  /\ CanClose
  /\ retry' = FALSE
  /\ cur' = [state |-> "connecting", url |-> t] /\ status' = "CONNECTING"
  /\ explicit' = FALSE /\ closing' = Closed.closing
  /\ beat' = Closed.beat /\ pong' = Closed.pong
  /\ UNCHANGED <<orphans, strays>>

(* What goes out on a socket with token t: the buffer when it opens, and   *)
(* before a message.                                                       *)
Flushed(messages, t) ==
  /\ buffer' = {}
  /\ leaked' = (leaked \/ \E b \in messages : b[1] # t[1])

(* The store's part of the close event of a socket, current or old.        *)
onDisconnected ==
  IF intentional
    THEN intentional' = FALSE /\ allow' = (wsToken # NoToken) /\ UNCHANGED notified
    ELSE /\ allow' = confirmed
         /\ notified' = (notified \/ ~confirmed)
         /\ UNCHANGED intentional

onClose(current) ==
  /\ status' = "CLOSED" /\ beat' = FALSE /\ pong' = FALSE
  /\ onDisconnected
  /\ IF ~explicit /\ (cur.state = "none" \/ current) /\ allow'
       THEN retry' = TRUE /\ strays' = IF retry THEN strays + 1 ELSE strays
       ELSE UNCHANGED <<retry, strays>>
  /\ UNCHANGED <<wsToken, explicit, confirmed, buffer, asking, late, leaked>>

----------------------------------------------------------------------------
(* The store.                                                              *)

Reset == confirmed' = FALSE /\ notified' = FALSE

(* Mutant: the socket that is there is left.                               *)
wsOpenAgain(t) ==
  /\ Reset
  /\ allow' = TRUE
  /\ intentional' = (status \in {"OPEN", "CONNECTING"})
  /\ IF cur.state = "open" THEN UNCHANGED <<cur, closing, orphans, status, explicit, timers>>
                           ELSE rawWsOpen(t)

(* Mutant: the socket before is not closed.                                *)
wsOpenBeside(t) ==
  /\ Reset
  /\ allow' = TRUE
  /\ intentional' = (status \in {"OPEN", "CONNECTING"})
  /\ cur' = [state |-> "connecting", url |-> t] /\ status' = "CONNECTING"
  /\ orphans' = IF Alive THEN orphans + 1 ELSE orphans
  /\ explicit' = FALSE
  /\ UNCHANGED <<closing, timers>>

wsOpen(t) ==
  /\ Reset
  /\ allow' = TRUE
  /\ intentional' = (status \in {"OPEN", "CONNECTING"})
  /\ rawWsOpen(t)

wsClose == intentional' = TRUE /\ allow' = FALSE /\ rawWsClose

(* A login, or a token that replaces another one of the same user: the URL *)
(* changes and the watcher opens it.                                       *)
SetToken(t) ==
  /\ t # wsToken /\ (wsToken # NoToken => t[1] = wsToken[1])
  /\ wsToken' = t
  /\ wsOpen(t)
  /\ UNCHANGED <<buffer, asking, socketHistory>>

(* handleAuthReset, and the watcher after it.                              *)
handleAuthReset ==
  /\ wsToken # NoToken
  /\ wsToken' = NoToken
  /\ Reset /\ wsClose
  /\ UNCHANGED <<buffer, asking, socketHistory>>

(* handleSend: without a connection the page opens one instead.            *)
Reconnect ==
  /\ status # "OPEN" /\ wsToken # NoToken
  /\ wsOpen(wsToken)
  /\ UNCHANGED <<wsToken, buffer, asking, socketHistory>>

(* wsSend: to the socket, or into the buffer.                              *)
wsSend(owner) ==
  IF cur.state # "none" /\ status = "OPEN"
    THEN Flushed(buffer \cup {owner}, cur.url)
    ELSE buffer' = buffer \cup {owner} /\ UNCHANGED leaked

Send ==
  /\ wsToken # NoToken /\ status = "OPEN"
  /\ wsSend(wsToken)
  /\ late' = (late \/ cur.state = "none")
  /\ UNCHANGED <<wsToken, cur, closing, orphans, status, explicit, timers, flags, asking, crossed>>

AskStop ==
  /\ wsToken # NoToken /\ status = "OPEN" /\ asking = NoToken
  /\ asking' = wsToken
  /\ UNCHANGED <<wsToken, cur, closing, orphans, status, explicit, timers, flags, buffer, socketHistory>>

(* The command token has come, or the request for it has failed.           *)
Stop ==
  /\ asking # NoToken
  /\ asking' = NoToken
  /\ \/ wsSend(asking) /\ late' = (late \/ status # "OPEN" \/ cur.state = "none" \/ asking # wsToken)
     \/ UNCHANGED <<buffer, late, leaked>>
  /\ UNCHANGED <<wsToken, cur, closing, orphans, status, explicit, timers, flags, crossed>>

----------------------------------------------------------------------------
(* Events of the sockets and the timers.                                   *)

Opened ==
  /\ cur.state = "connecting"
  /\ cur' = [cur EXCEPT !.state = "open"]
  /\ status' = "OPEN"
  /\ allow' = TRUE /\ notified' = FALSE /\ intentional' = FALSE
  /\ beat' = TRUE
  /\ Flushed(buffer, cur.url)
  /\ UNCHANGED <<wsToken, closing, orphans, explicit, retry, strays, pong, confirmed, asking,
                 crossed, late>>

(* The first message of a connection.                                      *)
Handshake ==
  /\ cur.state = "open" /\ ~confirmed
  /\ confirmed' = TRUE /\ pong' = FALSE
  /\ UNCHANGED <<wsToken, cur, closing, orphans, status, explicit, retry, strays, beat, allow,
                 intentional, notified, buffer, asking, socketHistory>>

(* Any other message: it counts as a pong.                                 *)
Message ==
  /\ cur.state = "open" /\ pong
  /\ pong' = FALSE
  /\ UNCHANGED <<wsToken, cur, closing, orphans, status, explicit, retry, strays, beat, flags,
                 buffer, asking, socketHistory>>

Beat ==
  /\ beat /\ ~pong
  /\ pong' = TRUE
  /\ UNCHANGED <<wsToken, cur, closing, orphans, status, explicit, retry, strays, beat, flags,
                 buffer, asking, socketHistory>>

(* No pong: the socket is closed, but not for good.  A server that streams *)
(* an answer sends no pong, and nothing else while the model is silent.    *)
(* It takes 30 seconds; a browser fires the close event of the socket      *)
(* before it long before that.                                             *)
PongTimeout ==
  /\ pong /\ closing = 0
  /\ retry' = FALSE
  /\ cur' = NoSocket
  /\ explicit' = FALSE /\ closing' = Closed.closing
  /\ beat' = Closed.beat /\ pong' = FALSE
  /\ UNCHANGED <<wsToken, orphans, status, strays, flags, buffer, asking, socketHistory>>

(* The server refuses or ends the connection, or the network does.         *)
Lost ==
  /\ Alive
  /\ cur' = [cur EXCEPT !.state = "dead"]
  /\ onClose(TRUE)
  /\ UNCHANGED <<closing, orphans, crossed>>

OldClosed ==
  /\ closing > 0
  /\ closing' = closing - 1
  /\ onClose(FALSE)
  /\ crossed' = (crossed \/ cur.state = "open")
  /\ UNCHANGED <<cur, orphans>>

(* _init from the timer of an attempt.  A socket that is there is not      *)
(* closed.                                                                 *)
Retry ==
  /\ retry \/ strays > 0
  /\ IF retry THEN retry' = FALSE /\ UNCHANGED strays ELSE strays' = strays - 1 /\ UNCHANGED retry
  /\ IF explicit \/ wsToken = NoToken
       THEN UNCHANGED <<cur, orphans, status>>
       ELSE /\ cur' = [state |-> "connecting", url |-> wsToken]
            /\ orphans' = IF Alive THEN orphans + 1 ELSE orphans
            /\ status' = "CONNECTING"
  /\ UNCHANGED <<wsToken, closing, explicit, beat, pong, flags, buffer, asking, socketHistory>>

----------------------------------------------------------------------------
SocketNext ==
  \/ \E t \in Token : SetToken(t)
  \/ handleAuthReset \/ Reconnect \/ Send \/ AskStop \/ Stop
  \/ Opened \/ Handshake \/ Message \/ Beat \/ PongTimeout \/ Lost \/ OldClosed \/ Retry

SocketSpec == SocketInit /\ [][SocketNext]_socketVars

(* Close events and timers come; a server that is tried again and again    *)
(* accepts once in a while.                                                *)
SocketFairSpec == SocketSpec /\ WF_socketVars(OldClosed) /\ WF_socketVars(Retry) /\ SF_socketVars(Opened)

----------------------------------------------------------------------------
(* Properties.                                                             *)

SocketTypeOK ==
  /\ wsToken \in Token \cup {NoToken}
  /\ cur \in [state : {"none", "connecting", "open", "dead"}, url : Token \cup {NoToken}]
  /\ closing \in 0..MaxClosing /\ strays \in Nat /\ orphans \in Nat
  /\ status \in {"CLOSED", "CONNECTING", "OPEN"}
  /\ explicit \in BOOLEAN /\ retry \in BOOLEAN /\ beat \in BOOLEAN /\ pong \in BOOLEAN
  /\ allow \in BOOLEAN /\ confirmed \in BOOLEAN /\ intentional \in BOOLEAN /\ notified \in BOOLEAN
  /\ buffer \subseteq Token /\ asking \in Token \cup {NoToken}
  /\ crossed \in BOOLEAN /\ late \in BOOLEAN /\ leaked \in BOOLEAN

(* The page never keeps a second connection that nobody closes: its        *)
(* messages would be handled twice.                                        *)
OneConnection == orphans = 0

(* What one user wrote is not sent as another's, as long as it was not     *)
(* written to a socket the page had already given up, nor is a stop that   *)
(* awaited its command token while the token of the page was replaced.     *)
OwnMessages == leaked => late

(* Timers are only pending while there is no live socket, and the page has *)
(* given up at most one socket for good reasons of its own: the one it     *)
(* replaces because no pong came.                                          *)
OneTimer ==
  /\ strays = 0
  /\ retry => ~Alive
  /\ cur.state = "none" /\ ~explicit => closing <= 1 /\ (retry => closing = 0)

(* A live socket was opened with the token of now; what the status calls   *)
(* open is, unless the page has just given it up.                          *)
OwnLine ==
  /\ Alive => wsToken # NoToken /\ cur.url = wsToken
  /\ status = "OPEN" => cur.state \in {"none", "open"}

(* What waits in the buffer was written late.                              *)
BufferLate == buffer # {} => late

(* Inductive: the page has one connection, of the session it is in, and    *)
(* sends no other session's messages.                                      *)
SocketServed ==
  SocketTypeOK /\ OneConnection /\ OwnMessages /\ OneTimer /\ OwnLine /\ BufferLate

(* A page with a user is connected again and again, or it has told the     *)
(* user that it gave up: unless a close event came so late that the next   *)
(* socket was already open, which then counts as closed.                   *)
KeepsTrying == []<>(status = "OPEN" \/ wsToken = NoToken \/ notified \/ crossed)

(* The socket is the link the page relies on.                              *)
Link == INSTANCE ChatLink WITH token <- wsToken, line <- IF cur.state = "open" THEN cur.url ELSE NoToken
LinkSpec == Link!Spec
=============================================================================
