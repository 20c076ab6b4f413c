--------------------------- MODULE ClientSession ---------------------------
(***************************************************************************)
(* The session of the page: the tokens in local storage, the auth store,   *)
(* and the request layer, which attaches the stored token, refreshes it    *)
(* when the server says it has expired and sends the refused requests      *)
(* again.                                                                  *)
(***************************************************************************)
EXTENDS SessionTokens, FiniteSets

CONSTANTS
  Slot,        \* bound: requests in flight
  MaxActs,     \* bound: requests the user's doings send
  Codes,       \* what a server may answer to an expired token
  NoUser

ASSUME SessionAssumption ==
  /\ NoUser \notin User /\ MaxActs \in Nat
  /\ Codes \subseteq {"expired", "logout", "modal", "forbidden", "unauthorized"}

VARIABLES
  stored,      \* localStorage: token
  rStored,     \* localStorage: the user of the refresh token
  token,       \* authStore.token
  info,        \* authStore.userInfo: whose it is
  atLogin,     \* the login page is shown
  request,     \* slot -> the request in flight
  refreshFn,   \* state.refreshTokenFn: "none", "pending", "success" or "failure"
  refresh,     \* the refresh in flight: its user, NoUser for none
  clears,      \* timers that forget refreshFn
  modal,       \* the dialog that ends in a logout is open
  issued,      \* user -> how many tokens
  expired,     \* tokens the server no longer takes
  acts,        \* requests so far
  refused,     \* history: tokens the page was told are over, in a way it acts on
  half,        \* history: a login got its tokens and then no user info
  mixed        \* history: an answer for a session that was over changed the next,
               \* or a login was given a newer token before it had its user

storage == <<stored, rStored, token, info>>
layer == <<refreshFn, refresh, clears>>
server == <<issued, expired>>
sessionHistory == <<refused, half, mixed>>
sessionVars == <<storage, atLogin, request, layer, modal, server, acts, sessionHistory>>

Kind == {"data", "me", "loginMe", "login", "logout"}

(* A request, the token it carries and the one it began with.              *)
Idle == [kind |-> "none", tok |-> NoToken, own |-> NoToken, waiting |-> FALSE]
Request(kind, tok) == [kind |-> kind, tok |-> tok, own |-> tok, waiting |-> FALSE]

Owner(t) == IF t = NoToken THEN NoUser ELSE t[1]

LoggingIn == \E s \in Slot : request[s].kind = "loginMe"

SessionInit ==
  /\ \/ \E u \in User : stored = <<u, 1>> /\ rStored = u /\ issued = [v \in User |-> IF v = u THEN 1 ELSE 0]
     \/ stored = NoToken /\ rStored = NoUser /\ issued = [v \in User |-> 0]
  /\ token = stored
  /\ info = NoUser
  /\ atLogin = (stored = NoToken)
  /\ request = [s \in Slot |-> Idle]
  /\ refreshFn = "none" /\ refresh = NoUser /\ clears = 0
  /\ modal = FALSE
  /\ expired = {} /\ acts = 0
  /\ refused = {} /\ half = FALSE /\ mixed = FALSE

----------------------------------------------------------------------------
(* The auth store.                                                         *)

(* resetStore.  The page goes to the login page at the end of it.          *)
resetStore ==
  /\ stored' = NoToken /\ rStored' = NoUser /\ token' = NoToken /\ info' = NoUser
  /\ atLogin' = TRUE

Keep == UNCHANGED <<storage, atLogin>>

(* An answer for u changes the session of somebody else, or none.          *)
Mix(u) == mixed' = (mixed \/ u # Owner(stored))

(* A new token comes for u, perhaps while a login is under way.            *)
MixToken(u) == mixed' = (mixed \/ u # Owner(stored) \/ LoggingIn)

Issue(u) == issued[u] < MaxSerial /\ issued' = [issued EXCEPT ![u] = @ + 1]
NextToken(u) == <<u, issued[u] + 1>>

(* Mutant: only the store has the new token.                               *)
setTokenStore(t) == token' = t /\ UNCHANGED stored

setToken(t) == token' = t /\ stored' = t

(* What the caller does when its request has failed.                       *)
FailedKind(kind) ==
  IF kind \in {"me", "login"} THEN resetStore ELSE Keep

----------------------------------------------------------------------------
(* Requests of the page.                                                   *)

SendAs(s, kind, tok) ==
  /\ request[s] = Idle /\ acts < MaxActs /\ acts' = acts + 1
  /\ request' = [request EXCEPT ![s] = Request(kind, tok)]
  /\ UNCHANGED <<layer, modal, server, sessionHistory>>

(* A view asks for data.                                                   *)
Load(s) == ~atLogin /\ SendAs(s, "data", stored) /\ Keep

(* The route guard lets a stored token in, and asks who the user is.       *)
Navigate(s) ==
  /\ stored # NoToken
  /\ SendAs(s, "me", stored)
  /\ atLogin' = FALSE /\ UNCHANGED storage

(* Whose login it is stands in the place of the token.                     *)
Login(s) ==
  /\ atLogin /\ \A r \in Slot : request[r].kind \notin {"login", "loginMe"}
  /\ \E u \in User : SendAs(s, "login", <<u, 1>>)
  /\ Keep

Logout(s) == ~atLogin /\ SendAs(s, "logout", stored) /\ Keep

----------------------------------------------------------------------------
(* Answers.                                                                *)

Free(s) == [request EXCEPT ![s] = Idle]

(* login, answered: loginByToken stores the tokens and asks for the user.  *)
LoggedIn(s) ==
  LET u == Owner(request[s].tok) IN
  /\ request[s].kind = "login"
  /\ Issue(u)
  /\ stored' = NextToken(u) /\ rStored' = u
  /\ request' = [request EXCEPT ![s] = Request("loginMe", NextToken(u))]
  /\ UNCHANGED <<token, info, atLogin, layer, modal, expired, acts, sessionHistory>>

LoggedOut(s) ==
  /\ request[s].kind = "logout"
  /\ resetStore
  /\ request' = Free(s)
  /\ UNCHANGED <<layer, modal, server, acts, sessionHistory>>

Valid(r) == r.tok # NoToken /\ r.tok \notin expired /\ ~r.waiting

(* getUserInfo, answered; a login then keeps the token it was given.       *)
Known(s) ==
  LET r == request[s] IN
  /\ r.kind \in {"me", "loginMe"} /\ Valid(r)
  /\ info' = Owner(r.tok)
  /\ Mix(Owner(r.tok))
  /\ IF r.kind = "loginMe" THEN token' = r.own /\ atLogin' = FALSE ELSE UNCHANGED <<token, atLogin>>
  /\ request' = Free(s)
  /\ UNCHANGED <<stored, rStored, layer, modal, server, acts, refused, half>>

Loaded(s) ==
  /\ request[s].kind = "data" /\ Valid(request[s])
  /\ request' = Free(s)
  /\ Keep /\ UNCHANGED <<layer, modal, server, acts, sessionHistory>>

(* The answer carries a new token.                                         *)
Renewed(s) ==
  LET u == Owner(request[s].tok) IN
  /\ request[s].kind = "data" /\ Valid(request[s])
  /\ Issue(u)
  /\ setToken(NextToken(u))
  /\ MixToken(u)
  /\ request' = Free(s)
  /\ UNCHANGED <<rStored, info, atLogin, layer, modal, expired, acts, refused, half>>

(* The request fails: the network, or a refusal that only says so.         *)
Failed(s) ==
  LET r == request[s] IN
  /\ r # Idle /\ ~r.waiting
  /\ FailedKind(r.kind)
  /\ IF r.kind = "me" THEN Mix(Owner(r.tok)) ELSE UNCHANGED mixed
  /\ half' = (half \/ r.kind = "loginMe")
  /\ request' = Free(s)
  /\ UNCHANGED <<layer, modal, server, acts, refused>>

----------------------------------------------------------------------------
(* An expired token.                                                       *)

Refused(s) ==
  /\ request[s].tok \in expired /\ ~request[s].waiting
  /\ request[s].kind \in {"data", "me", "loginMe"}

Heard(s) == refused' = refused \cup {request[s].tok}

(* A code that says the token has expired: handleExpiredRequest.           *)
AwaitRefresh(s) ==
  /\ Refused(s) /\ "expired" \in Codes /\ Heard(s)
  /\ refreshFn \in {"none", "pending"}
  /\ refreshFn = "none" => refresh = NoUser
  /\ refreshFn' = "pending"
  /\ refresh' = IF refreshFn = "none" THEN rStored ELSE refresh
  /\ request' = [request EXCEPT ![s].waiting = TRUE]
  /\ Keep /\ UNCHANGED <<clears, modal, server, acts, half, mixed>>

(* A refresh has just succeeded: the request is sent again at once.        *)
SendAgain(s) ==
  /\ Refused(s) /\ "expired" \in Codes /\ Heard(s)
  /\ refreshFn = "success"
  /\ clears' = clears + 1
  /\ request' = [request EXCEPT ![s].tok = stored]
  /\ Keep /\ UNCHANGED <<refreshFn, refresh, modal, server, acts, half, mixed>>

(* A refresh has just failed: the request ends.                            *)
GiveUp(s) ==
  LET r == request[s] IN
  /\ Refused(s) /\ "expired" \in Codes /\ Heard(s)
  /\ refreshFn = "failure"
  /\ FailedKind(r.kind)
  /\ IF r.kind = "me" THEN Mix(Owner(r.tok)) ELSE UNCHANGED mixed
  /\ half' = (half \/ r.kind = "loginMe")
  /\ clears' = clears + 1
  /\ request' = Free(s)
  /\ UNCHANGED <<refreshFn, refresh, modal, server, acts>>

(* The other refusals end the request; a code or a bare 403 also the       *)
(* session, or a dialog is opened that will.  A plain 401, the answer of   *)
(* this server, is only shown, unless the request asked who the user is.   *)
RefuseAs(s, code) ==
  /\ Refused(s) /\ code \in Codes \ {"expired"}
  /\ IF code = "unauthorized" /\ request[s].kind # "me" THEN UNCHANGED refused ELSE Heard(s)
  /\ IF code \in {"logout", "forbidden"} /\ stored # NoToken THEN resetStore ELSE FailedKind(request[s].kind)
  /\ mixed' = (mixed \/ ((code \in {"logout", "forbidden"} \/ request[s].kind = "me")
                          /\ Owner(request[s].tok) # Owner(stored)))
  /\ modal' = (modal \/ code = "modal")
  /\ half' = (half \/ request[s].kind = "loginMe")
  /\ request' = Free(s)
  /\ UNCHANGED <<layer, server, acts>>

Confirm ==
  /\ modal /\ modal' = FALSE
  /\ resetStore
  /\ UNCHANGED <<request, layer, server, acts, sessionHistory>>

Waiting == {s \in Slot : request[s].waiting}

(* Mutant: only one of the requests that waited is sent again.             *)
RefreshedOne ==
  LET t == NextToken(refresh) IN
  /\ refresh # NoUser
  /\ Issue(refresh)
  /\ setToken(t) /\ rStored' = refresh
  /\ MixToken(refresh)
  /\ refreshFn' = "success" /\ refresh' = NoUser /\ clears' = clears + 1
  /\ \E s \in Waiting : request' = [request EXCEPT ![s].tok = t, ![s].waiting = FALSE]
  /\ UNCHANGED <<info, atLogin, modal, expired, acts, refused, half>>

(* handleRefreshToken, answered: the tokens of its user, and every request *)
(* that waited is sent again.                                              *)
Refreshed ==
  LET t == NextToken(refresh) IN
  /\ refresh # NoUser
  /\ Issue(refresh)
  /\ setToken(t) /\ rStored' = refresh
  /\ MixToken(refresh)
  /\ refreshFn' = IF refreshFn = "pending" THEN "success" ELSE refreshFn
  /\ refresh' = NoUser
  /\ clears' = clears + 1
  /\ request' = [s \in Slot |-> IF s \in Waiting THEN [request[s] EXCEPT !.tok = t, !.waiting = FALSE] ELSE request[s]]
  /\ UNCHANGED <<info, atLogin, modal, expired, acts, refused, half>>

(* Without a refresh token, or when the refresh fails: the session ends,   *)
(* and with it the requests that waited.                                   *)
RefreshFailed ==
  /\ refreshFn = "pending" \/ refresh # NoUser
  /\ resetStore
  /\ mixed' = (mixed \/ refresh # Owner(stored))
  /\ half' = (half \/ \E s \in Waiting : request[s].kind = "loginMe")
  /\ refreshFn' = IF refreshFn = "pending" THEN "failure" ELSE refreshFn
  /\ refresh' = NoUser
  /\ clears' = clears + 1
  /\ request' = [s \in Slot |-> IF s \in Waiting THEN Idle ELSE request[s]]
  /\ UNCHANGED <<modal, server, acts, refused>>

(* One second after: the next refusal refreshes again.                     *)
Forget ==
  /\ clears > 0 /\ clears' = clears - 1
  /\ refreshFn' = "none"
  /\ UNCHANGED <<storage, atLogin, request, refresh, modal, server, acts, sessionHistory>>

(* A token lives longer than that second.                                  *)
Expire ==
  /\ clears = 0
  /\ \E t \in Token : t[2] <= issued[t[1]] /\ expired' = expired \cup {t}
  /\ UNCHANGED <<storage, atLogin, request, layer, modal, issued, acts, sessionHistory>>

----------------------------------------------------------------------------
Answer(s) ==
  \/ LoggedIn(s) \/ LoggedOut(s) \/ Known(s) \/ Loaded(s) \/ Renewed(s)
  \/ AwaitRefresh(s) \/ SendAgain(s) \/ GiveUp(s)
  \/ \E code \in Codes : RefuseAs(s, code)

SessionNext ==
  \/ \E s \in Slot : Load(s) \/ Navigate(s) \/ Login(s) \/ Logout(s) \/ Answer(s) \/ Failed(s)
  \/ Confirm \/ Refreshed \/ RefreshFailed \/ Forget \/ Expire

SessionSpec == SessionInit /\ [][SessionNext]_sessionVars

(* Requests are answered or time out, the user closes a dialog.            *)
SessionFairSpec ==
  /\ SessionSpec
  /\ \A s \in Slot : WF_sessionVars(Answer(s) \/ Failed(s))
  /\ WF_sessionVars(Refreshed \/ RefreshFailed) /\ WF_sessionVars(Confirm) /\ WF_sessionVars(Forget)

----------------------------------------------------------------------------
(* Properties.                                                             *)

Carried == Token \cup {NoToken}
Requests == {Idle} \cup [kind : Kind, tok : Carried, own : Carried, waiting : BOOLEAN]

SessionTypeOK ==
  /\ stored \in Token \cup {NoToken} /\ token \in Token \cup {NoToken}
  /\ rStored \in User \cup {NoUser} /\ info \in User \cup {NoUser}
  /\ atLogin \in BOOLEAN /\ modal \in BOOLEAN
  /\ request \in [Slot -> Requests]
  /\ refreshFn \in {"none", "pending", "success", "failure"}
  /\ refresh \in User \cup {NoUser} /\ clears \in Nat
  /\ issued \in [User -> 0..MaxSerial] /\ expired \subseteq Token

(* The two tokens and the user info are one session: the route guard reads *)
(* the one in local storage, the chat connects with the one in the store,  *)
(* and the views show the user.  Across expiry, refresh, renewal, logout   *)
(* and the next login, unless a login lost its second half or an answer    *)
(* came for a session that was over.                                       *)
OneSession ==
  ~half /\ ~mixed =>
    /\ token = stored \/ LoggingIn
    /\ info # NoUser => info = Owner(stored)
    /\ stored = NoToken <=> rStored = NoUser

(* There is one login at a time, and no session while it is under way.     *)
OneLogin ==
  /\ \A r, s \in Slot :
       request[r].kind \in {"login", "loginMe"} /\ request[s].kind \in {"login", "loginMe"}
         => r = s
  /\ \A s \in Slot : request[s].kind = "login" =>
       Owner(request[s].tok) \in User /\ (~half /\ ~mixed => stored = NoToken)

(* The token a login was given is the stored one until it has its user, or *)
(* the session has ended; the login page is shown without a session.       *)
LoginKeeps ==
  ~half /\ ~mixed =>
    /\ rStored = Owner(stored)
    /\ \A s \in Slot : request[s].kind = "loginMe" => stored \in {request[s].own, NoToken}
    /\ atLogin /\ ~LoggingIn => stored = NoToken

(* Inductive: the session with what it rests on.                           *)
SessionServed == SessionTypeOK /\ OneLogin /\ LoginKeeps /\ OneSession

(* A request that waits for a refresh is sent again or ends.               *)
WaitingEnds == \A s \in Slot : request[s].waiting ~> ~request[s].waiting

(* When the page has been told that its token is over, by a code it knows  *)
(* or a bare 403, or by any refusal to say whose it is, it does not keep   *)
(* the token: it gets another one or the user logs in again.  (A plain 401 *)
(* to any other request leaves the page with the token.)                   *)
ExpiredIsReplaced == \A t \in Token : (t \in refused /\ stored = t) ~> stored # t
=============================================================================
