--------------------------- MODULE MCPageSession ---------------------------
(* The session of the page and the socket that depends on its token, in one  *)
(* run: a behaviour moves one of the two, chosen at the start, and the other *)
(* stands still.                                                             *)
EXTENDS ChatSocket, ClientSession

CONSTANTS u1, u2, s1, s2

VARIABLE part

vars == <<part, socketVars, sessionVars>>

Init ==
  /\ part \in {"socket", "session"}
  /\ SocketInit /\ (part # "socket" => wsToken = NoToken)
  /\ SessionInit /\ (part # "session" => stored = NoToken)

OnlySocket == part = "socket" /\ UNCHANGED <<part, sessionVars>>
OnlySession == part = "session" /\ UNCHANGED <<part, socketVars>>

Next == (OnlySocket /\ SocketNext) \/ (OnlySession /\ SessionNext)

Spec == Init /\ [][Next]_vars

(* SocketFairSpec and SessionFairSpec, an action of each to a conjunct: only *)
(* one of the two is ever enabled.                                           *)
FairSpec ==
  /\ Spec
  /\ \A s \in Slot : WF_vars(OnlySession /\ (Answer(s) \/ Failed(s)))
  /\ WF_vars((OnlySocket /\ OldClosed) \/ (OnlySession /\ (Refreshed \/ RefreshFailed)))
  /\ WF_vars((OnlySocket /\ Retry) \/ (OnlySession /\ Confirm))
  /\ WF_vars(OnlySession /\ Forget)
  /\ SF_vars(OnlySocket /\ Opened)

(* Nobody waits for ever: the page keeps trying for its socket, requests get *)
(* their answer or are refused, a token the page hears is over is replaced.  *)
PageLives == KeepsTrying /\ WaitingEnds /\ ExpiredIsReplaced
=============================================================================
