------------------------------ MODULE ChatLink ------------------------------
(***************************************************************************)
(* What the chat socket promises to the rest of the page: at most one      *)
(* line to the server, opened with the token of the user who is logged in  *)
(* now, and never kept across a change of that token.  A line may be lost  *)
(* at any time; a page that has been connected gets one again.             *)
(***************************************************************************)
CONSTANTS Token, NoToken

VARIABLES
  token,   \* of the user who is logged in, or NoToken
  line     \* the token the open line was opened with, or NoToken

Init == token \in Token \cup {NoToken} /\ line = NoToken

(* A login, or a token that replaces another.                              *)
Enter(t) == token' = t /\ t # token /\ line' = NoToken

Leave == token' = NoToken /\ line' = NoToken

Up == token # NoToken /\ line = NoToken /\ line' = token /\ UNCHANGED token

Down == line # NoToken /\ line' = NoToken /\ UNCHANGED token

Next == (\E t \in Token : Enter(t)) \/ Leave \/ Up \/ Down

Spec == Init /\ [][Next]_<<token, line>>
=============================================================================
