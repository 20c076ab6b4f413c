---------------------------- MODULE MCTokenLedger ----------------------------
(* An instance of TokenLedger for TLC: two requests of one user, an order   *)
(* and a turn of the chat.                                                 *)
EXTENDS TokenLedger, TLC

CONSTANTS u1, s1, s2, o1, t1

OneUser == {u1}
TwoSessions == {s1, s2}
OneOrder == {o1}
OneTurn == {t1}

Pay21 == [k \in TokenType |-> IF k = "LLM" THEN 2 ELSE 1]
Pay02 == [k \in TokenType |-> IF k = "LLM" THEN 0 ELSE 2]

(* A package with both types of tokens, one of a single type.              *)
Awards == {Pay21, Pay02}
=============================================================================
