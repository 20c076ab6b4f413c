---------------------------- MODULE MCGeneration ----------------------------
(* An instance of Generation for TLC: two tabs of one user, one generation. *)
EXTENDS GenerationInvariants, TLC

CONSTANTS u1, c1, c2, g1

OneUser == {u1}
TwoConns == {c1, c2}
OneGen == {g1}

(* Both tabs are of the one user.                                          *)
OneUserOf == c1 :> u1 @@ c2 :> u1
=============================================================================
