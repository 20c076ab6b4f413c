--------------------------- MODULE SessionTokens ---------------------------
(***************************************************************************)
(* The tokens the page holds: a token is its user and a number, and what a *)
(* place holds that has no token is NoToken.                               *)
(***************************************************************************)
EXTENDS Naturals

CONSTANTS
  User,
  MaxSerial,   \* bound: tokens issued to a user
  NoToken

Token == User \X (1..MaxSerial)

ASSUME TokensAssumption == NoToken \notin Token /\ MaxSerial \in Nat \ {0}
=============================================================================
