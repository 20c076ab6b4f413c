---------------------------- MODULE MCChatClient ----------------------------
(* Instances of ChatClient for TLC.                                        *)
EXTENDS ChatClient, TLC
CONSTANTS a, b, g1, g2

Symmetry == Permutations(Conv) \cup Permutations(Gen)
=============================================================================
