-------------------------- MODULE MCDocumentUpload --------------------------
(* Small instances of DocumentUpload for TLC.                              *)
EXTENDS DocumentUpload, TLC

CONSTANTS u1, u2, s1, s2

(* Sessions are interchangeable; so are users, none of them an admin.      *)
Sessions == Permutations(Session)
SessionsAndUsers == Permutations(Session) \cup Permutations(User)
=============================================================================
