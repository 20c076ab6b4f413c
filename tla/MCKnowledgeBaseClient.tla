----------------------- MODULE MCKnowledgeBaseClient -----------------------
(* Two files, in the order of the server's list.                           *)
EXTENDS KnowledgeBaseClient

CONSTANTS f1, f2
TwoFiles == <<f1, f2>>
=============================================================================
