--------------------------- MODULE MC_MessageStore ---------------------------
(* Model-checking instance of MessageStore: trees of up to 8 nodes, enough *)
(* for a branch of depth 4 next to a sibling with its own subtree, or     *)
(* three versions of one message each with a reply.                       *)
EXTENDS MessageStore

MC_MaxMsgs == 8
=============================================================================
