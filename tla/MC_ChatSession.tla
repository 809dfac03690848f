--------------------------- MODULE MC_ChatSession ---------------------------
(* Two conversations, one typed text, 7 message ids (two roots and two    *)
(* exchanges and a regeneration, or one conversation with an edited and a *)
(* regenerated branch), one extra-context item, one pending bridge timer. *)
(* At most three user messages are shown, so every set of open edit      *)
(* textareas is reached.                                                   *)
EXTENDS ChatSession, TLC

CONSTANTS c1, c2, none

MC_Convs == {c1, c2}
MC_Texts == {"hi"}
MC_MaxMsgs == 7
MC_MaxItems == 1
MC_MaxTimers == 1
=============================================================================
