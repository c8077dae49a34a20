--------------------------- MODULE MCConversation ---------------------------
(* The first request sends a file, the later ones text alone.              *)
EXTENDS Conversation

CONSTANTS r1, r2, r3, plan

MCAttached == [r \in Requests |-> IF r = r1 THEN Files ELSE {}]
=============================================================================
