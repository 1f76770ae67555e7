--------------------------- MODULE MCAgentUpdate ----------------------------
(* Three versions, of which the second is never acknowledged. *)
EXTENDS AgentUpdate
=============================================================================
