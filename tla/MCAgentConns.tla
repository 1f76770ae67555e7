---------------------------- MODULE MCAgentConns ----------------------------
(* The connections of one device in the registry, three in any overlap. *)
EXTENDS AgentConns, TLC

CONSTANTS d1

OneDevice == [c \in Conns |-> d1]
=============================================================================
