--------------------------- MODULE MCRuleDelivery ---------------------------
(* One machine that reconnects, and two edits of one rule. *)
EXTENDS RuleDelivery

CONSTANTS d1, c1, c2, e1, e2

Device == [c \in Conns |-> d1]
Kind == [e \in Edits |-> IF e = e1 THEN "stop" ELSE "on"]
=============================================================================
