---------------------------- MODULE MCIncidents -----------------------------
(* Two machines of a customer and two transactions at once. *)
EXTENDS Incidents, TLC

CONSTANTS m1, m2, t1, t2

Symmetry == Permutations(Devices) \cup Permutations(Txs)
=============================================================================
