----------------------------- MODULE MCBackfill -----------------------------
(* Two devices that share one slot; one of them reconnects, as another tenant. *)
EXTENDS Backfill

CONSTANTS d1, d2, c1, c2, c3, ta, tb

Device == [c \in Conns |-> IF c = c3 THEN d2 ELSE d1]
Tenant == [c \in Conns |-> IF c = c2 THEN tb ELSE ta]
AgedBatches == {1}
=============================================================================
