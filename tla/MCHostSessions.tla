--------------------------- MODULE MCHostSessions ---------------------------
(* The sessions of a host with a few handlers, calls and tokens. *)
EXTENDS HostSessions, TLC

CONSTANTS h1, h2, h3, c1, c2, c3, t1, t2, u1, u2

\* Handlers, calls and technicians are interchangeable.
Symmetry == Permutations(Handlers) \cup Permutations(Calls) \cup Permutations(Users)
=============================================================================
