--------------------------- MODULE MCDevicePurge ----------------------------
(* One device that connects again and again, and the jobs that erase it. *)
EXTENDS DevicePurge

CONSTANTS d1, c1, j1, j2

OneDevice == [c \in Conns |-> d1]
\* The device and its tenant.
DeviceAndTenant == [j \in Jobs |-> IF j = j1 THEN d1 ELSE Nobody]
=============================================================================
