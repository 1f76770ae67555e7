---------------------------- MODULE MCCertRenewal ---------------------------
(* One device, three certificates, two connections of it at a time. *)
EXTENDS CertRenewal, TLC

CONSTANTS l1, l2

Symmetry == Permutations(Links)
=============================================================================
