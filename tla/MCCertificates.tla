----------------------------- MODULE MCCertificates -----------------------------
(* Certificates on small sets.                                              *)
EXTENDS Certificates, TLC

Symmetry == Permutations(Request) \cup Permutations(Domain)
=============================================================================
