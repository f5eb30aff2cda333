------------------------------- MODULE MCSessions -------------------------------
(* Instances of Sessions for TLC.                                           *)
EXTENDS Sessions, TLC

CONSTANTS c1, c2, t1, t2, t3, u1, u2

Symmetry ==
  Permutations({c1, c2}) \cup Permutations({t1, t2, t3}) \cup Permutations({u1, u2})
===============================================================================
