-------------------------------- MODULE MCDomains -------------------------------
(* Instances of Domains for TLC.                                            *)
EXTENDS Domains, TLC

CONSTANTS r1, r2, u1, u2, d1, d2, a1, a2

Symmetry ==
  Permutations({r1, r2}) \cup Permutations({u1, u2}) \cup Permutations({d1, d2})
    \cup Permutations({a1, a2})
===============================================================================
