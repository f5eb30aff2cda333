---------------------------- MODULE MCEventStream -----------------------------
(* Model-checking instances of EventStream.  The users may be permuted.     *)
EXTENDS EventStream, TLC

Symmetry == Permutations(User)

===============================================================================
