----------------------------- MODULE MCSmtpServer -----------------------------
(* Model-checking instances of SmtpServer.  The connections of one address  *)
(* are alike, so they may be permuted.                                      *)
EXTENDS SmtpServer, TLC

Symmetry == Permutations(Conn)

===============================================================================
