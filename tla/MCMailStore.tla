----------------------------- MODULE MCMailStore ------------------------------
(* A model-checking instance of MailStore: one user, one domain.            *)
EXTENDS MailStore

CONSTANTS mail, example

OneDomain == [a \in Alias |-> example]
OneUser == [a \in Alias |-> mail]

===============================================================================
