-------------------------------- MODULE MCInbox ---------------------------------
(* Instances of Inbox for TLC: the mail is alice's, bob has none and may    *)
(* try for hers; her second and third email arrived at the same time.       *)
EXTENDS Inbox

CONSTANTS alice, bob, sales, r1

MCUserOf == [a \in Alias |-> alice]
MCRcptOf == [e \in EmailID |-> sales]
MCReceivedAt == [e \in EmailID |-> IF e = 3 THEN 2 ELSE e]
===============================================================================
