----------------------------- MODULE MCEventStore -----------------------------
(* Model-checking instance of EventStore.                                   *)
EXTENDS EventStore

===============================================================================
