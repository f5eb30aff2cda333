------------------------------- MODULE EventLog -------------------------------
(* What the replay buffer promises, without saying how it is stored.  All   *)
(* events ever stored form a log; the log's older part is forgotten, its    *)
(* newer part can be read.  A client of a user that reads with the last     *)
(* event it received as its cursor gets the next events of that user, in    *)
(* the order of the log and without a gap; when its cursor is no longer     *)
(* remembered it gets nothing.                                              *)
(*                                                                          *)
(* EventStore implements this specification.                                *)
EXTENDS Naturals, Sequences, FiniteSets

CONSTANTS
  User,       \* the users that own events
  MaxSize,    \* how many events are remembered at most
  Limit       \* how many events one read returns at most

VARIABLES
  owner,      \* the log: owner[p] is the user of the event at position p
  forgotten,  \* the positions 1..forgotten can no longer be read
  cursor,     \* cursor[u]: the position u's client read last, 0 for none
  got         \* got[u]: the positions u's client has received

vars == <<owner, forgotten, cursor, got>>

Mine(u) == {p \in 1..Len(owner) : owner[p] = u}

Init ==
  /\ owner = <<>>
  /\ forgotten = 0
  /\ cursor = [u \in User |-> 0]
  /\ got = [u \in User |-> {}]

(* A new event; older ones may have to be forgotten for it.                 *)
Append1(u) ==
  /\ owner' = Append(owner, u)
  /\ forgotten' \in forgotten..Len(owner)
  /\ Len(owner) + 1 - forgotten' <= MaxSize
  /\ UNCHANGED <<cursor, got>>

Forget ==
  /\ forgotten' \in forgotten..Len(owner)
  /\ UNCHANGED <<owner, cursor, got>>

(* The client of u receives the positions S: a run of u's positions that    *)
(* starts right after the cursor (or, without a cursor, that ends with u's  *)
(* newest event), all of them remembered, and all there are unless the read *)
(* is full.                                                                 *)
Receive(u, S) ==
  /\ S \subseteq {p \in Mine(u) : p > forgotten}
  /\ Cardinality(S) <= Limit
  /\ S # {} => cursor[u] = 0 \/ cursor[u] > forgotten
  /\ \A p \in S : p > cursor[u]
  /\ cursor[u] # 0 => \A p \in S, q \in Mine(u) : cursor[u] < q /\ q < p => q \in S
  /\ cursor[u] = 0 => \A p \in S, q \in Mine(u) : p < q => q \in S
  /\ cursor[u] > forgotten /\ Cardinality(S) < Limit =>
       \A q \in Mine(u) : q > cursor[u] => q \in S
  /\ got' = [got EXCEPT ![u] = @ \cup S]
  /\ \/ S = {} /\ UNCHANGED cursor
     \/ \E newest \in S : /\ \A q \in S : q <= newest
                          /\ cursor' = [cursor EXCEPT ![u] = newest]
  /\ UNCHANGED <<owner, forgotten>>

Next ==
  \/ \E u \in User : Append1(u)
  \/ Forget
  \/ \E u \in User : \E S \in SUBSET Mine(u) : Receive(u, S)

Spec == Init /\ [][Next]_vars

-------------------------------------------------------------------------------
(* The shape of the log and of the readers' positions in it.                *)
TypeOK ==
  /\ owner \in Seq(User)
  /\ forgotten \in 0..Len(owner)
  /\ cursor \in [User -> 0..Len(owner)]
  /\ got \in [User -> SUBSET (1..Len(owner))]

(* A client only receives events of its own user.                           *)
OwnEventsOnly == \A u \in User : got[u] \subseteq Mine(u)

(* Between two events a client has received there is no event of its user   *)
(* that it has missed.                                                      *)
NoGap ==
  \A u \in User : \A p, r \in got[u] : \A q \in Mine(u) :
    p < q /\ q < r => q \in got[u]

===============================================================================
