------------------------------ MODULE EventStore ------------------------------
(* The replay buffer as a component: callers Store, Cleanup and Clear, and  *)
(* one client per user reads with GetSince, its cursor being the ID of the  *)
(* last event it was given (internal/events/event_store.go).  Every method  *)
(* runs under the store's mutex, so each is one step.                       *)
(*                                                                          *)
(* log records, for the properties, every event ever stored; an event's ID  *)
(* is its position there.  An event's timestamp is taken by whoever builds  *)
(* it, before Store is called and outside any lock, so timestamps need not  *)
(* increase along the list: it lags the clock by up to MaxLag.              *)
EXTENDS EventBuffer

CONSTANTS
  User,       \* the users
  Limit,      \* GetSince's limit (the event bus passes 100)
  MaxEvents,  \* bound on the number of events stored
  MaxTime,    \* bound on the clock
  MaxLag      \* how long before its Store an event may have been stamped

ASSUME EventStoreAssumption ==
  /\ Limit \in Nat \ {0}
  /\ MaxEvents \in Nat /\ MaxTime \in Nat /\ MaxLag \in Nat

VARIABLES
  buf,        \* the three structures
  now,        \* the clock
  log,        \* every event ever stored, in the order of Store
  received    \* received[u]: the events u's client was given, in order

vars == <<buf, now, log, received>>

NoEvent == 0

(* The cursor a client sends: the ID of the last event it was given.        *)
LastEventID(u) ==
  IF received[u] = <<>> THEN NoEvent ELSE received[u][Len(received[u])].id

(* GetSince.                                                                *)
GetSince(u, id, limit) ==
  IF id = NoEvent THEN Recent(buf, u, limit) ELSE After(buf, u, id, limit)

Init ==
  /\ buf = EmptyBuffer
  /\ now = 0
  /\ log = <<>>
  /\ received = [u \in User |-> <<>>]

(* Mutation: the event carries the time of a clock that is ahead.           *)
StoreAhead(u) ==
  /\ Len(log) < MaxEvents
  /\ LET e == [id |-> Len(log) + 1, user |-> u, ts |-> now + 1]
     IN  /\ buf' = Stored(buf, e)
         /\ log' = Append(log, e)
  /\ UNCHANGED <<now, received>>

Store(u) ==
  /\ Len(log) < MaxEvents
  /\ \E t \in {n \in 0..now : now - n <= MaxLag} :
       LET e == [id |-> Len(log) + 1, user |-> u, ts |-> t]
       IN  /\ buf' = Stored(buf, e)
           /\ log' = Append(log, e)
  /\ UNCHANGED <<now, received>>

Cleanup(olderThan) ==
  /\ olderThan <= now
  /\ buf' = Cleaned(buf, now - olderThan)
  /\ UNCHANGED <<now, log, received>>

Clear ==
  /\ buf' = EmptyBuffer
  /\ UNCHANGED <<now, log, received>>

Poll(u) ==
  /\ received' = [received EXCEPT ![u] = @ \o GetSince(u, LastEventID(u), Limit)]
  /\ UNCHANGED <<buf, now, log>>

Tick ==
  /\ now < MaxTime
  /\ now' = now + 1
  /\ UNCHANGED <<buf, log, received>>

Next ==
  \/ \E u \in User : Store(u)
  \/ \E u \in User : Poll(u)
  \/ \E d \in 0..MaxTime : Cleanup(d)
  \/ Clear
  \/ Tick

Spec == Init /\ [][Next]_vars

-------------------------------------------------------------------------------
Event == [id : 1..MaxEvents, user : User, ts : 0..MaxTime]

(* The shape of the buffer and of what the clients were given.              *)
TypeOK ==
  /\ buf.events \in Seq(Event)
  /\ now \in 0..MaxTime
  /\ log \in Seq(Event)
  /\ received \in [User -> Seq(Event)]

(* In the order of Store.                                                   *)
InOrder(s) == \A j, k \in DOMAIN s : j < k => s[j].id < s[k].id

(* The list, the index and the per-user lists of event_store.go:11-16 hold  *)
(* the same events in the same order after any mix of Store (with and       *)
(* without eviction), Cleanup and Clear; no empty per-user list stays       *)
(* behind.  The list is the newest part of the log and never longer than    *)
(* maxSize: eviction takes the oldest event (event_store.go:38-41).         *)
StructuresAgree ==
  /\ Len(buf.events) <= MaxSize
  /\ buf.events = SubSeq(log, Len(log) - Len(buf.events) + 1, Len(log))
  /\ DOMAIN buf.eventIndex = {e.id : e \in Range(buf.events)}
  /\ \A e \in Range(buf.events) : buf.eventIndex[e.id] = e
  /\ DOMAIN buf.userEvents = {e.user : e \in Range(buf.events)}
  /\ \A u \in DOMAIN buf.userEvents :
       /\ Range(buf.userEvents[u]) = {e \in Range(buf.events) : e.user = u}
       /\ InOrder(buf.userEvents[u])

(* Refinement: the store forgets and serves events as EventLog promises, in *)
(* which a client that polls with its last event's ID never skips an event  *)
(* of its user (EventStoreProofs): eviction, Cleanup, Clear and a full answer *)
(* may delay or end what it gets, but leave no hole (event_store.go:53-95). *)
Promise == INSTANCE EventLog WITH
  owner     <- [p \in DOMAIN log |-> log[p].user],
  forgotten <- Len(log) - Len(buf.events),
  cursor    <- [u \in User |-> LastEventID(u)],
  got       <- [u \in User |-> {e.id : e \in Range(received[u])}]

ImplementsEventLog == Promise!Spec

===============================================================================
