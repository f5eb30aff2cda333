----------------------------- MODULE EventBuffer ------------------------------
(* The data structure behind the replay of real-time events:                *)
(* InMemoryEventStore of internal/events/event_store.go.  It keeps one list *)
(* of events in the order in which Store was called, an index from event ID *)
(* to list element, and for each user the list of that user's elements.     *)
(* The operators below are the methods' effects on the three structures, as *)
(* they run with the mutex held; EventStore and EventStream use them.       *)
(*                                                                          *)
(* An event is abstracted to its ID, its owner and its timestamp; the IDs   *)
(* are uuids in the code and hence distinct.                                *)
EXTENDS Naturals, Sequences, Functions

CONSTANT
  MaxSize     \* maxSize: how many events the list holds, for all users together

ASSUME MaxSizeAssumption == MaxSize \in Nat \ {0}

(* NewEventStore, and what Clear resets the store to. *)
EmptyBuffer ==
  [events |-> <<>>, eventIndex |-> << >>, userEvents |-> << >>]

(* A user without events has no entry in userEvents; reading the map then   *)
(* yields an empty slice.                                                   *)
EventsOfUser(b, u) ==
  IF u \in DOMAIN b.userEvents THEN b.userEvents[u] ELSE <<>>

(* A user's slice without the element e, if it has it.                      *)
Without(s, e) ==
  LET i == CHOOSE k \in DOMAIN s : s[k] = e
  IN  IF e \in Range(s) THEN SubSeq(s, 1, i - 1) \o SubSeq(s, i + 1, Len(s)) ELSE s

(* Mutation: the per-user list keeps the element. *)
RemoveFrontForUser(b) ==
  LET e == Head(b.events)
  IN  [b EXCEPT !.events     = Tail(@),
                !.eventIndex = Restrict(@, DOMAIN @ \ {e.id})]

(* removeElementLocked on the front element: all three structures forget it.*)
RemoveFront(b) ==
  LET e    == Head(b.events)
      rest == Without(EventsOfUser(b, e.user), e)
  IN  [events     |-> Tail(b.events),
       eventIndex |-> Restrict(b.eventIndex, DOMAIN b.eventIndex \ {e.id}),
       userEvents |-> IF rest = <<>>
                      THEN Restrict(b.userEvents, DOMAIN b.userEvents \ {e.user})
                      ELSE [b.userEvents EXCEPT ![e.user] = rest]]

(* The tail of Store: PushBack, index entry, per-user entry.                *)
PushBack(b, e) ==
  [events     |-> Append(b.events, e),
   eventIndex |-> [i \in DOMAIN b.eventIndex \cup {e.id} |->
                     IF i = e.id THEN e ELSE b.eventIndex[i]],
   userEvents |-> [u \in DOMAIN b.userEvents \cup {e.user} |->
                     IF u = e.user THEN Append(EventsOfUser(b, u), e)
                                   ELSE b.userEvents[u]]]

(* Store: the oldest event makes room when the list is full.                *)
Stored(b, e) ==
  PushBack(IF Len(b.events) >= MaxSize THEN RemoveFront(b) ELSE b, e)

(* Cleanup: the loop removes the front until it is newer than cutoff.       *)
Cleaned(b, cutoff) ==
  LET loop[n \in 0..Len(b.events)] ==
        IF n = 0 THEN b
        ELSE LET r == loop[n - 1]
             IN  IF r.events = <<>> \/ Head(r.events).ts > cutoff THEN r ELSE RemoveFront(r)
  IN  loop[Len(b.events)]

(* GetSince without an event ID: the user's most recent events.             *)
Recent(b, u, limit) ==
  LET mine  == EventsOfUser(b, u)
      start == IF Len(mine) > limit THEN Len(mine) - limit ELSE 0
  IN  SubSeq(mine, start + 1, Len(mine))

(* The loop of GetSince: the user's events after position from of the list, *)
(* in its order, until there are limit of them.                             *)
Collected(events, from, u, limit) ==
  LET loop[n \in 0..Len(events) - from] ==
        IF n = 0 THEN <<>>
        ELSE LET r == loop[n - 1]
             IN  IF Len(r) < limit /\ events[from + n].user = u
                 THEN Append(r, events[from + n]) ELSE r
  IN  loop[Len(events) - from]

(* Where the index says that an event is.                                   *)
PositionOf(b, id) == CHOOSE k \in DOMAIN b.events : b.events[k] = b.eventIndex[id]

(* Mutations of what follows: the walk starts at, or one after, the right   *)
(* element, or forgets to compare the owner.                                *)
AfterInclusive(b, u, id, limit) ==
  IF id \notin DOMAIN b.eventIndex THEN <<>>
  ELSE Collected(b.events, PositionOf(b, id) - 1, u, limit)

AfterSkippingOne(b, u, id, limit) ==
  IF id \notin DOMAIN b.eventIndex \/ PositionOf(b, id) = Len(b.events) THEN <<>>
  ELSE Collected(b.events, PositionOf(b, id) + 1, u, limit)

AfterOfAllUsers(b, u, id, limit) ==
  IF id \notin DOMAIN b.eventIndex THEN <<>>
  ELSE LET rest == SubSeq(b.events, PositionOf(b, id) + 1, Len(b.events))
       IN  SubSeq(rest, 1, IF Len(rest) > limit THEN limit ELSE Len(rest))

(* GetSince with an event ID: nothing when the ID is not in the index (it   *)
(* was evicted, or never was stored), otherwise the user's events after it, *)
(* oldest first, up to the limit.                                           *)
After(b, u, id, limit) ==
  IF id \notin DOMAIN b.eventIndex THEN <<>>
  ELSE Collected(b.events, PositionOf(b, id), u, limit)

===============================================================================
