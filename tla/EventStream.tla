------------------------------ MODULE EventStream -----------------------------
(* Real-time notifications: the event bus (internal/events/event_bus.go),   *)
(* the connection manager (internal/sse/connection_manager.go) and the      *)
(* stream handler (internal/sse/sse_handler.go), around the replay buffer.  *)
(*                                                                          *)
(* Every stream request is a goroutine that registers its connection,       *)
(* replays what the client missed, subscribes and waits; every Publish runs *)
(* in the goroutine of whoever publishes, stores the event, copies the      *)
(* handlers and calls them one by one without any lock; the cleanup routine *)
(* sweeps the registered connections.  Each step below is what happens      *)
(* under one acquisition of one mutex, or one write to one client.          *)
(*                                                                          *)
(* Connections are numbered in the order of their CreatedAt.  An event's ID *)
(* is its position in the order of Store.  Writes are atomic frames here:   *)
(* several goroutines do write to one http.ResponseWriter without a lock,   *)
(* and what interleaved bytes look like is not modelled.                    *)
EXTENDS EventBuffer, FiniteSets

CONSTANTS
  User,
  MaxConnectionsPerUser,
  Limit,        \* GetEventsSince asks for at most this many events (100)
  MaxConns,     \* bound: how many stream requests there are
  MaxEvents,    \* bound: how many events are published
  MaxInFlight,  \* bound: how many Publish calls run at a time
  MaxDisturbed  \* bound: how many clients go away or fall silent

ASSUME EventStreamAssumption ==
  /\ MaxConnectionsPerUser \in Nat \ {0}
  /\ Limit \in Nat \ {0}
  /\ MaxConns \in Nat /\ MaxEvents \in Nat
  /\ MaxInFlight \in Nat /\ MaxDisturbed \in Nat

Conn == 1..MaxConns

NoConn == 0       \* a publisher between two handlers
NoID == 0         \* no Last-Event-ID header
EphemeralID == MaxEvents + 1
  \* the ID of a connected, heartbeat or connection_limit event: a fresh uuid
  \* that the client sees but the store never holds

VARIABLES
  buf,          \* the replay buffer
  publishing,   \* publishing[e]: the Publish call of event e
  subscribers,  \* the bus: user -> connections whose handler is subscribed
  connections,  \* the manager: user -> registered connections
  conn,         \* conn[c]: the handler goroutine and Connection of request c
  history       \* history[c]: how many events were stored when c replayed and
                \* when it subscribed (only the properties read it)

vars == <<buf, publishing, subscribers, connections, conn, history>>

Accepted == DOMAIN conn
Published == DOMAIN publishing

UserOf(c) == conn[c].user

(* Publish of e is over: every handler it copied has been called.           *)
Returned(e) ==
  /\ publishing[e].pc = "delivering"
  /\ publishing[e].todo = {} /\ publishing[e].checked = NoConn

(* The IDs a client of u may hold: none, the last event some connection of  *)
(* it was sent, or an ephemeral one.                                        *)
LastEventIDs(u) ==
  {NoID, EphemeralID} \cup
    {conn[c].sent[Len(conn[c].sent)] :
       c \in {d \in Accepted : conn[d].user = u /\ conn[d].sent # <<>>}}

Init ==
  /\ buf = EmptyBuffer
  /\ publishing = <<>>
  /\ subscribers = [u \in User |-> {}]
  /\ connections = [u \in User |-> {}]
  /\ conn = <<>>
  /\ history = <<>>

-------------------------------------------------------------------------------
(* A write to the client.  A client that is gone receives nothing, and      *)
(* after the handler has returned the ResponseWriter is no longer its own.  *)
Receives(c) == ~conn[c].gone /\ conn[c].pc # "returned"

(* Close, of each of a set of connections.                                  *)
Closed(C) ==
  [c \in Accepted |-> IF c \in C THEN [conn[c] EXCEPT !.closed = TRUE] ELSE conn[c]]

MoveTo(c, pc) == conn' = [conn EXCEPT ![c].pc = pc]

(* HandleStream up to AddConnection: the request is authenticated and its   *)
(* Connection created.                                                      *)
Accept(u) ==
  /\ Len(conn) < MaxConns
  /\ \E id \in LastEventIDs(u) :
       conn' = Append(conn, [user |-> u, pc |-> "created", closed |-> FALSE,
                             gone |-> FALSE, silent |-> FALSE,
                             lastEventID |-> id, missed |-> <<>>, sent |-> <<>>])
  /\ history' = Append(history, [replay |-> 0, subscribe |-> 0])
  /\ UNCHANGED <<buf, publishing, subscribers, connections>>

(* findOldestConnectionLocked: the smallest CreatedAt.                      *)
Oldest(u) == CHOOSE c \in connections[u] : \A d \in connections[u] : c <= d

(* Mutation: the limit is compared with > instead of >=.                    *)
AddConnectionLate(c) ==
  LET u      == UserOf(c)
      evict  == IF Cardinality(connections[u]) > MaxConnectionsPerUser
                THEN {Oldest(u)} ELSE {}
  IN  /\ conn[c].pc = "created"
      /\ connections' = [connections EXCEPT ![u] = (@ \ evict) \cup {c}]
      /\ conn' = [Closed(evict) EXCEPT ![c].pc = "added"]
      /\ UNCHANGED <<buf, publishing, subscribers, history>>

(* AddConnection, then the connected event.  At the limit the oldest        *)
(* connection is told, closed and removed first.                            *)
AddConnection(c) ==
  LET u      == UserOf(c)
      evict  == IF Cardinality(connections[u]) >= MaxConnectionsPerUser
                THEN {Oldest(u)} ELSE {}
  IN  /\ conn[c].pc = "created"
      /\ connections' = [connections EXCEPT ![u] = (@ \ evict) \cup {c}]
      /\ conn' = [Closed(evict) EXCEPT ![c].pc = "added"]
      /\ UNCHANGED <<buf, publishing, subscribers, history>>

(* replayEvents: GetEventsSince takes its answer in one go ...              *)
GetEventsSince(c) ==
  /\ conn[c].pc = "added"
  /\ conn' = [conn EXCEPT
       ![c].pc = "replaying",
       ![c].missed =
         IF conn[c].lastEventID = NoID THEN <<>>
         ELSE After(buf, UserOf(c), conn[c].lastEventID, Limit)]
  /\ history' = [history EXCEPT ![c].replay = Len(publishing)]
  /\ UNCHANGED <<buf, publishing, subscribers, connections>>

(* ... and the loop sends it event by event; a send to a closed or gone     *)
(* connection ends the loop.                                                *)
SendMissed(c) ==
  /\ conn[c].pc = "replaying"
  /\ conn[c].missed # <<>>
  /\ conn' = IF ~conn[c].closed /\ Receives(c)
             THEN [conn EXCEPT ![c].sent = Append(@, Head(conn[c].missed).id),
                               ![c].missed = Tail(@)]
             ELSE [conn EXCEPT ![c].missed = <<>>]
  /\ UNCHANGED <<buf, publishing, subscribers, connections, history>>

(* Subscribe.  The heartbeat goroutine starts and the handler waits.        *)
Subscribe(c) ==
  /\ conn[c].pc = "replaying"
  /\ conn[c].missed = <<>>
  /\ subscribers' = [subscribers EXCEPT ![UserOf(c)] = @ \cup {c}]
  /\ MoveTo(c, "streaming")
  /\ history' = [history EXCEPT ![c].subscribe = Len(publishing)]
  /\ UNCHANGED <<buf, publishing, connections>>

(* Mutation: the select does not wait for Done.                             *)
WakeUnlessClosed(c) ==
  /\ conn[c].pc = "streaming"
  /\ conn[c].gone
  /\ MoveTo(c, "leaving")
  /\ UNCHANGED <<buf, publishing, subscribers, connections, history>>

(* The select of HandleStream: the client has gone or Done was closed ...   *)
Wake(c) ==
  /\ conn[c].pc = "streaming"
  /\ conn[c].gone \/ conn[c].closed
  /\ MoveTo(c, "leaving")
  /\ UNCHANGED <<buf, publishing, subscribers, connections, history>>

(* ... or the connection timeout fires.                                     *)
ConnectionTimeout(c) ==
  /\ conn[c].pc = "streaming"
  /\ MoveTo(c, "leaving")
  /\ UNCHANGED <<buf, publishing, subscribers, connections, history>>

(* RemoveConnection closes the connection only if it is still registered.   *)
RemoveConnection(c) ==
  LET u == UserOf(c)
  IN  /\ conn[c].pc = "leaving"
      /\ connections' = [connections EXCEPT ![u] = @ \ {c}]
      /\ conn' = [Closed({c} \cap connections[u]) EXCEPT ![c].pc = "removed"]
      /\ UNCHANGED <<buf, publishing, subscribers, history>>

(* Mutation: unsubscribing drops the user's entry in the map.               *)
UnsubscribeUser(c) ==
  /\ conn[c].pc = "removed"
  /\ subscribers' = [subscribers EXCEPT ![UserOf(c)] = {}]
  /\ MoveTo(c, "returned")
  /\ UNCHANGED <<buf, publishing, connections, history>>

(* The deferred unsubscribe runs last.                                      *)
Unsubscribe(c) ==
  /\ conn[c].pc = "removed"
  /\ subscribers' = [subscribers EXCEPT ![UserOf(c)] = @ \ {c}]
  /\ MoveTo(c, "returned")
  /\ UNCHANGED <<buf, publishing, connections, history>>

MayDisturb(c) ==
  Cardinality({d \in Accepted : conn[d].gone \/ conn[d].silent} \cup {c}) <= MaxDisturbed

(* The client goes away; writes to it fail and the request context ends.    *)
ClientGone(c) ==
  /\ conn[c].pc # "returned"
  /\ ~conn[c].gone /\ MayDisturb(c)
  /\ conn' = [conn EXCEPT ![c].gone = TRUE]
  /\ UNCHANGED <<buf, publishing, subscribers, connections, history>>

(* For isConnectionDead: three heartbeat intervals without an updated       *)
(* LastPing.  The client is gone, or the handler has not reached its        *)
(* heartbeat loop in that time.                                             *)
FallSilent(c) ==
  /\ ~conn[c].silent /\ MayDisturb(c)
  /\ conn[c].gone \/ conn[c].pc \in {"added", "replaying"}
  /\ conn' = [conn EXCEPT ![c].silent = TRUE]
  /\ UNCHANGED <<buf, publishing, subscribers, connections, history>>

(* sendHeartbeat: LastPing is only updated after a write that succeeded.    *)
Heartbeat(c) ==
  /\ conn[c].pc = "streaming"
  /\ conn[c].silent /\ ~conn[c].closed /\ Receives(c)
  /\ c \in connections[UserOf(c)]
  /\ conn' = [conn EXCEPT ![c].silent = FALSE]
  /\ UNCHANGED <<buf, publishing, subscribers, connections, history>>

(* CleanupDeadConnections sweeps every user under one lock.                 *)
CleanupDeadConnections ==
  LET dead == {c \in Accepted : /\ c \in connections[UserOf(c)]
                                /\ conn[c].closed \/ conn[c].silent}
  IN  /\ dead # {}
      /\ connections' = [u \in User |-> connections[u] \ dead]
      /\ conn' = Closed(dead)
      /\ UNCHANGED <<buf, publishing, subscribers, history>>

-------------------------------------------------------------------------------
(* Publish: the event is stored first ...                                   *)
Publish(u) ==
  /\ Len(publishing) < MaxEvents
  /\ Cardinality({e \in Published : ~Returned(e)}) < MaxInFlight
  /\ buf' = Stored(buf, [id |-> Len(publishing) + 1, user |-> u, ts |-> 0])
  /\ publishing' = Append(publishing,
       [user |-> u, pc |-> "stored", todo |-> {}, checked |-> NoConn])
  /\ UNCHANGED <<subscribers, connections, conn, history>>

(* ... then the handlers are copied under the bus's read lock ...           *)
CopyHandlers(e) ==
  /\ publishing[e].pc = "stored"
  /\ publishing' = [publishing EXCEPT ![e].pc = "delivering",
                                      ![e].todo = subscribers[publishing[e].user]]
  /\ UNCHANGED <<buf, subscribers, connections, conn, history>>

(* ... and called one after the other.  sendEvent looks whether the         *)
(* connection is closed ...                                                 *)
CheckClosed(e, c) ==
  /\ publishing[e].checked = NoConn
  /\ c \in publishing[e].todo
  /\ publishing' = [publishing EXCEPT
       ![e].todo = @ \ {c},
       ![e].checked = IF conn[c].closed THEN NoConn ELSE c]
  /\ UNCHANGED <<buf, subscribers, connections, conn, history>>

(* Mutation: a write that went through is repeated.                         *)
WriteTwice(e) ==
  LET c == publishing[e].checked
  IN  /\ c # NoConn
      /\ publishing' = [publishing EXCEPT ![e].checked = NoConn]
      /\ conn' = IF Receives(c)
                 THEN [conn EXCEPT ![c].sent = @ \o <<e, e>>] ELSE conn
      /\ UNCHANGED <<buf, subscribers, connections, history>>

(* ... and writes afterwards, whatever has happened in between.             *)
Write(e) ==
  LET c == publishing[e].checked
  IN  /\ c # NoConn
      /\ publishing' = [publishing EXCEPT ![e].checked = NoConn]
      /\ conn' = IF Receives(c)
                 THEN [conn EXCEPT ![c].sent = Append(@, e)] ELSE conn
      /\ UNCHANGED <<buf, subscribers, connections, history>>

Handle(c) ==
  \/ AddConnection(c) \/ GetEventsSince(c) \/ SendMissed(c) \/ Subscribe(c)
  \/ Wake(c) \/ RemoveConnection(c) \/ Unsubscribe(c)

Deliver(e) ==
  CopyHandlers(e) \/ (\E c \in Conn : CheckClosed(e, c)) \/ Write(e)

Next ==
  \/ \E u \in User : Accept(u) \/ Publish(u)
  \/ \E c \in Accepted :
       Handle(c) \/ ConnectionTimeout(c) \/ ClientGone(c) \/ FallSilent(c) \/ Heartbeat(c)
  \/ CleanupDeadConnections
  \/ \E e \in Published : Deliver(e)

Spec == Init /\ [][Next]_vars

(* A goroutine that can run does run: the handlers and the publishers keep  *)
(* taking steps, and a lock is never held across a step.  Clients, timeouts *)
(* and the sweep are not obliged to do anything.                            *)
FairSpec ==
  /\ Spec
  /\ \A c \in Conn : WF_vars(c \in Accepted /\ Handle(c))
  /\ \A e \in 1..MaxEvents : WF_vars(e \in Published /\ Deliver(e))

-------------------------------------------------------------------------------
Event == [id : 1..MaxEvents, user : User, ts : {0}]

(* The shape of the bus, the manager and the handlers.  No event of one     *)
(* user is ever written to a stream of another one, by replay or live       *)
(* (event_store.go:89, event_bus.go:42).                                    *)
TypeOK ==
  /\ buf.events \in Seq(Event)
  /\ publishing \in Seq([user : User, pc : {"stored", "delivering"},
                         todo : SUBSET Conn, checked : Conn \cup {NoConn}])
  /\ subscribers \in [User -> SUBSET Conn]
  /\ connections \in [User -> SUBSET Conn]
  /\ conn \in Seq([user : User,
                   pc : {"created", "added", "replaying", "streaming",
                         "leaving", "removed", "returned"},
                   closed : BOOLEAN, gone : BOOLEAN, silent : BOOLEAN,
                   lastEventID : 0..EphemeralID,
                   missed : Seq(Event), sent : Seq(1..MaxEvents)])
  /\ history \in Seq([replay : Nat, subscribe : Nat])
  /\ \A c \in Accepted : \A e \in Range(conn[c].sent) : publishing[e].user = UserOf(c)

(* Streams that count against the limit: added, not closed, not returning.  *)
Open(c) ==
  /\ conn[c].pc \in {"added", "replaying", "streaming", "leaving"}
  /\ ~conn[c].closed

(* However adding, sweeping, timing out and disconnecting interleave, a     *)
(* user never has more open streams than MaxConnectionsPerUser: a stream    *)
(* that is open is registered, so that the next AddConnection counts it     *)
(* (connection_manager.go:45), and one that is registered is open.  A       *)
(* handler that has returned leaves nothing behind, and only streams that   *)
(* reached Subscribe are subscribed.                                        *)
OpenStreamsAreCounted ==
  \A u \in User :
    /\ Cardinality(connections[u]) <= MaxConnectionsPerUser
    /\ connections[u] = {c \in Accepted : UserOf(c) = u /\ Open(c)}
    /\ subscribers[u] = {c \in Accepted :
         UserOf(c) = u /\ conn[c].pc \in {"streaming", "leaving", "removed"}}

Times(e, c) == Cardinality({k \in DOMAIN conn[c].sent : conn[c].sent[k] = e})

(* A stream sees an event twice only when the event was stored before the   *)
(* replay and its Publish copied the handlers after Subscribe; never more   *)
(* than twice.                                                              *)
DuplicatesOnlyAcrossReplay ==
  \A c \in Accepted : \A e \in Published :
    Times(e, c) > 1 => Times(e, c) = 2 /\ e <= history[c].replay

(* What an undisturbed stream may have missed when an event's Publish is    *)
(* over: never an event stored after it subscribed.  (Those before are what *)
(* the replay is for.)                                                      *)
LiveEventsArrive ==
  \A c \in Accepted : \A e \in Published :
    /\ conn[c].pc = "streaming" /\ ~conn[c].closed /\ ~conn[c].gone
    /\ publishing[e].user = UserOf(c) /\ Returned(e)
    /\ e > history[c].subscribe
    => e \in Range(conn[c].sent)

(* As long as its cursor is remembered, an undisturbed stream has been sent *)
(* every event of its user that was stored after the cursor and before the  *)
(* replay and still is in the buffer, or as many as the limit allows.       *)
ReplayIsComplete ==
  \A c \in Accepted :
    /\ conn[c].pc = "streaming" /\ ~conn[c].closed /\ ~conn[c].gone
    /\ conn[c].lastEventID \in DOMAIN buf.eventIndex
    => LET due == {e \in Range(buf.events) :
                     /\ e.user = UserOf(c)
                     /\ e.id > conn[c].lastEventID /\ e.id <= history[c].replay}
       IN  Cardinality({e.id : e \in due} \cap Range(conn[c].sent))
             >= (IF Cardinality(due) < Limit THEN Cardinality(due) ELSE Limit)

(* A stream whose connection was closed (evicted or swept) or whose client  *)
(* has gone ends: the handler returns and its subscription goes with it.    *)
ClosedStreamsEnd ==
  \A c \in Conn :
    (c \in Accepted /\ (conn[c].closed \/ conn[c].gone))
      ~> (c \in Accepted /\ conn[c].pc = "returned" /\ c \notin subscribers[UserOf(c)])

===============================================================================
