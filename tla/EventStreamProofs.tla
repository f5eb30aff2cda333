--------------------------- MODULE EventStreamProofs ---------------------------
(* Proofs about EventStream, for any number of users, streams and events:   *)
(* open streams are those that are counted and never more than the limit,   *)
(* and a stream misses no event that is stored after it has subscribed (the *)
(* invariant Inductive); a stream is sent events of its user only, none     *)
(* three times and none twice that its replay did not send, and its replay  *)
(* leaves out nothing that the buffer holds (the invariant Deliveries, for  *)
(* which the buffer is known from EventStoreProofs).                        *)
EXTENDS EventStream, FiniteSetTheorems, SequenceTheorems, WellFoundedInduction, TLAPS

Stage == {"created", "added", "replaying", "streaming", "leaving", "removed", "returned"}

Publication == [user : User, pc : {"stored", "delivering"}, todo : SUBSET Conn,
                checked : Conn \cup {NoConn}]

(* A sequence of whatever elements.                                         *)
IsList(s) == s \in Seq(Range(s))

(* A handler's record; what the replay has found is left open.              *)
IsHandler(k) ==
  /\ k \in [user : User, pc : Stage, closed : BOOLEAN, gone : BOOLEAN, silent : BOOLEAN,
            lastEventID : {k.lastEventID}, missed : {k.missed}, sent : {k.sent}]
  /\ IsList(k.sent)

Handlers(h) ==
  /\ IsList(h) /\ Len(h) <= MaxConns
  /\ \A c \in DOMAIN h : IsHandler(h[c])

Shape ==
  /\ publishing \in Seq(Publication)
  /\ subscribers \in [User -> SUBSET Conn]
  /\ connections \in [User -> SUBSET Conn]
  /\ Handlers(conn)
  /\ history \in Seq([replay : Nat, subscribe : Nat]) /\ Len(history) = Len(conn)

(* A stream is closed only after it was added.                              *)
NewAreOpen == \A c \in Accepted : conn[c].pc = "created" => ~conn[c].closed

Undisturbed(c) == conn[c].pc = "streaming" /\ ~conn[c].closed /\ ~conn[c].gone

(* An event that is being delivered and was stored after a stream of its    *)
(* user subscribed has reached that stream or is on the way to it.          *)
OnTheWay ==
  \A c \in Accepted : \A e \in Published :
    /\ Undisturbed(c) /\ publishing[e].pc = "delivering"
    /\ publishing[e].user = UserOf(c) /\ e > history[c].subscribe
    => c \in publishing[e].todo \/ publishing[e].checked = c \/ e \in Range(conn[c].sent)

Inductive == Shape /\ NewAreOpen /\ OpenStreamsAreCounted /\ OnTheWay
-------------------------------------------------------------------------------
LEMMA ListOf ==
  ASSUME NEW n \in Nat, NEW f, DOMAIN f = 1..n, f = [i \in 1..n |-> f[i]]
  PROVE  IsList(f) /\ Len(f) = n
BY DEF IsList, Range

LEMMA ListDomain ==
  ASSUME NEW s, IsList(s)
  PROVE  Len(s) \in Nat /\ DOMAIN s = 1..Len(s) /\ s = [i \in 1..Len(s) |-> s[i]]
BY DEF IsList

LEMMA ListAppend ==
  ASSUME NEW s, IsList(s), NEW x
  PROVE  /\ IsList(Append(s, x)) /\ Range(Append(s, x)) = Range(s) \cup {x}
         /\ Len(Append(s, x)) = Len(s) + 1
         /\ Append(s, x)[Len(s) + 1] = x /\ \A i \in 1..Len(s) : Append(s, x)[i] = s[i]
<1> DEFINE t == Append(s, x)
<1>1. s \in Seq(Range(s) \cup {x})
  BY DEF IsList, Range
<1>2. t \in Seq(Range(s) \cup {x}) /\ Len(t) = Len(s) + 1 /\ t[Len(s) + 1] = x
      /\ \A i \in 1..Len(s) : t[i] = s[i]
  BY <1>1
<1>3. Len(s) \in Nat /\ DOMAIN s = 1..Len(s) /\ DOMAIN t = 1..(Len(s) + 1)
  BY <1>1, <1>2
<1> HIDE DEF t
<1>4. Range(t) = Range(s) \cup {x}
  BY <1>2, <1>3 DEF Range
<1>5. IsList(t)
  BY <1>2, <1>4 DEF IsList
<1> QED BY <1>2, <1>4, <1>5 DEF t

(* The handler c of h becomes k.                                            *)
LEMMA Moved ==
  ASSUME NEW h, NEW g, Handlers(h), NEW c \in DOMAIN h, NEW k, IsHandler(k), g = [h EXCEPT ![c] = k]
  PROVE  /\ Handlers(g) /\ DOMAIN g = DOMAIN h /\ Len(g) = Len(h) /\ g[c] = k
         /\ \A d \in DOMAIN h \ {c} : g[d] = h[d]
<1>1. Len(h) \in Nat /\ DOMAIN h = 1..Len(h) /\ h = [i \in 1..Len(h) |-> h[i]]
  BY ListDomain DEF Handlers
<1>2. DOMAIN g = DOMAIN h /\ g = [i \in 1..Len(h) |-> g[i]]
      /\ g[c] = k /\ \A d \in DOMAIN h \ {c} : g[d] = h[d]
  BY <1>1
<1>3. IsList(g) /\ Len(g) = Len(h)
  BY <1>1, <1>2, ListOf
<1> QED BY <1>1, <1>2, <1>3 DEF Handlers

LEMMA HandlerMoves ==
  ASSUME Handlers(conn), NEW c \in Accepted, NEW k, IsHandler(k), conn' = [conn EXCEPT ![c] = k]
  PROVE  /\ Handlers(conn') /\ Accepted' = Accepted /\ Len(conn') = Len(conn) /\ conn'[c] = k
         /\ \A d \in Accepted \ {c} : conn'[d] = conn[d]
BY Moved DEF Accepted

(* The handler k with one field changed.                                    *)
LEMMA PcOf ==
  ASSUME NEW k, IsHandler(k), NEW pc \in Stage
  PROVE  LET h == [k EXCEPT !.pc = pc]
         IN  /\ IsHandler(h) /\ h.pc = pc /\ h.user = k.user /\ h.closed = k.closed
             /\ h.gone = k.gone /\ h.sent = k.sent /\ h.missed = k.missed
BY DEF IsHandler

LEMMA ClosedOf ==
  ASSUME NEW k, IsHandler(k)
  PROVE  LET h == [k EXCEPT !.closed = TRUE]
         IN  /\ IsHandler(h) /\ h.pc = k.pc /\ h.user = k.user /\ h.closed = TRUE
             /\ h.gone = k.gone /\ h.sent = k.sent /\ h.missed = k.missed
BY DEF IsHandler

LEMMA GoneOf ==
  ASSUME NEW k, IsHandler(k)
  PROVE  LET h == [k EXCEPT !.gone = TRUE]
         IN  /\ IsHandler(h) /\ h.pc = k.pc /\ h.user = k.user /\ h.closed = k.closed
             /\ h.gone = TRUE /\ h.sent = k.sent /\ h.missed = k.missed
BY DEF IsHandler

LEMMA SilentOf ==
  ASSUME NEW k, IsHandler(k), NEW b \in BOOLEAN
  PROVE  LET h == [k EXCEPT !.silent = b]
         IN  /\ IsHandler(h) /\ h.pc = k.pc /\ h.user = k.user /\ h.closed = k.closed
             /\ h.gone = k.gone /\ h.sent = k.sent /\ h.missed = k.missed
BY DEF IsHandler

LEMMA MissedOf ==
  ASSUME NEW k, IsHandler(k), NEW m
  PROVE  LET h == [k EXCEPT !.missed = m]
         IN  /\ IsHandler(h) /\ h.pc = k.pc /\ h.user = k.user /\ h.closed = k.closed
             /\ h.gone = k.gone /\ h.sent = k.sent /\ h.missed = m
BY DEF IsHandler

LEMMA SentOf ==
  ASSUME NEW k, IsHandler(k), NEW e
  PROVE  LET h == [k EXCEPT !.sent = Append(@, e)]
         IN  /\ IsHandler(h) /\ h.pc = k.pc /\ h.user = k.user /\ h.closed = k.closed
             /\ h.gone = k.gone /\ Range(h.sent) = Range(k.sent) \cup {e}
<1> DEFINE s == Append(k.sent, e)
<1>1. IsList(s) /\ Range(s) = Range(k.sent) \cup {e}
  BY ListAppend DEF IsHandler
<1> HIDE DEF s
<1>2. LET h == [k EXCEPT !.sent = s]
      IN  /\ IsHandler(h) /\ h.pc = k.pc /\ h.user = k.user /\ h.closed = k.closed
          /\ h.gone = k.gone /\ h.sent = s
  BY <1>1 DEF IsHandler
<1> QED BY <1>1, <1>2 DEF s
-------------------------------------------------------------------------------
(* The steps of one handler that change neither the manager nor the bus.    *)
Subscribed == {"streaming", "leaving", "removed"}
OpenAt(k) == k.pc \in {"added", "replaying", "streaming", "leaving"} /\ ~k.closed

LEMMA OpenIs == \A c : Open(c) <=> OpenAt(conn[c])
BY DEF Open, OpenAt

LEMMA StreamStep ==
  ASSUME Inductive, NEW c \in Accepted, NEW k, IsHandler(k), conn' = [conn EXCEPT ![c] = k],
         k.user = UserOf(c), UNCHANGED <<publishing, subscribers, connections>>,
         history' \in Seq([replay : Nat, subscribe : Nat]), Len(history') = Len(history),
         \A d \in Accepted : history'[d].subscribe = history[d].subscribe,
         k.pc = "created" => conn[c].pc = "created" /\ k.closed = conn[c].closed,
         OpenAt(k) <=> OpenAt(conn[c]),
         k.pc \in Subscribed <=> conn[c].pc \in Subscribed,
         k.pc = "streaming" /\ ~k.closed /\ ~k.gone =>
           Undisturbed(c) /\ Range(conn[c].sent) \subseteq Range(k.sent)
  PROVE  Inductive'
<1>1. /\ Handlers(conn') /\ Accepted' = Accepted /\ Len(conn') = Len(conn) /\ conn'[c] = k
      /\ \A d \in Accepted \ {c} : conn'[d] = conn[d]
  BY HandlerMoves DEF Inductive, Shape
<1>2. Shape'
  BY <1>1 DEF Inductive, Shape
<1>3. NewAreOpen'
  BY <1>1 DEF Inductive, NewAreOpen
<1>4. \A d \in Accepted : /\ UserOf(d)' = UserOf(d)
                          /\ OpenAt(conn'[d]) <=> OpenAt(conn[d])
                          /\ conn'[d].pc \in Subscribed <=> conn[d].pc \in Subscribed
  BY <1>1 DEF UserOf
<1>5. OpenStreamsAreCounted'
  BY <1>1, <1>4 DEF Inductive, OpenStreamsAreCounted, Open, OpenAt, Subscribed
<1>6. \A d \in Accepted : Undisturbed(d)' =>
        Undisturbed(d) /\ Range(conn[d].sent) \subseteq Range(conn'[d].sent)
  BY <1>1 DEF Undisturbed
<1>7. OnTheWay'
  BY <1>1, <1>4, <1>6, ZenonT(40) DEF Inductive, OnTheWay, Published
<1> QED BY <1>2, <1>3, <1>5, <1>7 DEF Inductive

LEMMA HandlerOf ==
  ASSUME Inductive, NEW c \in Accepted
  PROVE  IsHandler(conn[c]) /\ IsList(conn) /\ c \in 1..Len(conn) /\ c \in Conn
BY ListDomain, EventStreamAssumption DEF Inductive, Shape, Handlers, Accepted, Conn

LEMMA GetEventsSinceStep ==
  ASSUME Inductive, NEW c \in Accepted, GetEventsSince(c)
  PROVE  Inductive'
<1> DEFINE m == IF conn[c].lastEventID = NoID THEN <<>>
                ELSE After(buf, UserOf(c), conn[c].lastEventID, Limit)
           h == [conn[c] EXCEPT !.pc = "replaying"]
           k == [h EXCEPT !.missed = m]
<1>1. IsHandler(conn[c])
  BY HandlerOf
<1>2. /\ IsHandler(h) /\ h.pc = "replaying" /\ h.user = UserOf(c) /\ h.closed = conn[c].closed
  BY <1>1, PcOf DEF Stage, UserOf
<1>3. conn' = [conn EXCEPT ![c] = k]
  BY DEF GetEventsSince
<1> HIDE DEF h, m
<1>4. /\ IsHandler(k) /\ k.pc = "replaying" /\ k.user = UserOf(c) /\ k.closed = conn[c].closed
  BY <1>2, MissedOf
<1> HIDE DEF k
<1>5. /\ conn[c].pc = "added" /\ history' = [history EXCEPT ![c].replay = Len(publishing)]
      /\ UNCHANGED <<publishing, subscribers, connections>>
  BY DEF GetEventsSince
<1>6. /\ history' \in Seq([replay : Nat, subscribe : Nat]) /\ Len(history') = Len(history)
      /\ \A d \in Accepted : history'[d].subscribe = history[d].subscribe
  <2> DEFINE rec == [history[c] EXCEPT !.replay = Len(publishing)]
  <2>1. /\ history \in Seq([replay : Nat, subscribe : Nat]) /\ Len(history) = Len(conn)
        /\ Accepted = 1..Len(conn) /\ Len(publishing) \in Nat /\ Len(conn) \in Nat
    BY ListDomain DEF Inductive, Shape, Handlers, Accepted
  <2>2. rec \in [replay : Nat, subscribe : Nat] /\ rec.subscribe = history[c].subscribe
    <3>1. c \in 1..Len(history)
      BY <2>1
    <3>2. history[c] \in [replay : Nat, subscribe : Nat]
      BY <2>1, <3>1, ElementOfSeq
    <3> QED BY <2>1, <3>2
  <2>3. history' = [history EXCEPT ![c] = rec]
    BY <1>5
  <2> HIDE DEF rec
  <2> QED BY <2>1, <2>2, <2>3
<1>7. (OpenAt(k) <=> OpenAt(conn[c])) /\ (k.pc \in Subscribed <=> conn[c].pc \in Subscribed)
  BY <1>4, <1>5 DEF OpenAt, Subscribed
<1> QED BY <1>3, <1>4, <1>5, <1>6, <1>7, StreamStep

LEMMA QuietStep ==
  ASSUME Inductive, NEW c \in Accepted,
         SendMissed(c) \/ Wake(c) \/ ConnectionTimeout(c) \/ ClientGone(c) \/ FallSilent(c)
           \/ Heartbeat(c)
  PROVE  Inductive'
<1>1. IsHandler(conn[c]) /\ Inductive
  BY HandlerOf
<1>2. /\ UNCHANGED <<publishing, subscribers, connections, history>>
      /\ history \in Seq([replay : Nat, subscribe : Nat])
  BY DEF SendMissed, Wake, ConnectionTimeout, ClientGone, FallSilent, Heartbeat, MoveTo,
         Inductive, Shape
<1>3. CASE Wake(c) \/ ConnectionTimeout(c)
  <2> DEFINE k == [conn[c] EXCEPT !.pc = "leaving"]
  <2>1. /\ IsHandler(k) /\ k.pc = "leaving" /\ k.user = UserOf(c) /\ k.closed = conn[c].closed
    BY <1>1, PcOf DEF Stage, UserOf
  <2>2. conn[c].pc = "streaming" /\ conn' = [conn EXCEPT ![c] = k]
    BY <1>3 DEF Wake, ConnectionTimeout, MoveTo
  <2> HIDE DEF k
  <2>3. (OpenAt(k) <=> OpenAt(conn[c])) /\ (k.pc \in Subscribed <=> conn[c].pc \in Subscribed)
    BY <2>1, <2>2 DEF OpenAt, Subscribed
  <2> QED BY <1>2, <2>1, <2>2, <2>3, StreamStep
<1>4. CASE ClientGone(c)
  <2> DEFINE k == [conn[c] EXCEPT !.gone = TRUE]
  <2>1. /\ IsHandler(k) /\ k.pc = conn[c].pc /\ k.user = UserOf(c) /\ k.closed = conn[c].closed
        /\ k.gone
    BY <1>1, GoneOf DEF UserOf
  <2>2. conn' = [conn EXCEPT ![c] = k]
    BY <1>4 DEF ClientGone
  <2> HIDE DEF k
  <2>3. (OpenAt(k) <=> OpenAt(conn[c])) /\ (k.pc \in Subscribed <=> conn[c].pc \in Subscribed)
    BY <2>1, <2>2 DEF OpenAt, Subscribed
  <2> QED BY <1>2, <2>1, <2>2, <2>3, StreamStep
<1>5. CASE FallSilent(c) \/ Heartbeat(c)
  <2>1. PICK b \in BOOLEAN : conn' = [conn EXCEPT ![c].silent = b]
    BY <1>5 DEF FallSilent, Heartbeat
  <2> DEFINE k == [conn[c] EXCEPT !.silent = b]
  <2>2. /\ IsHandler(k) /\ k.pc = conn[c].pc /\ k.user = UserOf(c) /\ k.closed = conn[c].closed
        /\ k.gone = conn[c].gone /\ k.sent = conn[c].sent
    BY <1>1, SilentOf DEF UserOf
  <2>3. conn' = [conn EXCEPT ![c] = k]
    BY <2>1
  <2> HIDE DEF k
  <2>4. (OpenAt(k) <=> OpenAt(conn[c])) /\ (k.pc \in Subscribed <=> conn[c].pc \in Subscribed)
    BY <2>2 DEF OpenAt, Subscribed
  <2> QED BY <1>2, <2>2, <2>3, <2>4, StreamStep DEF Undisturbed
<1>6. CASE SendMissed(c)
  <2>1. /\ conn[c].pc = "replaying"
        /\ \/ conn' = [conn EXCEPT ![c].missed = <<>>]
           \/ conn' = [conn EXCEPT ![c].sent = Append(@, Head(conn[c].missed).id),
                                   ![c].missed = Tail(@)]
    BY <1>6 DEF SendMissed
  <2>2. PICK k : /\ IsHandler(k) /\ k.pc = conn[c].pc /\ k.user = UserOf(c)
                 /\ k.closed = conn[c].closed /\ conn' = [conn EXCEPT ![c] = k]
    <3>1. CASE conn' = [conn EXCEPT ![c].missed = <<>>]
      <4> DEFINE k == [conn[c] EXCEPT !.missed = <<>>]
      <4>1. /\ IsHandler(k) /\ k.pc = conn[c].pc /\ k.user = UserOf(c)
            /\ k.closed = conn[c].closed
        BY <1>1, MissedOf DEF UserOf
      <4>2. conn' = [conn EXCEPT ![c] = k]
        BY <3>1
      <4> QED BY <4>1, <4>2
    <3>2. CASE conn' = [conn EXCEPT ![c].sent = Append(@, Head(conn[c].missed).id),
                                    ![c].missed = Tail(@)]
      <4> DEFINE e == Head(conn[c].missed).id
                 h == [conn[c] EXCEPT !.sent = Append(@, e)]
                 t == Tail(conn[c].missed)
                 k == [h EXCEPT !.missed = t]
      <4>1. /\ IsHandler(h) /\ h.pc = conn[c].pc /\ h.user = UserOf(c)
            /\ h.closed = conn[c].closed
        <5> HIDE DEF e
        <5> QED BY <1>1, SentOf DEF UserOf
      <4>2. conn' = [conn EXCEPT ![c] = k]
        <5>1. conn' = [[conn EXCEPT ![c] = h] EXCEPT ![c] = [@ EXCEPT !.missed = t]]
          BY <3>2
        <5> QED BY <5>1
      <4> HIDE DEF h, t
      <4>3. /\ IsHandler(k) /\ k.pc = h.pc /\ k.user = h.user /\ k.closed = h.closed
        BY <4>1, MissedOf
      <4> HIDE DEF k
      <4> QED BY <4>1, <4>2, <4>3
    <3> QED BY <2>1, <3>1, <3>2
  <2>3. (OpenAt(k) <=> OpenAt(conn[c])) /\ (k.pc \in Subscribed <=> conn[c].pc \in Subscribed)
    BY <2>2 DEF OpenAt, Subscribed
  <2> QED BY <1>2, <2>1, <2>2, <2>3, StreamStep
<1> QED BY <1>3, <1>4, <1>5, <1>6
-------------------------------------------------------------------------------
(* The steps that close connections.                                        *)
LEMMA OnTheWayKept ==
  ASSUME Inductive, Accepted' = Accepted, UNCHANGED publishing,
         \A d \in Accepted :
           /\ history'[d].subscribe = history[d].subscribe /\ UserOf(d)' = UserOf(d)
           /\ Undisturbed(d)' => Undisturbed(d) /\ Range(conn[d].sent) \subseteq Range(conn'[d].sent)
  PROVE  OnTheWay'
BY DEF Inductive, OnTheWay, Published

LEMMA Closes ==
  ASSUME Handlers(conn), NEW C \in SUBSET Accepted
  PROVE  /\ Handlers(Closed(C)) /\ DOMAIN Closed(C) = Accepted /\ Len(Closed(C)) = Len(conn)
         /\ \A d \in Accepted :
              /\ Closed(C)[d].pc = conn[d].pc /\ Closed(C)[d].user = conn[d].user
              /\ Closed(C)[d].gone = conn[d].gone /\ Closed(C)[d].sent = conn[d].sent
              /\ Closed(C)[d].closed <=> conn[d].closed \/ d \in C
<1> DEFINE g == Closed(C)
<1>1. Len(conn) \in Nat /\ Accepted = 1..Len(conn) /\ \A d \in Accepted : IsHandler(conn[d])
  BY ListDomain DEF Handlers, Accepted
<1>2. /\ DOMAIN g = 1..Len(conn) /\ g = [i \in 1..Len(conn) |-> g[i]]
      /\ \A d \in Accepted : g[d] = IF d \in C THEN [conn[d] EXCEPT !.closed = TRUE] ELSE conn[d]
  BY <1>1 DEF Closed
<1> HIDE DEF g
<1>3. IsList(g) /\ Len(g) = Len(conn)
  BY <1>1, <1>2, ListOf
<1>4. \A d \in Accepted : /\ IsHandler(g[d])
                          /\ g[d].pc = conn[d].pc /\ g[d].user = conn[d].user
                          /\ g[d].gone = conn[d].gone /\ g[d].sent = conn[d].sent
                          /\ g[d].closed <=> conn[d].closed \/ d \in C
  <2> SUFFICES ASSUME NEW d \in Accepted
               PROVE  /\ IsHandler(g[d])
                      /\ g[d].pc = conn[d].pc /\ g[d].user = conn[d].user
                      /\ g[d].gone = conn[d].gone /\ g[d].sent = conn[d].sent
                      /\ g[d].closed <=> conn[d].closed \/ d \in C
    OBVIOUS
  <2>1. IsHandler(conn[d])
    BY <1>1
  <2>2. CASE d \in C
    BY <1>2, <2>1, <2>2, ClosedOf
  <2>3. CASE d \notin C
    BY <1>2, <2>1, <2>3 DEF IsHandler
  <2> QED BY <2>2, <2>3
<1>5. Handlers(g)
  BY <1>1, <1>2, <1>3, <1>4 DEF Handlers
<1> QED BY <1>1, <1>2, <1>3, <1>4, <1>5 DEF g

LEMMA ClosesAndMoves ==
  ASSUME Handlers(conn), NEW C \in SUBSET Accepted, NEW c \in Accepted, NEW pc \in Stage,
         conn' = [Closed(C) EXCEPT ![c].pc = pc]
  PROVE  /\ Handlers(conn') /\ Accepted' = Accepted /\ Len(conn') = Len(conn)
         /\ conn'[c].pc = pc
         /\ \A d \in Accepted :
              /\ d # c => conn'[d].pc = conn[d].pc
              /\ UserOf(d)' = UserOf(d)
              /\ conn'[d].gone = conn[d].gone /\ conn'[d].sent = conn[d].sent
              /\ conn'[d].closed <=> conn[d].closed \/ d \in C
<1> DEFINE g == Closed(C)
           k == [g[c] EXCEPT !.pc = pc]
<1>1. /\ Handlers(g) /\ DOMAIN g = Accepted /\ Len(g) = Len(conn)
      /\ \A d \in Accepted :
           /\ g[d].pc = conn[d].pc /\ g[d].user = conn[d].user
           /\ g[d].gone = conn[d].gone /\ g[d].sent = conn[d].sent
           /\ g[d].closed <=> conn[d].closed \/ d \in C
  BY Closes
<1>2. conn' = [g EXCEPT ![c] = k]
  OBVIOUS
<1> HIDE DEF g
<1>3. /\ IsHandler(k) /\ k.pc = pc /\ k.user = g[c].user /\ k.closed = g[c].closed
      /\ k.gone = g[c].gone /\ k.sent = g[c].sent
  BY <1>1, PcOf DEF Handlers
<1> HIDE DEF k
<1>4. /\ Handlers(conn') /\ DOMAIN conn' = Accepted /\ Len(conn') = Len(conn) /\ conn'[c] = k
      /\ \A d \in Accepted \ {c} : conn'[d] = g[d]
  <2>1. Handlers(g) /\ c \in DOMAIN g
    BY <1>1
  <2>2. /\ Handlers(conn') /\ DOMAIN conn' = DOMAIN g /\ Len(conn') = Len(g) /\ conn'[c] = k
        /\ \A d \in DOMAIN g \ {c} : conn'[d] = g[d]
    BY <2>1, <1>2, <1>3, Moved, ZenonT(40)
  <2> QED BY <1>1, <2>2
<1>5. \A d \in Accepted :
        /\ d # c => conn'[d].pc = conn[d].pc
        /\ conn'[d].user = conn[d].user
        /\ conn'[d].gone = conn[d].gone /\ conn'[d].sent = conn[d].sent
        /\ conn'[d].closed <=> conn[d].closed \/ d \in C
  <2> SUFFICES ASSUME NEW d \in Accepted
               PROVE  /\ d # c => conn'[d].pc = conn[d].pc
                      /\ conn'[d].user = conn[d].user
                      /\ conn'[d].gone = conn[d].gone /\ conn'[d].sent = conn[d].sent
                      /\ conn'[d].closed <=> conn[d].closed \/ d \in C
    OBVIOUS
  <2>1. CASE d = c
    BY <1>1, <1>3, <1>4, <2>1
  <2>2. CASE d # c
    BY <1>1, <1>4, <2>2
  <2> QED BY <2>1, <2>2
<1> QED BY <1>3, <1>4, <1>5 DEF Accepted, UserOf

LEMMA RegisteredOf ==
  ASSUME Inductive, NEW u \in User
  PROVE  /\ connections[u] = {d \in Accepted : UserOf(d) = u /\ OpenAt(conn[d])}
         /\ subscribers[u] = {d \in Accepted : UserOf(d) = u /\ conn[d].pc \in Subscribed}
         /\ Cardinality(connections[u]) <= MaxConnectionsPerUser
         /\ connections[u] \subseteq Conn /\ IsFiniteSet(connections[u])
         /\ Cardinality(connections[u]) \in Nat
<1>1. connections[u] \subseteq Conn /\ IsFiniteSet(Conn)
  <2>1. 1 \in Int /\ MaxConns \in Int
    BY EventStreamAssumption
  <2>2. IsFiniteSet(Conn)
    BY <2>1, FS_Interval DEF Conn
  <2> QED BY <2>2 DEF Inductive, Shape
<1>2. IsFiniteSet(connections[u]) /\ Cardinality(connections[u]) \in Nat
  BY <1>1, FS_Subset, FS_CardinalityType
<1> QED BY <1>1, <1>2, OpenIs DEF Inductive, OpenStreamsAreCounted, Subscribed

(* What the manager and the bus have to show after a step.                  *)
LEMMA CountedIf ==
  ASSUME \A u \in User :
           /\ Cardinality(connections'[u]) <= MaxConnectionsPerUser
           /\ connections'[u] = {d \in Accepted' : UserOf(d)' = u /\ OpenAt(conn'[d])}
           /\ subscribers'[u] = {d \in Accepted' : UserOf(d)' = u /\ conn'[d].pc \in Subscribed}
  PROVE  OpenStreamsAreCounted'
BY DEF OpenStreamsAreCounted, Open, OpenAt, Subscribed

LEMMA OldestOf ==
  ASSUME NEW u \in User, connections[u] \subseteq Conn, connections[u] # {}
  PROVE  Oldest(u) \in connections[u]
<1> DEFINE less == OpToRel(<, Nat)
<1>1. connections[u] \subseteq Nat
  BY EventStreamAssumption DEF Conn
<1>2. PICK o \in connections[u] : \A d \in connections[u] : ~(<<d, o>> \in less)
  <2>1. IsWellFoundedOn(less, Nat)
    BY NatLessThanWellFounded
  <2> HIDE DEF less
  <2> QED BY <1>1, <2>1, WFMin
<1>3. \A d \in connections[u] : o <= d
  <2> SUFFICES ASSUME NEW d \in connections[u]
               PROVE  o <= d
    OBVIOUS
  <2>1. d \in Nat /\ o \in Nat /\ ~(<<d, o>> \in less)
    BY <1>1, <1>2
  <2>2. d < o => <<d, o>> \in less
    BY <2>1 DEF OpToRel
  <2> HIDE DEF less
  <2> QED BY <2>1, <2>2
<1> QED BY <1>3 DEF Oldest

LEMMA AddConnectionStep ==
  ASSUME Inductive, NEW c \in Accepted, AddConnection(c)
  PROVE  Inductive'
<1> DEFINE u == conn[c].user
<1>0. PICK v \in User : v = u
  BY HandlerOf DEF IsHandler
<1>1. PICK evict : /\ evict = IF Cardinality(connections[v]) >= MaxConnectionsPerUser
                              THEN {Oldest(v)} ELSE {}
                   /\ connections' = [connections EXCEPT ![v] = (@ \ evict) \cup {c}]
                   /\ conn' = [Closed(evict) EXCEPT ![c].pc = "added"]
  BY <1>0 DEF AddConnection, UserOf
<1>2. /\ conn[c].pc = "created" /\ ~conn[c].closed /\ UserOf(c) = v /\ c \in Conn
      /\ UNCHANGED <<publishing, subscribers, history>>
  BY <1>0, HandlerOf DEF AddConnection, Inductive, NewAreOpen, UserOf
<1>3. /\ connections[v] = {d \in Accepted : UserOf(d) = v /\ OpenAt(conn[d])}
      /\ Cardinality(connections[v]) <= MaxConnectionsPerUser
      /\ connections[v] \subseteq Conn /\ IsFiniteSet(connections[v])
      /\ Cardinality(connections[v]) \in Nat
  BY RegisteredOf
<1>4. evict \subseteq connections[v]
      /\ Cardinality(connections[v] \ evict) < MaxConnectionsPerUser
      /\ Cardinality(connections[v] \ evict) \in Nat
  <2>1. CASE Cardinality(connections[v]) >= MaxConnectionsPerUser
    <3>1. connections[v] # {}
      BY <1>3, <2>1, FS_EmptySet, EventStreamAssumption
    <3>2. Oldest(v) \in connections[v]
      BY <1>3, <3>1, OldestOf
    <3>3. Cardinality(connections[v] \ {Oldest(v)}) = Cardinality(connections[v]) - 1
      BY <1>3, <3>2, FS_RemoveElement
    <3>4. Cardinality(connections[v] \ {Oldest(v)}) \in Nat
      <4>1. IsFiniteSet(connections[v] \ {Oldest(v)})
        BY <1>3, FS_Subset
      <4> QED BY <4>1, FS_CardinalityType
    <3> QED BY <1>1, <1>3, <2>1, <3>2, <3>3, <3>4, EventStreamAssumption
  <2>2. CASE ~(Cardinality(connections[v]) >= MaxConnectionsPerUser)
    <3>1. evict = {} /\ connections[v] \ evict = connections[v]
      BY <1>1, <2>2
    <3> QED BY <1>3, <2>2, <3>1, EventStreamAssumption
  <2> QED BY <2>1, <2>2
<1>5. c \notin connections[v] /\ evict \in SUBSET Accepted
  BY <1>2, <1>3, <1>4 DEF OpenAt
<1>6. /\ Handlers(conn') /\ Accepted' = Accepted /\ Len(conn') = Len(conn)
      /\ conn'[c].pc = "added"
      /\ \A d \in Accepted :
           /\ d # c => conn'[d].pc = conn[d].pc
           /\ UserOf(d)' = UserOf(d)
           /\ conn'[d].gone = conn[d].gone /\ conn'[d].sent = conn[d].sent
           /\ conn'[d].closed <=> conn[d].closed \/ d \in evict
  <2>1. Handlers(conn) /\ "added" \in Stage
    BY DEF Inductive, Shape, Stage
  <2> QED BY <1>1, <1>5, <2>1, ClosesAndMoves
<1>7. /\ connections' \in [User -> SUBSET Conn]
      /\ connections'[v] = (connections[v] \ evict) \cup {c}
      /\ \A w \in User \ {v} : connections'[w] = connections[w]
  BY <1>1, <1>2 DEF Inductive, Shape
<1>8. Shape'
  BY <1>2, <1>6, <1>7 DEF Inductive, Shape
<1>9. NewAreOpen'
  BY <1>3, <1>4, <1>6 DEF Inductive, NewAreOpen, OpenAt
<1>10. OpenStreamsAreCounted'
  <2> SUFFICES ASSUME NEW w \in User
               PROVE  /\ Cardinality(connections'[w]) <= MaxConnectionsPerUser
                      /\ connections'[w] = {d \in Accepted' : UserOf(d)' = w /\ OpenAt(conn'[d])}
                      /\ subscribers'[w] = {d \in Accepted' : UserOf(d)' = w /\ conn'[d].pc \in Subscribed}
    BY CountedIf
  <2>1. /\ connections[w] = {d \in Accepted : UserOf(d) = w /\ OpenAt(conn[d])}
        /\ subscribers[w] = {d \in Accepted : UserOf(d) = w /\ conn[d].pc \in Subscribed}
        /\ Cardinality(connections[w]) <= MaxConnectionsPerUser
    BY RegisteredOf
  <2>2. subscribers'[w] = {d \in Accepted' : UserOf(d)' = w /\ conn'[d].pc \in Subscribed}
    BY <1>2, <1>6, <2>1 DEF Subscribed
  <2>3. CASE w = v
    <3>1. connections'[v] = {d \in Accepted' : UserOf(d)' = v /\ OpenAt(conn'[d])}
      <4>1. \A d \in Accepted : d \in connections'[v] <=> UserOf(d)' = v /\ OpenAt(conn'[d])
        <5> SUFFICES ASSUME NEW d \in Accepted
                     PROVE  d \in connections'[v] <=> UserOf(d)' = v /\ OpenAt(conn'[d])
          OBVIOUS
        <5>1. CASE d = c
          BY <1>2, <1>4, <1>5, <1>6, <1>7, <5>1 DEF OpenAt
        <5>2. CASE d # c
          BY <1>3, <1>6, <1>7, <5>2 DEF OpenAt
        <5> QED BY <5>1, <5>2
      <4>2. connections'[v] \subseteq Accepted
        BY <1>3, <1>7
      <4> QED BY <1>6, <4>1, <4>2
    <3>2. Cardinality(connections'[v]) <= MaxConnectionsPerUser
      <4>1. IsFiniteSet(connections[v] \ evict) /\ c \notin connections[v] \ evict
        BY <1>3, <1>5, FS_Subset
      <4>2. Cardinality((connections[v] \ evict) \cup {c}) = Cardinality(connections[v] \ evict) + 1
        BY <4>1, FS_AddElement
      <4> QED BY <1>4, <1>7, <4>2, EventStreamAssumption
    <3> QED BY <2>2, <2>3, <3>1, <3>2
  <2>4. CASE w # v
    <3>1. \A d \in Accepted : UserOf(d) = w => d # c /\ d \notin evict
      BY <1>2, <1>3, <1>4, <2>4
    <3>2. connections'[w] = {d \in Accepted' : UserOf(d)' = w /\ OpenAt(conn'[d])}
      BY <1>6, <1>7, <2>1, <2>4, <3>1 DEF OpenAt
    <3> QED BY <1>7, <2>1, <2>2, <2>4, <3>2
  <2> QED BY <2>3, <2>4
<1>11. OnTheWay'
  BY <1>2, <1>6, OnTheWayKept DEF Undisturbed
<1> QED BY <1>8, <1>9, <1>10, <1>11 DEF Inductive

LEMMA RemoveConnectionStep ==
  ASSUME Inductive, NEW c \in Accepted, RemoveConnection(c)
  PROVE  Inductive'
<1>0. PICK v \in User : v = conn[c].user
  BY HandlerOf DEF IsHandler
<1>1. PICK C : /\ C = {c} \cap connections[v] /\ conn' = [Closed(C) EXCEPT ![c].pc = "removed"]
  BY <1>0 DEF RemoveConnection, UserOf
<1>2. /\ conn[c].pc = "leaving" /\ UserOf(c) = v /\ C \in SUBSET Accepted
      /\ connections' = [connections EXCEPT ![v] = @ \ {c}]
      /\ UNCHANGED <<publishing, subscribers, history>>
  BY <1>0, <1>1 DEF RemoveConnection, UserOf
<1>3. /\ Handlers(conn') /\ Accepted' = Accepted /\ Len(conn') = Len(conn)
      /\ conn'[c].pc = "removed"
      /\ \A d \in Accepted :
           /\ d # c => conn'[d].pc = conn[d].pc
           /\ UserOf(d)' = UserOf(d)
           /\ conn'[d].gone = conn[d].gone /\ conn'[d].sent = conn[d].sent
           /\ conn'[d].closed <=> conn[d].closed \/ d \in C
  BY <1>1, <1>2, ClosesAndMoves, ZenonT(40) DEF Inductive, Shape, Stage
<1>4. /\ connections' \in [User -> SUBSET Conn]
      /\ connections'[v] = connections[v] \ {c}
      /\ \A w \in User \ {v} : connections'[w] = connections[w]
  BY <1>2 DEF Inductive, Shape
<1>5. Shape'
  BY <1>2, <1>3, <1>4 DEF Inductive, Shape
<1>6. NewAreOpen'
  <2>1. \A d \in Accepted : conn'[d].pc = "created" => d # c /\ conn[d].pc = "created" /\ d \notin C
    BY <1>1, <1>3
  <2> QED BY <1>3, <2>1 DEF Inductive, NewAreOpen
<1>7. OpenStreamsAreCounted'
  <2> SUFFICES ASSUME NEW w \in User
               PROVE  /\ Cardinality(connections'[w]) <= MaxConnectionsPerUser
                      /\ connections'[w] = {d \in Accepted' : UserOf(d)' = w /\ OpenAt(conn'[d])}
                      /\ subscribers'[w] = {d \in Accepted' : UserOf(d)' = w /\ conn'[d].pc \in Subscribed}
    BY CountedIf
  <2>1. /\ connections[w] = {d \in Accepted : UserOf(d) = w /\ OpenAt(conn[d])}
        /\ subscribers[w] = {d \in Accepted : UserOf(d) = w /\ conn[d].pc \in Subscribed}
        /\ Cardinality(connections[w]) <= MaxConnectionsPerUser
        /\ IsFiniteSet(connections[w]) /\ Cardinality(connections[w]) \in Nat
    BY RegisteredOf
  <2>2. subscribers'[w] = {d \in Accepted' : UserOf(d)' = w /\ conn'[d].pc \in Subscribed}
    BY <1>2, <1>3, <2>1 DEF Subscribed
  <2>3. connections'[w] = {d \in Accepted' : UserOf(d)' = w /\ OpenAt(conn'[d])}
    <3>1. \A d \in Accepted : d \in connections'[w] <=> UserOf(d)' = w /\ OpenAt(conn'[d])
      <4> SUFFICES ASSUME NEW d \in Accepted
                   PROVE  d \in connections'[w] <=> UserOf(d)' = w /\ OpenAt(conn'[d])
        OBVIOUS
      <4>1. CASE d = c
        BY <1>2, <1>3, <1>4, <2>1, <4>1 DEF OpenAt
      <4>2. CASE d # c
        <5>1. d \notin C /\ (d \in connections'[w] <=> d \in connections[w])
          BY <1>1, <1>4, <4>2
        <5> QED BY <1>3, <2>1, <4>2, <5>1 DEF OpenAt
      <4> QED BY <4>1, <4>2
    <3>2. connections'[w] \subseteq Accepted
      BY <1>4, <2>1
    <3> QED BY <1>3, <3>1, <3>2
  <2>4. Cardinality(connections'[w]) <= MaxConnectionsPerUser
    <3>1. connections'[w] \subseteq connections[w]
      BY <1>4
    <3>2. Cardinality(connections'[w]) <= Cardinality(connections[w])
          /\ Cardinality(connections'[w]) \in Nat
      BY <2>1, <3>1, FS_Subset, FS_CardinalityType
    <3> QED BY <2>1, <3>2, EventStreamAssumption
  <2> QED BY <2>2, <2>3, <2>4
<1>8. OnTheWay'
  BY <1>2, <1>3, OnTheWayKept DEF Undisturbed
<1> QED BY <1>5, <1>6, <1>7, <1>8 DEF Inductive

LEMMA CleanupStep ==
  ASSUME Inductive, CleanupDeadConnections
  PROVE  Inductive'
<1>1. PICK dead \in SUBSET Accepted :
        /\ connections' = [u \in User |-> connections[u] \ dead] /\ conn' = Closed(dead)
        /\ \A d \in dead : d \in connections[UserOf(d)]
        /\ UNCHANGED <<publishing, subscribers, history>>
  BY DEF CleanupDeadConnections
<1>2. /\ Handlers(conn') /\ Accepted' = Accepted /\ Len(conn') = Len(conn)
      /\ \A d \in Accepted :
           /\ conn'[d].pc = conn[d].pc /\ UserOf(d)' = UserOf(d)
           /\ conn'[d].gone = conn[d].gone /\ conn'[d].sent = conn[d].sent
           /\ conn'[d].closed <=> conn[d].closed \/ d \in dead
  BY <1>1, Closes DEF Inductive, Shape, Accepted, UserOf
<1>3. \A d \in Accepted : UserOf(d) \in User
  BY HandlerOf DEF IsHandler, UserOf
<1>4. Shape'
  BY <1>1, <1>2 DEF Inductive, Shape
<1>5. \A d \in dead : OpenAt(conn[d])
  BY <1>1, <1>3, RegisteredOf
<1>6. NewAreOpen'
  BY <1>2, <1>5 DEF Inductive, NewAreOpen, OpenAt
<1>7. OpenStreamsAreCounted'
  <2> SUFFICES ASSUME NEW w \in User
               PROVE  /\ Cardinality(connections'[w]) <= MaxConnectionsPerUser
                      /\ connections'[w] = {d \in Accepted' : UserOf(d)' = w /\ OpenAt(conn'[d])}
                      /\ subscribers'[w] = {d \in Accepted' : UserOf(d)' = w /\ conn'[d].pc \in Subscribed}
    BY CountedIf
  <2>1. /\ connections[w] = {d \in Accepted : UserOf(d) = w /\ OpenAt(conn[d])}
        /\ subscribers[w] = {d \in Accepted : UserOf(d) = w /\ conn[d].pc \in Subscribed}
        /\ Cardinality(connections[w]) <= MaxConnectionsPerUser
        /\ IsFiniteSet(connections[w]) /\ Cardinality(connections[w]) \in Nat
    BY RegisteredOf
  <2>2. subscribers'[w] = {d \in Accepted' : UserOf(d)' = w /\ conn'[d].pc \in Subscribed}
    BY <1>1, <1>2, <2>1 DEF Subscribed
  <2>3. connections'[w] = {d \in Accepted' : UserOf(d)' = w /\ OpenAt(conn'[d])}
    BY <1>1, <1>2, <2>1 DEF OpenAt
  <2>4. Cardinality(connections'[w]) <= MaxConnectionsPerUser
    <3>1. connections'[w] \subseteq connections[w]
      BY <1>1
    <3>2. Cardinality(connections'[w]) <= Cardinality(connections[w])
          /\ Cardinality(connections'[w]) \in Nat
      BY <2>1, <3>1, FS_Subset, FS_CardinalityType
    <3> QED BY <2>1, <3>2, EventStreamAssumption
  <2> QED BY <2>2, <2>3, <2>4
<1>8. OnTheWay'
  BY <1>1, <1>2, OnTheWayKept DEF Undisturbed
<1> QED BY <1>4, <1>6, <1>7, <1>8 DEF Inductive
-------------------------------------------------------------------------------
(* The steps that register, subscribe and unsubscribe.                      *)
LEMMA AcceptStep ==
  ASSUME Inductive, NEW u \in User, Accept(u)
  PROVE  Inductive'
<1> DEFINE n == Len(conn) + 1
<1>1. PICK k : /\ IsHandler(k) /\ k.pc = "created" /\ ~k.closed /\ k.user = u
               /\ conn' = Append(conn, k)
  <2>1. PICK id : conn' = Append(conn, [user |-> u, pc |-> "created", closed |-> FALSE,
                             gone |-> FALSE, silent |-> FALSE,
                             lastEventID |-> id, missed |-> <<>>, sent |-> <<>>])
    BY DEF Accept
  <2> DEFINE k == [user |-> u, pc |-> "created", closed |-> FALSE, gone |-> FALSE,
                   silent |-> FALSE, lastEventID |-> id, missed |-> <<>>, sent |-> <<>>]
  <2>2. IsList(<<>>)
    BY DEF IsList
  <2>3. IsHandler(k)
    BY <2>2 DEF IsHandler, Stage
  <2> QED BY <2>1, <2>3
<1>2. /\ IsList(conn) /\ Len(conn) \in Nat /\ Accepted = 1..Len(conn) /\ Len(conn) < MaxConns
      /\ \A d \in Accepted : IsHandler(conn[d])
  BY ListDomain DEF Accept, Inductive, Shape, Handlers, Accepted
<1>3. /\ IsList(conn') /\ Len(conn') = n /\ conn'[n] = k
      /\ \A d \in Accepted : conn'[d] = conn[d]
  BY <1>1, <1>2, ListAppend
<1>4. Accepted' = 1..n /\ Accepted' = Accepted \cup {n} /\ n \notin Accepted
  <2>1. DOMAIN conn' = 1..n
    BY <1>3, ListDomain
  <2> QED BY <1>2, <2>1 DEF Accepted
<1>5. /\ history' \in Seq([replay : Nat, subscribe : Nat]) /\ Len(history') = n
      /\ \A d \in Accepted : history'[d] = history[d]
      /\ UNCHANGED <<publishing, subscribers, connections>>
  <2>1. history \in Seq([replay : Nat, subscribe : Nat]) /\ Len(history) = Len(conn)
    BY DEF Inductive, Shape
  <2>2. history' = Append(history, [replay |-> 0, subscribe |-> 0])
        /\ UNCHANGED <<publishing, subscribers, connections>>
    BY DEF Accept
  <2> QED BY <1>2, <2>1, <2>2
<1>6. Shape'
  <2>1. \A d \in Accepted' : IsHandler(conn'[d])
    BY <1>1, <1>2, <1>3, <1>4
  <2>2. Handlers(conn')
    BY <1>2, <1>3, <2>1, EventStreamAssumption DEF Handlers, Accepted
  <2> QED BY <1>3, <1>5, <2>2 DEF Inductive, Shape
<1>7. NewAreOpen'
  BY <1>1, <1>3, <1>4 DEF Inductive, NewAreOpen
<1>8. OpenStreamsAreCounted'
  <2> SUFFICES ASSUME NEW w \in User
               PROVE  /\ Cardinality(connections'[w]) <= MaxConnectionsPerUser
                      /\ connections'[w] = {d \in Accepted' : UserOf(d)' = w /\ OpenAt(conn'[d])}
                      /\ subscribers'[w] = {d \in Accepted' : UserOf(d)' = w /\ conn'[d].pc \in Subscribed}
    BY CountedIf
  <2>1. /\ connections[w] = {d \in Accepted : UserOf(d) = w /\ OpenAt(conn[d])}
        /\ subscribers[w] = {d \in Accepted : UserOf(d) = w /\ conn[d].pc \in Subscribed}
        /\ Cardinality(connections[w]) <= MaxConnectionsPerUser
    BY RegisteredOf
  <2>2. ~OpenAt(conn'[n]) /\ conn'[n].pc \notin Subscribed
    BY <1>1, <1>3 DEF OpenAt, Subscribed
  <2>3. \A d \in Accepted : UserOf(d)' = UserOf(d)
    BY <1>3 DEF UserOf
  <2> QED BY <1>3, <1>4, <1>5, <2>1, <2>2, <2>3
<1>9. OnTheWay'
  <2>1. \A d \in Accepted' : Undisturbed(d)' =>
          d \in Accepted /\ Undisturbed(d) /\ conn'[d] = conn[d] /\ UserOf(d)' = UserOf(d)
    BY <1>1, <1>3, <1>4 DEF Undisturbed, UserOf
  <2> QED BY <1>5, <2>1 DEF Inductive, OnTheWay, Published
<1> QED BY <1>6, <1>7, <1>8, <1>9 DEF Inductive

(* A handler moves to pc, as one that was not new and stays as open as it   *)
(* was.                                                                     *)
LEMMA MovesOn ==
  ASSUME Inductive, NEW c \in Accepted, NEW pc \in Stage \ {"created"}, MoveTo(c, pc)
  PROVE  /\ Handlers(conn') /\ Accepted' = Accepted /\ Len(conn') = Len(conn)
         /\ NewAreOpen' /\ conn'[c].pc = pc /\ conn'[c].closed = conn[c].closed
         /\ \A d \in Accepted \ {c} : conn'[d] = conn[d]
         /\ \A d \in Accepted : UserOf(d)' = UserOf(d)
<1> DEFINE k == [conn[c] EXCEPT !.pc = pc]
<1>1. IsHandler(k) /\ k.pc = pc /\ k.user = conn[c].user /\ k.closed = conn[c].closed
  BY HandlerOf, PcOf
<1>2. conn' = [conn EXCEPT ![c] = k]
  BY DEF MoveTo
<1> HIDE DEF k
<1>3. /\ Handlers(conn') /\ Accepted' = Accepted /\ Len(conn') = Len(conn) /\ conn'[c] = k
      /\ \A d \in Accepted \ {c} : conn'[d] = conn[d]
  BY <1>1, <1>2, HandlerMoves DEF Inductive, Shape
<1>4. NewAreOpen'
  BY <1>1, <1>3 DEF Inductive, NewAreOpen
<1> QED BY <1>1, <1>3, <1>4 DEF UserOf

LEMMA SubscribeStep ==
  ASSUME Inductive, NEW c \in Accepted, Subscribe(c)
  PROVE  Inductive'
<1>1. PICK v \in User : v = UserOf(c)
  BY HandlerOf DEF IsHandler, UserOf
<1>2. /\ conn[c].pc = "replaying" /\ MoveTo(c, "streaming") /\ c \in Conn
      /\ subscribers' = [subscribers EXCEPT ![v] = @ \cup {c}]
      /\ history' = [history EXCEPT ![c].subscribe = Len(publishing)]
      /\ UNCHANGED <<publishing, connections>>
  BY <1>1, HandlerOf DEF Subscribe
<1>3. /\ Handlers(conn') /\ Accepted' = Accepted /\ Len(conn') = Len(conn)
      /\ NewAreOpen' /\ conn'[c].pc = "streaming" /\ conn'[c].closed = conn[c].closed
      /\ \A d \in Accepted \ {c} : conn'[d] = conn[d]
      /\ \A d \in Accepted : UserOf(d)' = UserOf(d)
  BY <1>2, MovesOn DEF Stage
<1>4. /\ subscribers' \in [User -> SUBSET Conn] /\ subscribers'[v] = subscribers[v] \cup {c}
      /\ \A w \in User \ {v} : subscribers'[w] = subscribers[w]
  BY <1>2 DEF Inductive, Shape
<1>5. /\ history' \in Seq([replay : Nat, subscribe : Nat]) /\ Len(history') = Len(history)
      /\ history'[c].subscribe = Len(publishing)
      /\ \A d \in Accepted \ {c} : history'[d] = history[d]
  <2> DEFINE rec == [history[c] EXCEPT !.subscribe = Len(publishing)]
  <2>1. /\ history \in Seq([replay : Nat, subscribe : Nat]) /\ Len(history) = Len(conn)
        /\ Accepted = 1..Len(conn) /\ Len(publishing) \in Nat /\ Len(conn) \in Nat
    BY ListDomain DEF Inductive, Shape, Handlers, Accepted
  <2>2. rec \in [replay : Nat, subscribe : Nat] /\ rec.subscribe = Len(publishing)
    <3>1. c \in 1..Len(history)
      BY <2>1
    <3>2. history[c] \in [replay : Nat, subscribe : Nat]
      BY <2>1, <3>1, ElementOfSeq
    <3> QED BY <2>1, <3>2
  <2>3. history' = [history EXCEPT ![c] = rec]
    BY <1>2
  <2> HIDE DEF rec
  <2> QED BY <2>1, <2>2, <2>3
<1>6. Shape'
  BY <1>2, <1>3, <1>4, <1>5 DEF Inductive, Shape
<1>7. OpenStreamsAreCounted'
  <2> SUFFICES ASSUME NEW w \in User
               PROVE  /\ Cardinality(connections'[w]) <= MaxConnectionsPerUser
                      /\ connections'[w] = {d \in Accepted' : UserOf(d)' = w /\ OpenAt(conn'[d])}
                      /\ subscribers'[w] = {d \in Accepted' : UserOf(d)' = w /\ conn'[d].pc \in Subscribed}
    BY CountedIf
  <2>1. /\ connections[w] = {d \in Accepted : UserOf(d) = w /\ OpenAt(conn[d])}
        /\ subscribers[w] = {d \in Accepted : UserOf(d) = w /\ conn[d].pc \in Subscribed}
        /\ Cardinality(connections[w]) <= MaxConnectionsPerUser
    BY RegisteredOf
  <2>2. \A d \in Accepted : OpenAt(conn'[d]) <=> OpenAt(conn[d])
    BY <1>2, <1>3 DEF OpenAt
  <2>3. connections'[w] = {d \in Accepted' : UserOf(d)' = w /\ OpenAt(conn'[d])}
    BY <1>2, <1>3, <2>1, <2>2
  <2>4. \A d \in Accepted : d \in subscribers'[w] <=> UserOf(d)' = w /\ conn'[d].pc \in Subscribed
    BY <1>1, <1>3, <1>4, <2>1 DEF Subscribed
  <2>5. subscribers'[w] \subseteq Accepted
    BY <1>4, <2>1
  <2> QED BY <1>2, <1>3, <2>1, <2>3, <2>4, <2>5
<1>8. OnTheWay'
  <2>1. \A e \in Published : e <= Len(publishing)
    BY DEF Inductive, Shape, Published
  <2>2. \A d \in Accepted \ {c} : Undisturbed(d)' => Undisturbed(d)
    BY <1>3 DEF Undisturbed
  <2>3. Len(publishing) \in Nat /\ Published \subseteq Nat
    BY DEF Inductive, Shape, Published
  <2>4. \A e \in Published : ~(e > history'[c].subscribe)
    <3> SUFFICES ASSUME NEW e \in Published
                 PROVE  ~(e > history'[c].subscribe)
      OBVIOUS
    <3>1. e \in Nat /\ e <= Len(publishing) /\ Len(publishing) \in Nat
      BY <2>1, <2>3
    <3>2. ~(e > Len(publishing))
      BY <3>1
    <3> QED BY <1>5, <3>2
  <2> QED BY <1>2, <1>3, <1>5, <2>2, <2>4, SMTT(30) DEF Inductive, OnTheWay, Published
<1> QED BY <1>3, <1>6, <1>7, <1>8 DEF Inductive

LEMMA UnsubscribeStep ==
  ASSUME Inductive, NEW c \in Accepted, Unsubscribe(c)
  PROVE  Inductive'
<1>1. PICK v \in User : v = UserOf(c)
  BY HandlerOf DEF IsHandler, UserOf
<1>2. /\ conn[c].pc = "removed" /\ MoveTo(c, "returned")
      /\ subscribers' = [subscribers EXCEPT ![v] = @ \ {c}]
      /\ UNCHANGED <<publishing, connections, history>>
  BY <1>1 DEF Unsubscribe
<1>3. /\ Handlers(conn') /\ Accepted' = Accepted /\ Len(conn') = Len(conn)
      /\ NewAreOpen' /\ conn'[c].pc = "returned" /\ conn'[c].closed = conn[c].closed
      /\ \A d \in Accepted \ {c} : conn'[d] = conn[d]
      /\ \A d \in Accepted : UserOf(d)' = UserOf(d)
  BY <1>2, MovesOn DEF Stage
<1>4. /\ subscribers' \in [User -> SUBSET Conn] /\ subscribers'[v] = subscribers[v] \ {c}
      /\ \A w \in User \ {v} : subscribers'[w] = subscribers[w]
  BY <1>2 DEF Inductive, Shape
<1>5. Shape'
  BY <1>2, <1>3, <1>4 DEF Inductive, Shape
<1>6. OpenStreamsAreCounted'
  <2> SUFFICES ASSUME NEW w \in User
               PROVE  /\ Cardinality(connections'[w]) <= MaxConnectionsPerUser
                      /\ connections'[w] = {d \in Accepted' : UserOf(d)' = w /\ OpenAt(conn'[d])}
                      /\ subscribers'[w] = {d \in Accepted' : UserOf(d)' = w /\ conn'[d].pc \in Subscribed}
    BY CountedIf
  <2>1. /\ connections[w] = {d \in Accepted : UserOf(d) = w /\ OpenAt(conn[d])}
        /\ subscribers[w] = {d \in Accepted : UserOf(d) = w /\ conn[d].pc \in Subscribed}
        /\ Cardinality(connections[w]) <= MaxConnectionsPerUser
    BY RegisteredOf
  <2>2. \A d \in Accepted : OpenAt(conn'[d]) <=> OpenAt(conn[d])
    BY <1>2, <1>3 DEF OpenAt
  <2>3. connections'[w] = {d \in Accepted' : UserOf(d)' = w /\ OpenAt(conn'[d])}
    BY <1>2, <1>3, <2>1, <2>2
  <2>4. \A d \in Accepted : d \in subscribers'[w] <=> UserOf(d)' = w /\ conn'[d].pc \in Subscribed
    BY <1>1, <1>3, <1>4, <2>1 DEF Subscribed
  <2>5. subscribers'[w] \subseteq Accepted
    BY <1>4, <2>1
  <2> QED BY <1>2, <1>3, <2>1, <2>3, <2>4, <2>5
<1>7. OnTheWay'
  <2>1. \A d \in Accepted : Undisturbed(d)' => Undisturbed(d) /\ conn'[d] = conn[d]
    BY <1>3 DEF Undisturbed
  <2> QED BY <1>2, <1>3, <2>1, OnTheWayKept
<1> QED BY <1>3, <1>5, <1>6, <1>7 DEF Inductive
-------------------------------------------------------------------------------
(* The steps of a Publish.                                                  *)
LEMMA PublicationMoves ==
  ASSUME Inductive, NEW e \in Published, NEW p \in Publication, publishing' = [publishing EXCEPT ![e] = p]
  PROVE  /\ publishing' \in Seq(Publication) /\ Published' = Published /\ publishing'[e] = p
         /\ \A f \in Published \ {e} : publishing'[f] = publishing[f]
<1>1. publishing \in Seq(Publication)
  BY DEF Inductive, Shape
<1> QED BY <1>1 DEF Published

LEMMA PublicationOf ==
  ASSUME Inductive, NEW e \in Published
  PROVE  publishing[e] \in Publication
<1>1. publishing \in Seq(Publication) /\ e \in 1..Len(publishing)
  BY DEF Inductive, Shape, Published
<1> QED BY <1>1, ElementOfSeq

LEMMA SameStreams ==
  ASSUME Inductive, UNCHANGED <<subscribers, connections, conn, history>>,
         publishing' \in Seq(Publication)
  PROVE  Shape' /\ NewAreOpen' /\ OpenStreamsAreCounted'
<1>1. Shape' /\ Accepted' = Accepted /\ \A c \in Accepted : UserOf(c)' = UserOf(c)
  BY DEF Inductive, Shape, Accepted, UserOf
<1>2. NewAreOpen'
  BY <1>1 DEF Inductive, NewAreOpen
<1> QED BY <1>1, <1>2 DEF Inductive, OpenStreamsAreCounted, Open

LEMMA PublishStep ==
  ASSUME Inductive, NEW u \in User, Publish(u)
  PROVE  Inductive'
<1> DEFINE p == [user |-> u, pc |-> "stored", todo |-> {}, checked |-> NoConn]
<1>1. /\ publishing' = Append(publishing, p) /\ publishing \in Seq(Publication)
      /\ UNCHANGED <<subscribers, connections, conn, history>>
  BY DEF Publish, Inductive, Shape
<1>2. p \in Publication /\ p.pc = "stored"
  BY DEF Publication
<1> HIDE DEF p
<1>3. /\ publishing' \in Seq(Publication) /\ Published' = Published \cup {Len(publishing) + 1}
      /\ publishing'[Len(publishing) + 1].pc = "stored"
      /\ \A e \in Published : publishing'[e] = publishing[e]
  BY <1>1, <1>2 DEF Published
<1>4. OnTheWay'
  <2>1. \A e \in Published' : publishing'[e].pc = "delivering" =>
          e \in Published /\ publishing'[e] = publishing[e]
    BY <1>3
  <2>2. Accepted' = Accepted /\ conn' = conn /\ history' = history
        /\ \A c \in Accepted : UserOf(c)' = UserOf(c) /\ (Undisturbed(c)' <=> Undisturbed(c))
    BY <1>1 DEF Accepted, UserOf, Undisturbed
  <2> QED BY <2>1, <2>2 DEF Inductive, OnTheWay
<1> QED BY <1>1, <1>3, <1>4, SameStreams DEF Inductive

LEMMA CopyHandlersStep ==
  ASSUME Inductive, NEW e \in Published, CopyHandlers(e)
  PROVE  Inductive'
<1> DEFINE p == [publishing[e] EXCEPT !.pc = "delivering", !.todo = subscribers[publishing[e].user]]
<1>1. publishing' = [publishing EXCEPT ![e] = p]
      /\ UNCHANGED <<subscribers, connections, conn, history>>
  BY DEF CopyHandlers
<1>2. publishing[e] \in Publication /\ publishing[e].user \in User
  BY PublicationOf DEF Publication
<1>3. /\ p \in Publication /\ p.todo = subscribers[publishing[e].user]
      /\ p.user = publishing[e].user
  BY <1>2 DEF Publication, Inductive, Shape
<1> HIDE DEF p
<1>4. /\ publishing' \in Seq(Publication) /\ Published' = Published /\ publishing'[e] = p
      /\ \A f \in Published \ {e} : publishing'[f] = publishing[f]
  BY <1>1, <1>3, PublicationMoves
<1>5. \A c \in Accepted : Undisturbed(c) /\ UserOf(c) = publishing[e].user => c \in p.todo
  BY <1>2, <1>3, RegisteredOf DEF Undisturbed, Subscribed
<1>6. OnTheWay'
  BY <1>1, <1>3, <1>4, <1>5 DEF Inductive, OnTheWay, Accepted, Undisturbed, UserOf
<1> QED BY <1>1, <1>4, <1>6, SameStreams DEF Inductive

LEMMA CheckClosedStep ==
  ASSUME Inductive, NEW e \in Published, NEW c \in Conn, CheckClosed(e, c)
  PROVE  Inductive'
<1> DEFINE p == [publishing[e] EXCEPT !.todo = @ \ {c},
                                      !.checked = IF conn[c].closed THEN NoConn ELSE c]
<1>1. publishing' = [publishing EXCEPT ![e] = p] /\ publishing[e].checked = NoConn
      /\ UNCHANGED <<subscribers, connections, conn, history>>
  BY DEF CheckClosed
<1>2. publishing[e] \in Publication
  BY PublicationOf
<1>3. /\ p \in Publication /\ p.todo = publishing[e].todo \ {c} /\ p.user = publishing[e].user
      /\ p.pc = publishing[e].pc /\ p.checked = IF conn[c].closed THEN NoConn ELSE c
  BY <1>2 DEF Publication
<1> HIDE DEF p
<1>4. /\ publishing' \in Seq(Publication) /\ Published' = Published /\ publishing'[e] = p
      /\ \A f \in Published \ {e} : publishing'[f] = publishing[f]
  BY <1>1, <1>3, PublicationMoves
<1>5. \A d \in Accepted : Undisturbed(d) /\ (d \in publishing[e].todo \/ publishing[e].checked = d)
                          => d \in p.todo \/ p.checked = d
  <2>1. \A d \in Accepted : d # NoConn
    BY HandlerOf DEF Conn, NoConn
  <2> QED BY <1>1, <1>3, <2>1 DEF Undisturbed
<1>6. OnTheWay'
  BY <1>1, <1>3, <1>4, <1>5 DEF Inductive, OnTheWay, Accepted, Undisturbed, UserOf
<1> QED BY <1>1, <1>4, <1>6, SameStreams DEF Inductive

LEMMA WriteStep ==
  ASSUME Inductive, NEW e \in Published, Write(e)
  PROVE  Inductive'
<1> DEFINE p == [publishing[e] EXCEPT !.checked = NoConn]
<1>1. PICK c : /\ c = publishing[e].checked /\ c # NoConn
               /\ conn' = IF Receives(c)
                          THEN [conn EXCEPT ![c].sent = Append(@, e)] ELSE conn
  BY DEF Write
<1>2. publishing' = [publishing EXCEPT ![e] = p] /\ UNCHANGED <<subscribers, connections, history>>
  BY DEF Write
<1>3. publishing[e] \in Publication
  BY PublicationOf
<1>4. /\ p \in Publication /\ p.todo = publishing[e].todo /\ p.user = publishing[e].user
      /\ p.pc = publishing[e].pc
  BY <1>3 DEF Publication, NoConn
<1> HIDE DEF p
<1>5. /\ publishing' \in Seq(Publication) /\ Published' = Published /\ publishing'[e] = p
      /\ \A f \in Published \ {e} : publishing'[f] = publishing[f]
  BY <1>2, <1>4, PublicationMoves
<1>6. /\ Handlers(conn') /\ Accepted' = Accepted /\ Len(conn') = Len(conn)
      /\ \A d \in Accepted :
           /\ conn'[d].pc = conn[d].pc /\ conn'[d].closed = conn[d].closed
           /\ conn'[d].gone = conn[d].gone /\ conn'[d].user = conn[d].user
           /\ Range(conn[d].sent) \subseteq Range(conn'[d].sent)
           /\ d = c /\ Receives(d) => e \in Range(conn'[d].sent)
  <2>1. CASE c \in Accepted /\ Receives(c)
    <3> DEFINE k == [conn[c] EXCEPT !.sent = Append(@, e)]
    <3>1. /\ IsHandler(k) /\ k.pc = conn[c].pc /\ k.user = conn[c].user /\ k.closed = conn[c].closed
          /\ k.gone = conn[c].gone /\ Range(k.sent) = Range(conn[c].sent) \cup {e}
      BY <2>1, HandlerOf, SentOf
    <3>2. conn' = [conn EXCEPT ![c] = k]
      BY <1>1, <2>1
    <3> HIDE DEF k
    <3>3. /\ Handlers(conn') /\ Accepted' = Accepted /\ Len(conn') = Len(conn) /\ conn'[c] = k
          /\ \A d \in Accepted \ {c} : conn'[d] = conn[d]
      BY <2>1, <3>1, <3>2, HandlerMoves DEF Inductive, Shape
    <3> QED BY <3>1, <3>3
  <2>2. CASE ~(c \in Accepted /\ Receives(c))
    <3>1. conn' = conn
      <4>1. CASE ~Receives(c)
        BY <1>1, <4>1
      <4>2. CASE c \notin Accepted
        <5>1. Len(conn) \in Nat /\ Accepted = 1..Len(conn) /\ conn = [i \in 1..Len(conn) |-> conn[i]]
          BY ListDomain DEF Inductive, Shape, Handlers, Accepted
        <5>2. [conn EXCEPT ![c].sent = Append(@, e)] = conn
          BY <4>2, <5>1
        <5> QED BY <1>1, <5>2
      <4> QED BY <2>2, <4>1, <4>2
    <3> QED BY <2>2, <3>1 DEF Inductive, Shape, Accepted
  <2> QED BY <2>1, <2>2
<1>7. Shape' /\ NewAreOpen'
  BY <1>2, <1>5, <1>6 DEF Inductive, Shape, NewAreOpen
<1>8. \A d \in Accepted : UserOf(d)' = UserOf(d) /\ (Undisturbed(d)' <=> Undisturbed(d))
  BY <1>6 DEF UserOf, Undisturbed
<1>9. OpenStreamsAreCounted'
  BY <1>2, <1>6, <1>8 DEF Inductive, OpenStreamsAreCounted, Open
<1>10. OnTheWay'
  <2> SUFFICES ASSUME NEW d \in Accepted, NEW f \in Published, Undisturbed(d)',
                      publishing'[f].pc = "delivering", publishing'[f].user = UserOf(d)',
                      f > history'[d].subscribe
               PROVE  d \in publishing'[f].todo \/ publishing'[f].checked = d
                      \/ f \in Range(conn'[d].sent)
    BY <1>5, <1>6 DEF OnTheWay
  <2>1. publishing[f].pc = "delivering" /\ publishing[f].user = UserOf(d)
        /\ publishing'[f].todo = publishing[f].todo
    BY <1>4, <1>5, <1>8
  <2>2. d \in publishing[f].todo \/ publishing[f].checked = d \/ f \in Range(conn[d].sent)
    BY <1>2, <1>8, <2>1 DEF Inductive, OnTheWay
  <2>3. CASE f = e /\ d = c
    BY <1>6, <1>8, <2>3 DEF Undisturbed, Receives
  <2>4. CASE f # e \/ d # c
    BY <1>1, <1>5, <1>6, <2>1, <2>2, <2>4
  <2> QED BY <2>3, <2>4
<1> QED BY <1>7, <1>9, <1>10 DEF Inductive
-------------------------------------------------------------------------------
LEMMA InductiveInit == Init => Inductive
<1> SUFFICES ASSUME Init PROVE Inductive
  OBVIOUS
<1>1. /\ conn = <<>> /\ history = <<>> /\ publishing = <<>> /\ Accepted = {} /\ Published = {}
      /\ subscribers = [u \in User |-> {}] /\ connections = [u \in User |-> {}]
  BY DEF Init, Accepted, Published
<1>2. Handlers(conn)
  BY <1>1, EventStreamAssumption DEF Handlers, IsList
<1>3. Shape
  BY <1>1, <1>2 DEF Shape
<1>4. OpenStreamsAreCounted
  BY <1>1, FS_EmptySet, EventStreamAssumption DEF OpenStreamsAreCounted
<1> QED BY <1>1, <1>3, <1>4 DEF Inductive, NewAreOpen, OnTheWay

LEMMA InductiveNext == Inductive /\ [Next]_vars => Inductive'
<1> SUFFICES ASSUME Inductive, [Next]_vars PROVE Inductive'
  OBVIOUS
<1>1. CASE \E u \in User : Accept(u) \/ Publish(u)
  BY <1>1, AcceptStep, PublishStep
<1>2. ASSUME NEW c \in Accepted,
             Handle(c) \/ ConnectionTimeout(c) \/ ClientGone(c) \/ FallSilent(c) \/ Heartbeat(c)
      PROVE  Inductive'
  BY <1>2, AddConnectionStep, GetEventsSinceStep, QuietStep, SubscribeStep,
     RemoveConnectionStep, UnsubscribeStep DEF Handle
<1>3. CASE CleanupDeadConnections
  BY <1>3, CleanupStep
<1>4. ASSUME NEW e \in Published, Deliver(e)
      PROVE  Inductive'
  BY <1>4, CopyHandlersStep, CheckClosedStep, WriteStep DEF Deliver
<1>5. CASE UNCHANGED vars
  <2>1. /\ UNCHANGED <<publishing, subscribers, connections, conn, history>>
        /\ publishing \in Seq(Publication)
    BY <1>5 DEF vars, Inductive, Shape
  <2>2. OnTheWay'
    BY <2>1 DEF Inductive, OnTheWay, Accepted, Published, Undisturbed, UserOf
  <2> QED BY <2>1, <2>2, SameStreams DEF Inductive
<1> QED BY <1>1, <1>2, <1>3, <1>4, <1>5 DEF Next

(* The streams stay in step with the manager and the bus, and every event   *)
(* on its way to a stream arrives (HandleStream, connection_manager.go,     *)
(* event_bus.go).                                                           *)
THEOREM EventStreamInvariant == Spec => []Inductive
BY InductiveInit, InductiveNext, PTL DEF Spec

(* A user never has more open streams than the limit, a stream is           *)
(* registered exactly while it is open, and subscribed exactly between      *)
(* Subscribe and its return (AddConnection, RemoveConnection,               *)
(* CleanupDeadConnections; connection_manager.go:45).                       *)
THEOREM StreamsAreCounted == Spec => []OpenStreamsAreCounted
<1>1. Inductive => OpenStreamsAreCounted
  BY DEF Inductive
<1> QED BY <1>1, EventStreamInvariant, PTL

(* When a Publish has returned, an undisturbed stream has every event of    *)
(* its user that was stored after the stream subscribed (event_bus.go:42).  *)
THEOREM LiveArrive == Spec => []LiveEventsArrive
<1>1. Inductive => LiveEventsArrive
  <2> SUFFICES ASSUME Inductive, NEW c \in Accepted, NEW e \in Published,
                      conn[c].pc = "streaming", ~conn[c].closed, ~conn[c].gone,
                      publishing[e].user = UserOf(c), Returned(e), e > history[c].subscribe
               PROVE  e \in Range(conn[c].sent)
    BY DEF LiveEventsArrive
  <2>1. c # NoConn
    BY HandlerOf DEF Conn, NoConn
  <2> QED BY <2>1 DEF Inductive, OnTheWay, Undisturbed, Returned
<1> QED BY <1>1, EventStreamInvariant, PTL
-------------------------------------------------------------------------------
(* The published events as the log of which the buffer keeps the end.       *)
LogOf(P) == [p \in DOMAIN P |-> [id |-> p, user |-> P[p].user, ts |-> 0]]

(* What EventStoreProofs knows of the buffer, for a store whose log this is. *)
Store == INSTANCE EventStoreProofs WITH
  MaxTime <- 0, MaxLag <- 0, now <- 0,
  log <- LogOf(publishing), received <- [u \in User |-> <<>>],
  owner <- <<>>, forgotten <- 0, cursor <- [u \in User |-> 0], got <- [u \in User |-> {}]

(* The two modules' assumptions and operators are the same.                 *)
LEMMA StoreAssumptions == Store!MaxSizeAssumption /\ Store!EventStoreAssumption
BY MaxSizeAssumption, EventStreamAssumption
   DEF Store!MaxSizeAssumption, Store!EventStoreAssumption

LEMMA SameBuffer ==
  /\ Store!EmptyBuffer = EmptyBuffer
  /\ Store!Event = Event
  /\ \A b, e : Store!Stored(b, e) = Stored(b, e)
  /\ \A b, u, id, limit : Store!After(b, u, id, limit) = After(b, u, id, limit)
<1>1. Store!Event = Event
  <2>1. 0..0 = {0}
    OBVIOUS
  <2> QED BY <2>1 DEF Store!Event, Event
<1>2. \A b, e : Store!Stored(b, e) = Stored(b, e)
  BY DEF Store!Stored, Stored, Store!RemoveFront, RemoveFront, Store!PushBack, PushBack,
         Store!EventsOfUser, EventsOfUser, Store!Without, Without, Store!Range, Range,
         Store!Restrict, Restrict
<1>3. \A b, u, id, limit : Store!After(b, u, id, limit) = After(b, u, id, limit)
  BY DEF Store!After, After, Store!Collected, Collected, Store!PositionOf, PositionOf
<1> QED BY <1>1, <1>2, <1>3 DEF Store!EmptyBuffer, EmptyBuffer

(* The log of the published events is a log, and grows by one event with    *)
(* each Publish.                                                            *)
LEMMA LogIs ==
  ASSUME NEW P \in Seq(Publication), Len(P) <= MaxEvents
  PROVE  /\ LogOf(P) \in Seq(Event) /\ Len(LogOf(P)) = Len(P) /\ Store!IsLog(LogOf(P))
         /\ \A p \in 1..Len(P) : LogOf(P)[p] = [id |-> p, user |-> P[p].user, ts |-> 0]
<1>1. Len(P) \in Nat /\ DOMAIN P = 1..Len(P) /\ \A p \in 1..Len(P) : P[p] \in Publication
  BY ElementOfSeq
<1>2. ASSUME NEW p \in 1..Len(P)
      PROVE  LogOf(P)[p] \in Event /\ LogOf(P)[p] = [id |-> p, user |-> P[p].user, ts |-> 0]
  <2>1. p \in 1..MaxEvents /\ P[p].user \in User
    BY <1>1, EventStreamAssumption DEF Publication
  <2> QED BY <1>1, <2>1 DEF Event, LogOf
<1>3. LogOf(P) \in [1..Len(P) -> Event]
  BY <1>1, <1>2 DEF LogOf
<1>4. LogOf(P) \in Seq(Event) /\ Len(LogOf(P)) = Len(P)
  BY <1>1, <1>3, SeqDef
<1>5. Store!IsLog(LogOf(P))
  <2> DEFINE l == LogOf(P)
  <2>1. l \in Seq(Store!Event) /\ Len(l) = Len(P)
    BY <1>4, SameBuffer
  <2>2. ASSUME NEW p \in 1..Len(P) PROVE l[p].id = p
    <3>1. l[p] = [id |-> p, user |-> P[p].user, ts |-> 0]
      BY <1>2
    <3> HIDE DEF l
    <3> QED BY <3>1
  <2> HIDE DEF l
  <2>3. l \in Seq(Store!Event) /\ \A p \in 1..Len(l) : l[p].id = p
    BY <2>1, <2>2
  <2> QED BY <2>3 DEF Store!IsLog, l
<1> QED BY <1>2, <1>4, <1>5

LEMMA LogGrows ==
  ASSUME NEW P \in Seq(Publication), NEW q \in Publication, Len(P) < MaxEvents
  PROVE  LogOf(Append(P, q)) = Append(LogOf(P), [id |-> Len(P) + 1, user |-> q.user, ts |-> 0])
<1> DEFINE Q == Append(P, q)
           e == [id |-> Len(P) + 1, user |-> q.user, ts |-> 0]
           a == LogOf(Q)
           b == Append(LogOf(P), e)
<1>1. /\ Len(P) \in Nat /\ Q \in Seq(Publication) /\ Len(Q) = Len(P) + 1
      /\ \A p \in 1..Len(P) : Q[p] = P[p]
      /\ Q[Len(P) + 1] = q
  OBVIOUS
<1> HIDE DEF Q
<1>2. /\ a \in Seq(Event) /\ Len(a) = Len(P) + 1
      /\ \A p \in 1..Len(a) : a[p] = [id |-> p, user |-> Q[p].user, ts |-> 0]
  <2>1. Len(Q) <= MaxEvents
    BY <1>1, EventStreamAssumption
  <2> QED BY <1>1, <2>1, LogIs
<1>3. /\ LogOf(P) \in Seq(Event) /\ Len(LogOf(P)) = Len(P)
      /\ \A p \in 1..Len(P) : LogOf(P)[p] = [id |-> p, user |-> P[p].user, ts |-> 0]
  <2>1. Len(P) <= MaxEvents
    BY <1>1, EventStreamAssumption
  <2> QED BY <2>1, LogIs
<1> HIDE DEF a
<1>4. e \in Event
  <2>1. Len(P) + 1 \in 1..MaxEvents /\ q.user \in User
    BY <1>1, EventStreamAssumption DEF Publication
  <2> QED BY <2>1 DEF Event
<1>5. /\ b \in Seq(Event) /\ Len(b) = Len(P) + 1
      /\ \A p \in 1..Len(P) : b[p] = LogOf(P)[p]
      /\ b[Len(P) + 1] = e
  <2> HIDE DEF e
  <2> QED BY <1>1, <1>3, <1>4
<1> HIDE DEF b
<1>6. ASSUME NEW p \in 1..Len(a) PROVE a[p] = b[p]
  <2>1. CASE p \in 1..Len(P)
    BY <1>1, <1>2, <1>3, <1>5, <2>1
  <2>2. CASE p = Len(P) + 1
    BY <1>1, <1>2, <1>5, <2>2
  <2>3. p \in 1..Len(P) \/ p = Len(P) + 1
    BY <1>1, <1>2
  <2> QED BY <2>1, <2>2, <2>3
<1>7. a = b
  BY <1>2, <1>5, <1>6
<1> QED BY <1>7 DEF a, b, Q

(* Only the owners of the events are in it.                                 *)
LEMMA SameLog ==
  ASSUME NEW P \in Seq(Publication), NEW Q \in Seq(Publication), Len(Q) = Len(P),
         \A p \in DOMAIN P : Q[p].user = P[p].user
  PROVE  LogOf(Q) = LogOf(P)
<1>1. DOMAIN P = DOMAIN Q
  OBVIOUS
<1> QED BY <1>1 DEF LogOf
-------------------------------------------------------------------------------
(* The buffer holds the end of the log, after the events it has dropped to  *)
(* make room (Store, event_store.go:34-53).                                 *)
Dropped == Len(publishing) - Len(buf.events)

Held ==
  /\ Len(publishing) <= MaxEvents /\ Len(buf.events) <= MaxSize
  /\ Store!HoldsAfter(buf, LogOf(publishing), Dropped)

LEMMA HeldSays ==
  ASSUME Held, publishing \in Seq(Publication)
  PROVE  /\ Store!IsLog(LogOf(publishing)) /\ Len(LogOf(publishing)) = Len(publishing)
         /\ Dropped \in Nat /\ Dropped <= Len(publishing) /\ Len(publishing) \in Nat
         /\ Len(buf.events) \in Nat /\ Len(buf.events) = Len(publishing) - Dropped
<1>1. Store!IsLog(LogOf(publishing)) /\ Len(LogOf(publishing)) = Len(publishing)
  BY LogIs DEF Held
<1> QED BY <1>1 DEF Held, Store!HoldsAfter, Store!IsLog

LEMMA HeldInit == Init => Held
<1> SUFFICES ASSUME Init PROVE Held
  OBVIOUS
<1>1. publishing = <<>> /\ publishing \in Seq(Publication) /\ Len(publishing) = 0 /\ buf = EmptyBuffer
  BY DEF Init
<1>2. Store!IsLog(LogOf(publishing)) /\ Len(LogOf(publishing)) = 0
  <2>1. Len(publishing) <= MaxEvents
    BY <1>1, EventStreamAssumption
  <2> QED BY <1>1, <2>1, LogIs
<1>3. Store!HoldsAfter(buf, LogOf(publishing), 0)
  BY <1>1, <1>2, Store!EmptyHolds, StoreAssumptions, SameBuffer
<1>4. Len(buf.events) = 0
  BY <1>1 DEF EmptyBuffer
<1> QED BY <1>1, <1>3, <1>4, EventStreamAssumption, MaxSizeAssumption DEF Held, Dropped

(* It does so after every step: one that stores nothing, and Publish.       *)
LEMMA HeldSame ==
  ASSUME Held, publishing \in Seq(Publication), publishing' \in Seq(Publication), UNCHANGED buf,
         Len(publishing') = Len(publishing),
         \A e \in Published : publishing'[e].user = publishing[e].user
  PROVE  Held' /\ Dropped' = Dropped /\ LogOf(publishing') = LogOf(publishing)
<1>1. LogOf(publishing') = LogOf(publishing)
  BY SameLog DEF Published
<1>2. Dropped' = Dropped
  BY DEF Dropped
<1> HIDE DEF Dropped
<1> QED BY <1>1, <1>2 DEF Held

LEMMA HeldPublish ==
  ASSUME Held, publishing \in Seq(Publication), NEW u \in User, Publish(u)
  PROVE  /\ Held' /\ Dropped' \in {Dropped, Dropped + 1}
         /\ LogOf(publishing')
              = Append(LogOf(publishing), [id |-> Len(publishing) + 1, user |-> u, ts |-> 0])
<1> DEFINE p == [user |-> u, pc |-> "stored", todo |-> {}, checked |-> NoConn]
           e == [id |-> Len(publishing) + 1, user |-> u, ts |-> 0]
           l == LogOf(publishing)
<1>1. /\ publishing' = Append(publishing, p) /\ buf' = Stored(buf, e)
      /\ Len(publishing) < MaxEvents
  BY DEF Publish
<1>2. /\ Store!IsLog(l) /\ Len(l) = Len(publishing) /\ Dropped \in Nat
      /\ Dropped <= Len(publishing) /\ Len(publishing) \in Nat
      /\ Len(buf.events) <= MaxSize /\ Store!HoldsAfter(buf, l, Dropped)
  BY HeldSays DEF Held
<1>3. LogOf(publishing') = Append(l, e)
  <2>1. p \in Publication /\ p.user = u
    BY DEF Publication
  <2> HIDE DEF p
  <2> QED BY <1>1, <2>1, LogGrows
<1>4. e \in Store!Event /\ e.id = Len(l) + 1
  <2>1. Len(publishing) + 1 \in 1..MaxEvents
    BY <1>1, <1>2, EventStreamAssumption
  <2> QED BY <1>2, <2>1, SameBuffer DEF Event
<1> HIDE DEF e, l, p
<1>5. \E q \in {Dropped, Dropped + 1} :
        /\ Store!HoldsAfter(Stored(buf, e), Append(l, e), q)
        /\ q <= Len(l) /\ Len(l) + 1 - q <= MaxSize
  <2>1. \E q \in {Dropped, Dropped + 1} :
          /\ Store!HoldsAfter(Store!Stored(buf, e), Append(l, e), q)
          /\ q <= Len(l) /\ Len(l) + 1 - q <= MaxSize
    <3> HIDE DEF Dropped
    <3> QED BY <1>2, <1>4, Store!StoredHolds, StoreAssumptions
  <2> QED BY <2>1, SameBuffer
<1>6. PICK q \in {Dropped, Dropped + 1} :
        /\ Store!HoldsAfter(buf', LogOf(publishing'), q)
        /\ q <= Len(publishing) /\ Len(publishing) + 1 - q <= MaxSize
  BY <1>1, <1>2, <1>3, <1>5
<1>7. Len(publishing') = Len(publishing) + 1 /\ Len(publishing') \in Nat
  BY <1>1, <1>2
<1>8. Len(LogOf(publishing')) = Len(publishing) + 1
  <2>1. l \in Seq(Store!Event)
    BY <1>2 DEF Store!IsLog
  <2> QED BY <1>2, <1>3, <1>4, <2>1
<1>9. Len(buf'.events) = Len(publishing') - q /\ Len(buf'.events) \in Nat
  BY <1>6, <1>7, <1>8 DEF Store!HoldsAfter
<1>10. q = Dropped'
  <2>1. q \in Nat
    BY <1>2, <1>6
  <2> QED BY <1>7, <1>9, <2>1 DEF Dropped
<1>11. Len(buf'.events) <= MaxSize /\ Len(publishing') <= MaxEvents
  <2>1. q \in Nat
    BY <1>2, <1>6
  <2> QED BY <1>1, <1>2, <1>6, <1>7, <1>9, <2>1, MaxSizeAssumption, EventStreamAssumption
<1>12. Held'
  BY <1>6, <1>10, <1>11 DEF Held
<1> QED BY <1>3, <1>6, <1>10, <1>12 DEF e, l
-------------------------------------------------------------------------------
(* How often an event is among those a client was sent.                     *)
TimesIn(s, e) == Cardinality({i \in DOMAIN s : s[i] = e})

LEMMA TimesAre ==
  ASSUME NEW s, IsList(s), NEW e
  PROVE  /\ IsFiniteSet({i \in DOMAIN s : s[i] = e}) /\ TimesIn(s, e) \in Nat
         /\ e \notin Range(s) => TimesIn(s, e) = 0
<1>1. Len(s) \in Nat /\ DOMAIN s = 1..Len(s)
  BY ListDomain
<1>2. IsFiniteSet(1..Len(s))
  <2> DEFINE n == Len(s)
  <2>1. 1 \in Int /\ n \in Int
    BY <1>1
  <2> HIDE DEF n
  <2>2. IsFiniteSet(1..n)
    BY <2>1, FS_Interval
  <2> QED BY <2>2 DEF n
<1>3. IsFiniteSet({i \in DOMAIN s : s[i] = e})
  BY <1>1, <1>2, FS_Subset
<1>4. e \notin Range(s) => {i \in DOMAIN s : s[i] = e} = {}
  BY DEF Range
<1> QED BY <1>3, <1>4, FS_CardinalityType, FS_EmptySet DEF TimesIn

LEMMA TimesAppend ==
  ASSUME NEW s, IsList(s), NEW x, NEW e
  PROVE  TimesIn(Append(s, x), e) = IF x = e THEN TimesIn(s, e) + 1 ELSE TimesIn(s, e)
<1> DEFINE t == Append(s, x)
           A == {i \in DOMAIN s : s[i] = e}
           n == Len(s) + 1
<1>1. /\ Len(s) \in Nat /\ DOMAIN s = 1..Len(s)
      /\ IsList(t) /\ Len(t) = n /\ t[n] = x /\ \A i \in 1..Len(s) : t[i] = s[i]
  BY ListDomain, ListAppend
<1>2. DOMAIN t = 1..n /\ n \in Nat
  BY <1>1, ListDomain
<1> HIDE DEF t
<1>3. IsFiniteSet(A) /\ TimesIn(s, e) = Cardinality(A)
  BY TimesAre DEF TimesIn
<1>4. n \notin DOMAIN s /\ 1..n = 1..Len(s) \cup {n}
  BY <1>1
<1>5. n \notin A
  BY <1>4
<1>6. CASE x = e
  <2>1. {i \in DOMAIN t : t[i] = e} = A \cup {n}
    BY <1>1, <1>2, <1>4, <1>6
  <2>2. Cardinality(A \cup {n}) = Cardinality(A) + 1
    BY <1>3, <1>5, FS_AddElement
  <2> QED BY <1>3, <1>6, <2>1, <2>2 DEF TimesIn, t
<1>7. CASE x # e
  <2>1. {i \in DOMAIN t : t[i] = e} = A
    BY <1>1, <1>2, <1>4, <1>7
  <2> QED BY <1>3, <1>7, <2>1 DEF TimesIn, t
<1> QED BY <1>6, <1>7

(* The handler has not subscribed yet.                                      *)
Early == {"created", "added", "replaying"}

(* A handler k, with its history h, only ever has events of its user to     *)
(* send, in the order of Store while it replays, and nothing left of the    *)
(* replay when it waits.                                                    *)
Reads(P, k, h) ==
  /\ Store!PicksFrom(k.missed, LogOf(P), 0, k.user)
  /\ k.sent \in Seq(DOMAIN P) /\ \A i \in DOMAIN k.sent : P[k.sent[i]].user = k.user
  /\ k.lastEventID \in {NoID, EphemeralID} \cup DOMAIN P
  /\ h.replay \in 0..Len(P)
  /\ k.pc \in {"created", "added"} => k.sent = <<>>
  /\ k.pc # "replaying" => k.missed = <<>>
  /\ k.pc = "replaying" =>
       /\ \A i \in DOMAIN k.sent : k.sent[i] <= h.replay
       /\ \A j \in DOMAIN k.missed :
            /\ k.missed[j].id <= h.replay
            /\ \A i \in DOMAIN k.sent : k.sent[i] < k.missed[j].id

(* The replay may send an event of before it once, the Publish of any event *)
(* that the stream can still expect another time.                           *)
FromReplay(e, h) == IF e <= h.replay THEN 1 ELSE 0

Expects(q, c, k) ==
  q.pc = "stored" \/ c \in q.todo \/ q.checked = c \/ k.pc \in Early

Counts(P, c, k, h) ==
  \A e \in DOMAIN P :
    /\ TimesIn(k.sent, e) <= FromReplay(e, h) + 1
    /\ Expects(P[e], c, k) => TimesIn(k.sent, e) <= FromReplay(e, h)

(* What the replay owes the client, and what it has sent or will send.      *)
Between(P, u, from, to) == {p \in (from + 1)..to : P[p].user = u}
IDs(m) == {m[j].id : j \in DOMAIN m}

Due(P, k, h) == Between(P, k.user, k.lastEventID, h.replay)
Got(k) == Range(k.sent) \cup IDs(k.missed)

Enough(due, ids) == due \subseteq ids \/ Cardinality(due \cap ids) >= Limit

Replayed(P, o, k, h) ==
  /\ k.pc \in {"replaying", "streaming"} /\ ~k.closed /\ ~k.gone
  /\ k.lastEventID \in (o + 1)..Len(P)
  => Enough(Due(P, k, h), Got(k))

(* A Publish calls handlers of its user's subscribed streams, each once.    *)
Addresses(q, handlers) ==
  /\ q.pc = "stored" => q.todo = {} /\ q.checked = NoConn
  /\ q.checked \notin q.todo
  /\ \A c \in q.todo \cup {q.checked} : c # NoConn =>
       c \in DOMAIN handlers /\ handlers[c].user = q.user /\ handlers[c].pc \notin Early

InStep(c) ==
  /\ Reads(publishing, conn[c], history[c])
  /\ Counts(publishing, c, conn[c], history[c])
  /\ Replayed(publishing, Dropped, conn[c], history[c])

Deliveries ==
  /\ Held
  /\ \A c \in Accepted : InStep(c)
  /\ \A e \in Published : Addresses(publishing[e], conn)

LEMMA DeliveriesInit == Init => Deliveries
BY HeldInit DEF Init, Deliveries, Accepted, Published

LEMMA PublicationsAre ==
  ASSUME Inductive
  PROVE  /\ publishing \in Seq(Publication) /\ Published = 1..Len(publishing)
         /\ Len(publishing) \in Nat
BY DEF Inductive, Shape, Published

(* An address stays right when handlers only move on.                       *)
LEMMA StillAddresses ==
  ASSUME Deliveries, DOMAIN conn \subseteq DOMAIN conn',
         \A d \in Accepted : /\ conn'[d].user = conn[d].user
                             /\ conn[d].pc \notin Early => conn'[d].pc \notin Early
  PROVE  \A e \in Published : Addresses(publishing[e], conn')
BY DEF Deliveries, Addresses, Accepted

(* One handler moves.                                                       *)
LEMMA OneMoves ==
  ASSUME Inductive, Deliveries, UNCHANGED <<buf, publishing>>,
         NEW c \in Accepted, NEW k, IsHandler(k), conn' = [conn EXCEPT ![c] = k],
         k.user = UserOf(c), conn[c].pc \notin Early => k.pc \notin Early,
         \A d \in Accepted \ {c} : history'[d] = history[d],
         Reads(publishing, k, history'[c]),
         Counts(publishing, c, k, history'[c]),
         Replayed(publishing, Dropped, k, history'[c])
  PROVE  Deliveries'
<1>1. /\ Accepted' = Accepted /\ conn'[c] = k
      /\ \A d \in Accepted \ {c} : conn'[d] = conn[d]
  BY HandlerMoves DEF Inductive, Shape
<1>2. Held' /\ Dropped' = Dropped
  <2>1. Held' <=> Held
    BY DEF Held, Dropped
  <2> QED BY <2>1 DEF Deliveries, Dropped
<1>3. ASSUME NEW d \in Accepted PROVE InStep(d)'
  <2> HIDE DEF Dropped
  <2>1. CASE d = c
    BY <1>1, <1>2, <2>1 DEF InStep
  <2>2. CASE d # c
    <3>1. InStep(d)
      BY DEF Deliveries
    <3>2. conn'[d] = conn[d] /\ history'[d] = history[d]
      BY <1>1, <2>2
    <3> QED BY <1>2, <3>1, <3>2 DEF InStep
  <2> QED BY <2>1, <2>2
<1>4. \A e \in Published : Addresses(publishing[e], conn')
  BY <1>1, StillAddresses DEF Accepted, UserOf
<1> QED BY <1>1, <1>2, <1>3, <1>4 DEF Deliveries, Published

(* Steps that touch neither what a client was sent nor what it is to get.   *)
Quieter(k, m) ==
  /\ m.user = k.user /\ m.sent = k.sent /\ m.missed = k.missed /\ m.lastEventID = k.lastEventID
  /\ k.closed => m.closed
  /\ k.gone => m.gone
  /\ \/ m.pc = k.pc
     \/ k.pc = "created" /\ m.pc = "added"
     \/ k.pc \in Subscribed /\ m.pc \in {"leaving", "removed", "returned"}

LEMMA StaysInStep ==
  ASSUME NEW P, NEW o, NEW c, NEW k, NEW h, NEW m, Quieter(k, m),
         Reads(P, k, h), Counts(P, c, k, h), Replayed(P, o, k, h)
  PROVE  Reads(P, m, h) /\ Counts(P, c, m, h) /\ Replayed(P, o, m, h)
<1>1. /\ m.user = k.user /\ m.sent = k.sent /\ m.missed = k.missed /\ m.lastEventID = k.lastEventID
      /\ m.pc \in Early => k.pc \in Early
      /\ m.pc \in {"created", "added"} => k.pc \in {"created", "added"}
      /\ m.pc = "replaying" <=> k.pc = "replaying"
      /\ m.pc \in {"replaying", "streaming"} /\ ~m.closed /\ ~m.gone
         => k.pc \in {"replaying", "streaming"} /\ ~k.closed /\ ~k.gone
  BY DEF Quieter, Early, Subscribed
<1>2. Reads(P, m, h)
  BY <1>1 DEF Reads
<1>3. Counts(P, c, m, h)
  BY <1>1 DEF Counts, Expects
<1>4. Got(m) = Got(k) /\ Due(P, m, h) = Due(P, k, h)
  BY <1>1 DEF Got, Due
<1>5. Replayed(P, o, m, h)
  BY <1>1, <1>4 DEF Replayed
<1> QED BY <1>2, <1>3, <1>5

LEMMA QuietDeliveries ==
  ASSUME Inductive, Deliveries, UNCHANGED <<buf, publishing, history>>, Accepted' = Accepted,
         \A d \in Accepted : Quieter(conn[d], conn'[d])
  PROVE  Deliveries'
<1>1. Held' /\ Dropped' = Dropped
  <2>1. Held' <=> Held
    BY DEF Held, Dropped
  <2> QED BY <2>1 DEF Deliveries, Dropped
<1>2. ASSUME NEW d \in Accepted PROVE InStep(d)'
  <2> HIDE DEF Dropped
  <2>1. InStep(d) /\ Quieter(conn[d], conn'[d])
    BY DEF Deliveries
  <2>2. /\ Reads(publishing, conn'[d], history[d])
        /\ Counts(publishing, d, conn'[d], history[d])
        /\ Replayed(publishing, Dropped, conn'[d], history[d])
    BY <2>1, StaysInStep DEF InStep
  <2> QED BY <1>1, <2>2 DEF InStep
<1>3. \A e \in Published : Addresses(publishing[e], conn')
  <2>1. \A d \in Accepted : /\ conn'[d].user = conn[d].user
                            /\ conn[d].pc \notin Early => conn'[d].pc \notin Early
    BY DEF Quieter, Early, Subscribed
  <2> QED BY <2>1, StillAddresses DEF Accepted
<1> QED BY <1>1, <1>2, <1>3 DEF Deliveries, Published
-------------------------------------------------------------------------------
Onward(from, to) ==
  \/ from = "created" /\ to = "added"
  \/ from \in Subscribed /\ to \in {"leaving", "removed", "returned"}

LEMMA QuietRecords ==
  ASSUME NEW k, IsHandler(k)
  PROVE  /\ Quieter(k, k)
         /\ Quieter(k, [k EXCEPT !.closed = TRUE])
         /\ Quieter(k, [k EXCEPT !.gone = TRUE])
         /\ \A b : Quieter(k, [k EXCEPT !.silent = b])
         /\ \A pc : Onward(k.pc, pc) =>
              /\ Quieter(k, [k EXCEPT !.pc = pc])
              /\ Quieter(k, [[k EXCEPT !.closed = TRUE] EXCEPT !.pc = pc])
BY DEF IsHandler, Quieter, Onward

LEMMA ClosesOnward ==
  ASSUME Inductive, NEW C \in SUBSET Accepted, NEW c \in Accepted, NEW pc, Onward(conn[c].pc, pc),
         conn' = [Closed(C) EXCEPT ![c].pc = pc]
  PROVE  Accepted' = Accepted /\ \A d \in Accepted : Quieter(conn[d], conn'[d])
<1>1. /\ DOMAIN Closed(C) = Accepted
      /\ \A d \in Accepted : Closed(C)[d] = IF d \in C THEN [conn[d] EXCEPT !.closed = TRUE]
                                            ELSE conn[d]
  BY DEF Closed
<1>2. /\ DOMAIN conn' = Accepted
      /\ \A d \in Accepted : conn'[d] = IF d = c THEN [Closed(C)[d] EXCEPT !.pc = pc]
                                        ELSE Closed(C)[d]
  BY <1>1
<1>3. ASSUME NEW d \in Accepted PROVE Quieter(conn[d], conn'[d])
  <2>1. IsHandler(conn[d])
    BY HandlerOf
  <2>2. CASE d = c
    BY <1>1, <1>2, <2>1, <2>2, QuietRecords
  <2>3. CASE d # c
    <3>1. conn'[d] = conn[d] \/ conn'[d] = [conn[d] EXCEPT !.closed = TRUE]
      BY <1>1, <1>2, <2>3
    <3> QED BY <2>1, <3>1, QuietRecords
  <2> QED BY <2>2, <2>3
<1> QED BY <1>2, <1>3 DEF Accepted

LEMMA OneQuieter ==
  ASSUME Inductive, NEW c \in Accepted, NEW k, Quieter(conn[c], k), conn' = [conn EXCEPT ![c] = k]
  PROVE  Accepted' = Accepted /\ \A d \in Accepted : Quieter(conn[d], conn'[d])
<1>1. /\ Accepted' = Accepted
      /\ \A d \in Accepted : conn'[d] = IF d = c THEN k ELSE conn[d]
  BY DEF Accepted
<1>2. \A d \in Accepted : Quieter(conn[d], conn[d])
  BY HandlerOf, QuietRecords
<1> QED BY <1>1, <1>2

LEMMA QuietHandler ==
  ASSUME Inductive, Deliveries, NEW c \in Accepted,
         \/ AddConnection(c) \/ RemoveConnection(c) \/ Unsubscribe(c)
         \/ Wake(c) \/ ConnectionTimeout(c) \/ ClientGone(c) \/ FallSilent(c) \/ Heartbeat(c)
  PROVE  Deliveries'
<1>1. UNCHANGED <<buf, publishing, history>>
  BY DEF AddConnection, RemoveConnection, Unsubscribe, Wake, ConnectionTimeout, ClientGone,
         FallSilent, Heartbeat
<1>2. IsHandler(conn[c]) /\ UserOf(c) \in User
  BY HandlerOf DEF IsHandler, UserOf
<1>3. PICK v \in User : v = UserOf(c)
  BY <1>2
<1>4. /\ connections[v] = {d \in Accepted : UserOf(d) = v /\ OpenAt(conn[d])}
      /\ connections[v] \subseteq Conn
  BY RegisteredOf
<1>5. CASE AddConnection(c)
  <2>1. PICK evict : /\ evict = IF Cardinality(connections[v]) >= MaxConnectionsPerUser
                                THEN {Oldest(v)} ELSE {}
                     /\ conn[c].pc = "created"
                     /\ conn' = [Closed(evict) EXCEPT ![c].pc = "added"]
    BY <1>3, <1>5 DEF AddConnection
  <2>2. evict \in SUBSET Accepted
    <3>1. CASE Cardinality(connections[v]) >= MaxConnectionsPerUser
      <4>1. connections[v] # {}
        BY <3>1, FS_EmptySet, EventStreamAssumption
      <4> QED BY <1>4, <2>1, <3>1, <4>1, OldestOf
    <3>2. CASE ~(Cardinality(connections[v]) >= MaxConnectionsPerUser)
      BY <2>1, <3>2
    <3> QED BY <3>1, <3>2
  <2>3. Onward(conn[c].pc, "added")
    BY <2>1 DEF Onward
  <2>4. Accepted' = Accepted /\ \A d \in Accepted : Quieter(conn[d], conn'[d])
    BY <2>1, <2>2, <2>3, ClosesOnward
  <2> QED BY <1>1, <2>4, QuietDeliveries
<1>6. CASE RemoveConnection(c)
  <2>1. PICK C \in SUBSET Accepted : /\ conn[c].pc = "leaving"
                                     /\ conn' = [Closed(C) EXCEPT ![c].pc = "removed"]
    BY <1>6 DEF RemoveConnection
  <2>2. Onward(conn[c].pc, "removed")
    BY <2>1 DEF Onward, Subscribed
  <2>3. Accepted' = Accepted /\ \A d \in Accepted : Quieter(conn[d], conn'[d])
    BY <2>1, <2>2, ClosesOnward
  <2> QED BY <1>1, <2>3, QuietDeliveries
<1>7. CASE Unsubscribe(c) \/ Wake(c) \/ ConnectionTimeout(c)
  <2>1. PICK pc : Onward(conn[c].pc, pc) /\ conn' = [conn EXCEPT ![c].pc = pc]
    BY <1>7 DEF Unsubscribe, Wake, ConnectionTimeout, MoveTo, Onward, Subscribed
  <2> DEFINE k == [conn[c] EXCEPT !.pc = pc]
  <2>2. Quieter(conn[c], k) /\ conn' = [conn EXCEPT ![c] = k]
    BY <1>2, <2>1, QuietRecords
  <2> HIDE DEF k
  <2> QED BY <1>1, <2>2, OneQuieter, QuietDeliveries
<1>8. CASE ClientGone(c) \/ FallSilent(c) \/ Heartbeat(c)
  <2>1. PICK k : Quieter(conn[c], k) /\ conn' = [conn EXCEPT ![c] = k]
    <3>1. CASE ClientGone(c)
      <4>1. conn' = [conn EXCEPT ![c] = [conn[c] EXCEPT !.gone = TRUE]]
        BY <3>1 DEF ClientGone
      <4> QED BY <1>2, <4>1, QuietRecords
    <3>2. CASE FallSilent(c) \/ Heartbeat(c)
      <4>1. \E b : conn' = [conn EXCEPT ![c] = [conn[c] EXCEPT !.silent = b]]
        BY <3>2 DEF FallSilent, Heartbeat
      <4> QED BY <1>2, <4>1, QuietRecords
    <3> QED BY <1>8, <3>1, <3>2
  <2> QED BY <1>1, <2>1, OneQuieter, QuietDeliveries
<1> QED BY <1>5, <1>6, <1>7, <1>8

LEMMA CleanupDeliveries ==
  ASSUME Inductive, Deliveries, CleanupDeadConnections
  PROVE  Deliveries'
<1>1. PICK dead \in SUBSET Accepted :
        conn' = Closed(dead) /\ UNCHANGED <<buf, publishing, history>>
  BY DEF CleanupDeadConnections
<1>2. /\ Accepted' = Accepted
      /\ \A d \in Accepted : conn'[d] = IF d \in dead THEN [conn[d] EXCEPT !.closed = TRUE]
                                        ELSE conn[d]
  BY <1>1 DEF Closed, Accepted
<1>3. \A d \in Accepted : Quieter(conn[d], conn'[d])
  BY <1>2, HandlerOf, QuietRecords
<1> QED BY <1>1, <1>2, <1>3, QuietDeliveries

(* A new request: nothing is sent, nothing replayed yet.                    *)
LEMMA AcceptDeliveries ==
  ASSUME Inductive, Deliveries, NEW u \in User, Accept(u)
  PROVE  Deliveries'
<1> DEFINE h == [replay |-> 0, subscribe |-> 0]
<1>0. PICK n : n = Len(conn) + 1
  OBVIOUS
<1>1. PICK id \in LastEventIDs(u) :
        conn' = Append(conn, [user |-> u, pc |-> "created", closed |-> FALSE,
                              gone |-> FALSE, silent |-> FALSE,
                              lastEventID |-> id, missed |-> <<>>, sent |-> <<>>])
  BY DEF Accept
<1> DEFINE k == [user |-> u, pc |-> "created", closed |-> FALSE, gone |-> FALSE,
                 silent |-> FALSE, lastEventID |-> id, missed |-> <<>>, sent |-> <<>>]
<1>2. /\ IsList(conn) /\ Len(conn) \in Nat /\ Accepted = 1..Len(conn)
      /\ \A d \in Accepted : IsHandler(conn[d])
      /\ history \in Seq([replay : Nat, subscribe : Nat]) /\ Len(history) = Len(conn)
      /\ history' = Append(history, h) /\ UNCHANGED <<buf, publishing>>
  BY ListDomain DEF Accept, Inductive, Shape, Handlers, Accepted
<1>3. /\ k.pc = "created" /\ k.sent = <<>> /\ k.missed = <<>> /\ k.lastEventID = id /\ k.user = u
  OBVIOUS
<1>4. h.replay = 0 /\ h \in [replay : Nat, subscribe : Nat]
  OBVIOUS
<1> HIDE DEF k, h
<1>5. /\ conn'[n] = k /\ \A d \in Accepted : conn'[d] = conn[d]
      /\ Accepted' = Accepted \cup {n}
  <2>1. /\ IsList(conn') /\ Len(conn') = n /\ conn'[n] = k
        /\ \A d \in Accepted : conn'[d] = conn[d]
    BY <1>0, <1>1, <1>2, ListAppend DEF k
  <2>2. DOMAIN conn' = 1..n
    BY <2>1, ListDomain
  <2> QED BY <1>0, <1>2, <2>1, <2>2 DEF Accepted
<1>6. history'[n] = h /\ \A d \in Accepted : history'[d] = history[d]
  BY <1>0, <1>2, <1>4
<1>7. Held' /\ Dropped' = Dropped
  <2>1. Held' <=> Held
    BY <1>2 DEF Held, Dropped
  <2> QED BY <1>2, <2>1 DEF Deliveries, Dropped
<1>8. publishing \in Seq(Publication) /\ Published = 1..Len(publishing) /\ Len(publishing) \in Nat
  BY PublicationsAre
<1>9. ASSUME NEW d \in Accepted PROVE InStep(d)'
  <2> HIDE DEF Dropped
  <2>1. InStep(d)
    BY DEF Deliveries
  <2> QED BY <1>2, <1>5, <1>6, <1>7, <2>1 DEF InStep
<1>10. InStep(n)'
  <2>1. id \in {NoID, EphemeralID} \cup Published
    <3>1. CASE id \in {NoID, EphemeralID}
      BY <3>1
    <3>2. CASE id \notin {NoID, EphemeralID}
      <4>1. PICK d \in Accepted : conn[d].sent # <<>> /\ id = conn[d].sent[Len(conn[d].sent)]
        BY <3>2 DEF LastEventIDs
      <4>2. conn[d].sent \in Seq(Published)
        BY DEF Deliveries, InStep, Reads, Published
      <4>3. Len(conn[d].sent) \in 1..Len(conn[d].sent)
        BY <4>1, <4>2
      <4> QED BY <4>1, <4>2, <4>3, ElementOfSeq
    <3> QED BY <3>1, <3>2
  <2>2. /\ <<>> \in Seq(Store!Event) /\ Len(<<>>) = 0 /\ DOMAIN <<>> = {} /\ 1..0 = {}
        /\ <<>> \in Seq(Published) /\ IsList(<<>>)
    BY DEF IsList
  <2>3. Store!PicksFrom(<<>>, LogOf(publishing), 0, u)
    BY <2>2 DEF Store!PicksFrom, Store!InOrder
  <2>4. 0 \in 0..Len(publishing)
    BY <1>8
  <2>5. Reads(publishing, k, h)
    BY <1>3, <1>4, <2>1, <2>2, <2>3, <2>4 DEF Reads, Published
  <2>6. \A e : TimesIn(<<>>, e) = 0
    <3>1. \A e : e \notin Range(<<>>)
      BY <2>2 DEF Range
    <3> QED BY <2>2, <3>1, TimesAre
  <2>7. Counts(publishing, n, k, h)
    BY <1>3, <2>6 DEF Counts, FromReplay
  <2>8. Replayed(publishing, Dropped, k, h)
    BY <1>3 DEF Replayed
  <2> HIDE DEF Dropped
  <2> QED BY <1>2, <1>5, <1>6, <1>7, <2>5, <2>7, <2>8 DEF InStep
<1>11. \A e \in Published : Addresses(publishing[e], conn')
  BY <1>5, StillAddresses DEF Accepted
<1> QED BY <1>2, <1>5, <1>7, <1>9, <1>10, <1>11 DEF Deliveries, Published
-------------------------------------------------------------------------------
LEMMA SameOperators ==
  /\ \A S : Store!Cardinality(S) = Cardinality(S)
  /\ \A f : Store!Range(f) = Range(f)
<1>1. \A S : Store!Cardinality(S) = Cardinality(S)
  BY Zenon DEF Store!Cardinality, Cardinality
<1> QED BY <1>1 DEF Store!Range, Range

LEMMA HistoryOf ==
  ASSUME Inductive, NEW c \in Accepted
  PROVE  /\ history \in Seq([replay : Nat, subscribe : Nat]) /\ DOMAIN history = Accepted
         /\ history[c] \in [replay : Nat, subscribe : Nat]
<1>1. /\ history \in Seq([replay : Nat, subscribe : Nat]) /\ Len(history) = Len(conn)
      /\ Accepted = 1..Len(conn) /\ Len(conn) \in Nat
  BY ListDomain DEF Inductive, Shape, Handlers, Accepted
<1>2. c \in 1..Len(history) /\ DOMAIN history = Accepted
  BY <1>1
<1> QED BY <1>1, <1>2, ElementOfSeq

LEMMA SubscribeDeliveries ==
  ASSUME Inductive, Deliveries, NEW c \in Accepted, Subscribe(c)
  PROVE  Deliveries'
<1> DEFINE k == [conn[c] EXCEPT !.pc = "streaming"]
           h == [history[c] EXCEPT !.subscribe = Len(publishing)]
<1>1. /\ conn[c].pc = "replaying" /\ conn[c].missed = <<>> /\ conn' = [conn EXCEPT ![c] = k]
      /\ history' = [history EXCEPT ![c] = h] /\ UNCHANGED <<buf, publishing>>
  BY DEF Subscribe, MoveTo
<1>2. /\ IsHandler(k) /\ k.pc = "streaming" /\ k.user = conn[c].user /\ k.sent = conn[c].sent
      /\ k.closed = conn[c].closed /\ k.gone = conn[c].gone /\ k.missed = conn[c].missed
      /\ k.lastEventID = conn[c].lastEventID
  <2>1. IsHandler(conn[c])
    BY HandlerOf
  <2>2. k.lastEventID = conn[c].lastEventID
    BY <2>1 DEF IsHandler
  <2> QED BY <2>1, <2>2, PcOf DEF Stage
<1>3. h.replay = history[c].replay
  BY HistoryOf
<1> HIDE DEF k, h
<1>4. history'[c] = h /\ \A d \in Accepted \ {c} : history'[d] = history[d]
  BY <1>1, HistoryOf
<1>5. InStep(c)
  BY DEF Deliveries
<1>6. Reads(publishing, k, h)
  BY <1>1, <1>2, <1>3, <1>5 DEF InStep, Reads
<1>7. Counts(publishing, c, k, h)
  <2>1. conn[c].pc \in Early
    BY <1>1 DEF Early
  <2> QED BY <1>2, <1>3, <1>5, <2>1 DEF InStep, Counts, Expects, FromReplay
<1>8. Replayed(publishing, Dropped, k, h)
  <2>1. Got(k) = Got(conn[c]) /\ Due(publishing, k, h) = Due(publishing, conn[c], history[c])
    BY <1>2, <1>3 DEF Got, Due
  <2> HIDE DEF Dropped
  <2> QED BY <1>1, <1>2, <1>5, <2>1 DEF InStep, Replayed
<1>9. k.pc \notin Early /\ k.user = UserOf(c)
  BY <1>2 DEF Early, UserOf
<1> QED BY <1>1, <1>2, <1>4, <1>6, <1>7, <1>8, <1>9, OneMoves

LEMMA EmptyPicks ==
  ASSUME NEW l, NEW u
  PROVE  /\ Store!PicksFrom(<<>>, l, 0, u) /\ IsList(<<>>) /\ DOMAIN <<>> = {} /\ Range(<<>>) = {}
         /\ \A e : TimesIn(<<>>, e) = 0
<1>1. /\ <<>> \in Seq(Store!Event) /\ Len(<<>>) = 0 /\ DOMAIN <<>> = {} /\ 1..0 = {}
      /\ IsList(<<>>)
  BY DEF IsList
<1>2. Store!PicksFrom(<<>>, l, 0, u)
  BY <1>1 DEF Store!PicksFrom, Store!InOrder
<1>3. Range(<<>>) = {}
  BY <1>1 DEF Range
<1> QED BY <1>1, <1>2, <1>3, TimesAre

(* What the replay finds: the user's events after the client's last one, in *)
(* their order, all of them unless the answer is full.                      *)
LEMMA Finds ==
  ASSUME Inductive, Held, NEW u, NEW id, NEW m,
         m = IF id = NoID THEN <<>> ELSE After(buf, u, id, Limit)
  PROVE  /\ Store!PicksFrom(m, LogOf(publishing), 0, u)
         /\ id \in (Dropped + 1)..Len(publishing) =>
              Enough(Between(publishing, u, id, Len(publishing)), IDs(m))
<1> DEFINE l == LogOf(publishing)
<1>1. /\ publishing \in Seq(Publication) /\ Published = 1..Len(publishing)
      /\ Len(publishing) \in Nat
  BY PublicationsAre
<1>2. /\ Store!IsLog(l) /\ Len(l) = Len(publishing)
      /\ \A p \in 1..Len(publishing) :
           l[p] = [id |-> p, user |-> publishing[p].user, ts |-> 0]
  BY <1>1, LogIs DEF Held
<1>3. /\ Store!HoldsAfter(buf, l, Dropped) /\ Dropped \in Nat /\ Dropped <= Len(publishing)
      /\ Limit \in Nat
  BY <1>1, HeldSays, EventStreamAssumption DEF Held
<1> HIDE DEF l, Dropped
<1>4. CASE id \notin (Dropped + 1)..Len(publishing)
  <2>1. m = <<>>
    <3>1. Store!After(buf, u, id, Limit) = <<>>
      BY <1>2, <1>3, <1>4, Store!AfterAnswers, StoreAssumptions
    <3> QED BY <3>1, SameBuffer
  <2> QED BY <1>4, <2>1, EmptyPicks DEF l
<1>5. CASE id \in (Dropped + 1)..Len(publishing)
  <2>1. id \in Nat /\ id > 0 /\ id <= Len(publishing)
    BY <1>1, <1>3, <1>5
  <2>2. Store!Gathers(m, l, id, Len(l), u, Limit)
    <3>1. Store!Gathers(Store!After(buf, u, id, Limit), l, id, Len(l), u, Limit)
      BY <1>2, <1>3, <1>5, Store!AfterAnswers, StoreAssumptions
    <3> QED BY <2>1, <3>1, SameBuffer DEF NoID
  <2>3. /\ m \in Seq(Store!Event) /\ DOMAIN m = 1..Len(m) /\ Len(m) \in Nat /\ Store!InOrder(m)
        /\ \A k \in 1..Len(m) : /\ m[k].user = u /\ m[k].id \in (id + 1)..Len(publishing)
                                /\ m[k] = l[m[k].id]
        /\ \A p \in (id + 1)..Len(publishing) :
             l[p].user = u /\ Len(m) < Limit => \E k \in 1..Len(m) : m[k] = l[p]
    BY <1>2, <2>2 DEF Store!Gathers
  <2>4. \A p \in (id + 1)..Len(publishing) :
          p \in 1..Len(publishing) /\ l[p].id = p /\ l[p].user = publishing[p].user
    <3> SUFFICES ASSUME NEW p \in (id + 1)..Len(publishing)
                 PROVE  p \in 1..Len(publishing) /\ l[p].id = p /\ l[p].user = publishing[p].user
      OBVIOUS
    <3>1. p \in 1..Len(publishing)
      BY <1>1, <2>1
    <3>2. l[p] = [id |-> p, user |-> publishing[p].user, ts |-> 0]
      BY <1>2, <3>1
    <3> QED BY <3>1, <3>2
  <2>5. Store!PicksFrom(m, l, 0, u)
    <3>1. \A k \in 1..Len(m) : m[k].id \in (0 + 1)..Len(l)
      BY <1>2, <2>3, <2>4
    <3> QED BY <2>3, <3>1 DEF Store!PicksFrom
  <2> DEFINE due == {p \in (id + 1)..Len(publishing) : publishing[p].user = u}
             ids == {m[j].id : j \in DOMAIN m}
  <2>6. Enough(due, ids)
    <3>1. ASSUME Len(m) < Limit PROVE due \subseteq ids
      <4>1. ASSUME NEW p \in due PROVE p \in ids
        <5>1. PICK k \in 1..Len(m) : m[k] = l[p]
          BY <2>3, <2>4, <3>1
        <5> QED BY <2>3, <2>4, <5>1
      <4> QED BY <4>1
    <3>2. ASSUME ~(Len(m) < Limit) PROVE Cardinality(due \cap ids) >= Limit
      <4>1. due \cap ids = ids
        <5> SUFFICES ASSUME NEW k \in 1..Len(m) PROVE m[k].id \in due
          BY <2>3
        <5>1. m[k].user = u /\ m[k].id \in (id + 1)..Len(publishing) /\ m[k] = l[m[k].id]
          BY <2>3
        <5> QED BY <2>4, <5>1
      <4>2. Cardinality(ids) = Len(m)
        <5>1. ids = {e.id : e \in Store!Range(m)}
          BY <2>3, SameOperators DEF Range
        <5> HIDE DEF ids
        <5>2. Store!Cardinality(ids) = Len(m)
          <6>1. 0 \in Nat
            OBVIOUS
          <6> QED BY <1>2, <2>5, <5>1, <6>1, Store!IdsOf, StoreAssumptions
        <5> QED BY <5>2, SameOperators
      <4>3. Len(m) \in Nat /\ Limit \in Nat
        BY <1>3, <2>3
      <4>4. Cardinality(due \cap ids) = Len(m)
        <5> HIDE DEF due, ids
        <5> QED BY <4>1, <4>2
      <4>5. Len(m) >= Limit
        BY <3>2, <4>3
      <4> HIDE DEF due, ids
      <4> QED BY <4>4, <4>5
    <3> HIDE DEF due, ids
    <3> QED BY <3>1, <3>2 DEF Enough
  <2> QED BY <2>5, <2>6 DEF l, Between, IDs
<1> QED BY <1>4, <1>5

LEMMA GetEventsSinceDeliveries ==
  ASSUME Inductive, Deliveries, NEW c \in Accepted, GetEventsSince(c)
  PROVE  Deliveries'
<1> DEFINE m == IF conn[c].lastEventID = NoID THEN <<>>
                ELSE After(buf, UserOf(c), conn[c].lastEventID, Limit)
           g == [conn[c] EXCEPT !.pc = "replaying"]
           k == [g EXCEPT !.missed = m]
           h == [history[c] EXCEPT !.replay = Len(publishing)]
<1>1. /\ conn[c].pc = "added" /\ conn' = [conn EXCEPT ![c] = k]
      /\ history' = [history EXCEPT ![c] = h] /\ UNCHANGED <<buf, publishing>>
  BY DEF GetEventsSince
<1>2. IsHandler(conn[c]) /\ IsHandler(g) /\ g.pc = "replaying" /\ g.user = conn[c].user
      /\ g.sent = conn[c].sent /\ g.closed = conn[c].closed /\ g.gone = conn[c].gone
      /\ g.lastEventID = conn[c].lastEventID
  <2>1. IsHandler(conn[c])
    BY HandlerOf
  <2>2. g.lastEventID = conn[c].lastEventID
    BY <2>1 DEF IsHandler
  <2> QED BY <2>1, <2>2, PcOf DEF Stage
<1> HIDE DEF m, g
<1>3. /\ IsHandler(k) /\ k.pc = "replaying" /\ k.user = conn[c].user /\ k.sent = conn[c].sent
      /\ k.missed = m /\ k.lastEventID = conn[c].lastEventID
  <2>1. k.lastEventID = g.lastEventID
    BY <1>2 DEF IsHandler
  <2> QED BY <1>2, <2>1, MissedOf
<1>4. h.replay = Len(publishing)
  BY HistoryOf
<1> HIDE DEF k, h
<1>5. history'[c] = h /\ \A d \in Accepted \ {c} : history'[d] = history[d]
  BY <1>1, HistoryOf
<1>6. InStep(c) /\ Held
  BY DEF Deliveries
<1>7. conn[c].sent = <<>>
  BY <1>1, <1>6 DEF InStep, Reads
<1>8. publishing \in Seq(Publication) /\ Len(publishing) \in Nat
  BY PublicationsAre
<1>9. /\ Store!PicksFrom(m, LogOf(publishing), 0, k.user)
      /\ k.lastEventID \in (Dropped + 1)..Len(publishing) =>
           Enough(Between(publishing, k.user, k.lastEventID, Len(publishing)), IDs(m))
  <2>1. m = IF k.lastEventID = NoID THEN <<>> ELSE After(buf, k.user, k.lastEventID, Limit)
    BY <1>3 DEF m, UserOf
  <2>2. PICK u, id : u = k.user /\ id = k.lastEventID
    OBVIOUS
  <2>3. m = IF id = NoID THEN <<>> ELSE After(buf, u, id, Limit)
    BY <2>1, <2>2
  <2> HIDE DEF Dropped
  <2>4. /\ Store!PicksFrom(m, LogOf(publishing), 0, u)
        /\ id \in (Dropped + 1)..Len(publishing) =>
              Enough(Between(publishing, u, id, Len(publishing)), IDs(m))
    BY <1>6, <2>3, Finds
  <2> QED BY <2>2, <2>4
<1>10. Reads(publishing, k, h)
  <2>1. \A j \in DOMAIN m : m[j].id <= Len(publishing)
    BY <1>6, <1>8, <1>9, HeldSays DEF Store!PicksFrom
  <2>2. Len(publishing) \in 0..Len(publishing)
    BY <1>8
  <2> QED BY <1>3, <1>4, <1>6, <1>7, <1>9, <2>1, <2>2, EmptyPicks DEF InStep, Reads
<1>11. Counts(publishing, c, k, h)
  BY <1>3, <1>7, EmptyPicks DEF Counts, FromReplay
<1>12. Replayed(publishing, Dropped, k, h)
  <2>1. Got(k) = IDs(m)
    BY <1>3, <1>7, EmptyPicks DEF Got
  <2> HIDE DEF Dropped
  <2> QED BY <1>4, <1>9, <2>1 DEF Replayed, Due
<1>13. k.user = UserOf(c) /\ conn[c].pc \in Early
  BY <1>1, <1>3 DEF UserOf, Early
<1> QED BY <1>1, <1>3, <1>5, <1>10, <1>11, <1>12, <1>13, OneMoves
-------------------------------------------------------------------------------
(* The next event of the replay is one that the client was not sent by the  *)
(* replay yet, and the rest comes after it.                                 *)
LEMMA SendsNext ==
  ASSUME NEW P \in Seq(Publication), Len(P) <= MaxEvents, NEW k, NEW h, Reads(P, k, h),
         k.pc = "replaying", k.missed # <<>>, NEW e, e = Head(k.missed).id,
         NEW g, g.user = k.user, g.pc = "replaying", g.lastEventID = k.lastEventID,
         g.sent = Append(k.sent, e), g.missed = Tail(k.missed)
  PROVE  /\ Reads(P, g, h) /\ Got(g) = Got(k)
         /\ e \in DOMAIN P /\ e <= h.replay /\ e \notin Range(k.sent) /\ IsList(k.sent)
<1>1. PICK l : l = LogOf(P)
  OBVIOUS
<1>2. Len(P) \in Nat /\ DOMAIN P = 1..Len(P) /\ Len(l) = Len(P)
      /\ \A p \in 1..Len(P) : l[p] = [id |-> p, user |-> P[p].user, ts |-> 0]
  BY <1>1, LogIs
<1>3. PICK m, n : m = k.missed /\ n = Len(m)
  OBVIOUS
<1>4. /\ m \in Seq(Store!Event) /\ n \in Nat /\ n > 0 /\ DOMAIN m = 1..n /\ Store!InOrder(m)
      /\ \A j \in 1..n : m[j].user = k.user /\ m[j].id \in 1..Len(P) /\ m[j] = l[m[j].id]
  <2>1. /\ m \in Seq(Store!Event) /\ Store!InOrder(m)
        /\ \A j \in 1..Len(m) : /\ m[j].user = k.user /\ m[j].id \in (0 + 1)..Len(l)
                                /\ m[j] = l[m[j].id]
    BY <1>1, <1>3 DEF Reads, Store!PicksFrom
  <2>2. n \in Nat /\ n # 0 /\ DOMAIN m = 1..n
    BY <1>3, <2>1
  <2> QED BY <1>2, <1>3, <2>1, <2>2
<1>5. PICK t : t = Tail(m)
  OBVIOUS
<1>6. /\ t \in Seq(Store!Event) /\ Len(t) = n - 1 /\ DOMAIN t = 1..(n - 1)
      /\ \A j \in 1..(n - 1) : j + 1 \in 1..n /\ t[j] = m[j + 1]
  <2>1. m # <<>> /\ n = Len(m)
    BY <1>3
  <2>2. t \in Seq(Store!Event) /\ Len(t) = n - 1
    BY <1>4, <1>5, <2>1
  <2>3. \A j \in 1..(n - 1) : j + 1 \in 1..n /\ t[j] = m[j + 1]
    BY <1>4, <1>5, <2>1
  <2> QED BY <2>2, <2>3
<1>7. 1 \in 1..n /\ e = m[1].id
  BY <1>3, <1>4
<1>8. /\ e \in DOMAIN P /\ P[e].user = k.user
  <2>1. e \in 1..Len(P) /\ m[1] = l[e] /\ m[1].user = k.user
    BY <1>4, <1>7
  <2>2. l[e] = [id |-> e, user |-> P[e].user, ts |-> 0]
    BY <1>2, <2>1
  <2>3. l[e].user = P[e].user
    BY <2>2
  <2> QED BY <1>2, <2>1, <2>3
<1>9. /\ h.replay \in 0..Len(P)
      /\ k.sent \in Seq(DOMAIN P) /\ \A i \in DOMAIN k.sent : P[k.sent[i]].user = k.user
      /\ \A i \in DOMAIN k.sent : k.sent[i] <= h.replay
      /\ \A j \in DOMAIN m : /\ m[j].id <= h.replay
                             /\ \A i \in DOMAIN k.sent : k.sent[i] < m[j].id
  BY <1>3 DEF Reads
<1>10. PICK s : s = k.sent
  OBVIOUS
<1>11. /\ IsList(s) /\ Len(s) \in Nat /\ DOMAIN s = 1..Len(s)
       /\ \A i \in 1..Len(s) : s[i] \in DOMAIN P
  <2>1. s \in Seq(DOMAIN P)
    BY <1>9, <1>10
  <2>2. Len(s) \in Nat /\ DOMAIN s = 1..Len(s) /\ \A i \in 1..Len(s) : s[i] \in DOMAIN P
    BY <2>1
  <2>3. s = [i \in 1..Len(s) |-> s[i]]
    BY <2>1
  <2> QED BY <2>2, <2>3, ListOf
<1>12. e <= h.replay /\ \A i \in DOMAIN s : s[i] < e
  BY <1>4, <1>7, <1>9, <1>10
<1>13. e \notin Range(s)
  <2>1. \A i \in DOMAIN s : s[i] \in Nat /\ e \in Nat
    BY <1>2, <1>8, <1>11
  <2>2. \A i \in DOMAIN s : s[i] # e
    BY <1>12, <2>1
  <2> QED BY <2>2 DEF Range
<1>14. PICK r : r = Append(s, e)
  OBVIOUS
<1>15. /\ r \in Seq(DOMAIN P) /\ Range(r) = Range(s) \cup {e} /\ DOMAIN r = 1..(Len(s) + 1)
       /\ \A i \in DOMAIN r : (i \in DOMAIN s /\ r[i] = s[i]) \/ r[i] = e
  <2>1. /\ IsList(r) /\ Len(r) = Len(s) + 1 /\ Range(r) = Range(s) \cup {e}
        /\ r[Len(s) + 1] = e /\ \A i \in 1..Len(s) : r[i] = s[i]
    BY <1>11, <1>14, ListAppend
  <2>2. r \in Seq(DOMAIN P)
    BY <1>8, <1>9, <1>10, <1>14
  <2>3. DOMAIN r = 1..(Len(s) + 1)
    BY <2>1, ListDomain
  <2> QED BY <1>11, <2>1, <2>2, <2>3
<1>16. Store!PicksFrom(t, l, 0, k.user)
  <2>1. Store!InOrder(t)
    <3> SUFFICES ASSUME NEW i \in 1..(n - 1), NEW j \in 1..(n - 1), i < j
                 PROVE  t[i].id < t[j].id
      BY <1>6 DEF Store!InOrder
    <3>1. i + 1 \in DOMAIN m /\ j + 1 \in DOMAIN m /\ i + 1 < j + 1
      BY <1>4, <1>6
    <3>2. m[i + 1].id < m[j + 1].id
      BY <1>4, <3>1 DEF Store!InOrder
    <3> QED BY <1>6, <3>2
  <2>2. \A j \in 1..Len(t) : t[j].user = k.user /\ t[j].id \in (0 + 1)..Len(l)
                             /\ t[j] = l[t[j].id]
    <3> SUFFICES ASSUME NEW j \in 1..(n - 1)
                 PROVE  t[j].user = k.user /\ t[j].id \in (0 + 1)..Len(l) /\ t[j] = l[t[j].id]
      BY <1>6
    <3>1. j + 1 \in 1..n /\ t[j] = m[j + 1]
      BY <1>6
    <3>2. (0 + 1)..Len(l) = 1..Len(P)
      BY <1>2
    <3> QED BY <1>4, <3>1, <3>2
  <2> QED BY <1>6, <2>1, <2>2 DEF Store!PicksFrom
<1>17. \A i \in DOMAIN r : P[r[i]].user = k.user /\ r[i] <= h.replay
  BY <1>8, <1>9, <1>10, <1>12, <1>15
<1>18. \A j \in DOMAIN t : t[j].id <= h.replay /\ \A i \in DOMAIN r : r[i] < t[j].id
  <2> SUFFICES ASSUME NEW j \in 1..(n - 1)
               PROVE  t[j].id <= h.replay /\ \A i \in DOMAIN r : r[i] < t[j].id
    BY <1>6
  <2>1. j + 1 \in DOMAIN m /\ t[j] = m[j + 1]
    BY <1>4, <1>6
  <2>2. e < m[j + 1].id
    <3>1. 1 \in 1..n /\ j + 1 \in 1..n /\ 1 < j + 1
      BY <1>4, <1>6
    <3> QED BY <1>4, <1>7, <3>1 DEF Store!InOrder
  <2> QED BY <1>9, <1>10, <1>15, <2>1, <2>2
<1>19. Reads(P, g, h)
  <2>1. g.sent = r /\ g.missed = t
    BY <1>3, <1>5, <1>10, <1>14
  <2>2. g.lastEventID \in {NoID, EphemeralID} \cup DOMAIN P
    BY DEF Reads
  <2> QED BY <1>1, <1>9, <1>15, <1>16, <1>17, <1>18, <2>1, <2>2 DEF Reads
<1>20. Got(g) = Got(k)
  <2>1. IDs(m) = IDs(t) \cup {e}
    <3>1. \A j \in 1..n : j = 1 \/ (j - 1 \in 1..(n - 1) /\ (j - 1) + 1 = j)
      BY <1>4
    <3>2. \A j \in 1..n : m[j].id = e \/ \E i \in 1..(n - 1) : m[j].id = t[i].id
      BY <1>6, <1>7, <3>1
    <3>3. \A i \in 1..(n - 1) : \E j \in 1..n : t[i].id = m[j].id
      BY <1>6
    <3>4. IDs(m) = {m[j].id : j \in 1..n} /\ IDs(t) = {t[i].id : i \in 1..(n - 1)}
      BY <1>4, <1>6 DEF IDs
    <3>5. IDs(m) \subseteq IDs(t) \cup {e}
      BY <3>2, <3>4
    <3>6. IDs(t) \subseteq IDs(m)
      BY <3>3, <3>4
    <3>7. e \in IDs(m)
      BY <1>7, <3>4
    <3> QED BY <3>5, <3>6, <3>7
  <2>2. g.sent = r /\ g.missed = t
    BY <1>3, <1>5, <1>10, <1>14
  <2> QED BY <1>3, <1>10, <1>15, <2>1, <2>2 DEF Got
<1> QED BY <1>8, <1>10, <1>11, <1>12, <1>13, <1>19, <1>20

LEMMA SendMissedDeliveries ==
  ASSUME Inductive, Deliveries, NEW c \in Accepted, SendMissed(c)
  PROVE  Deliveries'
<1>1. /\ conn[c].pc = "replaying" /\ conn[c].missed # <<>>
      /\ UNCHANGED <<buf, publishing, history>>
      /\ \/ /\ ~conn[c].closed /\ ~conn[c].gone
            /\ conn' = [conn EXCEPT ![c].sent = Append(@, Head(conn[c].missed).id),
                                    ![c].missed = Tail(@)]
         \/ /\ conn[c].closed \/ conn[c].gone
            /\ conn' = [conn EXCEPT ![c].missed = <<>>]
  BY DEF SendMissed, Receives
<1>2. IsHandler(conn[c]) /\ InStep(c)
  BY HandlerOf DEF Deliveries
<1>3. publishing \in Seq(Publication) /\ Len(publishing) <= MaxEvents
      /\ DOMAIN publishing = 1..Len(publishing) /\ Len(publishing) \in Nat
  BY PublicationsAre DEF Deliveries, Held, Published
<1>4. CASE conn' = [conn EXCEPT ![c].sent = Append(@, Head(conn[c].missed).id),
                                ![c].missed = Tail(@)]
  <2>1. PICK e : e = Head(conn[c].missed).id
    OBVIOUS
  <2> DEFINE g == [conn[c] EXCEPT !.sent = Append(@, e)]
             t == Tail(conn[c].missed)
             k == [g EXCEPT !.missed = t]
  <2>2. /\ IsHandler(g) /\ g.pc = conn[c].pc /\ g.user = conn[c].user
        /\ g.closed = conn[c].closed /\ g.gone = conn[c].gone
        /\ g.sent = Append(conn[c].sent, e) /\ g.lastEventID = conn[c].lastEventID
    <3>1. g.sent = Append(conn[c].sent, e) /\ g.lastEventID = conn[c].lastEventID
      BY <1>2 DEF IsHandler
    <3> QED BY <1>2, <3>1, SentOf
  <2>3. conn' = [conn EXCEPT ![c] = k]
    <3>1. conn' = [[conn EXCEPT ![c] = g] EXCEPT ![c] = [@ EXCEPT !.missed = t]]
      BY <1>4, <2>1
    <3> QED BY <3>1
  <2> HIDE DEF g
  <2>4. /\ IsHandler(k) /\ k.pc = conn[c].pc /\ k.user = conn[c].user
        /\ k.closed = conn[c].closed /\ k.gone = conn[c].gone
        /\ k.sent = Append(conn[c].sent, e) /\ k.lastEventID = conn[c].lastEventID
        /\ k.missed = Tail(conn[c].missed)
    <3> HIDE DEF t
    <3>1. k.lastEventID = g.lastEventID
      BY <2>2 DEF IsHandler
    <3>2. /\ IsHandler(k) /\ k.pc = g.pc /\ k.user = g.user /\ k.closed = g.closed
          /\ k.gone = g.gone /\ k.sent = g.sent /\ k.missed = t
      BY <2>2, MissedOf
    <3> HIDE DEF k
    <3> QED BY <2>2, <3>1, <3>2 DEF t
  <2> HIDE DEF k, t
  <2>5. /\ Reads(publishing, k, history[c]) /\ Got(k) = Got(conn[c])
        /\ e \in DOMAIN publishing /\ e <= history[c].replay
        /\ e \notin Range(conn[c].sent) /\ IsList(conn[c].sent)
    <3>1. PICK x, h : x = conn[c] /\ h = history[c]
      OBVIOUS
    <3>2. Reads(publishing, x, h) /\ x.pc = "replaying" /\ x.missed # <<>> /\ e = Head(x.missed).id
      BY <1>1, <1>2, <2>1, <3>1 DEF InStep
    <3>3. /\ k.user = x.user /\ k.pc = "replaying" /\ k.lastEventID = x.lastEventID
          /\ k.sent = Append(x.sent, e) /\ k.missed = Tail(x.missed)
      BY <1>1, <2>4, <3>1
    <3>4. /\ Reads(publishing, k, h) /\ Got(k) = Got(x)
          /\ e \in DOMAIN publishing /\ e <= h.replay /\ e \notin Range(x.sent) /\ IsList(x.sent)
      BY <1>3, <3>2, <3>3, SendsNext
    <3> QED BY <3>1, <3>4
  <2>6. Counts(publishing, c, k, history[c])
    <3> SUFFICES ASSUME NEW f \in DOMAIN publishing
                 PROVE  TimesIn(k.sent, f) <= FromReplay(f, history[c])
      <4>1. \A f : FromReplay(f, history[c]) \in Nat /\ TimesIn(k.sent, f) \in Nat
        BY <2>4, TimesAre DEF IsHandler, FromReplay
      <4> QED BY <4>1 DEF Counts
    <3>1. TimesIn(conn[c].sent, f) <= FromReplay(f, history[c])
      BY <1>1, <1>2 DEF InStep, Counts, Expects, Early
    <3>2. CASE f = e
      <4>1. TimesIn(conn[c].sent, e) = 0
        BY <2>5, TimesAre
      <4>2. TimesIn(k.sent, e) = 1
        BY <2>4, <2>5, <4>1, TimesAppend
      <4> QED BY <2>5, <3>2, <4>2 DEF FromReplay
    <3>3. CASE f # e
      <4>1. TimesIn(k.sent, f) = TimesIn(conn[c].sent, f)
        BY <2>4, <2>5, <3>3, TimesAppend
      <4> QED BY <3>1, <4>1
    <3> QED BY <3>2, <3>3
  <2>7. Replayed(publishing, Dropped, k, history[c])
    <3>1. Due(publishing, k, history[c]) = Due(publishing, conn[c], history[c])
      BY <2>4 DEF Due
    <3> HIDE DEF Dropped
    <3> QED BY <1>2, <2>4, <2>5, <3>1 DEF InStep, Replayed
  <2>8. k.user = UserOf(c) /\ conn[c].pc \in Early /\ history' = history
    BY <1>1, <2>4 DEF UserOf, Early
  <2> QED BY <1>1, <2>3, <2>4, <2>5, <2>6, <2>7, <2>8, OneMoves
<1>5. CASE (conn[c].closed \/ conn[c].gone) /\ conn' = [conn EXCEPT ![c].missed = <<>>]
  <2> DEFINE k == [conn[c] EXCEPT !.missed = <<>>]
  <2>1. conn' = [conn EXCEPT ![c] = k]
    BY <1>5
  <2>2. /\ IsHandler(k) /\ k.pc = conn[c].pc /\ k.user = conn[c].user
        /\ k.closed = conn[c].closed /\ k.gone = conn[c].gone
        /\ k.sent = conn[c].sent /\ k.lastEventID = conn[c].lastEventID /\ k.missed = <<>>
    <3>1. k.lastEventID = conn[c].lastEventID
      BY <1>2 DEF IsHandler
    <3> QED BY <1>2, <3>1, MissedOf
  <2> HIDE DEF k
  <2>3. Reads(publishing, k, history[c])
    BY <1>1, <1>2, <2>2, EmptyPicks DEF InStep, Reads
  <2>4. Counts(publishing, c, k, history[c])
    BY <1>2, <2>2 DEF InStep, Counts, Expects
  <2>5. Replayed(publishing, Dropped, k, history[c])
    BY <1>5, <2>2 DEF Replayed
  <2>6. k.user = UserOf(c) /\ conn[c].pc \in Early /\ history' = history
    BY <1>1, <2>2 DEF UserOf, Early
  <2> QED BY <1>1, <2>1, <2>2, <2>3, <2>4, <2>5, <2>6, OneMoves
<1> QED BY <1>1, <1>4, <1>5
-------------------------------------------------------------------------------
(* Another event is published: nobody was sent it, and no replay has to.    *)
LEMMA GrownInStep ==
  ASSUME NEW P \in Seq(Publication), Len(P) < MaxEvents, NEW q \in Publication,
         NEW c, NEW k, IsList(k.sent), NEW h, NEW o \in Nat,
         Reads(P, k, h), Counts(P, c, k, h), Replayed(P, o, k, h)
  PROVE  LET Q == Append(P, q)
         IN  /\ Reads(Q, k, h) /\ Counts(Q, c, k, h)
             /\ Replayed(Q, o, k, h) /\ Replayed(Q, o + 1, k, h)
<1>0. PICK Q : Q = Append(P, q)
  OBVIOUS
<1>1. PICK n : n = Len(P)
  OBVIOUS
<1>2. /\ n \in Nat /\ DOMAIN P = 1..n /\ DOMAIN Q = 1..(n + 1) /\ Len(Q) = n + 1
      /\ \A p \in 1..n : Q[p] = P[p] /\ p \in 1..(n + 1)
  BY <1>0, <1>1
<1>3. Len(P) <= MaxEvents /\ n < MaxEvents /\ MaxEvents \in Nat
  BY <1>1, <1>2, EventStreamAssumption
<1>4. Store!IsLog(LogOf(P))
  BY <1>3, LogIs
<1>5. PICK e : e \in Store!Event /\ LogOf(Q) = Append(LogOf(P), e)
  <2>1. Len(P) + 1 \in 1..MaxEvents /\ q.user \in User
    BY <1>1, <1>2, <1>3 DEF Publication
  <2>2. [id |-> Len(P) + 1, user |-> q.user, ts |-> 0] \in Event
    BY <2>1 DEF Event
  <2> QED BY <1>0, <2>2, LogGrows, SameBuffer
<1>6. Store!PicksFrom(k.missed, LogOf(Q), 0, k.user)
  <2>1. Store!PicksFrom(k.missed, LogOf(P), 0, k.user) /\ 0 \in Nat
    BY DEF Reads
  <2> QED BY <1>4, <1>5, <2>1, Store!PicksFromLonger, StoreAssumptions
<1>7. /\ k.sent \in Seq(1..n) /\ k.sent \in Seq(1..(n + 1)) /\ Len(k.sent) \in Nat
      /\ DOMAIN k.sent = 1..Len(k.sent) /\ \A i \in DOMAIN k.sent : k.sent[i] \in 1..n
  <2>1. PICK s : s = k.sent
    OBVIOUS
  <2>2. s \in Seq(1..n)
    BY <1>2, <2>1 DEF Reads
  <2>3. Len(s) \in Nat /\ DOMAIN s = 1..Len(s) /\ \A i \in DOMAIN s : s[i] \in 1..n
    <3>1. PICK S : S = 1..n
      OBVIOUS
    <3>2. s \in Seq(S)
      BY <2>2, <3>1
    <3>3. Len(s) \in Nat /\ DOMAIN s = 1..Len(s) /\ \A i \in DOMAIN s : s[i] \in S
      BY <3>2
    <3> QED BY <3>1, <3>3
  <2>4. s \in Seq(1..(n + 1))
    BY <1>2, <2>2
  <2> QED BY <2>1, <2>2, <2>3, <2>4
<1>8. h.replay \in 0..n /\ k.lastEventID \in {NoID, EphemeralID} \cup (1..n)
  BY <1>1, <1>2 DEF Reads
<1>9. Reads(Q, k, h)
  <2>1. \A i \in DOMAIN k.sent : Q[k.sent[i]].user = k.user
    BY <1>2, <1>7 DEF Reads
  <2>2. h.replay \in 0..(n + 1) /\ k.lastEventID \in {NoID, EphemeralID} \cup (1..(n + 1))
    BY <1>2, <1>8
  <2> QED BY <1>2, <1>6, <1>7, <2>1, <2>2 DEF Reads
<1>10. Counts(Q, c, k, h)
  <2>1. ASSUME NEW f \in 1..n
        PROVE  /\ TimesIn(k.sent, f) <= FromReplay(f, h) + 1
               /\ Expects(Q[f], c, k) => TimesIn(k.sent, f) <= FromReplay(f, h)
    BY <1>2, <2>1 DEF Counts
  <2>2. TimesIn(k.sent, n + 1) = 0
    <3>1. n + 1 \notin Range(k.sent)
      BY <1>2, <1>7 DEF Range
    <3> QED BY <3>1, TimesAre
  <2>3. 0 <= FromReplay(n + 1, h) /\ 0 <= FromReplay(n + 1, h) + 1
    BY DEF FromReplay
  <2>4. \A f \in 1..(n + 1) : f \in 1..n \/ f = n + 1
    BY <1>2
  <2> QED BY <1>2, <2>1, <2>2, <2>3, <2>4 DEF Counts
<1>11. ASSUME NEW r \in {o, o + 1} PROVE Replayed(Q, r, k, h)
  <2> SUFFICES ASSUME k.pc \in {"replaying", "streaming"}, ~k.closed, ~k.gone,
                      k.lastEventID \in (r + 1)..(n + 1)
               PROVE  Enough(Due(Q, k, h), Got(k))
    BY <1>2 DEF Replayed
  <2>1. k.lastEventID \in (o + 1)..n
    <3>1. PICK i : i = k.lastEventID
      OBVIOUS
    <3>2. i \in (r + 1)..(n + 1) /\ (i = 0 \/ i = MaxEvents + 1 \/ i \in 1..n)
      BY <1>8, <3>1 DEF NoID, EphemeralID
    <3>3. r \in Nat /\ r >= o
      OBVIOUS
    <3>4. i \in (o + 1)..n
      BY <1>2, <1>3, <3>2, <3>3
    <3> QED BY <3>1, <3>4
  <2>2. Enough(Due(P, k, h), Got(k))
    BY <1>1, <2>1 DEF Replayed
  <2>3. Due(Q, k, h) = Due(P, k, h)
    <3>1. PICK i, j : i = k.lastEventID /\ j = h.replay
      OBVIOUS
    <3>2. \A p \in (i + 1)..j : p \in 1..n
      BY <1>2, <1>8, <2>1, <3>1
    <3>3. \A p \in (i + 1)..j : Q[p].user = P[p].user
      BY <1>2, <3>2
    <3> QED BY <3>1, <3>3 DEF Due, Between
  <2> QED BY <2>2, <2>3
<1> QED BY <1>0, <1>9, <1>10, <1>11

LEMMA PublishDeliveries ==
  ASSUME Inductive, Deliveries, NEW u \in User, Publish(u)
  PROVE  Deliveries'
<1>1. PICK q : /\ q = [user |-> u, pc |-> "stored", todo |-> {}, checked |-> NoConn]
               /\ publishing' = Append(publishing, q) /\ Len(publishing) < MaxEvents
               /\ UNCHANGED <<conn, history>>
  BY DEF Publish
<1>2. q \in Publication /\ q.pc = "stored" /\ q.todo = {} /\ q.checked = NoConn
  BY <1>1 DEF Publication
<1>3. publishing \in Seq(Publication) /\ Published = 1..Len(publishing) /\ Len(publishing) \in Nat
  BY PublicationsAre
<1>4. Held /\ Held' /\ Dropped' \in {Dropped, Dropped + 1} /\ Dropped \in Nat
  BY <1>3, HeldPublish, HeldSays DEF Deliveries
<1>5. ASSUME NEW c \in Accepted PROVE InStep(c)'
  <2> HIDE DEF Dropped
  <2>1. PICK k, h, o, r, P, Q : /\ k = conn[c] /\ h = history[c] /\ o = Dropped /\ r = Dropped'
                                /\ P = publishing /\ Q = publishing'
    OBVIOUS
  <2>2. /\ P \in Seq(Publication) /\ Len(P) < MaxEvents /\ q \in Publication /\ Q = Append(P, q)
        /\ o \in Nat /\ r \in {o, o + 1}
    BY <1>1, <1>2, <1>3, <1>4, <2>1
  <2>3. Reads(P, k, h) /\ Counts(P, c, k, h) /\ Replayed(P, o, k, h)
    BY <2>1 DEF Deliveries, InStep
  <2>4. IsList(k.sent)
    BY <2>1, HandlerOf DEF IsHandler
  <2>5. /\ Reads(Q, k, h) /\ Counts(Q, c, k, h)
        /\ Replayed(Q, o, k, h) /\ Replayed(Q, o + 1, k, h)
    BY <2>2, <2>3, <2>4, GrownInStep
  <2>6. Replayed(Q, r, k, h)
    BY <2>2, <2>5
  <2> QED BY <1>1, <2>1, <2>5, <2>6 DEF InStep
<1>6. ASSUME NEW e \in Published' PROVE Addresses(publishing'[e], conn')
  <2>1. CASE e \in Published
    <3>1. publishing'[e] = publishing[e] /\ conn' = conn
      BY <1>1, <1>3, <2>1
    <3> QED BY <2>1, <3>1 DEF Deliveries
  <2>2. CASE e \notin Published
    <3>1. publishing'[e] = q
      BY <1>1, <1>2, <1>3, <2>2 DEF Published
    <3> QED BY <1>2, <3>1 DEF Addresses
  <2> QED BY <2>1, <2>2
<1>7. Accepted' = Accepted
  BY <1>1 DEF Accepted
<1> QED BY <1>4, <1>5, <1>6, <1>7 DEF Deliveries

(* One Publish goes on: the events stay the same.                           *)
LEMMA SameInStep ==
  ASSUME NEW P \in Seq(Publication), NEW Q \in Seq(Publication), Len(Q) = Len(P),
         \A e \in DOMAIN P : Q[e].user = P[e].user,
         NEW k, NEW h, NEW o, Reads(P, k, h), Replayed(P, o, k, h)
  PROVE  Reads(Q, k, h) /\ Replayed(Q, o, k, h)
<1>1. DOMAIN Q = DOMAIN P /\ DOMAIN P = 1..Len(P) /\ Len(P) \in Nat
  OBVIOUS
<1>2. LogOf(Q) = LogOf(P)
  BY SameLog
<1>3. /\ k.sent \in Seq(DOMAIN P) /\ \A i \in DOMAIN k.sent : k.sent[i] \in DOMAIN P
      /\ h.replay \in 0..Len(P)
  <2>1. PICK s, D : s = k.sent /\ D = DOMAIN P
    OBVIOUS
  <2>2. s \in Seq(D)
    BY <2>1 DEF Reads
  <2>3. \A i \in DOMAIN s : s[i] \in D
    BY <2>2
  <2> QED BY <2>1, <2>2, <2>3 DEF Reads
<1>4. Reads(Q, k, h)
  <2>1. \A i \in DOMAIN k.sent : Q[k.sent[i]].user = k.user
    BY <1>3 DEF Reads
  <2> QED BY <1>1, <1>2, <2>1 DEF Reads
<1>5. CASE k.lastEventID \in Nat
  <2>1. Due(Q, k, h) = Due(P, k, h)
    <3>1. PICK i, j : i = k.lastEventID /\ j = h.replay
      OBVIOUS
    <3>2. \A p \in (i + 1)..j : p \in 1..Len(P)
      BY <1>1, <1>3, <1>5, <3>1
    <3>3. \A p \in (i + 1)..j : Q[p].user = P[p].user
      BY <1>1, <3>2
    <3> QED BY <3>1, <3>3 DEF Due, Between
  <2>2. Replayed(Q, o, k, h)
    BY <2>1 DEF Replayed
  <2> QED BY <1>4, <2>2
<1>6. k.lastEventID \in Nat
  <2>1. k.lastEventID = 0 \/ k.lastEventID = MaxEvents + 1 \/ k.lastEventID \in 1..Len(P)
    BY <1>1 DEF Reads, NoID, EphemeralID
  <2> QED BY <1>1, <2>1, EventStreamAssumption
<1> QED BY <1>5, <1>6

(* A Publish that takes a step still expects nothing new of any stream.     *)
LEMMA DeliveryGoesOn ==
  ASSUME Inductive, Deliveries, NEW e \in Published, NEW q \in Publication,
         publishing' = [publishing EXCEPT ![e] = q], q.user = publishing[e].user,
         UNCHANGED buf
  PROVE  /\ Held' /\ Dropped' = Dropped /\ Published' = Published
         /\ publishing'[e] = q /\ \A f \in Published \ {e} : publishing'[f] = publishing[f]
         /\ \A c \in Accepted :
              /\ Reads(publishing', conn[c], history[c])
              /\ Replayed(publishing', Dropped, conn[c], history[c])
              /\ (Expects(q, c, conn[c]) => Expects(publishing[e], c, conn[c]))
                   => Counts(publishing', c, conn[c], history[c])
<1>1. publishing \in Seq(Publication) /\ Published = 1..Len(publishing) /\ Len(publishing) \in Nat
  BY PublicationsAre
<1>2. /\ publishing' \in Seq(Publication) /\ Published' = Published /\ publishing'[e] = q
      /\ \A f \in Published \ {e} : publishing'[f] = publishing[f]
  BY PublicationMoves
<1>3. /\ Len(publishing') = Len(publishing)
      /\ \A f \in Published : publishing'[f].user = publishing[f].user
  BY <1>1, <1>2
<1>4. Held' /\ Dropped' = Dropped
  BY <1>1, <1>2, <1>3, HeldSame DEF Deliveries
<1>5. ASSUME NEW c \in Accepted
      PROVE  /\ Reads(publishing', conn[c], history[c])
             /\ Replayed(publishing', Dropped, conn[c], history[c])
             /\ (Expects(q, c, conn[c]) => Expects(publishing[e], c, conn[c]))
                  => Counts(publishing', c, conn[c], history[c])
  <2> HIDE DEF Dropped
  <2>1. PICK k, h, o, P, Q : /\ k = conn[c] /\ h = history[c] /\ o = Dropped
                             /\ P = publishing /\ Q = publishing'
    OBVIOUS
  <2>2. Reads(P, k, h) /\ Counts(P, c, k, h) /\ Replayed(P, o, k, h)
    BY <2>1 DEF Deliveries, InStep
  <2>3. /\ P \in Seq(Publication) /\ Q \in Seq(Publication) /\ Len(Q) = Len(P)
        /\ DOMAIN P = Published /\ DOMAIN Q = Published
        /\ \A f \in DOMAIN P : Q[f].user = P[f].user
        /\ Q[e] = q /\ \A f \in DOMAIN P \ {e} : Q[f] = P[f]
    BY <1>1, <1>2, <1>3, <2>1 DEF Published
  <2>4. Reads(Q, k, h) /\ Replayed(Q, o, k, h)
    BY <2>2, <2>3, SameInStep
  <2>5. (Expects(q, c, k) => Expects(P[e], c, k)) => Counts(Q, c, k, h)
    BY <2>2, <2>3 DEF Counts
  <2> QED BY <2>1, <2>4, <2>5
<1> QED BY <1>2, <1>4, <1>5

LEMMA CopyHandlersDeliveries ==
  ASSUME Inductive, Deliveries, NEW e \in Published, CopyHandlers(e)
  PROVE  Deliveries'
<1> DEFINE q == [publishing[e] EXCEPT !.pc = "delivering",
                                      !.todo = subscribers[publishing[e].user]]
<1>1. publishing[e].pc = "stored" /\ publishing' = [publishing EXCEPT ![e] = q]
      /\ UNCHANGED <<buf, conn, history>>
  BY DEF CopyHandlers
<1>2. publishing[e] \in Publication /\ publishing[e].user \in User
  BY PublicationOf DEF Publication
<1>3. /\ q \in Publication /\ q.todo = subscribers[publishing[e].user]
      /\ q.user = publishing[e].user /\ q.pc = "delivering"
      /\ q.checked = publishing[e].checked
  BY <1>2 DEF Publication, Inductive, Shape
<1> HIDE DEF q
<1>4. Addresses(publishing[e], conn)
  BY DEF Deliveries
<1>5. Addresses(q, conn)
  <2>1. q.checked = NoConn
    BY <1>1, <1>3, <1>4 DEF Addresses
  <2>2. \A c \in q.todo : c \in Accepted /\ UserOf(c) = q.user /\ conn[c].pc \in Subscribed
    BY <1>2, <1>3, RegisteredOf
  <2>3. \A c \in q.todo : c # NoConn
    BY <2>2, HandlerOf DEF Conn, NoConn
  <2> QED BY <1>3, <2>1, <2>2, <2>3 DEF Addresses, Accepted, UserOf, Early, Subscribed
<1>6. \A c : Expects(publishing[e], c, conn[c])
  BY <1>1 DEF Expects
<1>7. /\ Held' /\ Dropped' = Dropped /\ Published' = Published
      /\ publishing'[e] = q /\ \A f \in Published \ {e} : publishing'[f] = publishing[f]
      /\ \A c \in Accepted : /\ Reads(publishing', conn[c], history[c])
                             /\ Replayed(publishing', Dropped, conn[c], history[c])
                             /\ Counts(publishing', c, conn[c], history[c])
  BY <1>1, <1>3, <1>6, DeliveryGoesOn
<1>8. \A f \in Published : Addresses(publishing'[f], conn)
  BY <1>5, <1>7 DEF Deliveries
<1> HIDE DEF Dropped
<1> QED BY <1>1, <1>7, <1>8 DEF Deliveries, InStep, Accepted

LEMMA CheckClosedDeliveries ==
  ASSUME Inductive, Deliveries, NEW e \in Published, NEW c \in Conn, CheckClosed(e, c)
  PROVE  Deliveries'
<1> DEFINE q == [publishing[e] EXCEPT !.todo = @ \ {c},
                                      !.checked = IF conn[c].closed THEN NoConn ELSE c]
<1>1. publishing' = [publishing EXCEPT ![e] = q] /\ c \in publishing[e].todo
      /\ UNCHANGED <<buf, conn, history>>
  BY DEF CheckClosed
<1>2. publishing[e] \in Publication
  BY PublicationOf
<1>3. /\ q \in Publication /\ q.todo = publishing[e].todo \ {c} /\ q.user = publishing[e].user
      /\ q.pc = publishing[e].pc /\ q.checked \in {NoConn, c}
  BY <1>2 DEF Publication
<1> HIDE DEF q
<1>4. Addresses(publishing[e], conn)
  BY DEF Deliveries
<1>5. NoConn \notin q.todo
  BY <1>3 DEF Publication, Conn, NoConn
<1>6. Addresses(q, conn)
  BY <1>1, <1>3, <1>4, <1>5 DEF Addresses
<1>7. \A d \in Accepted : Expects(q, d, conn[d]) => Expects(publishing[e], d, conn[d])
  <2>1. \A d \in Accepted : d # NoConn
    BY HandlerOf DEF Conn, NoConn
  <2> QED BY <1>1, <1>3, <2>1 DEF Expects
<1>8. /\ Held' /\ Dropped' = Dropped /\ Published' = Published
      /\ publishing'[e] = q /\ \A f \in Published \ {e} : publishing'[f] = publishing[f]
      /\ \A d \in Accepted : /\ Reads(publishing', conn[d], history[d])
                             /\ Replayed(publishing', Dropped, conn[d], history[d])
                             /\ Counts(publishing', d, conn[d], history[d])
  BY <1>1, <1>3, <1>7, DeliveryGoesOn
<1>9. \A f \in Published : Addresses(publishing'[f], conn)
  BY <1>6, <1>8 DEF Deliveries
<1> HIDE DEF Dropped
<1> QED BY <1>1, <1>8, <1>9 DEF Deliveries, InStep, Accepted
-------------------------------------------------------------------------------
LEMMA FiniteDue ==
  ASSUME NEW P, NEW k, NEW h, h.replay \in Nat, k.lastEventID \in Nat
  PROVE  IsFiniteSet(Due(P, k, h))
<1>1. PICK i, j : i = k.lastEventID /\ j = h.replay
  OBVIOUS
<1>2. IsFiniteSet((i + 1)..j)
  <2>1. i + 1 \in Int /\ j \in Int
    BY <1>1
  <2>2. PICK a : a = i + 1
    OBVIOUS
  <2>3. IsFiniteSet(a..j)
    BY <2>1, <2>2, FS_Interval
  <2> QED BY <2>2, <2>3
<1>3. Due(P, k, h) \subseteq (i + 1)..j
  BY <1>1 DEF Due, Between
<1> QED BY <1>2, <1>3, FS_Subset

(* What is enough stays so when more is sent.                               *)
LEMMA EnoughAndMore ==
  ASSUME NEW due, IsFiniteSet(due), NEW S, NEW T, S \subseteq T, Enough(due, S)
  PROVE  Enough(due, T)
<1>1. CASE due \subseteq S
  BY <1>1 DEF Enough
<1>2. CASE Cardinality(due \cap S) >= Limit
  <2>1. due \cap S \subseteq due \cap T /\ IsFiniteSet(due \cap T)
    BY FS_Subset
  <2>2. /\ Cardinality(due \cap S) <= Cardinality(due \cap T)
        /\ Cardinality(due \cap S) \in Nat /\ Cardinality(due \cap T) \in Nat
    BY <2>1, FS_Subset, FS_CardinalityType
  <2>3. Cardinality(due \cap T) >= Limit
    BY <1>2, <2>2, EventStreamAssumption
  <2> QED BY <2>3 DEF Enough
<1> QED BY <1>1, <1>2 DEF Enough

(* A live write to k, which no Publish of e expects another time.           *)
LEMMA WrittenInStep ==
  ASSUME NEW P \in Seq(Publication), NEW Q \in Seq(Publication), Len(Q) = Len(P),
         NEW c, NEW k, NEW h, NEW o, NEW e \in DOMAIN P, NEW g,
         IsList(k.sent), k.pc \notin Early, P[e].user = k.user,
         Expects(P[e], c, k), ~Expects(Q[e], c, g),
         \A f \in DOMAIN P \ {e} : Q[f] = P[f],
         g.user = k.user, g.pc = k.pc, g.closed = k.closed, g.gone = k.gone,
         g.lastEventID = k.lastEventID, g.missed = k.missed, g.sent = Append(k.sent, e),
         Counts(P, c, k, h), Q[e].user = P[e].user, Reads(Q, k, h), Replayed(Q, o, k, h)
  PROVE  Reads(Q, g, h) /\ Counts(Q, c, g, h) /\ Replayed(Q, o, g, h)
<1>1. DOMAIN P = DOMAIN Q /\ DOMAIN Q = 1..Len(Q) /\ Len(Q) \in Nat
  OBVIOUS
<1>2. PICK s, t, D : s = k.sent /\ t = g.sent /\ D = DOMAIN Q
  OBVIOUS
<1>3. s \in Seq(D) /\ t = Append(s, e) /\ e \in D /\ IsList(s)
  BY <1>1, <1>2 DEF Reads
<1>4. t \in Seq(D) /\ Len(t) = Len(s) + 1 /\ DOMAIN s = 1..Len(s) /\ DOMAIN t = 1..Len(t)
      /\ Len(s) \in Nat /\ t[Len(t)] = e /\ \A i \in 1..Len(s) : t[i] = s[i]
  BY <1>3
<1>5. \A i \in DOMAIN t : (i \in DOMAIN s /\ t[i] = s[i]) \/ t[i] = e
  BY <1>4
<1>6. Reads(Q, g, h)
  <2>1. \A i \in DOMAIN t : Q[t[i]].user = g.user
    BY <1>2, <1>5 DEF Reads
  <2> QED BY <1>2, <1>4, <2>1 DEF Reads, Early
<1>7. Counts(Q, c, g, h)
  <2> SUFFICES ASSUME NEW f \in DOMAIN P
               PROVE  /\ TimesIn(t, f) <= FromReplay(f, h) + 1
                      /\ Expects(Q[f], c, g) => TimesIn(t, f) <= FromReplay(f, h)
    BY <1>1, <1>2 DEF Counts
  <2>1. TimesIn(s, f) \in Nat /\ FromReplay(f, h) \in Nat
    BY <1>3, TimesAre DEF FromReplay
  <2>2. /\ TimesIn(s, f) <= FromReplay(f, h) + 1
        /\ Expects(P[f], c, k) => TimesIn(s, f) <= FromReplay(f, h)
    BY <1>2 DEF Counts
  <2>3. TimesIn(t, f) = IF e = f THEN TimesIn(s, f) + 1 ELSE TimesIn(s, f)
    BY <1>3, TimesAppend
  <2>4. CASE f = e
    BY <2>1, <2>2, <2>3, <2>4
  <2>5. CASE f # e
    <3>1. Expects(Q[f], c, g) => Expects(P[f], c, k)
      BY <2>5 DEF Expects
    <3> QED BY <2>2, <2>3, <2>5, <3>1
  <2> QED BY <2>4, <2>5
<1>8. Replayed(Q, o, g, h)
  <2>1. Due(Q, g, h) = Due(Q, k, h)
    BY DEF Due
  <2>2. Got(k) \subseteq Got(g)
    <3>1. Range(s) \subseteq Range(t)
      BY <1>4 DEF Range
    <3> QED BY <1>2, <3>1 DEF Got
  <2>3. k.lastEventID \in Nat /\ h.replay \in Nat
    <3>1. k.lastEventID = 0 \/ k.lastEventID = MaxEvents + 1 \/ k.lastEventID \in 1..Len(Q)
      BY <1>1 DEF Reads, NoID, EphemeralID
    <3>2. h.replay \in 0..Len(Q)
      BY DEF Reads
    <3> QED BY <1>1, <3>1, <3>2, EventStreamAssumption
  <2> QED BY <2>1, <2>2, <2>3, FiniteDue, EnoughAndMore DEF Replayed
<1> QED BY <1>6, <1>7, <1>8

LEMMA WriteDeliveries ==
  ASSUME Inductive, Deliveries, NEW e \in Published, Write(e)
  PROVE  Deliveries'
<1> DEFINE q == [publishing[e] EXCEPT !.checked = NoConn]
<1>1. PICK c : /\ c = publishing[e].checked /\ c # NoConn
               /\ conn' = IF Receives(c)
                          THEN [conn EXCEPT ![c].sent = Append(@, e)] ELSE conn
  BY DEF Write
<1>2. publishing' = [publishing EXCEPT ![e] = q] /\ UNCHANGED <<buf, history>>
  BY DEF Write
<1>3. publishing[e] \in Publication
  BY PublicationOf
<1>4. /\ q \in Publication /\ q.todo = publishing[e].todo /\ q.user = publishing[e].user
      /\ q.pc = publishing[e].pc /\ q.checked = NoConn
  BY <1>3 DEF Publication, NoConn
<1> HIDE DEF q
<1>5. Addresses(publishing[e], conn)
  BY DEF Deliveries
<1>6. /\ c \in Accepted /\ c \notin publishing[e].todo /\ publishing[e].pc # "stored"
      /\ conn[c].pc \notin Early /\ conn[c].user = publishing[e].user
  BY <1>1, <1>5 DEF Addresses, Accepted
<1>7. \A d \in Accepted : Expects(q, d, conn[d]) => Expects(publishing[e], d, conn[d])
  <2>1. \A d \in Accepted : d # NoConn
    BY HandlerOf DEF Conn, NoConn
  <2> QED BY <1>4, <2>1 DEF Expects
<1>8. /\ Held' /\ Dropped' = Dropped /\ Published' = Published
      /\ publishing'[e] = q /\ \A f \in Published \ {e} : publishing'[f] = publishing[f]
      /\ \A d \in Accepted : /\ Reads(publishing', conn[d], history[d])
                             /\ Replayed(publishing', Dropped, conn[d], history[d])
                             /\ Counts(publishing', d, conn[d], history[d])
  BY <1>2, <1>4, <1>7, DeliveryGoesOn
<1>9. \A f \in Published : Addresses(publishing'[f], conn)
  <2>1. NoConn \notin q.todo
    BY <1>4 DEF Publication, Conn, NoConn
  <2>2. Addresses(q, conn)
    BY <1>4, <1>5, <2>1 DEF Addresses
  <2> QED BY <1>8, <2>2 DEF Deliveries
<1>10. CASE ~Receives(c)
  <2>1. conn' = conn
    BY <1>1, <1>10
  <2> HIDE DEF Dropped
  <2> QED BY <1>2, <1>8, <1>9, <2>1 DEF Deliveries, InStep, Accepted
<1>11. CASE Receives(c)
  <2> DEFINE g == [conn[c] EXCEPT !.sent = Append(@, e)]
  <2>1. conn' = [conn EXCEPT ![c] = g]
    BY <1>1, <1>11
  <2>2. IsHandler(conn[c])
    BY <1>6, HandlerOf
  <2>3. /\ g.sent = Append(conn[c].sent, e) /\ g.lastEventID = conn[c].lastEventID
        /\ g.pc = conn[c].pc /\ g.user = conn[c].user /\ g.closed = conn[c].closed
        /\ g.gone = conn[c].gone /\ g.missed = conn[c].missed
    BY <2>2 DEF IsHandler
  <2> HIDE DEF g
  <2>4. /\ Accepted' = Accepted /\ conn'[c] = g
        /\ \A d \in Accepted \ {c} : conn'[d] = conn[d]
    BY <1>6, <2>1 DEF Accepted
  <2>5. Reads(publishing', g, history[c]) /\ Counts(publishing', c, g, history[c])
        /\ Replayed(publishing', Dropped, g, history[c])
    <3> HIDE DEF Dropped
    <3>1. PICK k, h, o, P, Q : /\ k = conn[c] /\ h = history[c] /\ o = Dropped
                               /\ P = publishing /\ Q = publishing'
      OBVIOUS
    <3>2. P \in Seq(Publication) /\ Q \in Seq(Publication) /\ Len(Q) = Len(P)
      <4>1. publishing \in Seq(Publication) /\ publishing' \in Seq(Publication)
        BY <1>2, <1>4, PublicationsAre, PublicationMoves
      <4>2. Len(publishing') = Len(publishing)
        BY <1>2, <4>1
      <4> QED BY <3>1, <4>1, <4>2
    <3>3. /\ e \in DOMAIN P /\ Q[e] = q /\ P[e].user = k.user /\ Q[e].user = P[e].user
          /\ \A f \in DOMAIN P \ {e} : Q[f] = P[f]
      BY <1>4, <1>6, <1>8, <3>1 DEF Published
    <3>4. Expects(P[e], c, k) /\ ~Expects(q, c, g) /\ k.pc \notin Early
      BY <1>1, <1>4, <1>6, <2>3, <3>1 DEF Expects
    <3>5. Counts(P, c, k, h)
      BY <1>6, <3>1 DEF Deliveries, InStep
    <3>6. Reads(Q, k, h) /\ Replayed(Q, o, k, h)
      BY <1>6, <1>8, <3>1
    <3>7. IsList(k.sent)
      BY <2>2, <3>1 DEF IsHandler
    <3>8. /\ g.user = k.user /\ g.pc = k.pc /\ g.closed = k.closed /\ g.gone = k.gone
          /\ g.lastEventID = k.lastEventID /\ g.missed = k.missed /\ g.sent = Append(k.sent, e)
      BY <2>3, <3>1
    <3>9. Reads(Q, g, h) /\ Counts(Q, c, g, h) /\ Replayed(Q, o, g, h)
      BY <3>2, <3>3, <3>4, <3>5, <3>6, <3>7, <3>8, WrittenInStep
    <3> QED BY <3>1, <3>9
  <2>6. ASSUME NEW d \in Accepted PROVE InStep(d)'
    <3> HIDE DEF Dropped
    <3>1. CASE d = c
      BY <1>2, <1>8, <2>4, <2>5, <3>1 DEF InStep
    <3>2. CASE d # c
      <4>1. conn'[d] = conn[d]
        BY <2>4, <3>2
      <4> QED BY <1>2, <1>8, <4>1 DEF InStep
    <3> QED BY <3>1, <3>2
  <2>7. \A f \in Published : Addresses(publishing'[f], conn')
    <3>1. \A d \in Accepted : conn'[d].user = conn[d].user /\ conn'[d].pc = conn[d].pc
      BY <2>3, <2>4
    <3> QED BY <1>9, <2>4, <3>1 DEF Addresses, Accepted
  <2> QED BY <1>8, <2>4, <2>6, <2>7 DEF Deliveries
<1> QED BY <1>10, <1>11

LEMMA DeliveriesNext == Inductive /\ Deliveries /\ [Next]_vars => Deliveries'
<1> SUFFICES ASSUME Inductive, Deliveries, [Next]_vars PROVE Deliveries'
  OBVIOUS
<1>1. CASE \E u \in User : Accept(u) \/ Publish(u)
  BY <1>1, AcceptDeliveries, PublishDeliveries
<1>2. ASSUME NEW c \in Accepted,
             Handle(c) \/ ConnectionTimeout(c) \/ ClientGone(c) \/ FallSilent(c) \/ Heartbeat(c)
      PROVE  Deliveries'
  BY <1>2, QuietHandler, GetEventsSinceDeliveries, SendMissedDeliveries, SubscribeDeliveries
     DEF Handle
<1>3. CASE CleanupDeadConnections
  BY <1>3, CleanupDeliveries
<1>4. ASSUME NEW e \in Published, Deliver(e)
      PROVE  Deliveries'
  BY <1>4, CopyHandlersDeliveries, CheckClosedDeliveries, WriteDeliveries DEF Deliver
<1>5. CASE UNCHANGED vars
  <2>1. UNCHANGED <<buf, publishing, conn, history>>
    BY <1>5 DEF vars
  <2>2. Held' /\ Dropped' = Dropped
    BY <2>1 DEF Held, Deliveries, Dropped
  <2> HIDE DEF Dropped
  <2> QED BY <2>1, <2>2 DEF Deliveries, InStep, Accepted, Published
<1> QED BY <1>1, <1>2, <1>3, <1>4, <1>5 DEF Next
-------------------------------------------------------------------------------
(* A stream's record, with what was sent to it and what is to be sent.      *)
LEMMA RecordOf ==
  ASSUME Inductive, Deliveries, NEW c \in Accepted
  PROVE  /\ conn[c].missed \in Seq(Event) /\ conn[c].sent \in Seq(1..MaxEvents)
         /\ conn[c].lastEventID \in 0..EphemeralID
         /\ \A e \in Range(conn[c].sent) : publishing[e].user = UserOf(c)
<1>1. PICK k, h, P : k = conn[c] /\ h = history[c] /\ P = publishing
  OBVIOUS
<1>2. Reads(P, k, h)
  BY <1>1 DEF Deliveries, InStep
<1>3. /\ P \in Seq(Publication) /\ Len(P) \in Nat /\ DOMAIN P = 1..Len(P)
      /\ Len(P) <= MaxEvents /\ MaxEvents \in Nat
  BY <1>1, PublicationsAre, EventStreamAssumption DEF Deliveries, Held, Published
<1>4. k.missed \in Seq(Event)
  BY <1>2, SameBuffer DEF Reads, Store!PicksFrom
<1>5. PICK s : s = k.sent
  OBVIOUS
<1>6. s \in Seq(1..Len(P)) /\ \A i \in DOMAIN s : P[s[i]].user = k.user
  BY <1>2, <1>3, <1>5 DEF Reads
<1>7. s \in Seq(1..MaxEvents)
  <2>1. 1..Len(P) \subseteq 1..MaxEvents
    BY <1>3
  <2>2. PICK S, T : S = 1..Len(P) /\ T = 1..MaxEvents
    OBVIOUS
  <2>3. s \in Seq(S) /\ S \subseteq T
    BY <1>6, <2>1, <2>2
  <2>4. s \in Seq(T)
    BY <2>3
  <2> QED BY <2>2, <2>4
<1>8. k.lastEventID \in 0..EphemeralID
  <2>1. k.lastEventID = 0 \/ k.lastEventID = MaxEvents + 1 \/ k.lastEventID \in 1..Len(P)
    BY <1>2, <1>3 DEF Reads, NoID, EphemeralID
  <2> QED BY <1>3, <2>1 DEF EphemeralID
<1>9. \A e \in Range(s) : P[e].user = k.user
  BY <1>6 DEF Range
<1> QED BY <1>1, <1>4, <1>5, <1>7, <1>8, <1>9 DEF UserOf

(* What the streams were sent stays in step with the buffer, the replay and *)
(* the Publish calls (Deliveries, an invariant next to Inductive).          *)
THEOREM EventStreamDeliveries == Spec => []Deliveries
<1>1. Inductive /\ Deliveries /\ [Next]_vars => Inductive' /\ Deliveries'
  BY InductiveNext, DeliveriesNext
<1> QED BY InductiveInit, DeliveriesInit, <1>1, PTL DEF Spec

(* The shape of the bus, the manager and the handlers; and whatever a       *)
(* stream is sent, by replay or live, is an event of its own user           *)
(* (event_store.go:89, event_bus.go:42).                                    *)
THEOREM EventStreamTypes == Spec => []TypeOK
<1>1. Inductive /\ Deliveries => TypeOK
  <2> SUFFICES ASSUME Inductive, Deliveries PROVE TypeOK
    OBVIOUS
  <2>1. buf.events \in Seq(Event)
    BY SameBuffer DEF Deliveries, Held, Store!HoldsAfter
  <2>2. conn \in Seq([user : User, pc : Stage, closed : BOOLEAN, gone : BOOLEAN,
                      silent : BOOLEAN, lastEventID : 0..EphemeralID,
                      missed : Seq(Event), sent : Seq(1..MaxEvents)])
    <3> DEFINE R == [user : User, pc : Stage, closed : BOOLEAN, gone : BOOLEAN,
                     silent : BOOLEAN, lastEventID : 0..EphemeralID,
                     missed : Seq(Event), sent : Seq(1..MaxEvents)]
    <3>1. ASSUME NEW c \in Accepted PROVE conn[c] \in R
      BY HandlerOf, RecordOf DEF IsHandler
    <3> HIDE DEF R
    <3>2. /\ Len(conn) \in Nat /\ Accepted = 1..Len(conn)
          /\ conn = [i \in 1..Len(conn) |-> conn[i]]
      BY ListDomain DEF Inductive, Shape, Handlers, Accepted
    <3>3. conn \in Seq(R)
      BY <3>1, <3>2
    <3> QED BY <3>3 DEF R
  <2> QED BY <2>1, <2>2, RecordOf DEF TypeOK, Inductive, Shape, Publication, Stage
<1> QED BY <1>1, EventStreamInvariant, EventStreamDeliveries, PTL

(* A stream is sent an event at most twice, and twice only if it was stored *)
(* before the stream's replay: once by the replay, once by its Publish      *)
(* (sse_handler.go: replayEvents before Subscribe).                         *)
THEOREM NoThirdTime == Spec => []DuplicatesOnlyAcrossReplay
<1>1. Inductive /\ Deliveries => DuplicatesOnlyAcrossReplay
  <2> SUFFICES ASSUME Inductive, Deliveries, NEW c \in Accepted, NEW e \in Published, Times(e, c) > 1
               PROVE  Times(e, c) = 2 /\ e <= history[c].replay
    BY DEF DuplicatesOnlyAcrossReplay
  <2>1. Times(e, c) = TimesIn(conn[c].sent, e)
    BY DEF Times, TimesIn
  <2>2. Times(e, c) \in Nat
    BY <2>1, TimesAre, HandlerOf DEF IsHandler
  <2>3. Times(e, c) <= FromReplay(e, history[c]) + 1
    BY <2>1 DEF Deliveries, InStep, Counts, Published
  <2> QED BY <2>2, <2>3 DEF FromReplay
<1> QED BY <1>1, EventStreamInvariant, EventStreamDeliveries, PTL

(* An undisturbed stream whose cursor the store remembers has been sent all *)
(* of its user's buffered events between the cursor and the replay, or as   *)
(* many as the limit allows (replayEvents, GetSince).                       *)
THEOREM ReplayComplete == Spec => []ReplayIsComplete
<1>1. Inductive /\ Deliveries => ReplayIsComplete
  <2> SUFFICES ASSUME Inductive, Deliveries, NEW c \in Accepted,
                      conn[c].pc = "streaming", ~conn[c].closed, ~conn[c].gone,
                      conn[c].lastEventID \in DOMAIN buf.eventIndex,
                      NEW D, D = {e \in Range(buf.events) :
                                    /\ e.user = UserOf(c)
                                    /\ e.id > conn[c].lastEventID
                                    /\ e.id <= history[c].replay}
               PROVE  Cardinality({e.id : e \in D} \cap Range(conn[c].sent))
                        >= (IF Cardinality(D) < Limit THEN Cardinality(D) ELSE Limit)
    BY DEF ReplayIsComplete
  <2>1. PICK k, h, o, P, l : /\ k = conn[c] /\ h = history[c] /\ o = Dropped
                             /\ P = publishing /\ l = LogOf(publishing)
    OBVIOUS
  <2>2. /\ Store!IsLog(l) /\ Len(l) = Len(P) /\ o \in Nat /\ o <= Len(P) /\ Len(P) \in Nat
        /\ Store!HoldsAfter(buf, l, o)
        /\ \A p \in 1..Len(P) : l[p] = [id |-> p, user |-> P[p].user, ts |-> 0]
    BY <2>1, PublicationsAre, HeldSays, LogIs DEF Deliveries, Held
  <2>3. Reads(P, k, h) /\ Replayed(P, o, k, h)
    BY <2>1 DEF Deliveries, InStep
  <2>4. PICK i, j : i = k.lastEventID /\ j = h.replay
    OBVIOUS
  <2>5. i \in (o + 1)..Len(P) /\ j \in 0..Len(P) /\ i \in Nat /\ j \in Nat
    <3>1. i \in (o + 1)..Len(P)
      BY <2>1, <2>2, <2>4 DEF Store!HoldsAfter
    <3>2. j \in 0..Len(P)
      BY <2>3, <2>4 DEF Reads
    <3> QED BY <2>2, <3>1, <3>2
  <2>6. /\ \A p \in (o + 1)..Len(P) : l[p] \in Range(buf.events)
        /\ \A e \in Range(buf.events) : \E p \in (o + 1)..Len(P) : e = l[p]
    <3>1. PICK b, n : b = buf.events /\ n = Len(P) - o
      OBVIOUS
    <3>2. n \in Nat /\ DOMAIN b = 1..n /\ \A x \in 1..n : b[x] = l[o + x]
      BY <2>2, <3>1 DEF Store!HoldsAfter
    <3>3. ASSUME NEW p \in (o + 1)..Len(P) PROVE l[p] \in Range(b)
      <4>1. p - o \in 1..n /\ o + (p - o) = p
        BY <2>2, <3>1
      <4> QED BY <3>2, <4>1 DEF Range
    <3>4. ASSUME NEW x \in 1..n PROVE o + x \in (o + 1)..Len(P)
      BY <2>2, <3>1
    <3>5. Range(b) = {b[x] : x \in 1..n}
      BY <3>2 DEF Range
    <3>6. \A e \in Range(b) : \E p \in (o + 1)..Len(P) : e = l[p]
      BY <3>2, <3>4, <3>5
    <3> QED BY <3>1, <3>3, <3>6
  <2>7. PICK due : due = Due(P, k, h)
    OBVIOUS
  <2>8. due = {p \in (i + 1)..j : P[p].user = k.user}
    BY <2>4, <2>7 DEF Due, Between
  <2>9. \A e \in D : e.id \in due /\ e = l[e.id]
    <3> SUFFICES ASSUME NEW e \in D PROVE e.id \in due /\ e = l[e.id]
      OBVIOUS
    <3>1. PICK p \in (o + 1)..Len(P) : e = l[p]
      BY <2>6
    <3>2. p \in 1..Len(P)
      BY <2>2
    <3>3. e.id = p /\ e.user = P[p].user
      <4>1. l[p] = [id |-> p, user |-> P[p].user, ts |-> 0]
        BY <2>2, <3>2
      <4> QED BY <3>1, <4>1
    <3>4. p > i /\ p <= j /\ P[p].user = k.user
      BY <2>1, <2>4, <3>3 DEF UserOf
    <3> QED BY <2>2, <2>5, <2>8, <3>1, <3>3, <3>4
  <2>10. \A p \in due : \E e \in D : e.id = p
    <3> SUFFICES ASSUME NEW p \in due PROVE l[p] \in D /\ l[p].id = p
      OBVIOUS
    <3>1. p \in (i + 1)..j /\ P[p].user = k.user
      BY <2>8
    <3>2. p \in (o + 1)..Len(P) /\ p \in 1..Len(P) /\ p > i /\ p <= j
      BY <2>2, <2>5, <3>1
    <3>3. l[p].id = p /\ l[p].user = P[p].user
      <4>1. l[p] = [id |-> p, user |-> P[p].user, ts |-> 0]
        BY <2>2, <3>2
      <4> QED BY <4>1
    <3>4. l[p] \in Range(buf.events)
      BY <2>6, <3>2
    <3> QED BY <2>1, <2>4, <3>1, <3>2, <3>3, <3>4 DEF UserOf
  <2>11. {e.id : e \in D} = due
    BY <2>9, <2>10
  <2>12. IsFiniteSet(due) /\ Cardinality(due) \in Nat
    BY <2>4, <2>5, <2>7, FiniteDue, FS_CardinalityType
  <2>13. Cardinality(D) \in Nat /\ Cardinality(D) <= Cardinality(due)
    <3> DEFINE f == [e \in D |-> e.id]
    <3>1. f \in [D -> due] /\ \A d, e \in D : f[d] = f[e] => d = e
      BY <2>9
    <3> HIDE DEF f
    <3>2. f \in Injection(D, due)
      BY <3>1 DEF Injection, IsInjective
    <3> QED BY <2>12, <3>2, FS_Injection, FS_CardinalityType
  <2>14. PICK s : s = Range(k.sent)
    OBVIOUS
  <2>15. Enough(due, s)
    <3>1. k.missed = <<>>
      BY <2>1, <2>3 DEF Reads
    <3>2. Got(k) = s
      BY <2>14, <3>1, EmptyPicks DEF Got, IDs
    <3> QED BY <2>1, <2>3, <2>4, <2>5, <2>7, <3>2 DEF Replayed
  <2>16. Cardinality(due \cap s) \in Nat /\ Limit \in Nat
    <3>1. due \cap s \subseteq due
      OBVIOUS
    <3>2. IsFiniteSet(due \cap s)
      BY <2>12, <3>1, FS_Subset
    <3> QED BY <3>2, FS_CardinalityType, EventStreamAssumption
  <2>17. Cardinality(due \cap s) >= (IF Cardinality(D) < Limit THEN Cardinality(D) ELSE Limit)
    <3>1. CASE due \subseteq s
      <4>1. Cardinality(due \cap s) = Cardinality(due)
        <5>1. due \cap s = due
          BY <3>1
        <5> QED BY <5>1
      <4>2. PICK n, d : n = Cardinality(due) /\ d = Cardinality(D)
        OBVIOUS
      <4>3. n \in Nat /\ d \in Nat /\ d <= n /\ Limit \in Nat
        BY <2>12, <2>13, <2>16, <4>2
      <4>4. n >= (IF d < Limit THEN d ELSE Limit)
        BY <4>3
      <4> QED BY <4>1, <4>2, <4>4
    <3>2. CASE Cardinality(due \cap s) >= Limit
      BY <2>13, <2>16, <3>2
    <3> QED BY <2>15, <3>1, <3>2 DEF Enough
  <2> QED BY <2>1, <2>11, <2>14, <2>17
<1> QED BY <1>1, EventStreamInvariant, EventStreamDeliveries, PTL
===============================================================================
