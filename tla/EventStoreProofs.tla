--------------------------- MODULE EventStoreProofs ----------------------------
(* Proofs about the replay buffer.  The inductive invariant StoreInv says   *)
(* that buf holds exactly the events of the log after position Forgotten,   *)
(* in each of its three structures, and that every client has events of its *)
(* user, in the order of the log.  From it follow the shape (TypeOK), the   *)
(* agreement of the structures (StructuresAgree) and the refinement of      *)
(* EventLog; the last part proves what EventLog promises its readers.       *)
(*                                                                          *)
(* The loops of Cleanup and GetSince are recursive functions: that they     *)
(* have a value and what it is goes by induction over their iterations      *)
(* (EveryNumber, on the set of iteration counts for which it holds).        *)
EXTENDS EventStore, FiniteSetTheorems, SequenceTheorems, WellFoundedInduction, TLAPS

(* A log: the ID of an event is its position.                               *)
IsLog(l) == l \in Seq(Event) /\ \A p \in 1..Len(l) : l[p].id = p

(* s holds the events of u after position o of the log l, in its order.     *)
ListsEvents(s, l, o, u) ==
  /\ s \in Seq(Event) /\ InOrder(s)
  /\ \A k \in 1..Len(s) :
       s[k].user = u /\ s[k].id \in (o + 1)..Len(l) /\ s[k] = l[s[k].id]
  /\ \A p \in (o + 1)..Len(l) : l[p].user = u => \E k \in 1..Len(s) : s[k] = l[p]

(* The buffer b holds the events after position o of the log l.             *)
HoldsAfter(b, l, o) ==
  /\ o \in Nat /\ o <= Len(l)
  /\ b.events \in Seq(Event) /\ Len(b.events) = Len(l) - o
  /\ \A k \in 1..Len(b.events) : b.events[k] = l[o + k]
  /\ DOMAIN b.eventIndex = (o + 1)..Len(l)
  /\ \A p \in (o + 1)..Len(l) : b.eventIndex[p] = l[p]
  /\ DOMAIN b.userEvents = {l[p].user : p \in (o + 1)..Len(l)}
  /\ \A u \in DOMAIN b.userEvents : ListsEvents(b.userEvents[u], l, o, u)
-------------------------------------------------------------------------------
(* An entry of a log is an event whose ID is its position.                  *)
LEMMA LogEntry ==
  ASSUME NEW l, IsLog(l), NEW p \in 1..Len(l)
  PROVE  l[p] \in Event /\ l[p].id = p /\ Len(l) \in Nat
BY ElementOfSeq DEF IsLog

(* Without an entry in the map, a user's list is the empty one.             *)
LEMMA EveryUsersList ==
  ASSUME NEW b, NEW l, NEW o, IsLog(l), HoldsAfter(b, l, o), NEW u
  PROVE  ListsEvents(EventsOfUser(b, u), l, o, u)
<1>1. CASE u \in DOMAIN b.userEvents
  BY <1>1 DEF HoldsAfter, EventsOfUser
<1>2. CASE u \notin DOMAIN b.userEvents
  <2>1. \A p \in (o + 1)..Len(l) : l[p].user # u
    BY <1>2 DEF HoldsAfter
  <2> QED BY <1>2, <2>1 DEF EventsOfUser, ListsEvents, InOrder
<1> QED BY <1>1, <1>2

(* An empty buffer (Clear, event_store.go:169-176) holds what follows the   *)
(* end of the log.                                                          *)
LEMMA EmptyHolds ==
  ASSUME NEW l, IsLog(l)
  PROVE  HoldsAfter(EmptyBuffer, l, Len(l))
<1>1. Len(l) \in Nat
  BY DEF IsLog
<1>2. (Len(l) + 1)..Len(l) = {}
  BY <1>1
<1> QED BY <1>1, <1>2 DEF HoldsAfter, EmptyBuffer

(* A list without its first element.                                        *)
LEMMA WithoutFirst ==
  ASSUME NEW s \in Seq(Event), InOrder(s), Len(s) > 0, NEW t, t = Without(s, s[1])
  PROVE  /\ t \in Seq(Event) /\ Len(t) = Len(s) - 1
         /\ \A k \in 1..Len(t) : t[k] = s[k + 1]
<1>1. /\ Len(s) \in Nat /\ DOMAIN s = 1..Len(s) /\ 1 \in 1..Len(s)
      /\ \A k \in 1..Len(s) : s[k] \in Event /\ s[k].id \in Nat
  <2>1. Len(s) \in Nat /\ DOMAIN s = 1..Len(s) /\ 1 \in 1..Len(s)
    OBVIOUS
  <2>2. \A k \in 1..Len(s) : s[k] \in Event
    BY ElementOfSeq
  <2>3. \A e \in Event : e.id \in Nat
    BY DEF Event
  <2> QED BY <2>1, <2>2, <2>3
<1>2. s[1] \in Range(s)
  BY <1>1 DEF Range
<1>3. \A k \in 1..Len(s) : s[k] = s[1] => k = 1
  BY <1>1 DEF InOrder
<1>4. (CHOOSE k \in DOMAIN s : s[k] = s[1]) = 1
  BY <1>1, <1>3
<1>5. Without(s, s[1]) = SubSeq(s, 1, 0) \o SubSeq(s, 2, Len(s))
  <2> DEFINE i == CHOOSE k \in DOMAIN s : s[k] = s[1]
  <2>1. Without(s, s[1]) = SubSeq(s, 1, i - 1) \o SubSeq(s, i + 1, Len(s))
    BY <1>2 DEF Without
  <2>2. i = 1
    BY <1>4
  <2> HIDE DEF i
  <2>3. i - 1 = 0 /\ i + 1 = 2
    BY <2>2
  <2> QED BY <2>1, <2>3
<1>6. SubSeq(s, 1, 0) = <<>>
  BY <1>1
<1>7. /\ SubSeq(s, 2, Len(s)) \in Seq(Event) /\ Len(SubSeq(s, 2, Len(s))) = Len(s) - 1
      /\ \A k \in 1..(Len(s) - 1) : SubSeq(s, 2, Len(s))[k] = s[k + 1]
  BY <1>1, SubSeqProperties
<1>8. Without(s, s[1]) = SubSeq(s, 2, Len(s))
  BY <1>5, <1>6, <1>7
<1> QED BY <1>7, <1>8

(* The oldest event is the first one in its user's list.                    *)
LEMMA FrontLeavesList ==
  ASSUME NEW l, IsLog(l), NEW o \in Nat, o < Len(l), NEW s,
         ListsEvents(s, l, o, l[o + 1].user)
  PROVE  ListsEvents(Without(s, l[o + 1]), l, o + 1, l[o + 1].user)
<1> DEFINE u == l[o + 1].user
           t == Without(s, l[o + 1])
<1>1. /\ Len(l) \in Nat /\ l \in Seq(Event) /\ o + 1 \in 1..Len(l) /\ l[o + 1].id = o + 1
      /\ \A p \in 1..Len(l) : l[p].id = p
  BY DEF IsLog
<1>2. /\ s \in Seq(Event) /\ InOrder(s) /\ Len(s) \in Nat /\ DOMAIN s = 1..Len(s)
      /\ \A k \in 1..Len(s) :
           s[k].user = u /\ s[k].id \in (o + 1)..Len(l) /\ s[k] = l[s[k].id]
  BY DEF ListsEvents
<1>3. PICK j \in 1..Len(s) : s[j] = l[o + 1]
  BY <1>1 DEF ListsEvents
<1>4. j = 1
  <2>1. 1 \in 1..Len(s) /\ s[1].id >= o + 1 /\ s[1].id \in Nat
    BY <1>1, <1>2, <1>3
  <2>2. s[j].id = o + 1
    BY <1>1, <1>3
  <2>3. 1 < j => s[1].id < s[j].id
    BY <1>2, <1>3, <2>1 DEF InOrder
  <2> QED BY <1>3, <2>1, <2>2, <2>3
<1>5. /\ t \in Seq(Event) /\ Len(t) = Len(s) - 1
      /\ \A k \in 1..Len(t) : t[k] = s[k + 1]
  <2>1. Len(s) > 0 /\ t = Without(s, s[1])
    BY <1>2, <1>3, <1>4
  <2> HIDE DEF t
  <2> QED BY <1>2, <2>1, WithoutFirst
<1> HIDE DEF t
<1>6. InOrder(t)
  <2>1. DOMAIN t = 1..Len(t)
    BY <1>5
  <2>2. ASSUME NEW j1 \in 1..Len(t), NEW k \in 1..Len(t), j1 < k
        PROVE  t[j1].id < t[k].id
    <3>1. j1 + 1 \in 1..Len(s) /\ k + 1 \in 1..Len(s) /\ j1 + 1 < k + 1
      BY <1>2, <1>5, <2>2
    <3>2. s[j1 + 1].id < s[k + 1].id
      BY <1>2, <3>1 DEF InOrder
    <3> QED BY <1>5, <3>2
  <2> QED BY <2>1, <2>2 DEF InOrder
<1>7. ASSUME NEW k \in 1..Len(t)
      PROVE  t[k].user = u /\ t[k].id \in (o + 2)..Len(l) /\ t[k] = l[t[k].id]
  <2>1. k + 1 \in 1..Len(s) /\ 1 \in 1..Len(s) /\ 1 < k + 1 /\ t[k] = s[k + 1]
    BY <1>2, <1>5
  <2>2. s[1].id < s[k + 1].id
    BY <1>2, <2>1 DEF InOrder
  <2>3. s[1].id = o + 1
    BY <1>1, <1>3, <1>4
  <2> QED BY <1>1, <1>2, <2>1, <2>2, <2>3
<1>8. ASSUME NEW p \in (o + 2)..Len(l), l[p].user = u
      PROVE  \E k \in 1..Len(t) : t[k] = l[p]
  <2>1. PICK k \in 1..Len(s) : s[k] = l[p]
    BY <1>1, <1>8 DEF ListsEvents
  <2>2. k # 1
    BY <1>1, <1>3, <1>4, <2>1
  <2>3. k - 1 \in 1..Len(t) /\ t[k - 1] = s[k]
    BY <1>2, <1>5, <2>2
  <2> QED BY <2>1, <2>3
<1>9. o + 1 + 1 = o + 2
  OBVIOUS
<1> QED BY <1>5, <1>6, <1>7, <1>8, <1>9 DEF ListsEvents, t

(* The lists of the other users stay as they are.                           *)
LEMMA FrontOfOther ==
  ASSUME NEW l, IsLog(l), NEW o \in Nat, o < Len(l), NEW s, NEW u, u # l[o + 1].user,
         ListsEvents(s, l, o, u)
  PROVE  ListsEvents(s, l, o + 1, u)
<1>1. Len(l) \in Nat
  BY DEF IsLog
<1>2. \A k \in 1..Len(s) : s[k].id \in (o + 1 + 1)..Len(l)
  <2> SUFFICES ASSUME NEW k \in 1..Len(s) PROVE s[k].id \in (o + 1 + 1)..Len(l)
    OBVIOUS
  <2>1. s[k].user = u /\ s[k].id \in (o + 1)..Len(l) /\ s[k] = l[s[k].id]
    BY DEF ListsEvents
  <2>2. s[k].id # o + 1
    BY <2>1
  <2> QED BY <1>1, <2>1, <2>2
<1>3. \A p \in (o + 1 + 1)..Len(l) : p \in (o + 1)..Len(l)
  BY <1>1
<1> QED BY <1>2, <1>3 DEF ListsEvents

(* removeElementLocked on the front of a buffer that is not empty.          *)
LEMMA RemoveFrontHolds ==
  ASSUME NEW b, NEW l, NEW o, IsLog(l), HoldsAfter(b, l, o), o < Len(l)
  PROVE  HoldsAfter(RemoveFront(b), l, o + 1)
<1> DEFINE e == l[o + 1]
           rest == Without(EventsOfUser(b, e.user), e)
           n == RemoveFront(b)
<1>1. /\ o \in Nat /\ Len(l) \in Nat /\ o + 1 \in (o + 1)..Len(l) /\ o + 1 \in 1..Len(l)
      /\ b.events \in Seq(Event) /\ Len(b.events) = Len(l) - o /\ 1 \in 1..Len(b.events)
      /\ \A k \in 1..Len(b.events) : b.events[k] = l[o + k]
  BY DEF HoldsAfter, IsLog
<1>2. Head(b.events) = e /\ e.id = o + 1
  BY <1>1 DEF IsLog
<1>3. e.user \in DOMAIN b.userEvents
  BY <1>1 DEF HoldsAfter
<1>4. ListsEvents(rest, l, o + 1, e.user)
  BY <1>1, EveryUsersList, FrontLeavesList
<1>5. \A u \in DOMAIN b.userEvents : u # e.user => ListsEvents(b.userEvents[u], l, o + 1, u)
  BY <1>1, FrontOfOther DEF HoldsAfter
<1> HIDE DEF rest, e
<1>6. /\ n.events = Tail(b.events)
      /\ n.eventIndex = Restrict(b.eventIndex, DOMAIN b.eventIndex \ {o + 1})
      /\ n.userEvents = IF rest = <<>>
                        THEN Restrict(b.userEvents, DOMAIN b.userEvents \ {e.user})
                        ELSE [b.userEvents EXCEPT ![e.user] = rest]
  BY <1>2 DEF RemoveFront, rest
<1> HIDE DEF n
<1>7. /\ n.events \in Seq(Event) /\ Len(n.events) = Len(l) - (o + 1)
      /\ \A k \in 1..Len(n.events) : n.events[k] = l[o + 1 + k]
  <2>1. /\ Tail(b.events) \in Seq(Event) /\ Len(Tail(b.events)) = Len(b.events) - 1
        /\ \A k \in 1..(Len(b.events) - 1) : Tail(b.events)[k] = b.events[k + 1]
    BY <1>1
  <2> QED BY <1>1, <1>6, <2>1
<1>8. /\ DOMAIN n.eventIndex = (o + 1 + 1)..Len(l)
      /\ \A p \in (o + 1 + 1)..Len(l) : n.eventIndex[p] = l[p]
  <2>1. DOMAIN b.eventIndex = (o + 1)..Len(l) /\ \A p \in (o + 1)..Len(l) : b.eventIndex[p] = l[p]
    BY DEF HoldsAfter
  <2>2. DOMAIN b.eventIndex \ {o + 1} = (o + 1 + 1)..Len(l)
    BY <1>1, <2>1
  <2> QED BY <1>1, <1>6, <2>1, <2>2 DEF Restrict
<1>9. /\ DOMAIN n.userEvents = {l[p].user : p \in (o + 1 + 1)..Len(l)}
      /\ \A u \in DOMAIN n.userEvents : ListsEvents(n.userEvents[u], l, o + 1, u)
  <2>1. DOMAIN b.userEvents = {l[p].user : p \in (o + 1)..Len(l)}
    BY DEF HoldsAfter
  <2>2. \A p : p \in (o + 1)..Len(l) <=> p = o + 1 \/ p \in (o + 1 + 1)..Len(l)
    BY <1>1
  <2>3. DOMAIN b.userEvents = {e.user} \cup {l[p].user : p \in (o + 1 + 1)..Len(l)}
    BY <2>1, <2>2 DEF e
  <2>4. CASE rest = <<>>
    <3>1. \A p \in (o + 1 + 1)..Len(l) : l[p].user # e.user
      BY <1>4, <2>4 DEF ListsEvents
    <3>2. n.userEvents = Restrict(b.userEvents, DOMAIN b.userEvents \ {e.user})
      BY <1>6, <2>4
    <3>3. DOMAIN n.userEvents = DOMAIN b.userEvents \ {e.user}
          /\ \A u \in DOMAIN n.userEvents : n.userEvents[u] = b.userEvents[u]
      BY <3>2 DEF Restrict
    <3> QED BY <1>5, <2>3, <3>1, <3>3
  <2>5. CASE rest # <<>>
    <3>1. n.userEvents = [b.userEvents EXCEPT ![e.user] = rest]
      BY <1>6, <2>5
    <3>2. /\ DOMAIN n.userEvents = DOMAIN b.userEvents /\ n.userEvents[e.user] = rest
          /\ \A u \in DOMAIN n.userEvents : u # e.user => n.userEvents[u] = b.userEvents[u]
      BY <1>3, <3>1
    <3>3. \E p \in (o + 1 + 1)..Len(l) : l[p].user = e.user
      <4>1. rest \in Seq(Event) /\ 1 \in 1..Len(rest)
        <5>1. rest \in Seq(Event)
          BY <1>4 DEF ListsEvents
        <5> QED BY <2>5, <5>1
      <4>2. rest[1].user = e.user /\ rest[1].id \in (o + 1 + 1)..Len(l) /\ rest[1] = l[rest[1].id]
        BY <1>4, <4>1 DEF ListsEvents
      <4> QED BY <4>2
    <3>4. DOMAIN n.userEvents = {l[p].user : p \in (o + 1 + 1)..Len(l)}
      BY <2>3, <3>2, <3>3
    <3>5. ASSUME NEW u \in DOMAIN n.userEvents
          PROVE  ListsEvents(n.userEvents[u], l, o + 1, u)
      <4>1. CASE u = e.user
        BY <1>4, <3>2, <4>1
      <4>2. CASE u # e.user
        BY <1>5, <3>2, <4>2
      <4> QED BY <4>1, <4>2
    <3> QED BY <3>4, <3>5
  <2> QED BY <2>4, <2>5
<1> QED BY <1>1, <1>7, <1>8, <1>9 DEF HoldsAfter, n

(* PushBack of the event that the log gets.                                 *)
LEMMA PushBackHolds ==
  ASSUME NEW b, NEW l, NEW o, IsLog(l), HoldsAfter(b, l, o),
         NEW e \in Event, e.id = Len(l) + 1
  PROVE  IsLog(Append(l, e)) /\ HoldsAfter(PushBack(b, e), Append(l, e), o)
<1> DEFINE m == Append(l, e)
           n == PushBack(b, e)
<1>1. /\ o \in Nat /\ Len(l) \in Nat /\ o <= Len(l) /\ l \in Seq(Event)
      /\ \A p \in 1..Len(l) : l[p].id = p
      /\ b.events \in Seq(Event) /\ Len(b.events) = Len(l) - o
      /\ \A k \in 1..Len(b.events) : b.events[k] = l[o + k]
  BY DEF HoldsAfter, IsLog
<1>2. /\ m \in Seq(Event) /\ Len(m) = Len(l) + 1 /\ m[Len(l) + 1] = e
      /\ \A p \in 1..Len(l) : m[p] = l[p]
  BY <1>1
<1> HIDE DEF m
<1>3. IsLog(m)
  BY <1>1, <1>2, SMTT(30) DEF IsLog
<1>4. \A p : p \in (o + 1)..Len(m) <=> p \in (o + 1)..Len(l) \/ p = Len(l) + 1
  BY <1>1, <1>2
<1>5. /\ n.events = Append(b.events, e)
      /\ n.eventIndex = [i \in DOMAIN b.eventIndex \cup {e.id} |->
                           IF i = e.id THEN e ELSE b.eventIndex[i]]
      /\ n.userEvents = [u \in DOMAIN b.userEvents \cup {e.user} |->
                           IF u = e.user THEN Append(EventsOfUser(b, u), e)
                                         ELSE b.userEvents[u]]
  BY DEF PushBack
<1> HIDE DEF n
<1>6. /\ n.events \in Seq(Event) /\ Len(n.events) = Len(m) - o
      /\ \A k \in 1..Len(n.events) : n.events[k] = m[o + k]
  BY <1>1, <1>2, <1>5
<1>7. /\ DOMAIN n.eventIndex = (o + 1)..Len(m)
      /\ \A p \in (o + 1)..Len(m) : n.eventIndex[p] = m[p]
  <2>1. DOMAIN b.eventIndex = (o + 1)..Len(l) /\ \A p \in (o + 1)..Len(l) : b.eventIndex[p] = l[p]
    BY DEF HoldsAfter
  <2>2. DOMAIN n.eventIndex = (o + 1)..Len(m)
    BY <1>4, <1>5, <2>1
  <2> QED BY <1>1, <1>2, <1>4, <1>5, <2>1, <2>2
<1>8. DOMAIN n.userEvents = {m[p].user : p \in (o + 1)..Len(m)}
  <2>1. DOMAIN b.userEvents = {l[p].user : p \in (o + 1)..Len(l)}
    BY DEF HoldsAfter
  <2>2. \A p \in (o + 1)..Len(l) : p \in 1..Len(l) /\ m[p] = l[p]
    BY <1>1, <1>2
  <2>3. DOMAIN n.userEvents = DOMAIN b.userEvents \cup {e.user}
    BY <1>5
  <2>4. \A u : u \in DOMAIN n.userEvents <=> \E p \in (o + 1)..Len(m) : u = m[p].user
    BY <1>2, <1>4, <2>1, <2>2, <2>3
  <2> QED BY <2>4
<1>9. ASSUME NEW u \in DOMAIN n.userEvents
      PROVE  ListsEvents(n.userEvents[u], m, o, u)
  <2> DEFINE s == EventsOfUser(b, u)
  <2>1. ListsEvents(s, l, o, u)
    BY EveryUsersList
  <2>2. u # e.user => n.userEvents[u] = s
    BY <1>5 DEF EventsOfUser
  <2>3. u = e.user => n.userEvents[u] = Append(s, e)
    BY <1>5
  <2> HIDE DEF s
  <2>4. /\ s \in Seq(Event) /\ InOrder(s) /\ Len(s) \in Nat /\ DOMAIN s = 1..Len(s)
        /\ \A k \in 1..Len(s) : /\ s[k].user = u /\ s[k].id \in (o + 1)..Len(l)
                                /\ s[k] = l[s[k].id]
        /\ \A p \in (o + 1)..Len(l) : l[p].user = u => \E k \in 1..Len(s) : s[k] = l[p]
    BY <2>1 DEF ListsEvents
  <2>5. \A p \in (o + 1)..Len(l) : m[p] = l[p]
    BY <1>1, <1>2
  <2>6. \A k \in 1..Len(s) : s[k].id \in (o + 1)..Len(m) /\ s[k] = m[s[k].id]
    BY <1>4, <2>4, <2>5
  <2>7. CASE u # e.user
    <3>1. \A p \in (o + 1)..Len(m) : m[p].user = u => \E k \in 1..Len(s) : s[k] = m[p]
      BY <1>2, <1>4, <2>4, <2>5, <2>7
    <3>2. ListsEvents(s, m, o, u)
      BY <2>4, <2>6, <3>1 DEF ListsEvents
    <3> QED BY <2>2, <2>7, <3>2
  <2>8. CASE u = e.user
    <3> DEFINE t == Append(s, e)
    <3>1. /\ t \in Seq(Event) /\ Len(t) = Len(s) + 1 /\ DOMAIN t = 1..(Len(s) + 1)
          /\ t[Len(s) + 1] = e /\ \A k \in 1..Len(s) : t[k] = s[k]
      BY <2>4
    <3> HIDE DEF t
    <3>2. InOrder(t)
      <4>1. ASSUME NEW j \in 1..Len(t), NEW k \in 1..Len(t), j < k PROVE t[j].id < t[k].id
        <5>1. j \in 1..Len(s) /\ t[j] = s[j]
          BY <2>4, <3>1, <4>1
        <5>2. CASE k \in 1..Len(s)
          BY <2>4, <3>1, <4>1, <5>1, <5>2 DEF InOrder
        <5>3. CASE k = Len(s) + 1
          BY <1>1, <2>4, <3>1, <5>1, <5>3
        <5> QED BY <2>4, <3>1, <5>2, <5>3
      <4> QED BY <3>1, <4>1 DEF InOrder
    <3>3. \A k \in 1..Len(t) : t[k].user = u /\ t[k].id \in (o + 1)..Len(m) /\ t[k] = m[t[k].id]
      <4>1. \A k \in 1..Len(t) : k \in 1..Len(s) \/ k = Len(s) + 1
        BY <2>4, <3>1
      <4> QED BY <1>2, <1>4, <2>4, <2>6, <2>8, <3>1, <4>1
    <3>4. \A p \in (o + 1)..Len(m) : m[p].user = u => \E k \in 1..Len(t) : t[k] = m[p]
      <4>1. ASSUME NEW p \in (o + 1)..Len(m), m[p].user = u
            PROVE  \E k \in 1..Len(t) : t[k] = m[p]
        <5>1. CASE p = Len(l) + 1
          <6>1. Len(s) + 1 \in 1..Len(t)
            BY <2>4, <3>1
          <6> QED BY <1>2, <3>1, <5>1, <6>1
        <5>2. CASE p \in (o + 1)..Len(l)
          <6>1. PICK k \in 1..Len(s) : s[k] = l[p]
            BY <2>4, <2>5, <4>1, <5>2
          <6>2. k \in 1..Len(t)
            BY <2>4, <3>1
          <6> QED BY <2>5, <3>1, <5>2, <6>1, <6>2
        <5> QED BY <1>4, <5>1, <5>2
      <4> QED BY <4>1
    <3>5. ListsEvents(t, m, o, u)
      BY <3>1, <3>2, <3>3, <3>4 DEF ListsEvents
    <3>6. n.userEvents[u] = t
      BY <2>3, <2>8 DEF t
    <3> QED BY <3>5, <3>6
  <2> QED BY <2>7, <2>8
<1>10. o <= Len(m)
  BY <1>1, <1>2
<1>11. HoldsAfter(n, m, o)
  BY <1>1, <1>6, <1>7, <1>8, <1>9, <1>10 DEF HoldsAfter
<1> QED BY <1>3, <1>11 DEF m, n

(* Store: at most the oldest event is forgotten.                            *)
LEMMA StoredHolds ==
  ASSUME NEW b, NEW l, NEW o, IsLog(l), HoldsAfter(b, l, o), Len(b.events) <= MaxSize,
         NEW e \in Event, e.id = Len(l) + 1
  PROVE  /\ IsLog(Append(l, e))
         /\ \E q \in {o, o + 1} : /\ HoldsAfter(Stored(b, e), Append(l, e), q)
                                 /\ q <= Len(l) /\ Len(l) + 1 - q <= MaxSize
<1>1. /\ o \in Nat /\ Len(l) \in Nat /\ o <= Len(l) /\ Len(b.events) = Len(l) - o
  BY DEF HoldsAfter, IsLog
<1>2. CASE Len(b.events) >= MaxSize
  <2>1. o < Len(l) /\ o + 1 <= Len(l) /\ Len(l) + 1 - (o + 1) <= MaxSize
    BY <1>1, <1>2, MaxSizeAssumption
  <2>2. HoldsAfter(RemoveFront(b), l, o + 1)
    BY <2>1, RemoveFrontHolds
  <2>3. Stored(b, e) = PushBack(RemoveFront(b), e)
    BY <1>2 DEF Stored
  <2> QED BY <2>1, <2>2, <2>3, PushBackHolds
<1>3. CASE ~(Len(b.events) >= MaxSize)
  <2>1. Len(l) + 1 - o <= MaxSize
    BY <1>1, <1>3, MaxSizeAssumption
  <2>2. Stored(b, e) = PushBack(b, e)
    BY <1>3 DEF Stored
  <2> QED BY <1>1, <2>1, <2>2, PushBackHolds
<1> QED BY <1>2, <1>3
-------------------------------------------------------------------------------
(* Induction over the naturals, for a set.                                  *)
LEMMA EveryNumber ==
  ASSUME NEW S, 0 \in S, \A n \in Nat : n \in S => n + 1 \in S
  PROVE  \A n \in Nat : n \in S
<1> DEFINE less == OpToRel(<, Nat)
           T == Nat \ S
<1> SUFFICES ASSUME T # {} PROVE FALSE
  OBVIOUS
<1>1. IsWellFoundedOn(less, Nat)
  BY NatLessThanWellFounded
<1>2. T \in SUBSET Nat
  OBVIOUS
<1> HIDE DEF less, T
<1>3. PICK x \in T : \A y \in T : ~(<<y, x>> \in less)
  BY <1>1, <1>2, WFMin
<1>4. x \in Nat /\ x \notin S /\ x # 0
  BY DEF T
<1>5. x - 1 \in Nat /\ x - 1 < x /\ (x - 1) + 1 = x
  BY <1>4
<1>6. x - 1 \notin S
  BY <1>4, <1>5
<1>7. x - 1 \in T
  BY <1>5, <1>6 DEF T
<1>8. <<x - 1, x>> \in less
  BY <1>4, <1>5 DEF less, OpToRel
<1> QED BY <1>3, <1>7, <1>8

-------------------------------------------------------------------------------
(* What the loop of Cleanup makes of the buffer.                            *)
LEMMA CleanedHolds ==
  ASSUME NEW b, NEW l, NEW o, IsLog(l), HoldsAfter(b, l, o), NEW cutoff
  PROVE  \E q \in o..Len(l) : HoldsAfter(Cleaned(b, cutoff), l, q)
<1> DEFINE Next1(r) == IF r.events = <<>> \/ Head(r.events).ts > cutoff THEN r ELSE RemoveFront(r)
           Loop(f, m) == f = [n \in 0..m |-> IF n = 0 THEN b ELSE Next1(f[n - 1])]
           S == {m \in Nat : \E f : Loop(f, m)}
           N == Len(b.events)
<1>1. N \in Nat /\ Len(l) \in Nat /\ o \in Nat /\ o <= Len(l)
  BY DEF HoldsAfter, IsLog
<1> HIDE DEF Next1, N
<1>2. 0 \in S
  <2>1. Loop([n \in 0..0 |-> b], 0)
    OBVIOUS
  <2> QED BY <2>1
<1>3. ASSUME NEW m \in Nat, m \in S PROVE m + 1 \in S
  <2>1. PICK f : Loop(f, m)
    BY <1>3
  <2> DEFINE g == [n \in 0..(m + 1) |-> IF n = m + 1 THEN Next1(f[m]) ELSE f[n]]
  <2>2. ASSUME NEW n \in 0..(m + 1)
        PROVE  g[n] = IF n = 0 THEN b ELSE Next1(g[n - 1])
    <3>1. CASE n = m + 1
      BY <3>1
    <3>2. CASE n # m + 1
      <4>1. n \in 0..m /\ (n # 0 => n - 1 \in 0..m)
        BY <3>2
      <4>2. f[n] = IF n = 0 THEN b ELSE Next1(f[n - 1])
        BY <2>1, <4>1
      <4> QED BY <3>2, <4>1, <4>2
    <3> QED BY <3>1, <3>2
  <2>3. g = [n \in 0..(m + 1) |-> IF n = 0 THEN b ELSE Next1(g[n - 1])]
    <3>1. DOMAIN g = 0..(m + 1) /\ g = [n \in 0..(m + 1) |-> g[n]]
      OBVIOUS
    <3> HIDE DEF g
    <3> QED BY <2>2, <3>1
  <2>4. Loop(g, m + 1)
    BY <2>3
  <2>5. m + 1 \in Nat
    OBVIOUS
  <2> HIDE DEF g, Loop
  <2> QED BY <2>4, <2>5
<1>4. N \in S
  <2> HIDE DEF S
  <2> QED BY <1>1, <1>2, <1>3, EveryNumber
<1> DEFINE loop == CHOOSE f : Loop(f, N)
<1>5. Loop(loop, N)
  BY <1>4
<1>6. Cleaned(b, cutoff) = loop[N]
  BY DEF Cleaned, Next1, N
<1> HIDE DEF loop
<1> DEFINE T == {n \in Nat : n <= N => \E q \in o..Len(l) : HoldsAfter(loop[n], l, q)}
<1>7. 0 \in T
  <2>1. loop[0] = b /\ o \in o..Len(l)
    BY <1>1, <1>5
  <2> QED BY <2>1
<1>8. ASSUME NEW n \in Nat, n \in T PROVE n + 1 \in T
  <2> SUFFICES ASSUME n + 1 <= N
               PROVE  \E q \in o..Len(l) : HoldsAfter(loop[n + 1], l, q)
    OBVIOUS
  <2>1. PICK q \in o..Len(l) : HoldsAfter(loop[n], l, q)
    BY <1>1, <1>8
  <2>2. loop[n + 1] = Next1(loop[n])
    BY <1>1, <1>5
  <2>3. CASE loop[n + 1] = loop[n]
    BY <2>1, <2>3
  <2>4. CASE loop[n + 1] # loop[n]
    <3>1. loop[n].events # <<>> /\ loop[n + 1] = RemoveFront(loop[n])
      BY <2>2, <2>4 DEF Next1
    <3>2. q < Len(l)
      BY <1>1, <2>1, <3>1 DEF HoldsAfter
    <3>3. HoldsAfter(loop[n + 1], l, q + 1) /\ q + 1 \in o..Len(l)
      BY <1>1, <2>1, <3>1, <3>2, RemoveFrontHolds
    <3> QED BY <3>3
  <2> QED BY <2>3, <2>4
<1>9. N \in T
  <2> HIDE DEF T
  <2> QED BY <1>1, <1>7, <1>8, EveryNumber
<1> QED BY <1>1, <1>6, <1>9

-------------------------------------------------------------------------------
(* r holds events of u after position from of the log l, in its order.      *)
PicksFrom(r, l, from, u) ==
  /\ r \in Seq(Event) /\ InOrder(r)
  /\ \A k \in 1..Len(r) :
       r[k].user = u /\ r[k].id \in (from + 1)..Len(l) /\ r[k] = l[r[k].id]

(* The loop of GetSince leaves out no event of the user before the last one *)
(* that it takes, and none at all as long as the answer is not full.        *)
Gathers(r, l, from, to, u, limit) ==
  /\ r \in Seq(Event) /\ InOrder(r) /\ Len(r) <= limit
  /\ \A k \in 1..Len(r) :
       r[k].user = u /\ r[k].id \in (from + 1)..to /\ r[k] = l[r[k].id]
  /\ \A p \in (from + 1)..to :
       /\ l[p].user = u
       /\ Len(r) < limit \/ \E k \in 1..Len(r) : p < r[k].id
       => \E k \in 1..Len(r) : r[k] = l[p]

(* One more element of the list.                                            *)
LEMMA GathersOne ==
  ASSUME NEW l, IsLog(l), NEW from \in Nat, NEW to \in Nat, from <= to, to + 1 <= Len(l),
         NEW u, NEW limit \in Nat, NEW r, Gathers(r, l, from, to, u, limit)
  PROVE  Gathers(IF Len(r) < limit /\ l[to + 1].user = u THEN Append(r, l[to + 1]) ELSE r,
                 l, from, to + 1, u, limit)
<1> DEFINE e == l[to + 1]
           t == Append(r, e)
<1>1. /\ Len(l) \in Nat /\ to + 1 \in 1..Len(l) /\ e.id = to + 1 /\ e \in Event
  <2>1. Len(l) \in Nat
    BY DEF IsLog
  <2>2. to + 1 \in 1..Len(l)
    BY <2>1
  <2> QED BY <2>1, <2>2, LogEntry
<1>2. /\ r \in Seq(Event) /\ InOrder(r) /\ Len(r) <= limit /\ Len(r) \in Nat
      /\ DOMAIN r = 1..Len(r)
      /\ \A k \in 1..Len(r) : /\ r[k].user = u /\ r[k].id \in (from + 1)..to
                              /\ r[k] = l[r[k].id]
      /\ \A p \in (from + 1)..to :
           /\ l[p].user = u
           /\ Len(r) < limit \/ \E k \in 1..Len(r) : p < r[k].id
           => \E k \in 1..Len(r) : r[k] = l[p]
  BY DEF Gathers
<1>3. \A p : p \in (from + 1)..(to + 1) <=> p \in (from + 1)..to \/ p = to + 1
  OBVIOUS
<1>4. CASE ~(Len(r) < limit /\ e.user = u)
  <2>1. ASSUME NEW p \in (from + 1)..(to + 1), l[p].user = u,
               Len(r) < limit \/ \E k \in 1..Len(r) : p < r[k].id
        PROVE  \E k \in 1..Len(r) : r[k] = l[p]
    <3>1. p # to + 1
      BY <1>2, <1>4, <2>1
    <3> QED BY <1>2, <1>3, <2>1, <3>1
  <2>2. Gathers(r, l, from, to + 1, u, limit)
    BY <1>2, <1>3, <2>1 DEF Gathers
  <2> QED BY <1>4, <2>2
<1>5. CASE Len(r) < limit /\ e.user = u
  <2>1. /\ t \in Seq(Event) /\ Len(t) = Len(r) + 1 /\ DOMAIN t = 1..(Len(r) + 1)
        /\ t[Len(r) + 1] = e /\ \A k \in 1..Len(r) : t[k] = r[k]
    BY <1>1, <1>2
  <2> HIDE DEF t, e
  <2>2. \A k \in 1..Len(t) : k \in 1..Len(r) \/ k = Len(r) + 1
    BY <1>2, <2>1
  <2>3. InOrder(t)
    <3>1. ASSUME NEW j \in 1..Len(t), NEW k \in 1..Len(t), j < k PROVE t[j].id < t[k].id
      <4>1. j \in 1..Len(r) /\ t[j] = r[j]
        BY <1>2, <2>1, <3>1
      <4>2. CASE k \in 1..Len(r)
        BY <1>2, <2>1, <3>1, <4>1, <4>2 DEF InOrder
      <4>3. CASE k = Len(r) + 1
        BY <1>1, <1>2, <2>1, <4>1, <4>3
      <4> QED BY <2>2, <4>2, <4>3
    <3> QED BY <2>1, <3>1 DEF InOrder
  <2>4. \A k \in 1..Len(t) : /\ t[k].user = u /\ t[k].id \in (from + 1)..(to + 1)
                             /\ t[k] = l[t[k].id]
    <3>1. \A k \in 1..Len(r) : t[k].user = u /\ t[k].id \in (from + 1)..(to + 1)
                              /\ t[k] = l[t[k].id]
      BY <1>2, <1>3, <2>1
    <3>2. to + 1 \in (from + 1)..(to + 1)
      OBVIOUS
    <3>3. e.user = u /\ e.id \in (from + 1)..(to + 1) /\ e = l[e.id]
      BY <1>1, <1>5, <3>2 DEF e
    <3> QED BY <2>1, <2>2, <3>1, <3>3
  <2>5. ASSUME NEW p \in (from + 1)..(to + 1), l[p].user = u
        PROVE  \E k \in 1..Len(t) : t[k] = l[p]
    <3>1. CASE p = to + 1
      <4>1. Len(r) + 1 \in 1..Len(t)
        BY <1>2, <2>1
      <4> QED BY <2>1, <3>1, <4>1 DEF e
    <3>2. CASE p \in (from + 1)..to
      <4>1. PICK k \in 1..Len(r) : r[k] = l[p]
        BY <1>2, <1>5, <2>5, <3>2
      <4>2. k \in 1..Len(t)
        BY <1>2, <2>1
      <4> QED BY <2>1, <4>1, <4>2
    <3> QED BY <1>3, <3>1, <3>2
  <2>6. Len(t) <= limit
    BY <1>2, <1>5, <2>1
  <2>7. Gathers(t, l, from, to + 1, u, limit)
    BY <2>1, <2>3, <2>4, <2>5, <2>6 DEF Gathers
  <2> QED BY <1>5, <2>7 DEF t, e
<1> QED BY <1>4, <1>5

(* The whole loop of GetSince (event_store.go:82-92), by induction over its *)
(* iterations.                                                              *)
LEMMA CollectedGathers ==
  ASSUME NEW b, NEW l, NEW o, IsLog(l), HoldsAfter(b, l, o),
         NEW from \in 0..Len(b.events), NEW u, NEW limit \in Nat
  PROVE  Gathers(Collected(b.events, from, u, limit), l, o + from, Len(l), u, limit)
<1> DEFINE Next1(r, n) == IF Len(r) < limit /\ b.events[from + n].user = u
                          THEN Append(r, b.events[from + n]) ELSE r
           Loop(f, m) == f = [n \in 0..m |-> IF n = 0 THEN <<>> ELSE Next1(f[n - 1], n)]
           S == {m \in Nat : \E f : Loop(f, m)}
           N == Len(b.events) - from
<1>1. /\ N \in Nat /\ Len(l) \in Nat /\ o \in Nat /\ o <= Len(l)
      /\ Len(b.events) = Len(l) - o /\ from \in Nat
      /\ \A k \in 1..Len(b.events) : b.events[k] = l[o + k]
  BY DEF HoldsAfter, IsLog
<1> HIDE DEF Next1
<1>2. 0 \in S
  <2>1. Loop([n \in 0..0 |-> <<>>], 0)
    OBVIOUS
  <2> QED BY <2>1
<1>3. ASSUME NEW m \in Nat, m \in S PROVE m + 1 \in S
  <2>1. PICK f : Loop(f, m)
    BY <1>3
  <2> DEFINE g == [n \in 0..(m + 1) |-> IF n = m + 1 THEN Next1(f[m], n) ELSE f[n]]
  <2>2. ASSUME NEW n \in 0..(m + 1)
        PROVE  g[n] = IF n = 0 THEN <<>> ELSE Next1(g[n - 1], n)
    <3>1. CASE n = m + 1
      BY <3>1
    <3>2. CASE n # m + 1
      <4>1. n \in 0..m /\ (n # 0 => n - 1 \in 0..m)
        BY <3>2
      <4>2. f[n] = IF n = 0 THEN <<>> ELSE Next1(f[n - 1], n)
        BY <2>1, <4>1
      <4> QED BY <3>2, <4>1, <4>2
    <3> QED BY <3>1, <3>2
  <2>3. g = [n \in 0..(m + 1) |-> IF n = 0 THEN <<>> ELSE Next1(g[n - 1], n)]
    <3>1. DOMAIN g = 0..(m + 1) /\ g = [n \in 0..(m + 1) |-> g[n]]
      OBVIOUS
    <3> HIDE DEF g
    <3> QED BY <2>2, <3>1
  <2>4. Loop(g, m + 1)
    BY <2>3
  <2>5. m + 1 \in Nat
    OBVIOUS
  <2> HIDE DEF g, Loop
  <2> QED BY <2>4, <2>5
<1>4. N \in S
  <2> HIDE DEF S, N
  <2> QED BY <1>1, <1>2, <1>3, EveryNumber
<1> DEFINE loop == CHOOSE f : Loop(f, N)
<1>5. Loop(loop, N)
  <2> HIDE DEF N, Loop
  <2> QED BY <1>4
<1>6. Collected(b.events, from, u, limit) = loop[N]
  BY DEF Collected, Next1
<1> HIDE DEF loop, N
<1> DEFINE T == {n \in Nat : n <= N =>
                   Gathers(loop[n], l, o + from, o + from + n, u, limit)}
<1>7. 0 \in T
  <2>1. loop[0] = <<>>
    BY <1>1, <1>5
  <2>2. /\ <<>> \in Seq(Event) /\ Len(<<>>) = 0 /\ 1..0 = {} /\ InOrder(<<>>)
        /\ (o + from + 1)..(o + from + 0) = {}
    BY <1>1 DEF InOrder
  <2>3. Gathers(<<>>, l, o + from, o + from + 0, u, limit)
    BY <2>2 DEF Gathers
  <2> QED BY <2>1, <2>3
<1>8. ASSUME NEW n \in Nat, n \in T PROVE n + 1 \in T
  <2> SUFFICES ASSUME n + 1 <= N
               PROVE  Gathers(loop[n + 1], l, o + from, o + from + (n + 1), u, limit)
    OBVIOUS
  <2>1. Gathers(loop[n], l, o + from, o + from + n, u, limit)
    BY <1>1, <1>8
  <2>2. loop[n + 1] = Next1(loop[n], n + 1)
    BY <1>1, <1>5
  <2>3. from + (n + 1) \in 1..Len(b.events)
    BY <1>1 DEF N
  <2>4. b.events[from + (n + 1)] = l[o + from + n + 1]
    <3>1. o + (from + (n + 1)) = o + from + n + 1
      BY <1>1
    <3> QED BY <1>1, <2>3, <3>1
  <2>5. /\ o + from \in Nat /\ o + from + n \in Nat /\ o + from <= o + from + n
        /\ o + from + n + 1 <= Len(l) /\ o + from + (n + 1) = o + from + n + 1
    BY <1>1 DEF N
  <2>6. Gathers(Next1(loop[n], n + 1), l, o + from, o + from + n + 1, u, limit)
    BY <2>1, <2>4, <2>5, GathersOne DEF Next1
  <2> QED BY <2>2, <2>5, <2>6
<1>9. N \in T
  <2> HIDE DEF T
  <2> QED BY <1>1, <1>7, <1>8, EveryNumber
<1>10. o + from + N = Len(l)
  BY <1>1 DEF N
<1>11. Gathers(loop[N], l, o + from, o + from + N, u, limit)
  BY <1>1, <1>9
<1> HIDE DEF T, Loop
<1> QED BY <1>6, <1>10, <1>11

(* GetSince with an ID.                                                     *)
LEMMA AfterAnswers ==
  ASSUME NEW b, NEW l, NEW o, IsLog(l), HoldsAfter(b, l, o), NEW u, NEW id, NEW limit \in Nat
  PROVE  /\ id \notin (o + 1)..Len(l) => After(b, u, id, limit) = <<>>
         /\ id \in (o + 1)..Len(l) => Gathers(After(b, u, id, limit), l, id, Len(l), u, limit)
<1>1. /\ Len(l) \in Nat /\ o \in Nat /\ o <= Len(l) /\ Len(b.events) = Len(l) - o
      /\ \A k \in 1..Len(b.events) : b.events[k] = l[o + k]
      /\ DOMAIN b.eventIndex = (o + 1)..Len(l) /\ DOMAIN b.events = 1..Len(b.events)
      /\ \A p \in (o + 1)..Len(l) : b.eventIndex[p] = l[p]
  BY DEF HoldsAfter, IsLog
<1>2. CASE id \notin (o + 1)..Len(l)
  BY <1>1, <1>2 DEF After
<1>3. CASE id \in (o + 1)..Len(l)
  <2>1. id - o \in 1..Len(b.events) /\ o + (id - o) = id
    BY <1>1, <1>3
  <2>2. b.events[id - o] = b.eventIndex[id]
    BY <1>1, <1>3, <2>1
  <2>3. \A k \in DOMAIN b.events : b.events[k] = b.eventIndex[id] => k = id - o
    <3> SUFFICES ASSUME NEW k \in 1..Len(b.events), b.events[k] = l[id] PROVE k = id - o
      BY <1>1, <1>3
    <3>1. o + k \in 1..Len(l) /\ id \in 1..Len(l) /\ l[o + k] = l[id]
      BY <1>1, <1>3
    <3>2. o + k = id
      BY <3>1 DEF IsLog
    <3> QED BY <1>1, <3>2
  <2>4. PositionOf(b, id) = id - o
    BY <1>1, <2>1, <2>2, <2>3 DEF PositionOf
  <2>5. After(b, u, id, limit) = Collected(b.events, id - o, u, limit)
    BY <1>1, <1>3, <2>4 DEF After
  <2>6. id - o \in 0..Len(b.events)
    BY <1>1, <2>1
  <2> QED BY <1>3, <2>1, <2>5, <2>6, CollectedGathers
<1> QED BY <1>2, <1>3

(* GetSince without an ID: the newest of the user's list.                   *)
LEMMA RecentAnswers ==
  ASSUME NEW b, NEW l, NEW o, IsLog(l), HoldsAfter(b, l, o), NEW u, NEW limit \in Nat
  PROVE  LET r == Recent(b, u, limit)
         IN  /\ PicksFrom(r, l, o, u) /\ Len(r) <= limit
             /\ \A p \in (o + 1)..Len(l) :
                  l[p].user = u /\ (\E k \in 1..Len(r) : r[k].id < p)
                  => \E k \in 1..Len(r) : r[k] = l[p]
<1> DEFINE s == EventsOfUser(b, u)
           d == IF Len(s) > limit THEN Len(s) - limit ELSE 0
           r == Recent(b, u, limit)
<1>1. ListsEvents(s, l, o, u)
  BY EveryUsersList
<1>2. r = SubSeq(s, d + 1, Len(s))
  BY DEF Recent
<1> HIDE DEF s, r
<1>3. /\ s \in Seq(Event) /\ InOrder(s) /\ Len(s) \in Nat /\ DOMAIN s = 1..Len(s)
      /\ \A k \in 1..Len(s) : /\ s[k].user = u /\ s[k].id \in (o + 1)..Len(l)
                              /\ s[k] = l[s[k].id]
      /\ \A p \in (o + 1)..Len(l) : l[p].user = u => \E k \in 1..Len(s) : s[k] = l[p]
  BY <1>1 DEF ListsEvents
<1>4. d \in Nat /\ d <= Len(s) /\ Len(s) - d <= limit
  BY <1>3
<1> HIDE DEF d
<1>5. /\ r \in Seq(Event) /\ Len(r) = Len(s) - d /\ DOMAIN r = 1..Len(r)
      /\ \A k \in 1..Len(r) : r[k] = s[d + k] /\ d + k \in 1..Len(s)
  <2>1. d + 1 \in 1..Len(s) + 1 /\ Len(s) \in d..Len(s)
    BY <1>3, <1>4
  <2>2. /\ r \in Seq(Event) /\ Len(r) = IF d + 1 <= Len(s) THEN Len(s) - (d + 1) + 1 ELSE 0
        /\ \A k \in 1..(Len(s) - (d + 1) + 1) : r[k] = s[(d + 1) + k - 1]
    BY <1>2, <1>3, <1>4, <2>1, SubSeqProperties
  <2>3. Len(r) = Len(s) - d /\ DOMAIN r = 1..Len(r)
    BY <1>3, <1>4, <2>2
  <2>4. ASSUME NEW k \in 1..Len(r) PROVE r[k] = s[d + k] /\ d + k \in 1..Len(s)
    <3>1. /\ k \in 1..(Len(s) - (d + 1) + 1) /\ (d + 1) + k - 1 = d + k
          /\ d + k \in 1..Len(s)
      BY <1>3, <1>4, <2>3
    <3>2. r[k] = s[(d + 1) + k - 1]
      BY <2>2, <3>1
    <3> QED BY <3>1, <3>2
  <2> QED BY <2>2, <2>3, <2>4
<1>6. InOrder(r)
  <2>1. ASSUME NEW j \in 1..Len(r), NEW k \in 1..Len(r), j < k PROVE r[j].id < r[k].id
    <3>1. d + j < d + k
      BY <1>4, <2>1
    <3> QED BY <1>3, <1>5, <3>1 DEF InOrder
  <2> QED BY <1>5, <2>1 DEF InOrder
<1>7. PicksFrom(r, l, o, u)
  BY <1>3, <1>5, <1>6 DEF PicksFrom
<1>8. ASSUME NEW p \in (o + 1)..Len(l), l[p].user = u, NEW j \in 1..Len(r), r[j].id < p
      PROVE  \E k \in 1..Len(r) : r[k] = l[p]
  <2>1. PICK k \in 1..Len(s) : s[k] = l[p]
    BY <1>3, <1>8
  <2>2. Len(l) \in Nat /\ o \in Nat /\ l[p].id = p
    BY LogEntry DEF HoldsAfter, IsLog
  <2>3. d + j < k
    <3>1. s[d + j].id < s[k].id /\ s[k].id \in Nat
      BY <1>5, <1>8, <2>1, <2>2
    <3>2. d + j \in 1..Len(s) /\ s[d + j].id \in Nat
      BY <1>3, <1>5, <2>2
    <3>3. k < d + j => s[k].id < s[d + j].id
      BY <1>3, <3>2 DEF InOrder
    <3>4. ~(k < d + j) /\ k # d + j
      BY <1>5, <2>1, <2>2, <3>1, <3>2, <3>3
    <3>5. d + j \in Nat /\ k \in Nat
      BY <1>3, <3>2
    <3> HIDE DEF d
    <3> QED BY <3>4, <3>5
  <2>4. k - d \in 1..Len(r) /\ d + (k - d) = k
    BY <1>3, <1>4, <1>5, <2>3
  <2> QED BY <1>5, <2>1, <2>4
<1> QED BY <1>4, <1>5, <1>7, <1>8 DEF r

-------------------------------------------------------------------------------
(* The store.                                                               *)
Forgotten == Len(log) - Len(buf.events)

(* What a client has is its own events, in the order of the log.            *)
ClientsHold ==
  /\ received \in [User -> Seq(Event)]
  /\ \A u \in User : PicksFrom(received[u], log, 0, u)

StoreInv ==
  /\ now \in 0..MaxTime
  /\ IsLog(log) /\ Len(log) <= MaxEvents
  /\ HoldsAfter(buf, log, Forgotten) /\ Len(buf.events) <= MaxSize
  /\ ClientsHold

(* What a buffer holds is the newest part of the log.                       *)
LEMMA Holds ==
  ASSUME NEW b, NEW l, NEW o, IsLog(l), HoldsAfter(b, l, o)
  PROVE  /\ o = Len(l) - Len(b.events) /\ o \in Nat /\ Len(l) \in Nat
         /\ Len(b.events) \in Nat /\ o <= Len(l) /\ Len(b.events) = Len(l) - o
BY DEF HoldsAfter, IsLog

(* Events in the order of a log stay so when the log grows.                 *)
LEMMA PicksFromLonger ==
  ASSUME NEW l, IsLog(l), NEW e \in Event, NEW r, NEW from \in Nat, NEW u,
         PicksFrom(r, l, from, u)
  PROVE  PicksFrom(r, Append(l, e), from, u)
<1>1. /\ Len(l) \in Nat /\ Len(Append(l, e)) = Len(l) + 1
      /\ \A p \in 1..Len(l) : Append(l, e)[p] = l[p]
  BY DEF IsLog
<1>2. \A p \in (from + 1)..Len(l) : p \in 1..Len(l) /\ p \in (from + 1)..(Len(l) + 1)
  BY <1>1
<1> QED BY <1>1, <1>2 DEF PicksFrom

(* Later events after earlier ones.                                         *)
LEMMA PicksAppended ==
  ASSUME NEW l, IsLog(l), NEW u, NEW r, NEW t, NEW from \in Nat,
         PicksFrom(r, l, 0, u), PicksFrom(t, l, from, u),
         \A k \in 1..Len(r) : r[k].id <= from
  PROVE  PicksFrom(r \o t, l, 0, u)
<1> DEFINE w == r \o t
<1>1. /\ r \in Seq(Event) /\ t \in Seq(Event) /\ Len(r) \in Nat /\ Len(t) \in Nat
      /\ DOMAIN r = 1..Len(r) /\ DOMAIN t = 1..Len(t) /\ InOrder(r) /\ InOrder(t)
      /\ Len(l) \in Nat
      /\ \A k \in 1..Len(r) : r[k].user = u /\ r[k].id \in 1..Len(l) /\ r[k] = l[r[k].id]
      /\ \A k \in 1..Len(t) : t[k].user = u /\ t[k].id \in (from + 1)..Len(l)
                              /\ t[k] = l[t[k].id]
  BY DEF PicksFrom, IsLog
<1>2. /\ w \in Seq(Event) /\ Len(w) = Len(r) + Len(t) /\ DOMAIN w = 1..Len(w)
      /\ \A k \in 1..Len(r) : w[k] = r[k]
      /\ \A k \in 1..Len(t) : w[Len(r) + k] = t[k]
  BY <1>1
<1> HIDE DEF w
<1>3. \A k \in 1..Len(w) : \/ k \in 1..Len(r) /\ w[k] = r[k]
                           \/ /\ k > Len(r) /\ k - Len(r) \in 1..Len(t)
                              /\ w[k] = t[k - Len(r)]
  <2> SUFFICES ASSUME NEW k \in 1..Len(w), k > Len(r)
               PROVE  k - Len(r) \in 1..Len(t) /\ w[k] = t[k - Len(r)]
    BY <1>1, <1>2
  <2>1. k - Len(r) \in 1..Len(t) /\ Len(r) + (k - Len(r)) = k
    BY <1>1, <1>2
  <2>2. w[Len(r) + (k - Len(r))] = t[k - Len(r)]
    BY <1>2, <2>1
  <2> QED BY <2>1, <2>2
<1>4. \A k \in 1..Len(w) : w[k].user = u /\ w[k].id \in 1..Len(l) /\ w[k] = l[w[k].id]
  <2>1. \A k \in 1..Len(t) : t[k].id \in 1..Len(l)
    BY <1>1
  <2>2. ASSUME NEW k \in 1..Len(w)
        PROVE  w[k].user = u /\ w[k].id \in 1..Len(l) /\ w[k] = l[w[k].id]
    <3>1. CASE k \in 1..Len(r) /\ w[k] = r[k]
      BY <1>1, <3>1
    <3>2. CASE k - Len(r) \in 1..Len(t) /\ w[k] = t[k - Len(r)]
      <4> DEFINE m == k - Len(r)
      <4>1. m \in 1..Len(t) /\ w[k] = t[m]
        BY <3>2
      <4> HIDE DEF m
      <4> QED BY <1>1, <2>1, <4>1
    <3> QED BY <1>3, <3>1, <3>2
  <2> QED BY <2>2
<1>5. InOrder(w)
  <2>1. ASSUME NEW j \in 1..Len(w), NEW k \in 1..Len(w), j < k PROVE w[j].id < w[k].id
    <3>1. CASE k \in 1..Len(r) /\ w[k] = r[k]
      <4>1. j \in 1..Len(r)
        BY <1>1, <1>2, <2>1, <3>1
      <4> QED BY <1>1, <1>2, <2>1, <3>1, <4>1 DEF InOrder
    <3>2. CASE /\ j \in 1..Len(r) /\ w[j] = r[j]
               /\ k - Len(r) \in 1..Len(t) /\ w[k] = t[k - Len(r)]
      <4>1. r[j].id <= from /\ r[j].id \in Nat /\ t[k - Len(r)].id \in (from + 1)..Len(l)
        BY <1>1, <3>2
      <4> QED BY <1>1, <3>2, <4>1
    <3>3. CASE /\ j - Len(r) \in 1..Len(t) /\ w[j] = t[j - Len(r)]
               /\ k - Len(r) \in 1..Len(t) /\ w[k] = t[k - Len(r)]
      <4>1. j - Len(r) < k - Len(r)
        BY <1>1, <2>1
      <4> QED BY <1>1, <3>3, <4>1 DEF InOrder
    <3>4. CASE j > Len(r) /\ k \in 1..Len(r)
      BY <1>1, <2>1, <3>4
    <3> QED BY <1>3, <3>1, <3>2, <3>3, <3>4
  <2> QED BY <1>2, <2>1 DEF InOrder
<1>6. \A k \in 1..Len(w) : w[k].id \in (0 + 1)..Len(l)
  BY <1>4
<1> QED BY <1>2, <1>4, <1>5, <1>6 DEF PicksFrom, w

(* The cursor is the newest event the client has.                           *)
LEMMA CursorOf ==
  ASSUME StoreInv, NEW u \in User
  PROVE  /\ received[u] = <<>> <=> LastEventID(u) = NoEvent
         /\ LastEventID(u) \in 0..Len(log)
         /\ received[u] # <<>> => /\ Len(received[u]) \in 1..Len(received[u])
                                 /\ LastEventID(u) = received[u][Len(received[u])].id
         /\ \A k \in 1..Len(received[u]) : received[u][k].id <= LastEventID(u)
<1> DEFINE r == received[u]
<1>1. /\ r \in Seq(Event) /\ Len(r) \in Nat /\ DOMAIN r = 1..Len(r) /\ InOrder(r)
      /\ Len(log) \in Nat
      /\ \A k \in 1..Len(r) : r[k].id \in 1..Len(log)
  BY DEF StoreInv, ClientsHold, PicksFrom, IsLog
<1>2. LastEventID(u) = IF r = <<>> THEN 0 ELSE r[Len(r)].id
  BY DEF LastEventID, NoEvent
<1> HIDE DEF r
<1>3. CASE r = <<>>
  <2>1. 1..Len(r) = {}
    BY <1>3
  <2> QED BY <1>1, <1>2, <1>3, <2>1 DEF r, NoEvent
<1>4. CASE r # <<>>
  <2>1. Len(r) \in 1..Len(r)
    BY <1>1, <1>4
  <2>2. LastEventID(u) = r[Len(r)].id /\ LastEventID(u) \in 1..Len(log)
    BY <1>1, <1>2, <1>4, <2>1
  <2>3. ASSUME NEW k \in 1..Len(r) PROVE r[k].id <= LastEventID(u)
    <3>0. k \in 1..Len(r)
      BY <2>3
    <3>1. k < Len(r) => r[k].id < r[Len(r)].id
      BY <1>1, <2>1, <3>0 DEF InOrder
    <3>2. k = Len(r) \/ k < Len(r)
      <4> DEFINE n == Len(r)
      <4>1. n \in Nat /\ k \in 1..n
        BY <1>1, <3>0
      <4> HIDE DEF n
      <4>2. k = n \/ k < n
        BY <4>1
      <4> QED BY <4>2 DEF n
    <3>3. r[k].id \in Nat /\ r[Len(r)].id \in Nat
      BY <1>1, <2>1, <3>0
    <3> QED BY <2>2, <3>1, <3>2, <3>3
  <2> QED BY <1>1, <1>4, <2>1, <2>2, <2>3 DEF r, NoEvent
<1> QED BY <1>3, <1>4

(* What the answer r to a client of u whose newest event is id says of the  *)
(* part of the log l after position o: the user's events after id without a *)
(* hole, or, for a client without an event, its newest ones.                *)
Serves(r, l, o, id, u) ==
  /\ PicksFrom(r, l, id, u) /\ Len(r) <= Limit
  /\ \A k \in 1..Len(r) : r[k].id > o
  /\ r # <<>> => id = NoEvent \/ id > o
  /\ id = NoEvent =>
       \A p \in 1..Len(l) :
         l[p].user = u /\ (\E k \in 1..Len(r) : r[k].id < p) => \E k \in 1..Len(r) : r[k] = l[p]
  /\ id > o =>
       \A p \in (id + 1)..Len(l) :
         l[p].user = u /\ (Len(r) < Limit \/ \E k \in 1..Len(r) : p < r[k].id)
         => \E k \in 1..Len(r) : r[k] = l[p]

(* GetSince (event_store.go:53-95) serves a client that sends its newest    *)
(* event as the cursor.                                                     *)
LEMMA PollAnswers ==
  ASSUME StoreInv, NEW u \in User
  PROVE  Serves(GetSince(u, LastEventID(u), Limit), log, Forgotten, LastEventID(u), u)
<1> DEFINE id == LastEventID(u)
           r == GetSince(u, id, Limit)
           o == Forgotten
<1>1. /\ IsLog(log) /\ HoldsAfter(buf, log, o) /\ Limit \in Nat /\ Len(log) \in Nat
      /\ o \in Nat /\ o <= Len(log)
  BY EventStoreAssumption DEF StoreInv, IsLog, HoldsAfter
<1>2. id \in 0..Len(log)
  BY CursorOf
<1> HIDE DEF id, o
<1>3. CASE id = NoEvent
  <2>1. r = Recent(buf, u, Limit)
    BY <1>3 DEF GetSince
  <2>2. /\ PicksFrom(r, log, o, u) /\ Len(r) <= Limit
        /\ \A p \in (o + 1)..Len(log) :
             log[p].user = u /\ (\E k \in 1..Len(r) : r[k].id < p)
             => \E k \in 1..Len(r) : r[k] = log[p]
    BY <1>1, <2>1, RecentAnswers
  <2> HIDE DEF r
  <2>3. \A p \in (o + 1)..Len(log) : p \in (0 + 1)..Len(log) /\ p > o
    BY <1>1
  <2>4. PicksFrom(r, log, 0, u) /\ \A k \in 1..Len(r) : r[k].id > o
    BY <2>2, <2>3 DEF PicksFrom
  <2>5. ASSUME NEW p \in 1..Len(log), log[p].user = u, NEW j \in 1..Len(r), r[j].id < p
        PROVE  \E k \in 1..Len(r) : r[k] = log[p]
    <3>1. r[j].id \in (o + 1)..Len(log)
      BY <2>2 DEF PicksFrom
    <3>2. p \in (o + 1)..Len(log)
      BY <1>1, <2>5, <3>1
    <3> QED BY <2>2, <2>5, <3>2
  <2>6. ~(id > o)
    BY <1>1, <1>3 DEF NoEvent
  <2>7. Serves(r, log, o, 0, u)
    BY <1>3, <2>2, <2>4, <2>5, <2>6 DEF Serves, NoEvent
  <2> QED BY <1>3, <2>7 DEF id, r, o, NoEvent
<1>4. CASE id # NoEvent
  <2>1. r = After(buf, u, id, Limit)
    BY <1>4 DEF GetSince
  <2> HIDE DEF r
  <2>2. CASE id \in (o + 1)..Len(log)
    <3>1. Gathers(r, log, id, Len(log), u, Limit)
      BY <1>1, <2>1, <2>2, AfterAnswers
    <3>2. id > o /\ \A p \in (id + 1)..Len(log) : p > o
      BY <1>1, <1>2, <2>2
    <3>3. PicksFrom(r, log, id, u) /\ \A k \in 1..Len(r) : r[k].id > o
      BY <3>1, <3>2 DEF Gathers, PicksFrom
    <3>4. Serves(r, log, o, id, u)
      BY <1>4, <3>1, <3>2, <3>3 DEF Gathers, Serves
    <3> QED BY <3>4 DEF id, r, o
  <2>3. CASE id \notin (o + 1)..Len(log)
    <3>1. r = <<>>
      BY <1>1, <2>1, <2>3, AfterAnswers
    <3>2. <<>> \in Seq(Event) /\ Len(<<>>) = 0 /\ 1..0 = {} /\ InOrder(<<>>)
      BY DEF InOrder
    <3>3. PicksFrom(<<>>, log, id, u) /\ Len(<<>>) <= Limit
      BY <1>1, <3>2 DEF PicksFrom
    <3>4. ~(id > o)
      BY <1>1, <1>2, <2>3
    <3>5. Serves(<<>>, log, o, id, u)
      BY <1>4, <3>2, <3>3, <3>4 DEF Serves
    <3> QED BY <3>1, <3>5 DEF id, r, o
  <2> QED BY <2>2, <2>3
<1> QED BY <1>3, <1>4
-------------------------------------------------------------------------------
(* The empty store.                                                         *)
LEMMA StoreInvInit == Init => StoreInv
<1> SUFFICES ASSUME Init PROVE StoreInv
  OBVIOUS
<1>1. IsLog(log) /\ Len(log) = 0 /\ log = <<>>
  <2>1. 1..0 = {} /\ Len(<<>>) = 0 /\ <<>> \in Seq(Event)
    OBVIOUS
  <2> QED BY <2>1 DEF Init, IsLog
<1>2. HoldsAfter(buf, log, 0)
  BY <1>1, EmptyHolds DEF Init
<1>3. Forgotten = 0 /\ Len(buf.events) = 0
  BY <1>1, <1>2, Holds DEF Forgotten
<1>4. ClientsHold
  <2>1. <<>> \in Seq(Event) /\ Len(<<>>) = 0 /\ 1..0 = {} /\ InOrder(<<>>)
    BY DEF InOrder
  <2>2. \A u \in User : PicksFrom(<<>>, log, 0, u)
    BY <2>1 DEF PicksFrom
  <2> QED BY <2>1, <2>2 DEF Init, ClientsHold
<1> QED BY <1>1, <1>2, <1>3, <1>4, MaxSizeAssumption, EventStoreAssumption DEF StoreInv, Init

(* Store (event_store.go:33-51) keeps the invariant, appends one event of   *)
(* its user to the log and forgets at most from the front.                  *)
LEMMA StoreStep ==
  ASSUME StoreInv, NEW u \in User, Store(u)
  PROVE  /\ StoreInv'
         /\ \E e \in Event : e.user = u /\ log' = Append(log, e)
         /\ Forgotten' \in Forgotten..Len(log)
         /\ UNCHANGED <<now, received>>
<1>1. /\ now \in 0..MaxTime /\ IsLog(log) /\ Len(log) \in Nat /\ Len(log) < MaxEvents
      /\ HoldsAfter(buf, log, Forgotten) /\ Len(buf.events) <= MaxSize /\ ClientsHold
      /\ UNCHANGED <<now, received>>
  BY DEF StoreInv, IsLog, Store
<1>2. PICK t \in 0..now : LET e == [id |-> Len(log) + 1, user |-> u, ts |-> t]
                         IN  buf' = Stored(buf, e) /\ log' = Append(log, e)
  BY DEF Store
<1> DEFINE e == [id |-> Len(log) + 1, user |-> u, ts |-> t]
<1>3. e \in Event /\ e.id = Len(log) + 1 /\ e.user = u
  <2>1. Len(log) + 1 \in 1..MaxEvents /\ t \in 0..MaxTime
    BY <1>1, EventStoreAssumption
  <2> QED BY <2>1 DEF Event
<1>4. buf' = Stored(buf, e) /\ log' = Append(log, e)
  BY <1>2
<1> HIDE DEF e
<1>5. Forgotten \in Nat /\ Forgotten <= Len(log)
  BY <1>1, Holds
<1>6. /\ IsLog(log')
      /\ \E q \in {Forgotten, Forgotten + 1} :
           HoldsAfter(buf', log', q) /\ q <= Len(log) /\ Len(log) + 1 - q <= MaxSize
  <2> HIDE DEF Forgotten
  <2> QED BY <1>1, <1>3, <1>4, StoredHolds
<1>7. PICK q \in {Forgotten, Forgotten + 1} :
        HoldsAfter(buf', log', q) /\ q <= Len(log) /\ Len(log) + 1 - q <= MaxSize
  BY <1>6
<1>8. Len(log') = Len(log) + 1
  BY <1>1, <1>4 DEF IsLog
<1>9. q = Forgotten' /\ Len(buf'.events) = Len(log') - q
  BY <1>6, <1>7, Holds DEF Forgotten
<1>10. Forgotten' \in Forgotten..Len(log) /\ Len(buf'.events) <= MaxSize /\ Len(log') <= MaxEvents
  <2>1. Forgotten' \in Nat
    BY <1>5, <1>7, <1>9
  <2> HIDE DEF Forgotten
  <2> QED BY <1>1, <1>5, <1>7, <1>8, <1>9, <2>1, EventStoreAssumption
<1>11. ClientsHold'
  <2>1. \A v \in User : PicksFrom(received[v], log', 0, v)
    BY <1>1, <1>3, <1>4, PicksFromLonger DEF ClientsHold
  <2> QED BY <1>1, <2>1 DEF ClientsHold
<1>12. HoldsAfter(buf', log', Forgotten')
  BY <1>7, <1>9
<1>13. StoreInv'
  BY <1>1, <1>6, <1>10, <1>11, <1>12 DEF StoreInv
<1> QED BY <1>1, <1>3, <1>4, <1>10, <1>13

(* Cleanup and Clear only forget.                                           *)
LEMMA ForgettingStep ==
  ASSUME StoreInv, (\E d \in 0..MaxTime : Cleanup(d)) \/ Clear
  PROVE  StoreInv' /\ Forgotten' \in Forgotten..Len(log) /\ UNCHANGED <<now, log, received>>
<1>1. /\ now \in 0..MaxTime /\ IsLog(log) /\ Len(log) \in Nat /\ Len(log) <= MaxEvents
      /\ HoldsAfter(buf, log, Forgotten) /\ Len(buf.events) <= MaxSize /\ ClientsHold
      /\ UNCHANGED <<now, log, received>>
  BY DEF StoreInv, IsLog, Cleanup, Clear
<1>2. Forgotten \in Nat /\ Forgotten <= Len(log) /\ Len(buf.events) = Len(log) - Forgotten
  BY <1>1, Holds
<1>3. \E q \in Forgotten..Len(log) : HoldsAfter(buf', log, q)
  <2>1. CASE \E d \in 0..MaxTime : Cleanup(d)
    <3>1. PICK cutoff : buf' = Cleaned(buf, cutoff)
      BY <2>1 DEF Cleanup
    <3> HIDE DEF Forgotten
    <3> QED BY <1>1, <3>1, CleanedHolds
  <2>2. CASE Clear
    <3>1. HoldsAfter(buf', log, Len(log))
      BY <1>1, <2>2, EmptyHolds DEF Clear
    <3>2. Len(log) \in Forgotten..Len(log)
      BY <1>1, <1>2
    <3> QED BY <3>1, <3>2
  <2> QED BY <2>1, <2>2
<1>4. PICK q \in Forgotten..Len(log) : HoldsAfter(buf', log, q)
  BY <1>3
<1>5. q = Forgotten' /\ Len(buf'.events) = Len(log) - q
  BY <1>1, <1>4, Holds DEF Forgotten
<1>6. Len(buf'.events) <= MaxSize
  <2> HIDE DEF Forgotten
  <2> QED BY <1>1, <1>2, <1>4, <1>5, MaxSizeAssumption
<1>7. ClientsHold'
  BY <1>1 DEF ClientsHold
<1> QED BY <1>1, <1>4, <1>5, <1>6, <1>7 DEF StoreInv

(* An answer extends what the client has.                                   *)
LEMMA PollStep ==
  ASSUME StoreInv, NEW u \in User, Poll(u)
  PROVE  StoreInv'
<1> DEFINE r == GetSince(u, LastEventID(u), Limit)
<1>1. /\ received' = [received EXCEPT ![u] = @ \o r]
      /\ UNCHANGED <<buf, now, log>> /\ IsLog(log) /\ received \in [User -> Seq(Event)]
      /\ \A v \in User : PicksFrom(received[v], log, 0, v)
  BY DEF Poll, StoreInv, ClientsHold
<1>2. PicksFrom(r, log, LastEventID(u), u)
  BY PollAnswers DEF Serves
<1>3. /\ LastEventID(u) \in Nat
      /\ \A k \in 1..Len(received[u]) : received[u][k].id <= LastEventID(u)
  BY CursorOf
<1> HIDE DEF r
<1>4. PicksFrom(received[u] \o r, log, 0, u)
  BY <1>1, <1>2, <1>3, PicksAppended
<1>5. received[u] \o r \in Seq(Event)
  BY <1>4 DEF PicksFrom
<1>6. ClientsHold'
  BY <1>1, <1>4, <1>5 DEF ClientsHold
<1> QED BY <1>1, <1>6 DEF StoreInv, Forgotten

(* Every method of the store keeps the invariant.                           *)
LEMMA StoreInvNext == StoreInv /\ [Next]_vars => StoreInv'
<1> SUFFICES ASSUME StoreInv, [Next]_vars PROVE StoreInv'
  OBVIOUS
<1>1. CASE \E u \in User : Store(u)
  BY <1>1, StoreStep
<1>2. CASE \E u \in User : Poll(u)
  BY <1>2, PollStep
<1>3. CASE (\E d \in 0..MaxTime : Cleanup(d)) \/ Clear
  BY <1>3, ForgettingStep
<1>4. CASE Tick \/ UNCHANGED vars
  <2>1. UNCHANGED <<buf, log, received>> /\ now' \in 0..MaxTime
    BY <1>4, EventStoreAssumption DEF Tick, vars, StoreInv
  <2> QED BY <2>1 DEF StoreInv, ClientsHold, Forgotten
<1> QED BY <1>1, <1>2, <1>3, <1>4 DEF Next

(* The inductive invariant: the three structures hold the same end of the   *)
(* log, and the clients have events of the log in its order.                *)
THEOREM EventStoreInvariant == Spec => []StoreInv
BY StoreInvInit, StoreInvNext, PTL DEF Spec

(* The shape of the buffer, the log and what the clients have.              *)
THEOREM EventStoreTypes == Spec => []TypeOK
<1>1. StoreInv => TypeOK
  BY DEF StoreInv, TypeOK, HoldsAfter, IsLog, ClientsHold
<1> QED BY <1>1, EventStoreInvariant, PTL

(* The events of the list are those of the end of the log.                  *)
LEMMA HeldEvents ==
  ASSUME NEW b, NEW l, NEW o, IsLog(l), HoldsAfter(b, l, o)
  PROVE  Range(b.events) = {l[p] : p \in (o + 1)..Len(l)}
<1>1. /\ Len(l) \in Nat /\ o \in Nat /\ o <= Len(l) /\ Len(b.events) = Len(l) - o
      /\ DOMAIN b.events = 1..Len(b.events)
      /\ \A k \in 1..Len(b.events) : b.events[k] = l[o + k]
  BY DEF HoldsAfter, IsLog
<1>2. ASSUME NEW p \in (o + 1)..Len(l) PROVE l[p] \in Range(b.events)
  <2>1. p - o \in 1..Len(b.events) /\ o + (p - o) = p
    BY <1>1
  <2>2. b.events[p - o] = l[p]
    BY <1>1, <2>1
  <2> QED BY <1>1, <2>1, <2>2 DEF Range
<1>3. ASSUME NEW k \in 1..Len(b.events)
      PROVE  o + k \in (o + 1)..Len(l) /\ b.events[k] = l[o + k]
  BY <1>1
<1>4. Range(b.events) = {b.events[k] : k \in 1..Len(b.events)}
  BY <1>1 DEF Range
<1> QED BY <1>2, <1>3, <1>4, ZenonT(40)

(* What the invariant says of the structures of event_store.go:11-16.       *)
LEMMA Agreement == StoreInv => StructuresAgree
<1> SUFFICES ASSUME StoreInv PROVE StructuresAgree
  OBVIOUS
<1> DEFINE o == Forgotten
           E == Range(buf.events)
<1>1. IsLog(log) /\ HoldsAfter(buf, log, o) /\ Len(buf.events) <= MaxSize
  BY DEF StoreInv
<1>2. /\ Len(log) \in Nat /\ o \in Nat /\ o <= Len(log) /\ Len(buf.events) = Len(log) - o
      /\ Len(buf.events) \in Nat
  BY <1>1, Holds
<1> HIDE DEF o
<1>3. E = {log[p] : p \in (o + 1)..Len(log)}
  BY <1>1, HeldEvents
<1> HIDE DEF E
<1>4. \A p \in (o + 1)..Len(log) : log[p].id = p
  BY <1>1, <1>2 DEF IsLog
<1>5. buf.events = SubSeq(log, Len(log) - Len(buf.events) + 1, Len(log))
  <2> DEFINE s == SubSeq(log, o + 1, Len(log))
  <2>1. \A p \in (o + 1)..Len(log) : log[p] \in Event
    BY <1>1, <1>2, LogEntry
  <2>2. o + 1 \in Int /\ Len(log) \in Int
    BY <1>2
  <2>3. /\ s \in Seq(Event) /\ Len(s) = IF o + 1 <= Len(log) THEN Len(log) - (o + 1) + 1 ELSE 0
        /\ \A i \in 1..(Len(log) - (o + 1) + 1) : s[i] = log[(o + 1) + i - 1]
    BY <2>1, <2>2, SubSeqProperties
  <2> HIDE DEF s
  <2>4. Len(s) = Len(buf.events)
    BY <1>2, <2>3
  <2>5. ASSUME NEW k \in 1..Len(buf.events) PROVE s[k] = buf.events[k]
    <3>1. k \in 1..(Len(log) - (o + 1) + 1) /\ (o + 1) + k - 1 = o + k
      BY <1>2
    <3> QED BY <1>1, <2>3, <3>1 DEF HoldsAfter
  <2>6. s = buf.events
    <3>1. buf.events \in Seq(Event)
      BY <1>1 DEF HoldsAfter
    <3> QED BY <2>3, <2>4, <2>5, <3>1
  <2>7. Len(log) - Len(buf.events) + 1 = o + 1
    BY <1>2
  <2> QED BY <2>6, <2>7 DEF s
<1>6. DOMAIN buf.eventIndex = {e.id : e \in E} /\ \A e \in E : buf.eventIndex[e.id] = e
  <2>1. /\ DOMAIN buf.eventIndex = (o + 1)..Len(log)
        /\ \A p \in (o + 1)..Len(log) : buf.eventIndex[p] = log[p]
    BY <1>1 DEF HoldsAfter
  <2>2. \A i : i \in {e.id : e \in E} <=> i \in (o + 1)..Len(log)
    BY <1>3, <1>4
  <2> QED BY <1>3, <1>4, <2>1, <2>2
<1>7. DOMAIN buf.userEvents = {e.user : e \in E}
  <2>1. DOMAIN buf.userEvents = {log[p].user : p \in (o + 1)..Len(log)}
    BY <1>1 DEF HoldsAfter
  <2> QED BY <1>3, <2>1
<1>8. ASSUME NEW u \in DOMAIN buf.userEvents
      PROVE  /\ Range(buf.userEvents[u]) = {e \in E : e.user = u}
             /\ InOrder(buf.userEvents[u])
  <2> DEFINE s == buf.userEvents[u]
  <2>1. ListsEvents(s, log, o, u)
    BY <1>1 DEF HoldsAfter
  <2> HIDE DEF s
  <2>2. /\ s \in Seq(Event) /\ DOMAIN s = 1..Len(s) /\ InOrder(s)
        /\ \A k \in 1..Len(s) : /\ s[k].user = u /\ s[k].id \in (o + 1)..Len(log)
                                /\ s[k] = log[s[k].id]
        /\ \A p \in (o + 1)..Len(log) : log[p].user = u => \E k \in 1..Len(s) : s[k] = log[p]
    BY <2>1 DEF ListsEvents
  <2>3. Range(s) = {s[k] : k \in 1..Len(s)}
    BY <2>2 DEF Range
  <2>4. \A e : e \in Range(s) <=> e \in E /\ e.user = u
    BY <1>3, <2>2, <2>3
  <2> QED BY <2>2, <2>4 DEF s
<1> QED BY <1>1, <1>5, <1>6, <1>7, <1>8 DEF StructuresAgree, E

(* List, index and per-user lists agree after any mix of Store, Cleanup and *)
(* Clear, and the list never exceeds maxSize.                               *)
THEOREM EventStoreAgrees == Spec => []StructuresAgree
BY Agreement, EventStoreInvariant, PTL
-------------------------------------------------------------------------------
(* The IDs of an answer are as many as its events.                          *)
LEMMA IdsOf ==
  ASSUME NEW l, IsLog(l), NEW from \in Nat, NEW u, NEW r, PicksFrom(r, l, from, u),
         NEW S, S = {e.id : e \in Range(r)}
  PROVE  /\ S = {r[k].id : k \in 1..Len(r)}
         /\ Cardinality(S) = Len(r)
         /\ Len(r) \in Nat
<1>1. /\ Len(r) \in Nat /\ DOMAIN r = 1..Len(r) /\ InOrder(r) /\ Len(l) \in Nat
      /\ \A k \in 1..Len(r) : r[k].id \in 1..Len(l)
  BY DEF PicksFrom, IsLog
<1>2. S = {r[k].id : k \in 1..Len(r)}
  <2>1. Range(r) = {r[k] : k \in 1..Len(r)}
    BY <1>1 DEF Range
  <2> QED BY <2>1
<1> DEFINE f == [k \in 1..Len(r) |-> r[k].id]
<1>3. f \in Bijection(1..Len(r), S)
  <2>1. ASSUME NEW j \in 1..Len(r), NEW k \in 1..Len(r), j # k PROVE r[j].id # r[k].id
    <3>1. j < k \/ k < j
      BY <1>1, <2>1
    <3> QED BY <1>1, <3>1 DEF InOrder
  <2>2. f \in Surjection(1..Len(r), S)
    BY <1>2 DEF Surjection
  <2>3. f \in Injection(1..Len(r), S)
    BY <1>2, <2>1 DEF Injection, IsInjective
  <2> QED BY <2>2, <2>3 DEF Bijection
<1>4. IsFiniteSet(1..Len(r)) /\ Cardinality(1..Len(r)) = Len(r)
  <2> DEFINE n == Len(r)
  <2>1. 1 \in Int /\ n \in Int /\ n \in Nat
    BY <1>1
  <2> HIDE DEF n
  <2>2. IsFiniteSet(1..n) /\ Cardinality(1..n) = IF 1 > n THEN 0 ELSE n - 1 + 1
    BY <2>1, FS_Interval
  <2>3. (IF 1 > n THEN 0 ELSE n - 1 + 1) = n
    BY <2>1
  <2> QED BY <2>2, <2>3 DEF n
<1>5. ExistsBijection(1..Len(r), S)
  BY <1>3 DEF ExistsBijection
<1>6. Cardinality(S) = Cardinality(1..Len(r))
  BY <1>4, <1>5, FS_Bijection
<1> QED BY <1>1, <1>2, <1>4, <1>6

(* The log as EventLog sees it: the owner of each position.                 *)
Owners(l) == [p \in DOMAIN l |-> l[p].user]

(* The owners along a log.                                                  *)
LEMMA OwnersAlone ==
  ASSUME NEW l \in Seq(Event)
  PROVE  /\ Owners(l) \in Seq(User) /\ Len(Owners(l)) = Len(l) /\ DOMAIN Owners(l) = 1..Len(l)
         /\ \A p \in 1..Len(l) : Owners(l)[p] = l[p].user
<1>1. DOMAIN l = 1..Len(l) /\ Len(l) \in Nat /\ \A p \in 1..Len(l) : l[p] \in Event
  BY ElementOfSeq
<1>2. \A x \in Event : x.user \in User
  BY DEF Event
<1>3. Owners(l) \in [1..Len(l) -> User]
  BY <1>1, <1>2 DEF Owners
<1> QED BY <1>1, <1>3, SeqDef DEF Owners

(* A new event appends its owner.                                           *)
LEMMA OwnersOf ==
  ASSUME NEW l \in Seq(Event), NEW e \in Event
  PROVE  Owners(Append(l, e)) = Append(Owners(l), e.user)
<1> DEFINE m == Append(l, e)
           a == Owners(m)
           b == Append(Owners(l), e.user)
<1>1. /\ Len(l) \in Nat /\ m \in Seq(Event) /\ Len(m) = Len(l) + 1
      /\ \A p \in 1..Len(l) : m[p] = l[p]
      /\ m[Len(l) + 1] = e
  OBVIOUS
<1> HIDE DEF m
<1>2. e.user \in User
  BY DEF Event
<1>3. /\ a \in Seq(User) /\ Len(a) = Len(l) + 1
      /\ \A p \in 1..Len(a) : a[p] = m[p].user
  BY <1>1, OwnersAlone
<1>4. /\ Owners(l) \in Seq(User) /\ Len(Owners(l)) = Len(l)
      /\ \A p \in 1..Len(l) : Owners(l)[p] = l[p].user
  BY OwnersAlone
<1> HIDE DEF a
<1>5. /\ b \in Seq(User) /\ Len(b) = Len(l) + 1
      /\ \A p \in 1..Len(l) : b[p] = l[p].user
      /\ b[Len(l) + 1] = e.user
  BY <1>1, <1>2, <1>4
<1> HIDE DEF b
<1>6. ASSUME NEW p \in 1..Len(a) PROVE a[p] = b[p]
  <2>1. p \in 1..Len(l) \/ p = Len(l) + 1
    BY <1>1, <1>3
  <2> QED BY <1>1, <1>3, <1>5, <2>1
<1>7. a = b
  BY <1>3, <1>5, <1>6
<1> QED BY <1>7 DEF a, b, m

(* A user's positions in the mapped log.                                    *)
LEMMA MappedMine ==
  ASSUME StoreInv, NEW u
  PROVE  Promise!Mine(u) = {p \in 1..Len(log) : log[p].user = u}
<1>1. /\ Len(Owners(log)) = Len(log) /\ \A p \in 1..Len(log) : Owners(log)[p] = log[p].user
  <2>1. log \in Seq(Event)
    BY DEF StoreInv, IsLog
  <2> QED BY <2>1, OwnersAlone
<1> QED BY <1>1 DEF Promise!Mine, Owners

(* The empty store is an empty log.                                         *)
LEMMA MappedInit == Init => Promise!Init
<1> SUFFICES ASSUME Init PROVE Promise!Init
  OBVIOUS
<1>1. StoreInv
  BY StoreInvInit
<1>2. log = <<>> /\ log \in Seq(Event) /\ Len(log) = 0
  BY DEF Init
<1>3. Owners(log) = <<>>
  <2>1. Owners(log) \in Seq(User) /\ Len(Owners(log)) = 0
    BY <1>2, OwnersAlone
  <2> QED BY <2>1
<1>4. Forgotten = 0
  <2>1. Len(buf.events) = 0
    BY DEF Init, EmptyBuffer
  <2> QED BY <1>2, <2>1 DEF Forgotten
<1>5. \A u \in User : received[u] = <<>> /\ LastEventID(u) = 0
  BY DEF Init, LastEventID, NoEvent
<1>6. \A u \in User : {e.id : e \in Range(received[u])} = {}
  <2>1. Range(<<>>) = {}
    BY DEF Range
  <2> QED BY <1>5, <2>1
<1> QED BY <1>3, <1>4, <1>5, <1>6 DEF Promise!Init, Owners, Forgotten

(* Store appends to the promised log and forgets what it evicts.            *)
LEMMA StoreMaps ==
  ASSUME StoreInv, NEW u \in User, Store(u)
  PROVE  Promise!Append1(u)
<1>1. PICK e \in Event : e.user = u /\ log' = Append(log, e)
  BY StoreStep
<1>2. /\ StoreInv' /\ Forgotten' \in Forgotten..Len(log) /\ UNCHANGED received
  BY StoreStep
<1>3. log \in Seq(Event) /\ Len(log) \in Nat /\ Len(log') = Len(log) + 1
  BY <1>1 DEF StoreInv, IsLog
<1>4. Owners(log') = Append(Owners(log), u) /\ Len(Owners(log)) = Len(log)
  BY <1>1, <1>3, OwnersOf, OwnersAlone
<1>5. Len(log) + 1 - Forgotten' <= MaxSize
  <2>1. /\ Len(buf.events)' <= MaxSize /\ Forgotten' = Len(log') - Len(buf.events)'
        /\ Len(buf.events)' \in Nat
    BY <1>2, Holds DEF StoreInv, Forgotten
  <2> QED BY <1>3, <2>1
<1>6. UNCHANGED <<[v \in User |-> LastEventID(v)],
                  [v \in User |-> {x.id : x \in Range(received[v])}]>>
  BY <1>2 DEF LastEventID
<1> QED BY <1>2, <1>4, <1>5, <1>6 DEF Promise!Append1, Owners, Forgotten

(* GetSince is a read of the promised log: the IDs of its answer are a run  *)
(* of the user's positions.                                                 *)
LEMMA PollMaps ==
  ASSUME StoreInv, NEW u \in User, Poll(u)
  PROVE  \E S \in SUBSET Promise!Mine(u) : Promise!Receive(u, S)
<1> DEFINE id == LastEventID(u)
           r  == GetSince(u, id, Limit)
           S  == {e.id : e \in Range(r)}
           o  == Forgotten
           w  == received[u] \o r
<1>1. /\ IsLog(log) /\ Len(log) \in Nat /\ o \in Nat /\ o <= Len(log) /\ Limit \in Nat
      /\ received \in [User -> Seq(Event)] /\ received[u] \in Seq(Event)
      /\ received' = [received EXCEPT ![u] = w]
      /\ UNCHANGED <<buf, now, log>>
  BY EventStoreAssumption DEF StoreInv, IsLog, HoldsAfter, ClientsHold, Poll
<1>2. /\ id \in 0..Len(log)
      /\ received[u] = <<>> <=> id = 0
  BY CursorOf DEF NoEvent
<1>3. Serves(r, log, o, id, u)
  BY PollAnswers
<1>4. Promise!Mine(u) = {p \in 1..Len(log) : log[p].user = u}
  BY MappedMine
<1> HIDE DEF r, o
<1>5. /\ r \in Seq(Event) /\ DOMAIN r = 1..Len(r) /\ InOrder(r) /\ Len(r) <= Limit
      /\ \A k \in 1..Len(r) : /\ r[k].user = u /\ r[k].id \in (id + 1)..Len(log)
                              /\ r[k] = log[r[k].id] /\ r[k].id > o
  BY <1>3 DEF Serves, PicksFrom
<1>6. S = {r[k].id : k \in 1..Len(r)} /\ Cardinality(S) = Len(r) /\ Len(r) \in Nat
  <2> HIDE DEF id
  <2>1. PicksFrom(r, log, id, u) /\ id \in Nat /\ IsLog(log)
    BY <1>1, <1>2, <1>3 DEF Serves
  <2>2. S = {e.id : e \in Range(r)}
    OBVIOUS
  <2> HIDE DEF S
  <2> QED BY <2>1, <2>2, IdsOf
<1> HIDE DEF S, id
<1>r. Len(r) \in Nat
  BY <1>6
<1>s. (S = {} <=> Len(r) = 0) /\ (r = <<>> <=> Len(r) = 0)
  <2>1. 1 \in 1..Len(r) \/ Len(r) = 0
    BY <1>r
  <2>2. Len(r) = 0 => 1..Len(r) = {}
    BY <1>r
  <2>3. r = <<>> <=> Len(r) = 0
    BY <1>5, <1>r
  <2> QED BY <1>6, <2>1, <2>2, <2>3
<1>7. \A p \in 1..Len(log) : log[p].id = p
  BY <1>1 DEF IsLog
<1>8. \A p \in S : /\ p \in 1..Len(log) /\ log[p].user = u /\ p > o /\ p > id
                   /\ \E k \in 1..Len(r) : r[k].id = p
  <2>1. ASSUME NEW k \in 1..Len(r)
        PROVE  /\ r[k].id \in 1..Len(log) /\ log[r[k].id].user = u
               /\ r[k].id > o /\ r[k].id > id
    <3>1. r[k].id \in (id + 1)..Len(log) /\ r[k].id > o /\ log[r[k].id].user = u
      BY <1>5
    <3> QED BY <1>1, <1>2, <3>1
  <2> QED BY <1>6, <2>1
<1>9. \A p \in 1..Len(log) : (\E k \in 1..Len(r) : r[k] = log[p]) => p \in S
  BY <1>6, <1>7
<1>10. S # {} => id = 0 \/ id > o
  <2>1. S # {} => r # <<>>
    BY <1>s
  <2> QED BY <1>3, <2>1 DEF Serves, NoEvent
<1>11. id # 0 => \A p \in S, q \in Promise!Mine(u) : id < q /\ q < p => q \in S
  <2> SUFFICES ASSUME id # 0, NEW p \in S, NEW q \in 1..Len(log), log[q].user = u,
                      id < q, q < p
               PROVE  q \in S
    BY <1>4
  <2>1. id > o
    BY <1>10
  <2>2. q \in (id + 1)..Len(log)
    BY <1>1, <1>2
  <2>3. \E k \in 1..Len(r) : q < r[k].id
    BY <1>8
  <2>4. \E k \in 1..Len(r) : r[k] = log[q]
    BY <1>3, <2>1, <2>2, <2>3 DEF Serves
  <2> QED BY <1>9, <2>4
<1>12. id = 0 => \A p \in S, q \in Promise!Mine(u) : p < q => q \in S
  <2> SUFFICES ASSUME id = 0, NEW p \in S, NEW q \in 1..Len(log), log[q].user = u, p < q
               PROVE  q \in S
    BY <1>4
  <2>1. \E k \in 1..Len(r) : r[k].id < q
    BY <1>8
  <2>2. \E k \in 1..Len(r) : r[k] = log[q]
    BY <1>3, <2>1 DEF Serves, NoEvent
  <2> QED BY <1>9, <2>2
<1>13. id > o /\ Cardinality(S) < Limit => \A q \in Promise!Mine(u) : q > id => q \in S
  <2> SUFFICES ASSUME id > o, Len(r) < Limit, NEW q \in 1..Len(log), log[q].user = u, q > id
               PROVE  q \in S
    BY <1>4, <1>6
  <2>1. q \in (id + 1)..Len(log)
    BY <1>1, <1>2
  <2>2. \E k \in 1..Len(r) : r[k] = log[q]
    BY <1>3, <2>1 DEF Serves
  <2> QED BY <1>9, <2>2
<1>14. /\ w \in Seq(Event) /\ Len(w) = Len(received[u]) + Len(r) /\ DOMAIN w = 1..Len(w)
       /\ Len(received[u]) \in Nat /\ DOMAIN received[u] = 1..Len(received[u])
       /\ \A k \in 1..Len(received[u]) : w[k] = received[u][k]
       /\ \A k \in 1..Len(r) : w[Len(received[u]) + k] = r[k]
  BY <1>1, <1>5
<1>14n. Len(w) = Len(received[u]) + Len(r) /\ Len(received[u]) \in Nat
  BY <1>14
<1>15. {e.id : e \in Range(w)} = {e.id : e \in Range(received[u])} \cup S
  <2>1. Range(w) = Range(received[u]) \cup Range(r)
    <3>1. ASSUME NEW k \in 1..Len(w) PROVE w[k] \in Range(received[u]) \cup Range(r)
      <4> DEFINE m == k - Len(received[u])
      <4>1. k \in 1..Len(received[u]) \/ (m \in 1..Len(r) /\ Len(received[u]) + m = k)
        BY <1>r, <1>14n
      <4> HIDE DEF m
      <4> QED BY <1>5, <1>14, <4>1 DEF Range
    <3>2. ASSUME NEW k \in 1..Len(received[u]) PROVE received[u][k] \in Range(w)
      <4>1. k \in 1..Len(w)
        BY <1>r, <1>14n
      <4> QED BY <1>14, <4>1 DEF Range
    <3>3. ASSUME NEW k \in 1..Len(r) PROVE r[k] \in Range(w)
      <4>1. Len(received[u]) + k \in 1..Len(w)
        BY <1>r, <1>14n
      <4> QED BY <1>14, <4>1 DEF Range
    <3>4. /\ Range(w) = {w[k] : k \in 1..Len(w)}
          /\ Range(received[u]) = {received[u][k] : k \in 1..Len(received[u])}
          /\ Range(r) = {r[k] : k \in 1..Len(r)}
      BY <1>5, <1>14 DEF Range
    <3> QED BY <3>1, <3>2, <3>3, <3>4
  <2> QED BY <2>1 DEF S
<1>16. /\ \A v \in User : v # u => received'[v] = received[v]
       /\ received'[u] = w
       /\ received' \in [User -> Seq(Event)]
  BY <1>1, <1>14
<1> HIDE DEF w
<1>17. [v \in User |-> {e.id : e \in Range(received'[v])}]
         = [[v \in User |-> {e.id : e \in Range(received[v])}] EXCEPT ![u] = @ \cup S]
  BY <1>15, <1>16
<1>18. \/ S = {} /\ UNCHANGED [v \in User |-> LastEventID(v)]
       \/ \E newest \in S :
            /\ \A q \in S : q <= newest
            /\ [v \in User |-> LastEventID(v)]'
                 = [[v \in User |-> LastEventID(v)] EXCEPT ![u] = newest]
  <2>1. \A v \in User : v # u => LastEventID(v)' = LastEventID(v)
    BY <1>16 DEF LastEventID
  <2>2. CASE S = {}
    <3>1. Len(r) = 0
      BY <1>s, <2>2
    <3>2. w = received[u]
      <4>1. Len(w) = Len(received[u]) /\ \A k \in 1..Len(w) : w[k] = received[u][k]
        BY <1>14, <3>1
      <4> QED BY <1>1, <1>14, <4>1
    <3>3. LastEventID(u)' = LastEventID(u)
      BY <1>16, <3>2 DEF LastEventID
    <3>4. [v \in User |-> LastEventID(v)]' = [v \in User |-> LastEventID(v)]
      BY <2>1, <3>3
    <3> QED BY <2>2, <3>4
  <2>3. CASE S # {}
    <3> DEFINE newest == r[Len(r)].id
    <3>1. Len(r) \in 1..Len(r)
      BY <1>r, <1>s, <2>3
    <3>2. newest \in S
      BY <1>6, <3>1
    <3>3. ASSUME NEW q \in S PROVE q <= newest
      <4>1. PICK k \in 1..Len(r) : r[k].id = q
        BY <1>8
      <4>2. k = Len(r) \/ k < Len(r)
        <5> DEFINE n == Len(r)
        <5>1. n \in Nat /\ k \in 1..n
          BY <1>6
        <5> HIDE DEF n
        <5>2. k = n \/ k < n
          BY <5>1
        <5> QED BY <5>2 DEF n
      <4>3. k < Len(r) => r[k].id < newest
        BY <1>5, <3>1 DEF InOrder
      <4>4. q \in Nat /\ newest \in Nat
        BY <1>1, <1>8, <3>2
      <4> QED BY <4>1, <4>2, <4>3, <4>4
    <3>4. LastEventID(u)' = newest
      <4>1. Len(w) \in 1..Len(w) /\ Len(w) = Len(received[u]) + Len(r)
        BY <1>r, <1>14n, <3>1
      <4>2. w[Len(w)] = r[Len(r)] /\ w # <<>>
        BY <1>14, <3>1, <4>1
      <4> QED BY <1>16, <4>2 DEF LastEventID
    <3> HIDE DEF newest
    <3>5. [v \in User |-> LastEventID(v)]'
            = [[v \in User |-> LastEventID(v)] EXCEPT ![u] = newest]
      BY <2>1, <3>4
    <3> QED BY <3>2, <3>3, <3>5
  <2> QED BY <2>2, <2>3
<1>19. Cardinality(S) <= Limit /\ S \in SUBSET Promise!Mine(u)
  BY <1>4, <1>5, <1>6, <1>8
<1>20. S \subseteq {p \in Promise!Mine(u) : p > o} /\ \A p \in S : p > id
  BY <1>4, <1>8
<1>21. [v \in User |-> LastEventID(v)][u] = id
  BY DEF id
<1>22. UNCHANGED <<[p \in DOMAIN log |-> log[p].user], o>>
  BY <1>1 DEF o, Forgotten
<1>23. PICK T : T = S
  OBVIOUS
<1>24. Promise!Receive(u, T)
  <2> DEFINE C == [v \in User |-> LastEventID(v)]
             F == Len(log) - Len(buf.events)
             G == [v \in User |-> {e.id : e \in Range(received[v])}]
  <2>1. C[u] = id /\ F = o
    BY <1>21 DEF o, Forgotten
  <2>0. Promise!Cardinality(T) = Cardinality(T)
    BY Zenon DEF Promise!Cardinality, Cardinality
  <2>2. T \subseteq {p \in Promise!Mine(u) : p > F} /\ Promise!Cardinality(T) <= Limit
    BY <1>19, <1>23, <1>20, <2>0, <2>1
  <2>3. T # {} => C[u] = 0 \/ C[u] > F
    BY <1>10, <1>23, <2>1
  <2>4. \A p \in T : p > C[u]
    BY <1>20, <1>23, <2>1
  <2>5. C[u] # 0 => \A p \in T, q \in Promise!Mine(u) : C[u] < q /\ q < p => q \in T
    BY <1>11, <1>23, <2>1
  <2>6. C[u] = 0 => \A p \in T, q \in Promise!Mine(u) : p < q => q \in T
    BY <1>12, <1>23, <2>1
  <2>7. C[u] > F /\ Promise!Cardinality(T) < Limit
           => \A q \in Promise!Mine(u) : q > C[u] => q \in T
    BY <1>13, <1>23, <2>0, <2>1
  <2>8. G' = [G EXCEPT ![u] = @ \cup T]
    BY <1>17, <1>23
  <2>9. \/ T = {} /\ UNCHANGED C
        \/ \E newest \in T : /\ \A q \in T : q <= newest
                             /\ C' = [C EXCEPT ![u] = newest]
    BY <1>18, <1>23
  <2>10. UNCHANGED <<[p \in DOMAIN log |-> log[p].user], F>>
    BY <1>22 DEF o, Forgotten
  <2> QED BY <2>2, <2>3, <2>4, <2>5, <2>6, <2>7, <2>8, <2>9, <2>10, Zenon
          DEF Promise!Receive
<1>25. T \in SUBSET Promise!Mine(u)
  BY <1>19, <1>23
<1> QED BY <1>24, <1>25

(* Every step of the store is a step of the promise or changes nothing of   *)
(* it.                                                                      *)
LEMMA MappedStep == StoreInv /\ [Next]_vars => [Promise!Next]_(Promise!vars)
<1> SUFFICES ASSUME StoreInv, [Next]_vars PROVE [Promise!Next]_(Promise!vars)
  OBVIOUS
<1>1. CASE \E u \in User : Store(u)
  BY <1>1, StoreMaps DEF Promise!Next
<1>2. CASE \E u \in User : Poll(u)
  BY <1>2, PollMaps DEF Promise!Next
<1>3. CASE (\E d \in 0..MaxTime : Cleanup(d)) \/ Clear
  <2>1. /\ Forgotten' \in Forgotten..Len(log) /\ UNCHANGED <<log, received>>
    BY <1>3, ForgettingStep
  <2>2. Len(Owners(log)) = Len(log)
    BY OwnersAlone DEF StoreInv, IsLog
  <2>3. Promise!Forget
    BY <2>1, <2>2 DEF Promise!Forget, Forgotten, Owners, LastEventID
  <2> QED BY <2>3 DEF Promise!Next
<1>4. CASE Tick \/ UNCHANGED vars
  <2>1. UNCHANGED <<buf, log, received>>
    BY <1>4 DEF Tick, vars
  <2> QED BY <2>1 DEF Promise!vars, LastEventID
<1> QED BY <1>1, <1>2, <1>3, <1>4 DEF Next

(* The replay buffer implements EventLog, for every buffer size, limit and  *)
(* number of users: eviction, Cleanup, Clear and full answers leave no hole *)
(* in what a polling client is given (event_store.go:53-95).                *)
THEOREM EventStoreImplementsEventLog == Spec => ImplementsEventLog
BY EventStoreInvariant, MappedInit, MappedStep, PTL DEF Spec, ImplementsEventLog, Promise!Spec

-------------------------------------------------------------------------------
(* The promise itself, over variables of its own.                           *)
VARIABLES owner, forgotten, cursor, got

Log == INSTANCE EventLog

(* A client's cursor is the newest event it has received.                   *)
CursorIsNewest ==
  \A u \in User :
    /\ cursor[u] = 0 => got[u] = {}
    /\ cursor[u] # 0 => cursor[u] \in got[u]
    /\ \A p \in got[u] : p <= cursor[u]

LogInv == Log!TypeOK /\ Log!OwnEventsOnly /\ CursorIsNewest /\ Log!NoGap

(* The empty log.                                                           *)
LEMMA LogInit == Log!Init => LogInv
<1> SUFFICES ASSUME Log!Init PROVE LogInv
  OBVIOUS
<1>1. owner \in Seq(User) /\ Len(owner) = 0
  BY DEF Log!Init
<1>2. Log!TypeOK
  BY <1>1 DEF Log!Init, Log!TypeOK
<1> QED BY <1>2 DEF Log!Init, LogInv, Log!OwnEventsOnly, CursorIsNewest, Log!NoGap

(* A new event is newer than everything a client has received.              *)
LEMMA LogAppend ==
  ASSUME LogInv, NEW u \in User, Log!Append1(u)
  PROVE  LogInv'
<1> USE DEF LogInv, Log!TypeOK
<1>1. /\ owner' \in Seq(User) /\ Len(owner') = Len(owner) + 1
      /\ \A p \in 1..Len(owner) : owner'[p] = owner[p]
      /\ Len(owner) \in Nat
  BY DEF Log!Append1
<1>2. Log!TypeOK'
  BY <1>1 DEF Log!Append1
<1>3. \A v \in User : \A p \in 1..Len(owner) : p \in Log!Mine(v)' <=> p \in Log!Mine(v)
  <2> SUFFICES ASSUME NEW v \in User, NEW p \in 1..Len(owner)
               PROVE  p \in Log!Mine(v)' <=> p \in Log!Mine(v)
    OBVIOUS
  <2>1. p \in 1..Len(owner') /\ owner'[p] = owner[p]
    BY <1>1
  <2> QED BY <2>1 DEF Log!Mine
<1>4. Log!OwnEventsOnly'
  BY <1>3 DEF Log!Append1, Log!OwnEventsOnly
<1>5. CursorIsNewest'
  BY DEF Log!Append1, CursorIsNewest
<1>6. Log!NoGap'
  <2> SUFFICES ASSUME NEW v \in User, NEW p \in got[v], NEW r \in got[v],
                      NEW q \in Log!Mine(v)', p < q, q < r
               PROVE  q \in got[v]
    BY DEF Log!Append1, Log!NoGap
  <2>1. q \in Nat /\ r \in 1..Len(owner) /\ q \in 1..Len(owner')
    BY <1>1 DEF Log!Mine
  <2>2. q \in 1..Len(owner)
    BY <2>1, <1>1
  <2> QED BY <2>2, <1>3 DEF Log!NoGap
<1> QED BY <1>2, <1>4, <1>5, <1>6

(* Forgetting takes nothing from a client.                                  *)
LEMMA LogForget == LogInv /\ Log!Forget => LogInv'
<1> SUFFICES ASSUME LogInv, Log!Forget PROVE LogInv'
  OBVIOUS
<1> USE DEF LogInv
<1>1. Log!TypeOK'
  BY DEF Log!TypeOK, Log!Forget
<1> QED BY <1>1 DEF Log!Forget, Log!OwnEventsOnly, CursorIsNewest, Log!NoGap, Log!Mine

(* What a read adds starts right after the cursor, which the client has.    *)
LEMMA LogReceive ==
  ASSUME LogInv, NEW u \in User, NEW S \in SUBSET Log!Mine(u), Log!Receive(u, S)
  PROVE  LogInv'
<1> USE DEF LogInv
<1>1. S \subseteq 1..Len(owner) /\ Len(owner) \in Nat
  BY DEF Log!TypeOK, Log!Mine
<1>2. /\ got' = [got EXCEPT ![u] = @ \cup S]
      /\ UNCHANGED <<owner, forgotten>>
      /\ \A p \in S : p > cursor[u]
  BY DEF Log!Receive
<1>3. PICK newest \in 0..Len(owner) :
        /\ cursor' = [cursor EXCEPT ![u] = newest]
        /\ S = {} => newest = cursor[u]
        /\ S # {} => newest \in S
        /\ \A q \in S : q <= newest
  <2>1. CASE S = {} /\ UNCHANGED cursor
    <3>1. cursor' = [cursor EXCEPT ![u] = cursor[u]]
      BY <2>1 DEF Log!TypeOK
    <3> QED BY <2>1, <3>1 DEF Log!TypeOK
  <2>2. CASE \E newest \in S : /\ \A q \in S : q <= newest
                               /\ cursor' = [cursor EXCEPT ![u] = newest]
    <3>1. PICK w \in S : /\ \A q \in S : q <= w
                         /\ cursor' = [cursor EXCEPT ![u] = w]
      BY <2>2
    <3>2. w \in 0..Len(owner)
      BY <1>1
    <3> QED BY <3>1, <3>2
  <2> QED BY <2>1, <2>2 DEF Log!Receive
<1>4. Log!TypeOK'
  BY <1>1, <1>2, <1>3 DEF Log!TypeOK
<1>5. \A v \in User : Log!Mine(v)' = Log!Mine(v)
  BY <1>2 DEF Log!Mine
<1>6. Log!OwnEventsOnly'
  BY <1>2, <1>5 DEF Log!OwnEventsOnly, Log!TypeOK
<1>7. CursorIsNewest'
  <2> SUFFICES ASSUME NEW v \in User
               PROVE  /\ cursor'[v] = 0 => got'[v] = {}
                      /\ cursor'[v] # 0 => cursor'[v] \in got'[v]
                      /\ \A p \in got'[v] : p <= cursor'[v]
    BY DEF CursorIsNewest
  <2>1. CASE v # u
    BY <2>1, <1>2, <1>3 DEF Log!TypeOK, CursorIsNewest
  <2>2. CASE v = u /\ S = {}
    BY <2>2, <1>2, <1>3 DEF Log!TypeOK, CursorIsNewest
  <2>3. CASE v = u /\ S # {}
    <3>1. cursor'[v] = newest /\ got'[v] = got[v] \cup S
      BY <2>3, <1>2, <1>3 DEF Log!TypeOK
    <3>2. newest \in S /\ newest \in Nat /\ cursor[u] \in Nat /\ newest > cursor[u]
      BY <2>3, <1>1, <1>2, <1>3 DEF Log!TypeOK
    <3>3. \A p \in got[u] : p \in Nat /\ p <= cursor[u]
      BY DEF Log!TypeOK, CursorIsNewest
    <3>4. cursor'[v] # 0 /\ cursor'[v] \in got'[v]
      BY <3>1, <3>2
    <3>5. ASSUME NEW p \in got'[v] PROVE p <= cursor'[v]
      <4>1. CASE p \in S
        BY <4>1, <3>1, <1>3
      <4>2. CASE p \in got[u]
        BY <4>2, <3>1, <3>2, <3>3
      <4> QED BY <2>3, <3>1, <4>1, <4>2
    <3> QED BY <3>4, <3>5
  <2> QED BY <2>1, <2>2, <2>3
<1>8. Log!NoGap'
  <2> SUFFICES ASSUME NEW v \in User, NEW p \in got'[v], NEW r \in got'[v],
                      NEW q \in Log!Mine(v), p < q, q < r
               PROVE  q \in got'[v]
    BY <1>5 DEF Log!NoGap
  <2>1. CASE v # u
    BY <2>1, <1>2 DEF Log!TypeOK, Log!NoGap
  <2>2. CASE v = u
    <3>1. /\ got'[u] = got[u] \cup S
          /\ got[u] \subseteq Nat /\ S \subseteq Nat /\ q \in Nat /\ cursor[u] \in Nat
          /\ p \in Nat /\ r \in Nat /\ p \in got[u] \cup S /\ r \in got[u] \cup S
      <4>1. got'[u] = got[u] \cup S
        BY <1>2 DEF Log!TypeOK
      <4>2. /\ got[u] \subseteq Nat /\ S \subseteq Nat /\ q \in Nat
            /\ cursor[u] \in Nat
        BY <1>1 DEF Log!TypeOK, Log!Mine
      <4> QED BY <2>2, <4>1, <4>2
    <3>2. CASE r \in got[u]
      <4>1. r <= cursor[u]
        BY <3>2 DEF CursorIsNewest
      <4>2. p \notin S
        BY <1>2, <3>1, <3>2, <4>1, <2>2
      <4> QED BY <2>2, <3>1, <3>2, <4>2 DEF Log!NoGap
    <3>3. CASE r \in S /\ cursor[u] = 0
      <4>1. p \in S
        BY <2>2, <3>1, <3>3 DEF CursorIsNewest
      <4> QED BY <2>2, <3>1, <3>3, <4>1 DEF Log!Receive
    <3>4. CASE r \in S /\ cursor[u] # 0 /\ q > cursor[u]
      <4>1. q \in S
        BY <2>2, <3>4 DEF Log!Receive
      <4> QED BY <2>2, <3>1, <4>1
    <3>5. CASE r \in S /\ cursor[u] # 0 /\ q = cursor[u]
      BY <2>2, <3>1, <3>5 DEF CursorIsNewest
    <3>6. CASE r \in S /\ cursor[u] # 0 /\ q < cursor[u]
      <4>1. p \in got[u]
        BY <2>2, <3>1, <3>6, <1>2
      <4>2. cursor[u] \in got[u]
        BY <3>6 DEF CursorIsNewest
      <4> QED BY <2>2, <3>1, <3>6, <4>1, <4>2 DEF Log!NoGap
    <3> QED BY <2>2, <3>1, <3>2, <3>3, <3>4, <3>5, <3>6
  <2> QED BY <2>1, <2>2
<1> QED BY <1>4, <1>6, <1>7, <1>8

(* The inductive invariant of the log.                                      *)
THEOREM EventLogInvariant == Log!Spec => []LogInv
<1>1. LogInv /\ [Log!Next]_(Log!vars) => LogInv'
  <2> SUFFICES ASSUME LogInv, [Log!Next]_(Log!vars) PROVE LogInv'
    OBVIOUS
  <2>1. CASE UNCHANGED Log!vars
    BY <2>1 DEF Log!vars, LogInv, Log!TypeOK, Log!OwnEventsOnly, CursorIsNewest, Log!NoGap, Log!Mine
  <2> QED BY <2>1, LogAppend, LogForget, LogReceive DEF Log!Next
<1> QED BY LogInit, <1>1, PTL DEF Log!Spec

(* A client that reads with its last event as cursor never misses an event  *)
(* of its user between two it is given: what GetSince                       *)
(* (event_store.go:53-95) owes its callers.                                 *)
THEOREM EventLogNoGap == Log!Spec => []Log!NoGap
BY EventLogInvariant, PTL DEF LogInv

(* Reads return the reader's events only (event_store.go:89).               *)
THEOREM EventLogOwnEventsOnly == Log!Spec => []Log!OwnEventsOnly
BY EventLogInvariant, PTL DEF LogInv

===============================================================================
